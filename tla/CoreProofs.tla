----------------------------- MODULE CoreProofs -----------------------------
(***************************************************************************)
(* One shard's engine proved for any events, patterns, rules, lateness and *)
(* restarts: replay gives what the first processing gave (ReplayExact), no *)
(* negative deadline is forgotten (ParkedIsQueued) or left overdue         *)
(* (NobodyOverdue), removed patterns do not match (OnlyRegisteredMatch),   *)
(* a late event reaches the sink once (SideOutputOnce), and aggregates and *)
(* rules are exact (AggregatesExact, RulesExact).                          *)
(*                                                                         *)
(* The heart is that the heap is redundant.  A process that ran on has     *)
(* stale entries in it that a restarted one has not, yet what a drain      *)
(* emits and removes is a function of the progresses alone as long as the  *)
(* heap has an entry for each parked progress (DrainedByProgresses).  So   *)
(* ProcessEvent is a function of rules, patterns, members and watermark    *)
(* (Outcome), all of which a snapshot restores, and the log of outcomes    *)
(* is what that function yields from position to position (Explained).     *)
(*                                                                         *)
(* A bucket that no pruning so far could have reached (Retained) holds     *)
(* exactly the events given for it, each once (BucketsExact): an event     *)
(* given again finds its id there, and pruning stays below.  On an event   *)
(* on time the watermark bounds how far any earlier event, and with it any *)
(* pruning, was ahead (WatermarkCovers), so every bucket of a window that  *)
(* fits the retention is retained (WindowRetained).  Its buckets part the  *)
(* events of the window, and counts, sums and extrema of the parts are     *)
(* those of the whole (ComputeExact).                                      *)
(*                                                                         *)
(* What is said of a log is proved position by position, what is said of a *)
(* sum element by element: a set that contains the first and with one the  *)
(* next contains them all (NumbersFromZero, SubsetsFromEmpty).             *)
(***************************************************************************)
EXTENDS Core, TLAPS, FiniteSetTheorems, WellFoundedInduction

-----------------------------------------------------------------------------
(* The state of a member, and the heap. *)

\* The heap entries of one member's parked progresses.
Queue(progs) ==
  {Entry(progs[id].negDeadline, id) : id \in {i \in DOMAIN progs : progs[i].negDeadline # NoTime}}

\* A progress of member m stored under id.
ProgressOf(m, id, p) ==
  /\ id[1] = p.pattern
  /\ id[2] = m
  /\ {"pattern", "step", "vars", "started", "seen", "negDeadline"} \subseteq DOMAIN p
  /\ p.step \in Nat
  /\ p.started \in Int
  /\ p.negDeadline = NoTime \/ p.negDeadline \in Int

ProgressesOf(m, progs) ==
  /\ progs = [id \in DOMAIN progs |-> progs[id]]
  /\ \A id \in DOMAIN progs : ProgressOf(m, id, progs[id])

MembersTyped(ms) ==
  /\ ms = [m \in Member |-> ms[m]]
  /\ \A m \in Member :
       /\ {"aggs", "progresses", "lastSeen"} \subseteq DOMAIN ms[m]
       /\ ProgressesOf(m, ms[m].progresses)

\* Member states and watermark between two events.
Settled(ms, wm) ==
  /\ wm \in Int
  /\ MembersTyped(ms)
  /\ \A m \in Member : \A id \in DOMAIN ms[m].progresses :
       ms[m].progresses[id].negDeadline # NoTime => ms[m].progresses[id].negDeadline >= wm

HeapTyped(heap) ==
  \A e \in heap : /\ e = Entry(e.deadline, e.id)
                  /\ e.deadline \in Int
                  /\ e.id[2] \in Member

-----------------------------------------------------------------------------
(* ProcessEvent as a function of what a snapshot holds. *)

AppliedTo(c, ms, ev) ==
  [ms EXCEPT
     ![ev.member].aggs[ev.behavior] =
        UpdateAggregations(@, ev.id, ev.at, ev.val, MaxWindowOf(c.rules)),
     ![ev.member].lastSeen = LaterOf(@, ev.at)]

RegisteredIn(c) == [p \in c.patterns |-> Patterns[p]]

RulesOn(c, ms, ev) ==
  {r \in c.rules :
     ComputeBucketAggregation(ms[ev.member].aggs[r.behavior], r.agg, r.window, ev.at) >= r.min}

\* The progresses after processCEP and before the drain.
AdvancedProgs(c, ms, wm, ev) ==
  [ProgsOf(ms) EXCEPT
     ![ev.member] = ProcessCEP(RegisteredIn(c), ms[ev.member].progresses, ev, wm).progresses]

LateOutcome(c, ms, wm, ev) ==
  [ev |-> ev, late |-> TRUE, wm |-> wm, rules |-> {}, matches |-> {},
   members |-> AppliedTo(c, ms, ev), conf |-> c]

OnTimeOutcome(c, ms, old, ev) ==
  LET wm == LaterOf(old, ev.at - Lateness)
      applied == AppliedTo(c, ms, ev)
      progs == AdvancedProgs(c, applied, wm, ev)
      heap == RebuildNegativeDeadlines(progs)
      drained == DrainProgresses(progs, heap, wm)
  IN [ev |-> ev, late |-> FALSE, wm |-> wm,
      rules |-> RulesOn(c, applied, ev),
      matches |-> ProcessCEP(RegisteredIn(c), applied[ev.member].progresses, ev, wm).matches
                    \cup DrainMatches(RegisteredIn(c), progs, heap, wm),
      members |-> [m \in Member |-> [applied[m] EXCEPT !.progresses = drained[m]]],
      conf |-> c]

Outcome(c, ms, wm, ev) ==
  IF ev.at < wm THEN LateOutcome(c, ms, wm, ev) ELSE OnTimeOutcome(c, ms, wm, ev)

-----------------------------------------------------------------------------
(* The inductive invariant. *)

MembersAt(h, i) == IF i = 0 THEN Fresh ELSE h[i].members
WatermarkAt(h, i) == IF i = 0 THEN 0 ELSE h[i].wm

Positions ==
  /\ base \in Nat /\ pos \in Nat
  /\ base <= pos /\ pos <= Len(hist)
  /\ replaying \in BOOLEAN
  /\ ~replaying => pos = Len(hist)
  /\ \E S : hist \in Seq(S)
  /\ conf \in Configs

\* The positions handed to the late sink lie behind the end of the log.
SinkBehind ==
  /\ sink \in Seq(Nat)
  /\ SideOutputOnce
  /\ \A i \in DOMAIN sink : sink[i] <= Len(hist)

\* The running state is the one recorded at its position.
AtPosition ==
  /\ members = MembersAt(hist, pos)
  /\ watermark = WatermarkAt(hist, pos)

HeapComplete ==
  /\ HeapTyped(negDeadlines)
  /\ ParkedIsQueued
  /\ \A e \in negDeadlines : e.deadline >= watermark

\* Every recorded outcome since the last change of rules and patterns is the
\* one Outcome gives from the state recorded before it.
Explained ==
  \A i \in (base + 1)..Len(hist) :
    hist[i] = Outcome(conf, MembersAt(hist, i - 1), WatermarkAt(hist, i - 1), hist[i].ev)

RecordsSettled ==
  \A i \in 1..Len(hist) :
    /\ Settled(hist[i].members, hist[i].wm)
    /\ \A mt \in hist[i].matches : mt.pattern \in hist[i].conf.patterns

IInv ==
  /\ Positions
  /\ SinkBehind
  /\ AtPosition
  /\ HeapComplete
  /\ Explained
  /\ RecordsSettled

-----------------------------------------------------------------------------
(* The heap. *)

\* rebuildNegativeDeadlines, member by member.
LEMMA RebuiltByMember ==
  ASSUME NEW progs
  PROVE  \A e : e \in RebuildNegativeDeadlines(progs)
                  <=> \E m \in DOMAIN progs : e \in Queue(progs[m])
BY DEF RebuildNegativeDeadlines, Queue

\* The fields of an entry, and of the entries of a member's progresses.
LEMMA QueueEntries ==
  ASSUME NEW m, NEW progs, ProgressesOf(m, progs), NEW e \in Queue(progs)
  PROVE  /\ e.id \in DOMAIN progs
         /\ e.deadline = progs[e.id].negDeadline
         /\ e.deadline \in Int
         /\ e.id[2] = m
         /\ e.member = m
         /\ e = Entry(e.deadline, e.id)
<1>1. PICK id \in DOMAIN progs : /\ progs[id].negDeadline # NoTime
                                 /\ e = Entry(progs[id].negDeadline, id)
  BY DEF Queue
<1>2. e.id = id /\ e.deadline = progs[id].negDeadline /\ e.member = id[2]
  BY <1>1 DEF Entry
<1>3. id[2] = m /\ progs[id].negDeadline \in Int
  BY <1>1 DEF ProgressesOf, ProgressOf
<1> QED
  BY <1>1, <1>2, <1>3

\* What a drain acts on are the due deadlines of the progresses, whatever stale
\* entries the heap has besides.
LEMMA DrainedByProgresses ==
  ASSUME NEW progs, DOMAIN progs = Member,
         \A m \in Member : ProgressesOf(m, progs[m]),
         NEW heap, HeapTyped(heap), RebuildNegativeDeadlines(progs) \subseteq heap,
         NEW wm \in Int
  PROVE  Drained(progs, heap, wm) = Due(RebuildNegativeDeadlines(progs), wm)
<1> DEFINE R == RebuildNegativeDeadlines(progs)
<1>1. ASSUME NEW e \in Drained(progs, heap, wm) PROVE e \in Due(R, wm)
  <2>1. /\ e \in heap /\ wm > e.deadline
        /\ e.id \in DOMAIN progs[e.member]
        /\ progs[e.member][e.id].negDeadline = e.deadline
    BY <1>1 DEF Drained, Due
  <2>2. /\ e = Entry(e.deadline, e.id) /\ e.deadline \in Int /\ e.id[2] \in Member
    BY <2>1 DEF HeapTyped
  <2>3. e.member = e.id[2]
    BY <2>2 DEF Entry
  <2>4. e.deadline # NoTime
    BY <2>2, NoTimeAssumption
  <2>5. e \in Queue(progs[e.member])
    BY <2>1, <2>2, <2>4 DEF Queue
  <2>6. e \in R
    BY <2>2, <2>3, <2>5, RebuiltByMember
  <2> QED
    BY <2>1, <2>6 DEF Due
<1>2. ASSUME NEW e \in Due(R, wm) PROVE e \in Drained(progs, heap, wm)
  <2>1. e \in R /\ wm > e.deadline
    BY <1>2 DEF Due
  <2>2. PICK m \in Member : e \in Queue(progs[m])
    BY <2>1, RebuiltByMember
  <2>3. /\ e.id \in DOMAIN progs[m]
        /\ e.deadline = progs[m][e.id].negDeadline
        /\ e.member = m
    BY <2>2, QueueEntries
  <2>4. e \in Due(heap, wm)
    BY <2>1 DEF Due
  <2> QED
    BY <2>3, <2>4 DEF Drained
<1> QED
  BY <1>1, <1>2

\* After a drain nobody is parked before the watermark, and what is parked is
\* still in the heap.
LEMMA DrainSettles ==
  ASSUME NEW progs, DOMAIN progs = Member,
         \A m \in Member : ProgressesOf(m, progs[m]),
         NEW heap, HeapTyped(heap), RebuildNegativeDeadlines(progs) \subseteq heap,
         NEW wm \in Int
  PROVE  LET after == DrainProgresses(progs, heap, wm)
             rest == heap \ Due(heap, wm)
         IN /\ DOMAIN after = Member
            /\ \A m \in Member : ProgressesOf(m, after[m])
            /\ \A m \in Member : \A id \in DOMAIN after[m] :
                 after[m][id].negDeadline # NoTime => after[m][id].negDeadline >= wm
            /\ HeapTyped(rest)
            /\ RebuildNegativeDeadlines(after) \subseteq rest
            /\ \A e \in rest : e.deadline >= wm
<1> DEFINE after == DrainProgresses(progs, heap, wm)
           rest == heap \ Due(heap, wm)
           gone == {e.id : e \in Drained(progs, heap, wm)}
<1>1. /\ DOMAIN after = Member
      /\ \A m \in Member : after[m] = [id \in DOMAIN progs[m] \ gone |-> progs[m][id]]
  BY DEF DrainProgresses
<1>2. \A m \in Member : /\ DOMAIN after[m] = DOMAIN progs[m] \ gone
                        /\ after[m] = [id \in DOMAIN after[m] |-> after[m][id]]
                        /\ \A id \in DOMAIN after[m] : after[m][id] = progs[m][id]
  <2> HIDE DEF after, gone
  <2> QED
    BY <1>1
<1>3. \A m \in Member : ProgressesOf(m, after[m])
  <2> HIDE DEF after, gone
  <2> QED
    BY <1>2 DEF ProgressesOf
<1>4. HeapTyped(rest)
  BY DEF HeapTyped
<1>5. \A e \in rest : e.deadline >= wm
  BY DEF Due, HeapTyped
<1>6. ASSUME NEW m \in Member, NEW id \in DOMAIN after[m], after[m][id].negDeadline # NoTime
      PROVE  Entry(after[m][id].negDeadline, id) \in rest
  <2> DEFINE e == Entry(progs[m][id].negDeadline, id)
  <2>1. id \in DOMAIN progs[m] /\ id \notin gone /\ after[m][id] = progs[m][id]
    <3> HIDE DEF after, gone
    <3> QED
      BY <1>2, <1>6
  <2>2. e \in Queue(progs[m])
    BY <1>6, <2>1 DEF Queue
  <2>3. e \in RebuildNegativeDeadlines(progs)
    BY <2>2, RebuiltByMember
  <2>4. e.id = id
    BY DEF Entry
  <2>5. e \notin Due(RebuildNegativeDeadlines(progs), wm)
    BY <2>1, <2>4, DrainedByProgresses
  <2>6. e \notin Due(heap, wm)
    BY <2>3, <2>5 DEF Due
  <2> QED
    BY <2>1, <2>3, <2>6
<1>7. RebuildNegativeDeadlines(after) \subseteq rest
  <2> HIDE DEF after, rest
  <2>1. ASSUME NEW m \in Member, NEW e \in Queue(after[m]) PROVE e \in rest
    BY <1>6, <2>1 DEF Queue
  <2> QED
    BY <1>1, <2>1, RebuiltByMember
<1>8. \A m \in Member : \A id \in DOMAIN after[m] :
        after[m][id].negDeadline # NoTime => after[m][id].negDeadline >= wm
  <2> SUFFICES ASSUME NEW m \in Member, NEW id \in DOMAIN after[m],
                      after[m][id].negDeadline # NoTime
               PROVE  after[m][id].negDeadline >= wm
    OBVIOUS
  <2>1. Entry(after[m][id].negDeadline, id).deadline >= wm
    BY <1>5, <1>6
  <2> QED
    BY <2>1 DEF Entry
<1> QED
  BY <1>1, <1>3, <1>4, <1>5, <1>7, <1>8

-----------------------------------------------------------------------------
(* Sequence detection. *)

PatternState == [behavior : Behavior, joins : BOOLEAN, binds : BOOLEAN,
                 wait : Nat \cup {NoWait}, negative : BOOLEAN]

\* The states of a registered pattern.
LEMMA StateTyped ==
  ASSUME NEW pid \in DOMAIN Patterns, NEW k \in 1..Len(Patterns[pid])
  PROVE  /\ Len(Patterns[pid]) \in Nat
         /\ Patterns[pid][k].wait \in Nat \cup {NoWait}
         /\ Patterns[pid][k].negative \in BOOLEAN
<1>1. Patterns[pid] \in Seq(PatternState)
  BY PatternsAssumption, Zenon DEF PatternState
<1>2. Len(Patterns[pid]) \in Nat /\ Patterns[pid][k] \in PatternState
  BY <1>1
<1>3. PICK s \in PatternState : s = Patterns[pid][k]
  BY <1>2
<1>4. s.wait \in Nat \cup {NoWait} /\ s.negative \in BOOLEAN
  BY DEF PatternState
<1> QED
  BY <1>2, <1>3, <1>4

\* AddPattern gives every negative state a window, so parking yields a time.
LEMMA ParkDeadlineType ==
  ASSUME NEW pid \in DOMAIN Patterns, NEW k \in 1..(Len(Patterns[pid]) - 1),
         NEW started \in Int
  PROVE  ParkDeadline(Patterns[pid], k, started) = NoTime
           \/ ParkDeadline(Patterns[pid], k, started) \in Int
<1> DEFINE states == Patterns[pid]
<1>1. Len(states) \in Nat /\ k + 1 \in 1..Len(states)
  BY PatternsAssumption
<1>2. states[k + 1].wait \in Nat \cup {NoWait} /\ states[k + 1].negative \in BOOLEAN
  BY <1>1, StateTyped
<1>3. states[k + 1].negative => states[k + 1].wait # NoWait
  BY <1>1, PatternsRegistered DEF AddPattern
<1>4. CASE states[k + 1].negative
  BY <1>2, <1>3, <1>4 DEF ParkDeadline
<1>5. CASE ~states[k + 1].negative
  BY <1>5 DEF ParkDeadline
<1> QED
  BY <1>4, <1>5

\* The answer of advanceProgress: a progress it keeps is one of the member, its
\* deadline is the old one or is pushed, and only a registered pattern matches.
Answer(m, id, p, patterns, a) ==
  /\ a.keep => ProgressOf(m, id, a.p)
  /\ a.keep /\ a.p.negDeadline # NoTime /\ a.p.negDeadline # p.negDeadline =>
       Entry(a.p.negDeadline, id) \in a.pushes
  /\ \A e \in a.pushes : \E d \in Int : e = Entry(d, id)
  /\ \A mt \in a.matches : mt.pattern \in DOMAIN patterns

\* advanceProgress when the event satisfies the positive state: the progress
\* completes, or moves on and is parked if the next state is negative.
LEMMA StepForwardAnswer ==
  ASSUME NEW c \in Configs, NEW ev, NEW m, NEW id, NEW p, NEW st,
         ProgressOf(m, id, p),
         p.pattern \in c.patterns,
         p.step < Len(Patterns[p.pattern])
  PROVE  Answer(m, id, p, RegisteredIn(c), StepForward(Patterns[p.pattern], ev, id, p, st))
<1> DEFINE states == Patterns[p.pattern]
           vs == Bind(ev, st, p.vars)
           step == p.step + 1
           deadline == ParkDeadline(states, step, p.started)
           a == StepForward(states, ev, id, p, st)
<1>1. p.pattern \in DOMAIN Patterns /\ DOMAIN RegisteredIn(c) = c.patterns
  BY ConfigsAssumption DEF RegisteredIn
<1>2. Len(states) \in Nat /\ p.step \in Nat /\ p.started \in Int
  BY <1>1, PatternsAssumption DEF ProgressOf
<1>3. CASE step = Len(states)
  <2>1. a = [Drop EXCEPT !.matches = {MatchResult(id, vs, ev.at)}]
    BY <1>3 DEF StepForward
  <2>2. /\ ~a.keep
        /\ a.pushes = {}
        /\ a.matches = {MatchResult(id, vs, ev.at)}
    BY <2>1 DEF Drop
  <2>3. MatchResult(id, vs, ev.at).pattern = id[1]
    BY DEF MatchResult
  <2>4. id[1] \in DOMAIN RegisteredIn(c)
    BY <1>1 DEF ProgressOf
  <2>5. Answer(m, id, p, RegisteredIn(c), a)
    <3> HIDE DEF a
    <3> QED
      BY <2>2, <2>3, <2>4 DEF Answer
  <2> QED
    BY <2>5
<1>4. CASE step # Len(states)
  <2> DEFINE q == [p EXCEPT !.step = step, !.vars = vs, !.seen = @ \cup {ev.id},
                            !.negDeadline = IF deadline = NoTime THEN @ ELSE deadline]
  <2>1. a = [keep |-> TRUE, matches |-> {}, pushes |-> Pushed(deadline, id), p |-> q]
    BY <1>4 DEF StepForward
  <2>2. /\ a.keep
        /\ a.matches = {}
        /\ a.pushes = Pushed(deadline, id)
        /\ a.p = q
    <3> HIDE DEF q, deadline, a
    <3> QED
      BY <2>1
  <2>3. deadline = NoTime \/ deadline \in Int
    <3>1. step \in 1..(Len(states) - 1)
      BY <1>2, <1>4
    <3> QED
      BY <1>1, <1>2, <3>1, ParkDeadlineType
  <2>4. {"pattern", "step", "vars", "started", "seen", "negDeadline"} \subseteq DOMAIN p
    BY DEF ProgressOf
  <2>5. /\ q.pattern = p.pattern /\ q.step = step /\ q.started = p.started
        /\ q.negDeadline = IF deadline = NoTime THEN p.negDeadline ELSE deadline
        /\ {"pattern", "step", "vars", "started", "seen", "negDeadline"} \subseteq DOMAIN q
    <3> HIDE DEF deadline, vs, step
    <3> QED
      BY <2>4
  <2>6. ProgressOf(m, id, q)
    <3>1. q.step \in Nat
      BY <1>2, <2>5
    <3>2. q.negDeadline = NoTime \/ q.negDeadline \in Int
      <4> HIDE DEF q, deadline
      <4> QED
        BY <2>3, <2>5 DEF ProgressOf
    <3> HIDE DEF q
    <3> QED
      BY <1>2, <2>5, <3>1, <3>2 DEF ProgressOf
  <2>7. \A e \in a.pushes : \E d \in Int : e = Entry(d, id)
    <3> HIDE DEF a, deadline
    <3> QED
      BY <2>2, <2>3 DEF Pushed
  <2>8. q.negDeadline # NoTime /\ q.negDeadline # p.negDeadline =>
          Entry(q.negDeadline, id) \in a.pushes
    <3> HIDE DEF a, q, deadline
    <3> QED
      BY <2>2, <2>5 DEF Pushed
  <2>9. Answer(m, id, p, RegisteredIn(c), a)
    <3> HIDE DEF a, q
    <3> QED
      BY <2>2, <2>6, <2>7, <2>8 DEF Answer
  <2> QED
    BY <2>9
<1> QED
  BY <1>3, <1>4

\* advanceProgress, in each of its cases.
LEMMA AdvanceProgressAnswer ==
  ASSUME NEW c \in Configs, NEW ev, NEW m, NEW id, NEW p, ProgressOf(m, id, p)
  PROVE  Answer(m, id, p, RegisteredIn(c), AdvanceProgress(RegisteredIn(c), ev, id, p))
<1> DEFINE patterns == RegisteredIn(c)
           a == AdvanceProgress(patterns, ev, id, p)
<1>1. Answer(m, id, p, patterns, Drop)
  BY DEF Answer, Drop
<1>2. Answer(m, id, p, patterns, Keep(p))
  BY DEF Answer, Keep
<1>3. CASE p.pattern \notin DOMAIN patterns \/ p.step >= Len(patterns[p.pattern])
  BY <1>1, <1>3 DEF AdvanceProgress
<1>4. CASE ~(p.pattern \notin DOMAIN patterns \/ p.step >= Len(patterns[p.pattern]))
  <2> DEFINE states == patterns[p.pattern]
             st == states[p.step + 1]
  <2>1. p.pattern \in c.patterns /\ states = Patterns[p.pattern]
    BY <1>4 DEF RegisteredIn
  <2>2. p.step < Len(Patterns[p.pattern])
    <3>1. Len(Patterns[p.pattern]) \in Nat /\ p.step \in Nat
      BY <2>1, PatternsAssumption, ConfigsAssumption DEF ProgressOf
    <3> QED
      BY <1>4, <2>1, <3>1
  <2>3. Answer(m, id, p, patterns, StepForward(states, ev, id, p, st))
    BY <2>1, <2>2, StepForwardAnswer
  <2>4. st.negative \in BOOLEAN
    <3>1. p.pattern \in DOMAIN Patterns /\ p.step + 1 \in 1..Len(Patterns[p.pattern])
      BY <2>1, <2>2, PatternsAssumption, ConfigsAssumption DEF ProgressOf
    <3> QED
      BY <2>1, <3>1, StateTyped
  <2>5. a \in {Drop, Keep(p), StepForward(states, ev, id, p, st)}
    BY <1>4, <2>4 DEF AdvanceProgress
  <2> QED
    BY <1>1, <1>2, <2>3, <2>5
<1> QED
  BY <1>3, <1>4

\* A progress opened by ev for a pattern of more than one state is one of the
\* event's member.
LEMMA NewProgressOf ==
  ASSUME NEW c \in Configs, NEW ev \in Events, NEW pid \in c.patterns,
         Len(Patterns[pid]) # 1
  PROVE  ProgressOf(ev.member, ProgressID(pid, ev), NewProgress(RegisteredIn(c), pid, ev))
<1> DEFINE q == NewProgress(RegisteredIn(c), pid, ev)
<1>1. pid \in DOMAIN Patterns /\ RegisteredIn(c)[pid] = Patterns[pid] /\ ev.at \in Int
  BY ConfigsAssumption, EventsAssumption DEF RegisteredIn
<1>2. Len(Patterns[pid]) \in Nat /\ Len(Patterns[pid]) > 0 /\ Len(Patterns[pid]) # 1
  BY <1>1, PatternsAssumption, PatternsRegistered DEF AddPattern
<1>3. 1 \in 1..(Len(Patterns[pid]) - 1)
  <2>1. \A n \in Nat : n > 0 /\ n # 1 => 1 \in 1..(n - 1)
    OBVIOUS
  <2> QED
    BY <1>2, <2>1
<1>4. ParkDeadline(Patterns[pid], 1, ev.at) = NoTime
        \/ ParkDeadline(Patterns[pid], 1, ev.at) \in Int
  BY <1>1, <1>3, ParkDeadlineType
<1>5. /\ q.pattern = pid /\ q.step = 1 /\ q.started = ev.at
      /\ q.negDeadline = ParkDeadline(Patterns[pid], 1, ev.at)
      /\ {"pattern", "step", "vars", "started", "seen", "negDeadline"} \subseteq DOMAIN q
  BY <1>1 DEF NewProgress
<1>6. ProgressID(pid, ev)[1] = pid /\ ProgressID(pid, ev)[2] = ev.member
  BY DEF ProgressID
<1> HIDE DEF q
<1>7. ProgressOf(ev.member, ProgressID(pid, ev), q)
  BY <1>1, <1>4, <1>5, <1>6 DEF ProgressOf
<1> QED
  BY <1>7 DEF q

\* processCEP: what it leaves are progresses of the event's member, the deadline
\* of each is an old one or is pushed on the heap, and only registered patterns
\* match.
LEMMA ProcessCEPAnswer ==
  ASSUME NEW c \in Configs, NEW ev \in Events, NEW progs, NEW wm,
         ProgressesOf(ev.member, progs)
  PROVE  LET cep == ProcessCEP(RegisteredIn(c), progs, ev, wm)
         IN /\ ProgressesOf(ev.member, cep.progresses)
            /\ Queue(cep.progresses) \subseteq Queue(progs) \cup cep.pushes
            /\ HeapTyped(cep.pushes)
            /\ \A mt \in cep.matches : mt.pattern \in c.patterns
<1> DEFINE patterns == RegisteredIn(c)
           m == ev.member
           swept == Sweep(patterns, progs, wm)
           adv == [id \in DOMAIN swept |-> AdvanceProgress(patterns, ev, id, swept[id])]
           kept == {id \in DOMAIN swept : adv[id].keep}
           starts == {pid \in DOMAIN patterns :
                        /\ CepMatchState(ev, patterns[pid][1], NoNum)
                        /\ ProgressID(pid, ev) \notin kept}
           instant == {pid \in starts : Len(patterns[pid]) = 1}
           opened == starts \ instant
           new == [id \in {ProgressID(pid, ev) : pid \in opened} |->
                     NewProgress(patterns, id[1], ev)]
           after == [id \in kept \cup DOMAIN new |->
                       IF id \in DOMAIN new THEN new[id] ELSE adv[id].p]
           pushes == (UNION {adv[id].pushes : id \in DOMAIN swept})
                       \cup (UNION {Pushed(new[id].negDeadline, id) : id \in DOMAIN new})
           matches == (UNION {adv[id].matches : id \in DOMAIN swept})
                       \cup {MatchResult(ProgressID(pid, ev),
                                         Bind(ev, patterns[pid][1], NoNum), ev.at)
                               : pid \in instant}
           cep == ProcessCEP(patterns, progs, ev, wm)
<1>1. cep = [progresses |-> after, pushes |-> pushes, matches |-> matches]
  BY DEF ProcessCEP
<1>2. cep.progresses = after /\ cep.pushes = pushes /\ cep.matches = matches
  <2> HIDE DEF cep, after, pushes, matches
  <2> QED
    BY <1>1
<1>3. /\ m \in Member
      /\ DOMAIN patterns = c.patterns
      /\ \A pid \in c.patterns : patterns[pid] = Patterns[pid]
  BY EventsAssumption DEF RegisteredIn
<1>4. ASSUME NEW id \in DOMAIN swept
      PROVE  /\ id \in DOMAIN progs
             /\ swept[id] = progs[id]
             /\ ProgressOf(m, id, progs[id])
             /\ id[2] = m
             /\ Answer(m, id, progs[id], patterns, adv[id])
  <2>1. id \in DOMAIN progs /\ swept[id] = progs[id]
    BY <1>4 DEF Sweep
  <2>2. ProgressOf(m, id, progs[id])
    BY <2>1 DEF ProgressesOf
  <2>3. adv[id] = AdvanceProgress(patterns, ev, id, progs[id])
    BY <2>1
  <2> QED
    BY <2>1, <2>2, <2>3, AdvanceProgressAnswer DEF ProgressOf
<1>5. ASSUME NEW id \in DOMAIN new
      PROVE  /\ ProgressOf(m, id, new[id])
             /\ id[2] = m
             /\ new[id].negDeadline = NoTime \/ new[id].negDeadline \in Int
  <2>1. PICK pid \in opened : id = ProgressID(pid, ev)
    BY <1>5
  <2>2. id[1] = pid
    BY <2>1 DEF ProgressID
  <2>3. new[id] = NewProgress(patterns, pid, ev)
    BY <1>5, <2>2
  <2>4. pid \in c.patterns /\ Len(Patterns[pid]) # 1
    BY <1>3
  <2>5. ProgressOf(m, id, new[id])
    BY <2>1, <2>3, <2>4, NewProgressOf
  <2> QED
    BY <2>5 DEF ProgressOf
<1> HIDE DEF swept, adv, starts, patterns
<1>a. /\ \A id \in DOMAIN swept : adv[id].pushes \subseteq pushes
      /\ \A id \in DOMAIN new : Pushed(new[id].negDeadline, id) \subseteq pushes
      /\ \A e \in pushes : \/ \E id \in DOMAIN swept : e \in adv[id].pushes
                          \/ \E id \in DOMAIN new : e \in Pushed(new[id].negDeadline, id)
  <2> HIDE DEF new
  <2> DEFINE A == UNION {adv[id].pushes : id \in DOMAIN swept}
             B == UNION {Pushed(new[id].negDeadline, id) : id \in DOMAIN new}
  <2>1. \A e : e \in A <=> \E id \in DOMAIN swept : e \in adv[id].pushes
    OBVIOUS
  <2>2. \A e : e \in B <=> \E id \in DOMAIN new : e \in Pushed(new[id].negDeadline, id)
    OBVIOUS
  <2>3. pushes = A \cup B
    OBVIOUS
  <2> HIDE DEF A, B, pushes
  <2> QED
    BY <2>1, <2>2, <2>3
<1>b. \A mt \in matches :
        \/ \E id \in DOMAIN swept : mt \in adv[id].matches
        \/ \E pid \in instant :
             mt = MatchResult(ProgressID(pid, ev), Bind(ev, patterns[pid][1], NoNum), ev.at)
  <2> HIDE DEF instant
  <2> DEFINE A == UNION {adv[id].matches : id \in DOMAIN swept}
             B == {MatchResult(ProgressID(pid, ev), Bind(ev, patterns[pid][1], NoNum), ev.at)
                     : pid \in instant}
  <2>1. \A mt : mt \in A <=> \E id \in DOMAIN swept : mt \in adv[id].matches
    OBVIOUS
  <2>2. matches = A \cup B
    OBVIOUS
  <2>3. \A mt \in B : \E pid \in instant :
          mt = MatchResult(ProgressID(pid, ev), Bind(ev, patterns[pid][1], NoNum), ev.at)
    OBVIOUS
  <2> HIDE DEF A, B, matches
  <2> QED
    BY <2>1, <2>2, <2>3
<1>6. ProgressesOf(m, after)
  <2>1. ASSUME NEW id \in DOMAIN after PROVE ProgressOf(m, id, after[id])
    <3>1. CASE id \in DOMAIN new
      BY <1>5, <3>1
    <3>2. CASE id \notin DOMAIN new
      <4>1. id \in DOMAIN swept /\ adv[id].keep /\ after[id] = adv[id].p
        BY <3>2
      <4>2. Answer(m, id, progs[id], patterns, adv[id])
        BY <1>4, <4>1
      <4> QED
        BY <4>1, <4>2 DEF Answer
    <3> QED
      BY <3>1, <3>2
  <2> QED
    BY <2>1 DEF ProgressesOf
<1>7. ASSUME NEW id \in DOMAIN after, after[id].negDeadline # NoTime
      PROVE  Entry(after[id].negDeadline, id) \in Queue(progs) \cup pushes
  <2>1. CASE id \in DOMAIN new
    <3>1. Entry(after[id].negDeadline, id) \in Pushed(new[id].negDeadline, id)
      BY <1>7, <2>1 DEF Pushed
    <3> QED
      BY <1>a, <2>1, <3>1
  <2>2. CASE id \notin DOMAIN new
    <3>1. id \in DOMAIN swept /\ adv[id].keep /\ after[id] = adv[id].p
      BY <2>2
    <3>2. Answer(m, id, progs[id], patterns, adv[id]) /\ id \in DOMAIN progs
      BY <1>4, <3>1
    <3>3. CASE after[id].negDeadline = progs[id].negDeadline
      BY <1>7, <3>2, <3>3 DEF Queue
    <3>4. CASE after[id].negDeadline # progs[id].negDeadline
      <4>1. Entry(adv[id].p.negDeadline, id) \in adv[id].pushes
        BY <1>7, <3>1, <3>2, <3>4 DEF Answer
      <4> QED
        BY <1>a, <3>1, <4>1
    <3> QED
      BY <3>3, <3>4
  <2> QED
    BY <2>1, <2>2
<1>8. HeapTyped(pushes)
  <2>1. ASSUME NEW e \in pushes PROVE \E id : \E d \in Int : id[2] = m /\ e = Entry(d, id)
    <3>1. CASE \E id \in DOMAIN swept : e \in adv[id].pushes
      <4>1. PICK id \in DOMAIN swept : e \in adv[id].pushes
        BY <3>1
      <4>2. Answer(m, id, progs[id], patterns, adv[id]) /\ id[2] = m
        BY <1>4
      <4> QED
        BY <4>1, <4>2 DEF Answer
    <3>2. CASE \E id \in DOMAIN new : e \in Pushed(new[id].negDeadline, id)
      <4>1. PICK id \in DOMAIN new : e \in Pushed(new[id].negDeadline, id)
        BY <3>2
      <4> HIDE DEF new
      <4>2. e = Entry(new[id].negDeadline, id) /\ new[id].negDeadline # NoTime
        BY <4>1 DEF Pushed
      <4> QED
        BY <1>5, <4>2
    <3> QED
      BY <1>a, <2>1, <3>1, <3>2
  <2> HIDE DEF pushes
  <2>2. ASSUME NEW e \in pushes
        PROVE  e = Entry(e.deadline, e.id) /\ e.deadline \in Int /\ e.id[2] \in Member
    <3>1. PICK id : \E d \in Int : id[2] = m /\ e = Entry(d, id)
      BY <2>1
    <3>2. PICK d \in Int : id[2] = m /\ e = Entry(d, id)
      BY <3>1
    <3>3. e.deadline = d /\ e.id = id
      BY <3>2 DEF Entry
    <3> QED
      BY <1>3, <3>2, <3>3
  <2> QED
    BY <2>2 DEF HeapTyped
<1>9. ASSUME NEW mt \in matches PROVE mt.pattern \in c.patterns
  <2>1. CASE \E id \in DOMAIN swept : mt \in adv[id].matches
    BY <1>3, <1>4, <2>1 DEF Answer
  <2>2. CASE \E pid \in instant :
               mt = MatchResult(ProgressID(pid, ev), Bind(ev, patterns[pid][1], NoNum), ev.at)
    <3>1. PICK pid \in instant :
               mt = MatchResult(ProgressID(pid, ev), Bind(ev, patterns[pid][1], NoNum), ev.at)
      BY <2>2
    <3>2. mt.pattern = pid
      BY <3>1 DEF MatchResult, ProgressID
    <3>3. pid \in c.patterns
      BY <1>3 DEF starts
    <3> QED
      BY <3>2, <3>3
  <2> QED
    BY <1>b, <1>9, <2>1, <2>2
<1>10. Queue(after) \subseteq Queue(progs) \cup pushes
  <2> HIDE DEF after, pushes
  <2> QED
    BY <1>7 DEF Queue
<1> QED
  <2> HIDE DEF after, pushes, matches, cep
  <2>1. /\ ProgressesOf(m, cep.progresses)
        /\ Queue(cep.progresses) \subseteq Queue(progs) \cup cep.pushes
        /\ HeapTyped(cep.pushes)
        /\ \A mt \in cep.matches : mt.pattern \in c.patterns
    BY <1>2, <1>6, <1>8, <1>9, <1>10
  <2> QED
    BY <2>1 DEF cep, patterns

-----------------------------------------------------------------------------
(* One event, from a settled state. *)

\* A member that was never seen has nothing parked.
LEMMA FreshSettled == Settled(Fresh, 0)
<1>1. \A m \in Member : /\ Fresh[m].progresses = [id \in {} |-> 0]
                         /\ {"aggs", "progresses", "lastSeen"} \subseteq DOMAIN Fresh[m]
  BY DEF Fresh, NewMemberState, NoProgresses
<1>2. Fresh = [m \in Member |-> Fresh[m]]
  BY DEF Fresh
<1>3. \A m \in Member : DOMAIN Fresh[m].progresses = {}
  BY <1>1
<1>4. \A m \in Member : ProgressesOf(m, Fresh[m].progresses)
  BY <1>1 DEF ProgressesOf
<1> QED
  BY <1>1, <1>2, <1>3, <1>4 DEF Settled, MembersTyped

\* updateAggregations and LastSeenAt do not touch a progress.
LEMMA AppliedKeepsProgresses ==
  ASSUME NEW c \in Configs, NEW ev \in Events, NEW ms, MembersTyped(ms)
  PROVE  /\ MembersTyped(AppliedTo(c, ms, ev))
         /\ \A m \in Member : AppliedTo(c, ms, ev)[m].progresses = ms[m].progresses
         /\ ProgsOf(AppliedTo(c, ms, ev)) = ProgsOf(ms)
<1> DEFINE ap == AppliedTo(c, ms, ev)
<1>1. /\ ms = [m \in Member |-> ms[m]]
      /\ \A m \in Member : {"aggs", "progresses", "lastSeen"} \subseteq DOMAIN ms[m]
      /\ \A m \in Member : ProgressesOf(m, ms[m].progresses)
      /\ ev.member \in Member
  BY EventsAssumption DEF MembersTyped
<1>2. PICK a, l : ap = [ms EXCEPT ![ev.member].aggs = a, ![ev.member].lastSeen = l]
  BY DEF AppliedTo
<1>3. ap = [m \in Member |-> ap[m]]
  BY <1>1, <1>2
<1>4. ASSUME NEW m \in Member
      PROVE  /\ ap[m].progresses = ms[m].progresses
             /\ {"aggs", "progresses", "lastSeen"} \subseteq DOMAIN ap[m]
  <2>1. CASE m = ev.member
    BY <1>1, <1>2, <2>1
  <2>2. CASE m # ev.member
    BY <1>1, <1>2, <2>2
  <2> QED
    BY <2>1, <2>2
<1> HIDE DEF ap
<1>5. MembersTyped(ap)
  BY <1>1, <1>3, <1>4 DEF MembersTyped
<1>6. ProgsOf(ap) = ProgsOf(ms)
  BY <1>4 DEF ProgsOf
<1> QED
  BY <1>4, <1>5, <1>6 DEF ap

\* ProcessEvent on a late event leaves a settled state.
LEMMA LateSettled ==
  ASSUME NEW c \in Configs, NEW ev \in Events, NEW ms, NEW wm, Settled(ms, wm)
  PROVE  Settled(AppliedTo(c, ms, ev), wm)
<1> DEFINE ap == AppliedTo(c, ms, ev)
<1>1. /\ MembersTyped(ap)
      /\ \A m \in Member : ap[m].progresses = ms[m].progresses
  BY AppliedKeepsProgresses DEF Settled
<1> HIDE DEF ap
<1>2. Settled(ap, wm)
  BY <1>1 DEF Settled
<1> QED
  BY <1>2 DEF ap

\* processCEP before the drain: the progresses are typed, and every parked one
\* has its entry in the old heap or among the pushed.
LEMMA AdvancedQueued ==
  ASSUME NEW c \in Configs, NEW ev \in Events, NEW ms, NEW wm, MembersTyped(ms),
         NEW heap0, HeapTyped(heap0), RebuildNegativeDeadlines(ProgsOf(ms)) \subseteq heap0
  PROVE  LET cep == ProcessCEP(RegisteredIn(c), ms[ev.member].progresses, ev, wm)
             progs == AdvancedProgs(c, ms, wm, ev)
         IN /\ DOMAIN progs = Member
            /\ \A m \in Member : ProgressesOf(m, progs[m])
            /\ HeapTyped(heap0 \cup cep.pushes)
            /\ RebuildNegativeDeadlines(progs) \subseteq heap0 \cup cep.pushes
            /\ \A mt \in cep.matches : mt.pattern \in c.patterns
<1> DEFINE cep == ProcessCEP(RegisteredIn(c), ms[ev.member].progresses, ev, wm)
           progs == AdvancedProgs(c, ms, wm, ev)
           before == ProgsOf(ms)
<1>1. ev.member \in Member /\ \A m \in Member : ProgressesOf(m, ms[m].progresses)
  BY EventsAssumption DEF MembersTyped
<1>2. /\ ProgressesOf(ev.member, cep.progresses)
      /\ Queue(cep.progresses) \subseteq Queue(ms[ev.member].progresses) \cup cep.pushes
      /\ HeapTyped(cep.pushes)
      /\ \A mt \in cep.matches : mt.pattern \in c.patterns
  BY <1>1, ProcessCEPAnswer
<1>3. /\ DOMAIN before = Member
      /\ \A m \in Member : before[m] = ms[m].progresses
  BY DEF ProgsOf
<1>4. progs = [before EXCEPT ![ev.member] = cep.progresses]
  BY DEF AdvancedProgs
<1> HIDE DEF cep, progs, before
<1>5. /\ DOMAIN progs = Member
      /\ \A m \in Member : progs[m] = IF m = ev.member THEN cep.progresses ELSE ms[m].progresses
  BY <1>1, <1>3, <1>4
<1>6. \A m \in Member : ProgressesOf(m, progs[m])
  BY <1>1, <1>2, <1>5
<1>7. HeapTyped(heap0 \cup cep.pushes)
  BY <1>2 DEF HeapTyped
<1>8. \A m \in Member : Queue(ms[m].progresses) \subseteq heap0
  BY <1>3, RebuiltByMember DEF before
<1>9. ASSUME NEW m \in Member PROVE Queue(progs[m]) \subseteq heap0 \cup cep.pushes
  <2>1. CASE m = ev.member
    BY <1>1, <1>2, <1>5, <1>8, <2>1
  <2>2. CASE m # ev.member
    BY <1>5, <1>8, <2>2
  <2> QED
    BY <2>1, <2>2
<1>10. RebuildNegativeDeadlines(progs) \subseteq heap0 \cup cep.pushes
  BY <1>5, <1>9, RebuiltByMember
<1> QED
  BY <1>2, <1>5, <1>6, <1>7, <1>10 DEF cep, progs

\* drainNegativeMatches does the same with the running heap as with one rebuilt
\* from the progresses.
LEMMA DrainIgnoresStale ==
  ASSUME NEW progs, DOMAIN progs = Member,
         \A m \in Member : ProgressesOf(m, progs[m]),
         NEW heap, HeapTyped(heap), RebuildNegativeDeadlines(progs) \subseteq heap,
         NEW wm \in Int, NEW patterns
  PROVE  LET fresh == RebuildNegativeDeadlines(progs)
         IN /\ DrainProgresses(progs, heap, wm) = DrainProgresses(progs, fresh, wm)
            /\ DrainMatches(patterns, progs, heap, wm) = DrainMatches(patterns, progs, fresh, wm)
<1> DEFINE fresh == RebuildNegativeDeadlines(progs)
<1>1. HeapTyped(fresh)
  BY DEF HeapTyped
<1>2. Drained(progs, heap, wm) = Due(fresh, wm)
  BY DrainedByProgresses
<1>3. Drained(progs, fresh, wm) = Due(fresh, wm)
  BY <1>1, DrainedByProgresses
<1>4. Drained(progs, heap, wm) = Drained(progs, fresh, wm)
  BY <1>2, <1>3
<1> HIDE DEF fresh
<1>5. DrainProgresses(progs, heap, wm) = DrainProgresses(progs, fresh, wm)
  BY <1>4 DEF DrainProgresses
<1>6. DrainMatches(patterns, progs, heap, wm) = DrainMatches(patterns, progs, fresh, wm)
  BY <1>4 DEF DrainMatches
<1> QED
  BY <1>5, <1>6 DEF fresh

\* A drained match is one of a registered pattern.
LEMMA DrainMatchesRegistered ==
  ASSUME NEW c, NEW progs, NEW heap, NEW wm,
         NEW mt \in DrainMatches(RegisteredIn(c), progs, heap, wm)
  PROVE  mt.pattern \in c.patterns
<1>1. PICK e \in Drained(progs, heap, wm) :
        /\ e.id[1] \in DOMAIN RegisteredIn(c)
        /\ mt = MatchResult(e.id, progs[e.member][e.id].vars, e.deadline)
  BY DEF DrainMatches
<1>2. mt.pattern = e.id[1]
  BY <1>1 DEF MatchResult
<1> QED
  BY <1>1, <1>2 DEF RegisteredIn

\* What the drain leaves of the members and of the heap, once written back.
LEMMA WrittenBackSettled ==
  ASSUME NEW ms, MembersTyped(ms),
         NEW progs, DOMAIN progs = Member,
         \A m \in Member : ProgressesOf(m, progs[m]),
         NEW heap, HeapTyped(heap), RebuildNegativeDeadlines(progs) \subseteq heap,
         NEW wm \in Int
  PROVE  LET drained == DrainProgresses(progs, heap, wm)
             after == [m \in Member |-> [ms[m] EXCEPT !.progresses = drained[m]]]
             rest == heap \ Due(heap, wm)
         IN /\ Settled(after, wm)
            /\ HeapTyped(rest)
            /\ RebuildNegativeDeadlines(ProgsOf(after)) \subseteq rest
            /\ \A e \in rest : e.deadline >= wm
<1> DEFINE drained == DrainProgresses(progs, heap, wm)
           after == [m \in Member |-> [ms[m] EXCEPT !.progresses = drained[m]]]
           rest == heap \ Due(heap, wm)
<1>1. /\ DOMAIN drained = Member
      /\ \A m \in Member : ProgressesOf(m, drained[m])
      /\ \A m \in Member : \A id \in DOMAIN drained[m] :
           drained[m][id].negDeadline # NoTime => drained[m][id].negDeadline >= wm
      /\ HeapTyped(rest)
      /\ RebuildNegativeDeadlines(drained) \subseteq rest
      /\ \A e \in rest : e.deadline >= wm
  BY DrainSettles
<1>2. drained = [m \in Member |-> drained[m]]
  BY DEF DrainProgresses
<1>3. \A m \in Member : {"aggs", "progresses", "lastSeen"} \subseteq DOMAIN ms[m]
  BY DEF MembersTyped
<1> HIDE DEF drained, rest
<1>4. \A m \in Member : /\ after[m].progresses = drained[m]
                         /\ {"aggs", "progresses", "lastSeen"} \subseteq DOMAIN after[m]
  BY <1>3
<1>5. after = [m \in Member |-> after[m]]
  OBVIOUS
<1> HIDE DEF after
<1>6. Settled(after, wm)
  BY <1>1, <1>4, <1>5 DEF Settled, MembersTyped
<1>7. ProgsOf(after) = drained
  BY <1>2, <1>4 DEF ProgsOf
<1> QED
  BY <1>1, <1>6, <1>7 DEF drained, rest, after

-----------------------------------------------------------------------------
(* The actions. *)

\* A step that records what Outcome says of ev.
Logs(ev, o) ==
  /\ Deliverable(ev)
  /\ o = Outcome(conf, members, watermark, ev)
  /\ o.ev = ev /\ o.conf = conf
  /\ members' = o.members /\ watermark' = o.wm
  /\ hist' = IF pos = Len(hist) THEN Append(hist, o) ELSE [hist EXCEPT ![pos + 1] = o]
  /\ pos' = pos + 1
  /\ Settled(o.members, o.wm)
  /\ \A mt \in o.matches : mt.pattern \in conf.patterns
  /\ UNCHANGED <<conf, replaying, base>>

\* The running state is settled.
LEMMA RunningSettled ==
  ASSUME IInv
  PROVE  Settled(members, watermark)
<1>1. CASE pos = 0
  BY <1>1, FreshSettled DEF IInv, AtPosition, MembersAt, WatermarkAt
<1>2. CASE pos # 0
  <2>1. pos \in 1..Len(hist)
    BY <1>2 DEF IInv, Positions
  <2> QED
    BY <1>2, <2>1 DEF IInv, AtPosition, MembersAt, WatermarkAt, RecordsSettled
<1> QED
  BY <1>1, <1>2

\* ProcessEvent on a late event is what Outcome says, and leaves the heap.
LEMMA ProcessLateLogs ==
  ASSUME IInv, NEW ev \in Events, ProcessLate(ev)
  PROVE  /\ \E o : Logs(ev, o)
         /\ HeapComplete'
<1> DEFINE o == Outcome(conf, members, watermark, ev)
           ap == AppliedTo(conf, members, ev)
<1>1. Settled(members, watermark) /\ conf \in Configs
  BY RunningSettled DEF IInv, Positions
<1>2. /\ Settled(ap, watermark)
      /\ ProgsOf(ap) = ProgsOf(members)
  BY <1>1, LateSettled, AppliedKeepsProgresses DEF Settled
<1>3. o = LateOutcome(conf, members, watermark, ev)
  BY DEF ProcessLate, IsLate, Outcome
<1>4. o = [ev |-> ev, late |-> TRUE, wm |-> watermark, rules |-> {}, matches |-> {},
           members |-> ap, conf |-> conf]
  BY <1>3 DEF LateOutcome
<1>5. Applied(ev) = ap
  BY DEF Applied, AppliedTo, MaxWindow
<1> HIDE DEF o, ap
<1>6. /\ o.ev = ev /\ o.wm = watermark /\ o.matches = {} /\ o.members = ap /\ o.conf = conf
  BY <1>4
<1>7. /\ members' = ap
      /\ UNCHANGED <<conf, negDeadlines, watermark, replaying, base>>
  BY <1>5 DEF ProcessLate
<1>8. /\ hist' = IF pos = Len(hist) THEN Append(hist, o) ELSE [hist EXCEPT ![pos + 1] = o]
      /\ pos' = pos + 1
  BY <1>4, <1>7 DEF ProcessLate, Record
<1>9. Logs(ev, o)
  BY <1>2, <1>6, <1>7, <1>8 DEF Logs, ProcessLate, o
<1>10. HeapComplete'
  BY <1>2, <1>7 DEF IInv, HeapComplete, ParkedIsQueued
<1> QED
  BY <1>9, <1>10

\* ProcessEvent on an event on time is what Outcome says, although Outcome
\* drains a rebuilt heap and the action the running one; the heap stays complete.
LEMMA ProcessOnTimeLogs ==
  ASSUME IInv, NEW ev \in Events, ProcessOnTime(ev)
  PROVE  /\ \E o : Logs(ev, o)
         /\ HeapComplete'
<1> DEFINE o == Outcome(conf, members, watermark, ev)
           wm == LaterOf(watermark, ev.at - Lateness)
           ap == AppliedTo(conf, members, ev)
           cep == ProcessCEP(RegisteredIn(conf), ap[ev.member].progresses, ev, wm)
           progs == AdvancedProgs(conf, ap, wm, ev)
           heap == negDeadlines \cup cep.pushes
           fresh == RebuildNegativeDeadlines(progs)
           after == [m \in Member |->
                       [ap[m] EXCEPT !.progresses = DrainProgresses(progs, heap, wm)[m]]]
           rest == heap \ Due(heap, wm)
           matches == cep.matches \cup DrainMatches(RegisteredIn(conf), progs, heap, wm)
           rules == RulesOn(conf, ap, ev)
<1>1. /\ Settled(members, watermark)
      /\ conf \in Configs
      /\ HeapTyped(negDeadlines)
      /\ RebuildNegativeDeadlines(ProgsOf(members)) \subseteq negDeadlines
  BY RunningSettled DEF IInv, Positions, HeapComplete, ParkedIsQueued
<1>2. wm \in Int /\ ev.at \in Int
  BY <1>1, EventsAssumption, LatenessAssumption DEF Settled, LaterOf
<1>3. /\ MembersTyped(ap)
      /\ ProgsOf(ap) = ProgsOf(members)
  BY <1>1, AppliedKeepsProgresses DEF Settled
<1>4. Registered = RegisteredIn(conf) /\ Applied(ev) = ap /\ AdvanceWatermark(ev.at) = wm
  BY DEF Registered, RegisteredIn, Applied, AppliedTo, MaxWindow, AdvanceWatermark
<1>5. EvaluateRules(ap[ev.member], ev) = rules
  BY DEF EvaluateRules, RulesOn
<1>6. [ProgsOf(ap) EXCEPT ![ev.member] = cep.progresses] = progs
  BY DEF AdvancedProgs
<1>7. o = OnTimeOutcome(conf, members, watermark, ev)
  BY DEF ProcessOnTime, IsLate, Outcome
<1>8. o = [ev |-> ev, late |-> FALSE, wm |-> wm, rules |-> rules,
           matches |-> cep.matches \cup DrainMatches(RegisteredIn(conf), progs, fresh, wm),
           members |-> [m \in Member |->
                          [ap[m] EXCEPT !.progresses = DrainProgresses(progs, fresh, wm)[m]]],
           conf |-> conf]
  BY <1>7 DEF OnTimeOutcome
<1> HIDE DEF o, wm, ap, cep, progs, rules
<1>9. /\ DOMAIN progs = Member
      /\ \A m \in Member : ProgressesOf(m, progs[m])
      /\ HeapTyped(heap)
      /\ fresh \subseteq heap
      /\ \A mt \in cep.matches : mt.pattern \in conf.patterns
  BY <1>1, <1>3, AdvancedQueued DEF cep, progs
<1>10. /\ DrainProgresses(progs, heap, wm) = DrainProgresses(progs, fresh, wm)
       /\ DrainMatches(RegisteredIn(conf), progs, heap, wm)
            = DrainMatches(RegisteredIn(conf), progs, fresh, wm)
  BY <1>2, <1>9, DrainIgnoresStale
<1>11. /\ Settled(after, wm)
       /\ HeapTyped(rest)
       /\ RebuildNegativeDeadlines(ProgsOf(after)) \subseteq rest
       /\ \A e \in rest : e.deadline >= wm
  <2> HIDE DEF heap
  <2> QED
    BY <1>2, <1>3, <1>9, WrittenBackSettled, ZenonT(60)
<1>12. \A mt \in matches : mt.pattern \in conf.patterns
  BY <1>9, DrainMatchesRegistered
<1>13. o = [ev |-> ev, late |-> FALSE, wm |-> wm, rules |-> rules, matches |-> matches,
            members |-> after, conf |-> conf]
  BY <1>8, <1>10
<1>14. /\ watermark' = wm
       /\ members' = after
       /\ negDeadlines' = rest
       /\ Record(ev, FALSE, rules, matches)
       /\ UNCHANGED <<conf, replaying, sink, base>>
  BY <1>4, <1>5, <1>6 DEF ProcessOnTime, cep
<1> HIDE DEF after, rest, matches, heap, fresh
<1>15. /\ o.ev = ev /\ o.wm = wm /\ o.matches = matches /\ o.members = after /\ o.conf = conf
  BY <1>13
<1>16. /\ hist' = IF pos = Len(hist) THEN Append(hist, o) ELSE [hist EXCEPT ![pos + 1] = o]
       /\ pos' = pos + 1
  BY <1>13, <1>14 DEF Record
<1>17. Logs(ev, o)
  BY <1>11, <1>12, <1>14, <1>15, <1>16 DEF Logs, ProcessOnTime, o
<1>18. HeapComplete'
  BY <1>11, <1>14 DEF HeapComplete, ParkedIsQueued
<1> QED
  BY <1>17, <1>18

\* A replayed event has the outcome the log has for it, so the log only grows.
LEMMA LogsExtend ==
  ASSUME IInv, NEW ev \in Events, NEW o, Logs(ev, o)
  PROVE  /\ pos # Len(hist) => hist' = hist
         /\ pos = Len(hist) => hist' = Append(hist, o)
         /\ pos' \in 1..Len(hist')
         /\ hist'[pos'] = o
<1>1. PICK S : hist \in Seq(S)
  BY DEF IInv, Positions
<1>2. /\ base \in Nat /\ pos \in Nat /\ Len(hist) \in Nat
      /\ base <= pos /\ pos <= Len(hist)
  BY <1>1 DEF IInv, Positions
<1>3. /\ hist' = IF pos = Len(hist) THEN Append(hist, o) ELSE [hist EXCEPT ![pos + 1] = o]
      /\ pos' = pos + 1
  BY DEF Logs
<1>4. CASE pos = Len(hist)
  <2>1. hist' = Append(hist, o)
    BY <1>3, <1>4
  <2>2. Len(Append(hist, o)) = Len(hist) + 1 /\ Append(hist, o)[Len(hist) + 1] = o
    BY <1>1
  <2> QED
    BY <1>2, <1>3, <1>4, <2>1, <2>2
<1>5. CASE pos # Len(hist)
  <2>1. pos + 1 \in (base + 1)..Len(hist) /\ pos + 1 \in 1..Len(hist) /\ pos + 1 - 1 = pos
    BY <1>2, <1>5
  <2>2. hist[pos + 1] = Outcome(conf, MembersAt(hist, pos), WatermarkAt(hist, pos), hist[pos + 1].ev)
    <3>1. PICK k \in (base + 1)..Len(hist) : k = pos + 1 /\ k - 1 = pos
      <4>1. \E k \in (base + 1)..Len(hist) : k = pos + 1
        BY <2>1
      <4> QED
        BY <1>2, <4>1
    <3>2. hist[k] = Outcome(conf, MembersAt(hist, k - 1), WatermarkAt(hist, k - 1), hist[k].ev)
      BY DEF IInv, Explained
    <3> QED
      BY <3>1, <3>2, Zenon
  <2>3. hist[pos + 1].ev = ev
    BY <1>2, <1>5 DEF Logs, Deliverable
  <2>4. hist[pos + 1] = o
    BY <2>2, <2>3 DEF Logs, IInv, AtPosition
  <2>5. [hist EXCEPT ![pos + 1] = o] = hist
    BY <1>1, <2>1, <2>4
  <2> QED
    BY <1>3, <1>5, <2>1, <2>4, <2>5
<1> QED
  BY <1>4, <1>5

\* The positions keep what the log had for them.
LEMMA LogsKeep ==
  ASSUME IInv, NEW ev \in Events, NEW o, Logs(ev, o)
  PROVE  /\ \E T : hist' \in Seq(T)
         /\ Len(hist') = IF pos = Len(hist) THEN Len(hist) + 1 ELSE Len(hist)
         /\ \A i \in 1..Len(hist) : hist'[i] = hist[i]
<1>1. PICK S : hist \in Seq(S)
  BY DEF IInv, Positions
<1>2. CASE pos = Len(hist)
  <2>1. hist' = Append(hist, o)
    BY <1>2, LogsExtend
  <2>2. hist \in Seq(S \cup {o})
    BY <1>1
  <2>3. /\ Append(hist, o) \in Seq(S \cup {o})
        /\ Len(Append(hist, o)) = Len(hist) + 1
        /\ \A i \in 1..Len(hist) : Append(hist, o)[i] = hist[i]
    BY <2>2
  <2> QED
    BY <1>2, <2>1, <2>3
<1>3. CASE pos # Len(hist)
  BY <1>1, <1>3, LogsExtend
<1> QED
  BY <1>2, <1>3

\* Recording an outcome preserves the invariant of log and position.
LEMMA LogsIInv ==
  ASSUME IInv, NEW ev \in Events, NEW o, Logs(ev, o)
  PROVE  Positions' /\ AtPosition' /\ Explained' /\ RecordsSettled'
<1>1. /\ base \in Nat /\ pos \in Nat /\ Len(hist) \in Nat
      /\ base <= pos /\ pos <= Len(hist)
      /\ replaying \in BOOLEAN
      /\ ~replaying => pos = Len(hist)
      /\ conf \in Configs
  BY DEF IInv, Positions
<1>2. /\ pos' = pos + 1 /\ base' = base /\ replaying' = replaying /\ conf' = conf
      /\ members' = o.members /\ watermark' = o.wm
      /\ o = Outcome(conf, members, watermark, ev) /\ o.ev = ev /\ o.conf = conf
      /\ Settled(o.members, o.wm)
      /\ \A mt \in o.matches : mt.pattern \in conf.patterns
  BY DEF Logs
<1>3. /\ \E T : hist' \in Seq(T)
      /\ Len(hist') = IF pos = Len(hist) THEN Len(hist) + 1 ELSE Len(hist)
      /\ \A i \in 1..Len(hist) : hist'[i] = hist[i]
      /\ pos' \in 1..Len(hist')
      /\ hist'[pos'] = o
  BY LogsKeep, LogsExtend
<1>4. Positions'
  <2>1. ~replaying' => pos' = Len(hist')
    BY <1>1, <1>2, <1>3
  <2>2. base' \in Nat /\ pos' \in Nat /\ base' <= pos' /\ pos' <= Len(hist')
    BY <1>1, <1>2, <1>3
  <2>3. replaying' \in BOOLEAN
    BY <1>1, <1>2, Zenon
  <2> QED
    BY <1>1, <1>2, <1>3, <2>1, <2>2, <2>3 DEF Positions
<1>5. AtPosition'
  <2>1. pos' # 0
    BY <1>1, <1>2
  <2> QED
    BY <1>2, <1>3, <2>1 DEF AtPosition, MembersAt, WatermarkAt
<1>6. ASSUME NEW i \in 1..Len(hist')
      PROVE  i \in 1..Len(hist) \/ (i = Len(hist) + 1 /\ pos = Len(hist) /\ i = pos')
  BY <1>1, <1>2, <1>3
<1>7. Explained'
  <2> SUFFICES ASSUME NEW i \in (base' + 1)..Len(hist')
               PROVE  hist'[i] = Outcome(conf', MembersAt(hist', i - 1), WatermarkAt(hist', i - 1),
                                         hist'[i].ev)
    BY DEF Explained
  <2>1. i \in 1..Len(hist') /\ i \in (base + 1)..Len(hist')
    BY <1>1, <1>2
  <2>2. CASE i \in 1..Len(hist)
    <3>1. i \in (base + 1)..Len(hist)
      BY <2>1, <2>2
    <3>2. hist[i] = Outcome(conf, MembersAt(hist, i - 1), WatermarkAt(hist, i - 1), hist[i].ev)
      BY <3>1 DEF IInv, Explained
    <3>3. i - 1 = 0 \/ i - 1 \in 1..Len(hist)
      BY <2>2, <1>1
    <3>4. /\ MembersAt(hist', i - 1) = MembersAt(hist, i - 1)
          /\ WatermarkAt(hist', i - 1) = WatermarkAt(hist, i - 1)
      BY <1>3, <3>3 DEF MembersAt, WatermarkAt
    <3> QED
      BY <1>2, <1>3, <2>2, <3>2, <3>4
  <2>3. CASE i = Len(hist) + 1 /\ pos = Len(hist) /\ i = pos'
    <3>1. i - 1 = pos /\ (pos = 0 \/ pos \in 1..Len(hist))
      BY <1>1, <2>3
    <3>2. /\ MembersAt(hist', pos) = MembersAt(hist, pos)
          /\ WatermarkAt(hist', pos) = WatermarkAt(hist, pos)
      BY <1>3, <3>1 DEF MembersAt, WatermarkAt
    <3>3. members = MembersAt(hist, pos) /\ watermark = WatermarkAt(hist, pos)
      BY DEF IInv, AtPosition
    <3> QED
      BY <1>2, <1>3, <2>3, <3>1, <3>2, <3>3
  <2> QED
    BY <1>6, <2>1, <2>2, <2>3
<1>8. RecordsSettled'
  <2> SUFFICES ASSUME NEW i \in 1..Len(hist')
               PROVE  /\ Settled(hist'[i].members, hist'[i].wm)
                      /\ \A mt \in hist'[i].matches : mt.pattern \in hist'[i].conf.patterns
    BY DEF RecordsSettled, Settled, MembersTyped, ProgressesOf, ProgressOf
  <2>1. CASE i \in 1..Len(hist)
    BY <1>3, <2>1 DEF IInv, RecordsSettled
  <2>2. CASE i = Len(hist) + 1 /\ pos = Len(hist) /\ i = pos'
    BY <1>2, <1>3, <2>2
  <2> QED
    BY <1>6, <2>1, <2>2
<1> QED
  BY <1>4, <1>5, <1>7, <1>8

\* NewCore.
LEMMA InitIInv == Init => IInv
<1> SUFFICES ASSUME Init PROVE IInv
  OBVIOUS
<1>1. Len(hist) = 0 /\ hist \in Seq({}) /\ DOMAIN sink = {} /\ sink \in Seq(Nat)
  BY DEF Init
<1>2. Positions
  <2>1. base \in Nat /\ pos \in Nat /\ base <= pos /\ pos <= Len(hist) /\ pos = Len(hist)
    BY <1>1 DEF Init
  <2>2. replaying \in BOOLEAN
    BY Zenon DEF Init
  <2> QED
    BY <1>1, <2>1, <2>2 DEF Init, Positions
<1>3. SinkBehind
  BY <1>1 DEF SinkBehind, SideOutputOnce
<1>4. AtPosition
  BY DEF Init, AtPosition, MembersAt, WatermarkAt
<1>5. HeapComplete
  <2>1. \A m \in Member : ProgsOf(Fresh)[m] = NoProgresses
    BY DEF ProgsOf, Fresh, NewMemberState
  <2>2. DOMAIN ProgsOf(Fresh) = Member /\ Queue(NoProgresses) = {}
    BY DEF ProgsOf, Queue, NoProgresses
  <2>3. RebuildNegativeDeadlines(ProgsOf(Fresh)) = {}
    BY <2>1, <2>2, RebuiltByMember
  <2> QED
    BY <2>3 DEF Init, HeapComplete, HeapTyped, ParkedIsQueued
<1>6. Explained /\ RecordsSettled
  <2>1. base = 0
    BY DEF Init
  <2> QED
    BY <1>1, <2>1 DEF Explained, RecordsSettled
<1> QED
  BY <1>2, <1>3, <1>4, <1>5, <1>6 DEF IInv

\* Positions in the order of the log, none past n.
Ascending(s, n) ==
  /\ s \in Seq(Nat)
  /\ \A i, j \in DOMAIN s : i < j => s[i] < s[j]
  /\ \A i \in DOMAIN s : s[i] <= n

\* The log may grow past the positions of the late sink.
LEMMA AscendingBelow ==
  ASSUME NEW s, NEW n \in Nat, NEW k \in Nat, n <= k, Ascending(s, n)
  PROVE  Ascending(s, k)
<1>1. \A i \in DOMAIN s : s[i] \in Nat /\ s[i] <= n
  BY DEF Ascending
<1>2. \A i \in DOMAIN s : s[i] <= k
  BY <1>1
<1> QED
  BY <1>2 DEF Ascending

\* The next position appended to the late sink.
LEMMA AscendingAppend ==
  ASSUME NEW s, NEW n \in Nat, Ascending(s, n)
  PROVE  Ascending(Append(s, n + 1), n + 1)
<1> DEFINE t == Append(s, n + 1)
<1>1. s \in Seq(Nat) /\ Len(s) \in Nat /\ DOMAIN s = 1..Len(s)
  BY DEF Ascending
<1>2. t \in Seq(Nat) /\ DOMAIN t = 1..(Len(s) + 1)
  BY <1>1
<1>3. (\A i \in 1..Len(s) : t[i] = s[i]) /\ t[Len(s) + 1] = n + 1
  BY <1>1
<1>4. \A i \in 1..Len(s) : s[i] \in Nat /\ s[i] <= n
  BY <1>1 DEF Ascending
<1> HIDE DEF t
<1>5. ASSUME NEW i \in DOMAIN t, NEW j \in DOMAIN t, i < j PROVE t[i] < t[j]
  <2>1. i \in 1..Len(s)
    BY <1>1, <1>2, <1>5
  <2>2. CASE j \in 1..Len(s)
    BY <1>1, <1>3, <1>5, <2>1, <2>2 DEF Ascending
  <2>3. CASE j = Len(s) + 1
    BY <1>3, <1>4, <2>1, <2>3
  <2> QED
    BY <1>1, <1>2, <2>2, <2>3
<1>6. ASSUME NEW i \in DOMAIN t PROVE t[i] <= n + 1
  <2>1. CASE i \in 1..Len(s)
    BY <1>3, <1>4, <2>1
  <2>2. CASE i = Len(s) + 1
    BY <1>3, <2>2
  <2> QED
    BY <1>1, <1>2, <2>1, <2>2
<1>7. Ascending(t, n + 1)
  BY <1>2, <1>5, <1>6 DEF Ascending
<1> QED
  BY <1>7 DEF t

\* ProcessEvent.
LEMMA ProcessEventIInv ==
  ASSUME IInv, NEW ev \in Events, ProcessEvent(ev)
  PROVE  /\ IInv'
         /\ \A i \in DOMAIN hist : hist'[i] = hist[i]
<1>1. Ascending(sink, Len(hist))
  BY DEF IInv, SinkBehind, SideOutputOnce, Ascending
<1>2. pos \in Nat /\ Len(hist) \in Nat /\ DOMAIN hist = 1..Len(hist)
      /\ replaying \in BOOLEAN /\ (~replaying => pos = Len(hist))
  BY DEF IInv, Positions
<1>3. PICK o : Logs(ev, o) /\ HeapComplete'
  BY ProcessLateLogs, ProcessOnTimeLogs DEF ProcessEvent
<1>4. Positions' /\ AtPosition' /\ Explained' /\ RecordsSettled'
  BY <1>3, LogsIInv
<1>5. /\ Len(hist') = IF pos = Len(hist) THEN Len(hist) + 1 ELSE Len(hist)
      /\ \A i \in 1..Len(hist) : hist'[i] = hist[i]
  BY <1>3, LogsKeep
<1>6. SinkBehind'
  <2>1. CASE sink' = sink
    <3>1. Len(hist') \in Nat /\ Len(hist) <= Len(hist')
      BY <1>2, <1>5
    <3>2. Ascending(sink, Len(hist'))
      BY <1>1, <1>2, <3>1, AscendingBelow
    <3> QED
      BY <2>1, <3>2 DEF Ascending, SinkBehind, SideOutputOnce
  <2>2. CASE ~replaying /\ sink' = Append(sink, pos + 1)
    <3>1. Len(hist') = Len(hist) + 1 /\ pos + 1 = Len(hist) + 1
      BY <1>2, <1>5, <2>2
    <3>2. sink' = Append(sink, Len(hist) + 1)
      BY <2>2, <3>1
    <3>3. Ascending(sink', Len(hist'))
      BY <1>1, <1>2, <3>1, <3>2, AscendingAppend
    <3> QED
      BY <3>3 DEF Ascending, SinkBehind, SideOutputOnce
  <2>3. (sink' = sink) \/ (~replaying /\ sink' = Append(sink, pos + 1))
    BY DEF ProcessEvent, ProcessLate, ProcessOnTime
  <2> QED
    BY <2>1, <2>2, <2>3
<1> QED
  BY <1>2, <1>3, <1>4, <1>5, <1>6 DEF IInv

\* Restore: the snapshot of a position gives the state recorded there, and a heap
\* with exactly the entries of what is parked.
LEMMA RestoreIInv ==
  ASSUME IInv, NEW i \in base..Len(hist), Restore(i), hist' = hist
  PROVE  AtPosition' /\ HeapComplete'
<1> DEFINE ms == MembersAt(hist, i)
           wm == WatermarkAt(hist, i)
           heap == RebuildNegativeDeadlines(ProgsOf(ms))
<1>1. i \in Nat /\ i <= Len(hist) /\ Len(hist) \in Nat
  BY DEF IInv, Positions
<1>2. members' = ms /\ watermark' = wm /\ negDeadlines' = heap /\ pos' = i
  BY DEF Restore, MembersAt, WatermarkAt
<1>3. Settled(ms, wm)
  <2>1. CASE i = 0
    BY <2>1, FreshSettled DEF MembersAt, WatermarkAt
  <2>2. CASE i # 0
    <3>1. i \in 1..Len(hist)
      BY <1>1, <2>2
    <3> QED
      BY <2>2, <3>1 DEF IInv, RecordsSettled, MembersAt, WatermarkAt
  <2> QED
    BY <2>1, <2>2
<1>4. AtPosition'
  BY <1>2 DEF AtPosition, MembersAt, WatermarkAt
<1> HIDE DEF ms, wm
<1>5. /\ DOMAIN ProgsOf(ms) = Member
      /\ \A m \in Member : ProgsOf(ms)[m] = ms[m].progresses
      /\ \A m \in Member : ProgressesOf(m, ms[m].progresses)
  BY <1>3 DEF Settled, MembersTyped, ProgsOf
<1>6. ASSUME NEW e \in heap
      PROVE  /\ e = Entry(e.deadline, e.id) /\ e.deadline \in Int /\ e.id[2] \in Member
             /\ e.deadline >= wm
  <2>1. PICK m \in Member : e \in Queue(ms[m].progresses)
    BY <1>5, RebuiltByMember
  <2>2. /\ e.id \in DOMAIN ms[m].progresses
        /\ e.deadline = ms[m].progresses[e.id].negDeadline
        /\ e.deadline \in Int
        /\ e.id[2] = m
        /\ e = Entry(e.deadline, e.id)
    BY <1>5, <2>1, QueueEntries
  <2>3. e.deadline # NoTime
    BY <2>2, NoTimeAssumption
  <2> QED
    BY <1>3, <2>2, <2>3 DEF Settled
<1>7. HeapComplete'
  <2> HIDE DEF heap
  <2>1. HeapTyped(heap) /\ \A e \in heap : e.deadline >= wm
    BY <1>6 DEF HeapTyped
  <2>2. RebuildNegativeDeadlines(ProgsOf(ms)) \subseteq heap
    BY DEF heap
  <2> QED
    BY <1>2, <2>1, <2>2 DEF HeapComplete, ParkedIsQueued
<1> QED
  BY <1>4, <1>7

\* Restart and Reconfigure: the log stays, and after a change of configuration no
\* outcome is attributed to the new one yet.
LEMMA RestartIInv ==
  ASSUME IInv, Restart \/ Reconfigure
  PROVE  IInv' /\ hist' = hist
<1>1. /\ base \in Nat /\ pos \in Nat /\ Len(hist) \in Nat
      /\ base <= pos /\ pos <= Len(hist)
      /\ \E S : hist \in Seq(S)
      /\ conf \in Configs
  BY DEF IInv, Positions
<1>2. hist' = hist /\ sink' = sink
  BY DEF Restart, Reconfigure
<1>3. PICK i \in base..Len(hist) : Restore(i)
  BY <1>1 DEF Restart, Reconfigure
<1>4. AtPosition' /\ HeapComplete'
  BY <1>2, <1>3, RestoreIInv
<1>5. SinkBehind'
  BY <1>2 DEF IInv, SinkBehind, SideOutputOnce
<1>6. RecordsSettled'
  BY <1>2 DEF IInv, RecordsSettled
<1>7. replaying' = TRUE
  BY DEF Restart, Reconfigure
<1>8. replaying' \in BOOLEAN
  BY <1>7, Zenon
<1>9. CASE Restart
  <2>1. PICK k \in base..Len(hist) : pos' = k
    BY <1>9 DEF Restart, Restore
  <2>2. base' = base /\ conf' = conf
    BY <1>9 DEF Restart
  <2>3. Positions'
    BY <1>1, <1>2, <1>7, <1>8, <2>1, <2>2 DEF Positions
  <2>4. Explained'
    BY <1>2, <2>2 DEF IInv, Explained
  <2> QED
    BY <1>2, <1>4, <1>5, <1>6, <2>3, <2>4 DEF IInv
<1>10. CASE Reconfigure
  <2>1. pos = Len(hist) /\ pos' = pos /\ base' = pos /\ conf' \in Configs
    BY <1>10 DEF Reconfigure, Restore
  <2>2. Positions'
    BY <1>1, <1>2, <1>7, <1>8, <2>1 DEF Positions
  <2>3. Explained'
    BY <1>1, <1>2, <2>1 DEF Explained
  <2> QED
    BY <1>2, <1>4, <1>5, <1>6, <2>2, <2>3 DEF IInv
<1> QED
  BY <1>9, <1>10

\* Every step preserves the invariant, and no step changes what the log has.
LEMMA NextIInv ==
  ASSUME IInv, [Next]_vars
  PROVE  IInv' /\ \A i \in DOMAIN hist : hist'[i] = hist[i]
<1>1. CASE \E ev \in Events : ProcessEvent(ev)
  BY <1>1, ProcessEventIInv
<1>2. CASE Restart \/ Reconfigure
  BY <1>2, RestartIInv
<1>3. CASE EndReplay
  <2>1. /\ pos = Len(hist) /\ replaying' = FALSE
        /\ UNCHANGED <<conf, members, negDeadlines, watermark, pos, sink, hist, base>>
    BY <1>3 DEF EndReplay
  <2>2. replaying' \in BOOLEAN
    BY <2>1, Zenon
  <2>3. Positions'
    BY <2>1, <2>2 DEF IInv, Positions
  <2>4. SinkBehind' /\ AtPosition' /\ HeapComplete'
    BY <2>1 DEF IInv, SinkBehind, SideOutputOnce, AtPosition, HeapComplete, ParkedIsQueued
  <2>5. Explained' /\ RecordsSettled'
    BY <2>1 DEF IInv, Explained, RecordsSettled
  <2> QED
    BY <2>1, <2>3, <2>4, <2>5 DEF IInv
<1>4. CASE UNCHANGED vars
  <2>1. UNCHANGED <<conf, members, negDeadlines, watermark, replaying, pos, sink, hist, base>>
    BY <1>4 DEF vars
  <2>2. Positions' /\ SinkBehind' /\ AtPosition' /\ HeapComplete'
    BY <2>1 DEF IInv, Positions, SinkBehind, SideOutputOnce, AtPosition, HeapComplete,
                ParkedIsQueued
  <2>3. Explained' /\ RecordsSettled'
    BY <2>1 DEF IInv, Explained, RecordsSettled
  <2> QED
    BY <2>1, <2>2, <2>3 DEF IInv
<1> QED
  BY <1>1, <1>2, <1>3, <1>4 DEF Next

-----------------------------------------------------------------------------
(* The log as a whole. *)

\* Every position of h records what Outcome gives, under the configuration of
\* its process, from the state recorded before it.
Logged(h) ==
  /\ Len(h) \in Nat
  /\ DOMAIN h = 1..Len(h)
  /\ \A n \in 1..Len(h) :
       /\ h[n].ev \in Events
       /\ h[n].conf \in Configs
       /\ h[n] = Outcome(h[n].conf, MembersAt(h, n - 1), WatermarkAt(h, n - 1), h[n].ev)
       /\ Settled(h[n].members, h[n].wm)

\* No two positions hold one event.
EachOnce(h) == \A i, j \in 1..Len(h) : h[i].ev.id = h[j].ev.id => i = j

\* A step leaves the log or adds an outcome of the running state to it.
LEMMA LogStep ==
  ASSUME IInv, [Next]_vars, hist' # hist
  PROVE  \E ev \in Events :
           LET n == Len(hist)
               o == Outcome(conf, members, watermark, ev)
           IN /\ n \in Nat /\ Len(hist') = n + 1 /\ DOMAIN hist' = 1..(n + 1)
              /\ members = MembersAt(hist, n) /\ watermark = WatermarkAt(hist, n)
              /\ \A i \in 1..n : hist'[i] = hist[i]
              /\ hist'[n + 1] = o
              /\ o.ev = ev /\ o.conf = conf
              /\ Redelivery \/ \A i \in 1..n : hist[i].ev.id # ev.id
<1>1. PICK ev \in Events : ProcessEvent(ev)
  BY DEF Next, vars, Restart, Reconfigure, EndReplay
<1>2. PICK o : Logs(ev, o)
  BY <1>1, ProcessLateLogs, ProcessOnTimeLogs DEF ProcessEvent
<1>3. pos = Len(hist)
  BY <1>2, LogsExtend
<1>4. /\ Len(hist') = Len(hist) + 1
      /\ DOMAIN hist' = 1..(Len(hist) + 1)
      /\ \A i \in 1..Len(hist) : hist'[i] = hist[i]
  <2>1. PICK T : hist' \in Seq(T)
    BY <1>2, LogsKeep
  <2>2. DOMAIN hist' = 1..Len(hist')
    BY <2>1
  <2> QED
    BY <1>2, <1>3, <2>2, LogsKeep
<1>5. hist'[Len(hist) + 1] = o
  <2>1. hist'[pos'] = o
    BY <1>2, LogsExtend
  <2>2. pos' = Len(hist) + 1
    BY <1>2, <1>3 DEF Logs
  <2> QED
    BY <2>1, <2>2
<1>6. o = Outcome(conf, members, watermark, ev) /\ o.ev = ev /\ o.conf = conf
  BY <1>2 DEF Logs
<1>7. /\ Len(hist) \in Nat /\ DOMAIN hist = 1..Len(hist)
      /\ members = MembersAt(hist, Len(hist)) /\ watermark = WatermarkAt(hist, Len(hist))
  BY <1>3 DEF IInv, Positions, AtPosition
<1>8. Redelivery \/ \A i \in 1..Len(hist) : hist[i].ev.id # ev.id
  BY <1>2, <1>3, <1>7 DEF Logs, Deliverable
<1> QED
  BY <1>4, <1>5, <1>6, <1>7, <1>8

\* The states before a position are those of its prefix.
LEMMA SameBefore ==
  ASSUME NEW g, NEW h, NEW n \in Nat, \A i \in 1..n : g[i] = h[i]
  PROVE  \A i \in 0..n : MembersAt(g, i) = MembersAt(h, i) /\ WatermarkAt(g, i) = WatermarkAt(h, i)
<1>1. \A i \in 0..n : i # 0 => i \in 1..n
  OBVIOUS
<1> QED
  BY <1>1 DEF MembersAt, WatermarkAt

\* Every step keeps the log one.
LEMMA NextLogged ==
  ASSUME IInv, Logged(hist), [Next]_vars
  PROVE  /\ Logged(hist')
         /\ ~Redelivery /\ EachOnce(hist) => EachOnce(hist')
<1>1. CASE hist' = hist
  BY <1>1
<1>2. CASE hist' # hist
  <2> DEFINE n == Len(hist)
             h == hist'
             o(ev) == Outcome(conf, members, watermark, ev)
  <2>1. PICK ev \in Events :
          /\ n \in Nat /\ Len(h) = n + 1 /\ DOMAIN h = 1..(n + 1)
          /\ members = MembersAt(hist, n) /\ watermark = WatermarkAt(hist, n)
          /\ \A i \in 1..n : h[i] = hist[i]
          /\ h[n + 1] = o(ev)
          /\ o(ev).ev = ev /\ o(ev).conf = conf
          /\ Redelivery \/ \A i \in 1..n : hist[i].ev.id # ev.id
    BY <1>2, LogStep
  <2>2. conf \in Configs
    BY DEF IInv, Positions
  <2>3. /\ \A k \in 1..n : h[k].ev \in Events /\ h[k].conf \in Configs
        /\ \A k \in 1..n :
             h[k] = Outcome(h[k].conf, MembersAt(hist, k - 1), WatermarkAt(hist, k - 1), h[k].ev)
    BY <2>1 DEF Logged
  <2> HIDE DEF n, h
  <2>4. \A i \in 0..n : MembersAt(h, i) = MembersAt(hist, i) /\ WatermarkAt(h, i) = WatermarkAt(hist, i)
    BY <2>1, SameBefore
  <2>5. \A k \in 1..(n + 1) : k \in 1..n \/ (k = n + 1 /\ k - 1 = n)
    BY <2>1
  <2>6. \A k \in 1..(n + 1) : k - 1 \in 0..n
    BY <2>1
  <2>7. h[n + 1] = Outcome(h[n+1].conf, MembersAt(h, n), WatermarkAt(h, n), h[n+1].ev)
    <3>1. n \in 0..n
      BY <2>1
    <3> QED
      BY <2>1, <2>4, <3>1
  <2> HIDE DEF o
  <2>8. ASSUME NEW k \in 1..(n + 1)
        PROVE  /\ h[k].ev \in Events /\ h[k].conf \in Configs
               /\ h[k] = Outcome(h[k].conf, MembersAt(h, k - 1), WatermarkAt(h, k - 1), h[k].ev)
    <3>1. CASE k \in 1..n
      BY <2>3, <2>4, <2>6, <3>1
    <3>2. CASE k = n + 1 /\ k - 1 = n
      BY <2>1, <2>2, <2>7, <3>2
    <3> QED
      BY <2>5, <3>1, <3>2
  <2>9. Logged(h)
    <3>1. \A k \in 1..(n + 1) : Settled(h[k].members, h[k].wm)
      <4>1. RecordsSettled'
        BY NextIInv DEF IInv
      <4> QED
        BY <2>1, <4>1 DEF RecordsSettled, h
    <3> QED
      BY <2>1, <2>8, <3>1 DEF Logged
  <2>10. ~Redelivery /\ EachOnce(hist) => EachOnce(h)
    <3> SUFFICES ASSUME ~Redelivery, EachOnce(hist), NEW i \in 1..(n + 1), NEW j \in 1..(n + 1),
                        h[i].ev.id = h[j].ev.id
                 PROVE  i = j
      BY <2>1 DEF EachOnce
    <3>1. CASE i \in 1..n /\ j \in 1..n
      BY <2>1, <3>1 DEF EachOnce, n
    <3>2. CASE i = n + 1 \/ j = n + 1
      BY <2>1, <2>5, <3>2
    <3> QED
      BY <2>5, <3>1, <3>2
  <2> QED
    BY <2>9, <2>10 DEF h
<1> QED
  BY <1>1, <1>2

-----------------------------------------------------------------------------
(* From position to position. *)

\* A set of numbers that contains 0 and every successor contains them all.
LEMMA NumbersFromZero ==
  ASSUME NEW P, 0 \in P, \A n \in Nat : n \in P => n + 1 \in P
  PROVE  Nat \subseteq P
<1> DEFINE Bad == Nat \ P
<1>1. ASSUME Bad # {} PROVE FALSE
  <2>1. PICK n \in Bad : \A k \in Bad : <<k, n>> \notin OpToRel(<, Nat)
    BY <1>1, WFMin, NatLessThanWellFounded
  <2>2. n \in Nat /\ n # 0
    OBVIOUS
  <2>3. n - 1 \in Nat /\ n - 1 < n /\ n - 1 + 1 = n
    BY <2>2
  <2>4. n - 1 \in Bad
    BY <2>2, <2>3
  <2> QED
    BY <2>1, <2>2, <2>3, <2>4 DEF OpToRel
<1> QED
  BY <1>1

\* The outcome of an event: its watermark, its lateness, and the buckets it leaves.
LEMMA OutcomeParts ==
  ASSUME NEW c \in Configs, NEW ms, NEW wm, NEW ev \in Events,
         NEW o, o = Outcome(c, ms, wm, ev), NEW ap, ap = AppliedTo(c, ms, ev)
  PROVE  /\ o.ev = ev /\ o.conf = c
         /\ o.late \in BOOLEAN /\ (o.late <=> ev.at < wm)
         /\ o.wm = IF o.late THEN wm ELSE LaterOf(wm, ev.at - Lateness)
         /\ o.rules = IF o.late THEN {} ELSE RulesOn(c, ap, ev)
         /\ \A m \in Member : "aggs" \in DOMAIN ap[m] => o.members[m].aggs = ap[m].aggs
<1>1. CASE ev.at < wm
  <2>1. o = LateOutcome(c, ms, wm, ev)
    BY <1>1 DEF Outcome
  <2>2. o.ev = ev /\ o.conf = c /\ o.late = TRUE /\ o.wm = wm /\ o.rules = {} /\ o.members = ap
    BY <2>1 DEF LateOutcome
  <2>3. o.late /\ o.late \in BOOLEAN
    BY <1>1, <2>2, Zenon
  <2> QED
    BY <1>1, <2>2, <2>3, Zenon
<1>2. CASE ~(ev.at < wm)
  <2>1. o = OnTimeOutcome(c, ms, wm, ev)
    BY <1>2 DEF Outcome
  <2> DEFINE new == LaterOf(wm, ev.at - Lateness)
             progs == AdvancedProgs(c, ap, new, ev)
             drained == DrainProgresses(progs, RebuildNegativeDeadlines(progs), new)
             rules == RulesOn(c, ap, ev)
  <2>2. o = [ev |-> ev, late |-> FALSE, wm |-> new, rules |-> rules,
             matches |-> o.matches,
             members |-> [m \in Member |-> [ap[m] EXCEPT !.progresses = drained[m]]],
             conf |-> c]
    BY <2>1 DEF OnTimeOutcome
  <2> HIDE DEF drained, new, rules
  <2>3. /\ o.ev = ev /\ o.conf = c /\ o.late = FALSE /\ o.wm = new /\ o.rules = rules
        /\ o.members = [m \in Member |-> [ap[m] EXCEPT !.progresses = drained[m]]]
    BY <2>2
  <2>4. \A m \in Member : "aggs" \in DOMAIN ap[m] => o.members[m].aggs = ap[m].aggs
    BY <2>3
  <2>5. ~o.late /\ o.late \in BOOLEAN
    BY <1>2, <2>3, Zenon
  <2> QED
    BY <1>2, <2>3, <2>4, <2>5, Zenon DEF new, rules
<1> QED
  BY <1>1, <1>2

\* A position of a log, and the state before it.
LEMMA LoggedAt ==
  ASSUME NEW h, Logged(h), NEW n \in Nat, n < Len(h)
  PROVE  /\ n + 1 \in 1..Len(h)
         /\ h[n+1].ev \in Events /\ h[n+1].conf \in Configs
         /\ h[n+1] = Outcome(h[n+1].conf, MembersAt(h, n), WatermarkAt(h, n), h[n+1].ev)
         /\ MembersAt(h, n + 1) = h[n+1].members /\ WatermarkAt(h, n + 1) = h[n+1].wm
         /\ Settled(MembersAt(h, n), WatermarkAt(h, n))
         /\ MembersTyped(MembersAt(h, n))
<1>1. PICK k \in 1..Len(h) : k = n + 1 /\ k - 1 = n
  BY DEF Logged
<1>2. MembersAt(h, n + 1) = h[n+1].members /\ WatermarkAt(h, n + 1) = h[n+1].wm
  BY DEF MembersAt, WatermarkAt
<1>3. Settled(MembersAt(h, n), WatermarkAt(h, n))
  <2>1. CASE n = 0
    BY <2>1, FreshSettled DEF MembersAt, WatermarkAt
  <2>2. CASE n # 0
    <3>1. n \in 1..Len(h)
      BY <2>2 DEF Logged
    <3> QED
      BY <2>2, <3>1 DEF Logged, MembersAt, WatermarkAt
  <2> QED
    BY <2>1, <2>2
<1>4. MembersTyped(MembersAt(h, n))
  BY <1>3 DEF Settled
<1> QED
  BY <1>1, <1>2, <1>3, <1>4 DEF Logged

\* What a position makes of the watermark.
LEMMA WatermarkStep ==
  ASSUME NEW h, Logged(h), NEW n \in Nat, n < Len(h), WatermarkAt(h, n) \in Int
  PROVE  /\ h[n+1].late \in BOOLEAN
         /\ h[n+1].late <=> h[n+1].ev.at < WatermarkAt(h, n)
         /\ WatermarkAt(h, n + 1) \in Int
         /\ WatermarkAt(h, n) <= WatermarkAt(h, n + 1)
         /\ h[n+1].ev.at - Lateness <= WatermarkAt(h, n + 1)
         /\ ~h[n+1].late => WatermarkAt(h, n + 1) <= LaterOf(WatermarkAt(h, n), h[n+1].ev.at)
<1> DEFINE o == h[n+1]
           ev == o.ev
           wm == WatermarkAt(h, n)
<1>1. /\ ev \in Events /\ o.conf \in Configs
      /\ o = Outcome(o.conf, MembersAt(h, n), wm, ev)
      /\ WatermarkAt(h, n + 1) = o.wm
  BY LoggedAt
<1>2. ev.at \in Int /\ Lateness \in Nat /\ wm \in Int
  BY <1>1, EventsAssumption, LatenessAssumption
<1> HIDE DEF o, ev, wm
<1>3. /\ o.late \in BOOLEAN /\ (o.late <=> ev.at < wm)
      /\ o.wm = IF o.late THEN wm ELSE LaterOf(wm, ev.at - Lateness)
  BY <1>1, OutcomeParts
<1>4. CASE o.late
  BY <1>1, <1>2, <1>3, <1>4 DEF o, ev, wm
<1>5. CASE ~o.late
  <2>1. o.wm = LaterOf(wm, ev.at - Lateness)
    BY <1>3, <1>5
  <2>2. o.wm \in Int /\ wm <= o.wm /\ ev.at - Lateness <= o.wm /\ o.wm <= LaterOf(wm, ev.at)
    BY <1>2, <2>1 DEF LaterOf
  <2> QED
    BY <1>1, <1>3, <1>5, <2>2 DEF o, ev, wm
<1> QED
  BY <1>4, <1>5

-----------------------------------------------------------------------------
(* Induction over the subsets of a finite set. *)

\* A family of subsets of a finite set that contains the empty one and, with a
\* subset, every larger one by an element, contains the whole.
LEMMA SubsetsFromEmpty ==
  ASSUME NEW S, IsFiniteSet(S), NEW P, {} \in P,
         \A T \in SUBSET S : \A x \in S \ T : T \in P => T \cup {x} \in P
  PROVE  S \in P
<1> DEFINE Q == {n \in Nat : \A T \in SUBSET S : Cardinality(T) = n => T \in P}
<1>1. 0 \in Q
  <2>1. \A T \in SUBSET S : Cardinality(T) = 0 => T = {}
    BY FS_Subset, FS_EmptySet
  <2> QED
    BY <2>1
<1>2. ASSUME NEW n \in Nat, n \in Q PROVE n + 1 \in Q
  <2> SUFFICES ASSUME NEW T \in SUBSET S, Cardinality(T) = n + 1 PROVE T \in P
    OBVIOUS
  <2>1. IsFiniteSet(T) /\ T # {}
    BY FS_Subset, FS_EmptySet
  <2>2. PICK x \in T : TRUE
    BY <2>1
  <2>3. Cardinality(T \ {x}) = n
    <3>1. Cardinality(T \ {x}) = Cardinality(T) - 1
      BY <2>1, <2>2, FS_RemoveElement
    <3> QED
      BY <3>1
  <2>4. T \ {x} \in P
    BY <1>2, <2>3
  <2>5. (T \ {x}) \cup {x} \in P /\ (T \ {x}) \cup {x} = T
    BY <2>4
  <2> QED
    BY <2>5
<1> HIDE DEF Q
<1>3. Nat \subseteq Q
  BY <1>1, <1>2, NumbersFromZero
<1>4. Cardinality(S) \in Q
  BY <1>3, FS_CardinalityType
<1> QED
  BY <1>4 DEF Q

\* A non-empty finite set of integers has a greatest and a least element.
LEMMA Extrema ==
  ASSUME NEW S, IsFiniteSet(S), S \subseteq Int, S # {}
  PROVE  /\ \E x \in S : \A y \in S : y <= x
         /\ \E x \in S : \A y \in S : x <= y
<1> DEFINE P == {T \in SUBSET S : T # {} =>
                   /\ \E x \in T : \A y \in T : y <= x
                   /\ \E x \in T : \A y \in T : x <= y}
<1>1. {} \in P
  OBVIOUS
<1>2. ASSUME NEW T \in SUBSET S, NEW x \in S \ T, T \in P PROVE T \cup {x} \in P
  <2> DEFINE U == T \cup {x}
  <2>1. CASE T = {}
    BY <2>1
  <2>2. CASE T # {}
    <3>1. PICK hi \in T : \A y \in T : y <= hi
      BY <1>2, <2>2
    <3>2. PICK lo \in T : \A y \in T : lo <= y
      BY <1>2, <2>2
    <3>3. \E z \in U : \A y \in U : y <= z
      <4>1. CASE x <= hi
        BY <3>1, <4>1
      <4>2. CASE hi <= x
        <5>1. \A y \in T : y <= x
          BY <3>1, <4>2
        <5> QED
          BY <5>1
      <4> QED
        BY <4>1, <4>2
    <3>4. \E z \in U : \A y \in U : z <= y
      <4>1. CASE lo <= x
        BY <3>2, <4>1
      <4>2. CASE x <= lo
        <5>1. \A y \in T : x <= y
          BY <3>2, <4>2
        <5> QED
          BY <5>1
      <4> QED
        BY <4>1, <4>2
    <3> QED
      BY <3>3, <3>4
  <2> QED
    BY <2>1, <2>2
<1> HIDE DEF P
<1>3. S \in P
  BY <1>1, <1>2, SubsetsFromEmpty
<1> QED
  BY <1>3 DEF P

\* Max and Min of such a set are its greatest and its least element.
LEMMA MaxMin ==
  ASSUME NEW S, IsFiniteSet(S), S \subseteq Int, S # {}
  PROVE  /\ Max(S) \in S /\ \A y \in S : y <= Max(S)
         /\ Min(S) \in S /\ \A y \in S : Min(S) <= y
<1>1. \E x \in S : \A y \in S : x >= y
  BY Extrema
<1>2. \E x \in S : \A y \in S : x <= y
  BY Extrema
<1>3. Max(S) \in S /\ \A y \in S : Max(S) >= y
  BY <1>1 DEF Max
<1>4. Min(S) \in S /\ \A y \in S : Min(S) <= y
  BY <1>2 DEF Min
<1> QED
  BY <1>3, <1>4

\* The image of a finite set is finite.
LEMMA ImageFinite ==
  ASSUME NEW f, IsFiniteSet(DOMAIN f)
  PROVE  IsFiniteSet({f[x] : x \in DOMAIN f})
<1> DEFINE g == [x \in DOMAIN f |-> f[x]]
           T == {f[x] : x \in DOMAIN f}
<1>1. g \in Surjection(DOMAIN f, T)
  BY DEF Surjection
<1> HIDE DEF g, T
<1>2. PICK k : k \in Surjection(DOMAIN f, T)
  BY <1>1
<1>3. IsFiniteSet(T)
  BY <1>2, FS_Surjection
<1> QED
  BY <1>3 DEF T

-----------------------------------------------------------------------------
(* Aggregates: sums. *)

Pick(s) == CHOOSE x \in s : TRUE

\* The sum of f over S, as MapThenSumSet computes it.
SumOver(f, S) ==
  LET iter[s \in SUBSET S] == IF s = {} THEN 0 ELSE f[Pick(s)] + iter[s \ {Pick(s)}]
  IN iter[S]

\* g has the partial sums over the sets in D.
Sums(g, f, D) == g = [s \in D |-> IF s = {} THEN 0 ELSE f[Pick(s)] + g[s \ {Pick(s)}]]

\* Taking the picked element away leaves a smaller set.
LEMMA PickSmaller ==
  ASSUME NEW s, IsFiniteSet(s), s # {}
  PROVE  /\ Pick(s) \in s
         /\ IsFiniteSet(s \ {Pick(s)})
         /\ Cardinality(s) \in Nat
         /\ Cardinality(s \ {Pick(s)}) = Cardinality(s) - 1
         /\ Cardinality(s \ {Pick(s)}) \in Nat
<1>1. Pick(s) \in s
  BY DEF Pick
<1> QED
  BY <1>1, FS_RemoveElement, FS_CardinalityType

\* The partial sums over a finite set are defined.
LEMMA SumsExist ==
  ASSUME NEW f, NEW S, IsFiniteSet(S)
  PROVE  \E g : Sums(g, f, SUBSET S)
<1> DEFINE Upto(n) == {s \in SUBSET S : Cardinality(s) <= n}
           P == {n \in Nat : \E g : Sums(g, f, Upto(n))}
<1>1. 0 \in P
  <2> DEFINE g == [s \in Upto(0) |-> 0]
  <2>1. \A s \in Upto(0) : s = {}
    <3> SUFFICES ASSUME NEW s \in SUBSET S, Cardinality(s) <= 0 PROVE s = {}
      OBVIOUS
    <3>1. IsFiniteSet(s)
      BY FS_Subset
    <3> QED
      BY <3>1, FS_CardinalityType, FS_EmptySet
  <2>2. Sums(g, f, Upto(0))
    BY <2>1 DEF Sums
  <2> QED
    BY <2>2
<1>2. ASSUME NEW n \in Nat, n \in P PROVE n + 1 \in P
  <2>1. PICK g : Sums(g, f, Upto(n))
    BY <1>2
  <2> DEFINE h == [s \in Upto(n + 1) |-> IF s = {} THEN 0 ELSE f[Pick(s)] + g[s \ {Pick(s)}]]
  <2>2. ASSUME NEW s \in Upto(n + 1), s # {}
        PROVE  s \ {Pick(s)} \in Upto(n) /\ s \ {Pick(s)} \in Upto(n + 1)
    <3>1. IsFiniteSet(s) /\ s \ {Pick(s)} \in SUBSET S
      BY FS_Subset
    <3>2. Cardinality(s \ {Pick(s)}) <= n
      BY <2>2, <3>1, PickSmaller
    <3>3. Cardinality(s \ {Pick(s)}) \in Nat
      BY <2>2, <3>1, PickSmaller
    <3> QED
      BY <3>1, <3>2, <3>3
  <2>3. \A s \in Upto(n) : s \in Upto(n + 1)
    <3> SUFFICES ASSUME NEW s \in Upto(n) PROVE s \in Upto(n + 1)
      OBVIOUS
    <3>1. Cardinality(s) \in Nat
      BY FS_Subset, FS_CardinalityType
    <3> QED
      BY <3>1
  <2> HIDE DEF Upto
  <2>4. \A s \in Upto(n) : h[s] = g[s]
    BY <2>1, <2>3 DEF Sums
  <2>5. h = [s \in Upto(n + 1) |-> IF s = {} THEN 0 ELSE f[Pick(s)] + h[s \ {Pick(s)}]]
    BY <2>2, <2>4
  <2>6. Sums(h, f, Upto(n + 1))
    BY <2>5 DEF Sums
  <2> QED
    BY <2>6
<1> HIDE DEF P
<1>3. Cardinality(S) \in P
  BY <1>1, <1>2, NumbersFromZero, FS_CardinalityType
<1>4. Upto(Cardinality(S)) = SUBSET S
  BY FS_Subset
<1> QED
  BY <1>3, <1>4 DEF P

\* Partial sums agree on the sets they share.
LEMMA SumsAgree ==
  ASSUME NEW f, NEW S, NEW T, IsFiniteSet(S), NEW g, NEW h,
         Sums(g, f, SUBSET S), Sums(h, f, SUBSET T)
  PROVE  \A s \in SUBSET (S \cap T) : g[s] = h[s]
<1> DEFINE P == {n \in Nat : \A s \in SUBSET (S \cap T) : Cardinality(s) = n => g[s] = h[s]}
<1>1. \A s \in SUBSET (S \cap T) : IsFiniteSet(s) /\ s \in SUBSET S /\ s \in SUBSET T
  BY FS_Subset
<1>2. \A s \in SUBSET (S \cap T) :
        /\ g[s] = IF s = {} THEN 0 ELSE f[Pick(s)] + g[s \ {Pick(s)}]
        /\ h[s] = IF s = {} THEN 0 ELSE f[Pick(s)] + h[s \ {Pick(s)}]
  BY <1>1 DEF Sums
<1>3. 0 \in P
  BY <1>1, <1>2, FS_EmptySet
<1>4. ASSUME NEW n \in Nat, n \in P PROVE n + 1 \in P
  <2> SUFFICES ASSUME NEW s \in SUBSET (S \cap T), Cardinality(s) = n + 1
               PROVE  g[s] = h[s]
    OBVIOUS
  <2>1. s # {}
    BY FS_EmptySet
  <2>2. Cardinality(s \ {Pick(s)}) = n
    <3>1. Cardinality(s \ {Pick(s)}) = Cardinality(s) - 1
      BY <1>1, <2>1, PickSmaller
    <3> QED
      BY <3>1
  <2>3. g[s \ {Pick(s)}] = h[s \ {Pick(s)}]
    BY <1>4, <2>2
  <2> QED
    BY <1>2, <2>1, <2>3
<1> HIDE DEF P
<1>5. Nat \subseteq P
  BY <1>3, <1>4, NumbersFromZero
<1>6. \A s \in SUBSET (S \cap T) : Cardinality(s) \in P
  BY <1>1, <1>5, FS_CardinalityType
<1> QED
  BY <1>6 DEF P

\* A sum is that of the picked element and of the rest.
LEMMA SumUnfolds ==
  ASSUME NEW f, NEW S, IsFiniteSet(S)
  PROVE  SumOver(f, S) = IF S = {} THEN 0 ELSE f[Pick(S)] + SumOver(f, S \ {Pick(S)})
<1> DEFINE R == S \ {Pick(S)}
           g == CHOOSE k : Sums(k, f, SUBSET S)
           h == CHOOSE k : Sums(k, f, SUBSET R)
<1>1. SumOver(f, S) = g[S] /\ SumOver(f, R) = h[R]
  BY Zenon DEF SumOver, Sums
<1>2. IsFiniteSet(R)
  BY FS_Subset
<1>3. Sums(g, f, SUBSET S)
  BY SumsExist
<1>4. Sums(h, f, SUBSET R)
  BY <1>2, SumsExist
<1>5. g[S] = IF S = {} THEN 0 ELSE f[Pick(S)] + g[R]
  BY <1>3 DEF Sums
<1>6. g[R] = h[R]
  <2>1. R \in SUBSET (S \cap R)
    OBVIOUS
  <2> HIDE DEF g, h, R
  <2> QED
    BY <1>3, <1>4, <2>1, SumsAgree
<1> HIDE DEF g, h
<1> QED
  BY <1>1, <1>5, <1>6

\* The sum of integers is an integer.
LEMMA SumType ==
  ASSUME NEW f, NEW S, IsFiniteSet(S), \A x \in S : f[x] \in Int
  PROVE  SumOver(f, S) \in Int
<1> DEFINE P == {n \in Nat : \A s \in SUBSET S : Cardinality(s) = n => SumOver(f, s) \in Int}
<1>1. \A s \in SUBSET S : IsFiniteSet(s)
  BY FS_Subset
<1>2. 0 \in P
  <2>1. \A s \in SUBSET S : Cardinality(s) = 0 => s = {}
    BY <1>1, FS_EmptySet
  <2>2. SumOver(f, {}) = 0
    BY SumUnfolds, FS_EmptySet
  <2> QED
    BY <2>1, <2>2
<1>3. ASSUME NEW n \in Nat, n \in P PROVE n + 1 \in P
  <2> SUFFICES ASSUME NEW s \in SUBSET S, Cardinality(s) = n + 1 PROVE SumOver(f, s) \in Int
    OBVIOUS
  <2>1. s # {}
    BY FS_EmptySet
  <2>2. Pick(s) \in s /\ Cardinality(s \ {Pick(s)}) = Cardinality(s) - 1
    BY <1>1, <2>1, PickSmaller
  <2>3. Cardinality(s \ {Pick(s)}) = n
    BY <2>2
  <2>4. SumOver(f, s \ {Pick(s)}) \in Int
    BY <1>3, <2>3
  <2>5. SumOver(f, s) = f[Pick(s)] + SumOver(f, s \ {Pick(s)})
    BY <1>1, <2>1, SumUnfolds
  <2> QED
    BY <2>2, <2>4, <2>5
<1> HIDE DEF P
<1>4. Cardinality(S) \in P
  BY <1>2, <1>3, NumbersFromZero, FS_CardinalityType
<1> QED
  BY <1>4 DEF P

\* The element that is added last may be any.
LEMMA SumAdds ==
  ASSUME NEW f, NEW S, IsFiniteSet(S), \A x \in S : f[x] \in Int
  PROVE  \A x \in S : SumOver(f, S) = f[x] + SumOver(f, S \ {x})
<1> DEFINE P == {n \in Nat : \A s \in SUBSET S : Cardinality(s) = n =>
                                \A x \in s : SumOver(f, s) = f[x] + SumOver(f, s \ {x})}
<1>1. \A s \in SUBSET S : IsFiniteSet(s) /\ SumOver(f, s) \in Int
  <2> SUFFICES ASSUME NEW s \in SUBSET S PROVE IsFiniteSet(s) /\ SumOver(f, s) \in Int
    OBVIOUS
  <2>1. IsFiniteSet(s)
    BY FS_Subset
  <2> QED
    BY <2>1, SumType
<1>2. 0 \in P
  <2>1. \A s \in SUBSET S : Cardinality(s) = 0 => s = {}
    BY <1>1, FS_EmptySet
  <2> QED
    BY <2>1
<1>3. ASSUME NEW n \in Nat, n \in P PROVE n + 1 \in P
  <2> SUFFICES ASSUME NEW s \in SUBSET S, Cardinality(s) = n + 1, NEW x \in s
               PROVE  SumOver(f, s) = f[x] + SumOver(f, s \ {x})
    OBVIOUS
  <2> DEFINE c == Pick(s)
  <2>1. SumOver(f, s) = f[c] + SumOver(f, s \ {c})
    BY <1>1, SumUnfolds
  <2>2. c \in s
    BY DEF Pick
  <2> HIDE DEF c
  <2>3. CASE x = c
    BY <2>1, <2>3
  <2>4. CASE x # c
    <3>1. \A y \in s : Cardinality(s \ {y}) = n
      <4> SUFFICES ASSUME NEW y \in s PROVE Cardinality(s \ {y}) = n
        OBVIOUS
      <4>1. Cardinality(s \ {y}) = Cardinality(s) - 1
        BY <1>1, FS_RemoveElement
      <4> QED
        BY <4>1
    <3>2. SumOver(f, s \ {c}) = f[x] + SumOver(f, (s \ {c}) \ {x})
      BY <1>3, <2>2, <2>4, <3>1
    <3>3. SumOver(f, s \ {x}) = f[c] + SumOver(f, (s \ {x}) \ {c})
      BY <1>3, <2>2, <2>4, <3>1
    <3>4. (s \ {c}) \ {x} = (s \ {x}) \ {c}
      OBVIOUS
    <3>5. f[c] \in Int /\ f[x] \in Int /\ SumOver(f, (s \ {x}) \ {c}) \in Int
      BY <1>1, <2>2
    <3>6. \A u, v, w \in Int : u + (v + w) = v + (u + w)
      OBVIOUS
    <3>7. f[c] + (f[x] + SumOver(f, (s \ {x}) \ {c})) = f[x] + (f[c] + SumOver(f, (s \ {x}) \ {c}))
      BY <3>5, <3>6
    <3> QED
      BY <2>1, <3>2, <3>3, <3>4, <3>7
  <2> QED
    BY <2>3, <2>4
<1> HIDE DEF P
<1>4. Cardinality(S) \in P
  BY <1>2, <1>3, NumbersFromZero, FS_CardinalityType
<1> QED
  BY <1>4 DEF P

\* Functions that agree on a set have one sum over it.
LEMMA SumSame ==
  ASSUME NEW f, NEW g, NEW S, IsFiniteSet(S), \A x \in S : f[x] = g[x] /\ f[x] \in Int
  PROVE  SumOver(f, S) = SumOver(g, S)
<1> DEFINE P == {T \in SUBSET S : SumOver(f, T) = SumOver(g, T)}
<1>1. {} \in P
  BY SumUnfolds, FS_EmptySet
<1>2. ASSUME NEW T \in SUBSET S, NEW x \in S \ T, T \in P PROVE T \cup {x} \in P
  <2> DEFINE U == T \cup {x}
  <2>1. IsFiniteSet(U) /\ x \in U /\ U \ {x} = T
    BY FS_Subset
  <2>2. /\ \A y \in U : f[y] \in Int
        /\ \A y \in U : g[y] \in Int
    OBVIOUS
  <2> HIDE DEF U
  <2>3. SumOver(f, U) = f[x] + SumOver(f, T)
    BY <2>1, <2>2, SumAdds
  <2>4. SumOver(g, U) = g[x] + SumOver(g, T)
    BY <2>1, <2>2, SumAdds
  <2> QED
    BY <1>2, <2>3, <2>4 DEF U
<1> HIDE DEF P
<1>3. S \in P
  BY <1>1, <1>2, SubsetsFromEmpty
<1> QED
  BY <1>3 DEF P

\* The sum over two sets without a common element.
LEMMA SumUnion ==
  ASSUME NEW f, NEW S, IsFiniteSet(S), NEW T, IsFiniteSet(T), S \cap T = {},
         \A x \in S \cup T : f[x] \in Int
  PROVE  SumOver(f, S \cup T) = SumOver(f, S) + SumOver(f, T)
<1> DEFINE P == {V \in SUBSET T : SumOver(f, S \cup V) = SumOver(f, S) + SumOver(f, V)}
<1>1. \A V \in SUBSET T : IsFiniteSet(V) /\ IsFiniteSet(S \cup V) /\ SumOver(f, V) \in Int
  <2> SUFFICES ASSUME NEW V \in SUBSET T
               PROVE  IsFiniteSet(V) /\ IsFiniteSet(S \cup V) /\ SumOver(f, V) \in Int
    OBVIOUS
  <2>1. IsFiniteSet(V)
    BY FS_Subset
  <2> QED
    BY <2>1, FS_Union, SumType
<1>2. SumOver(f, S) \in Int
  BY SumType
<1>3. {} \in P
  <2>1. SumOver(f, {}) = 0 /\ S \cup {} = S
    BY SumUnfolds, FS_EmptySet
  <2> QED
    BY <1>2, <2>1
<1>4. ASSUME NEW V \in SUBSET T, NEW x \in T \ V, V \in P PROVE V \cup {x} \in P
  <2> DEFINE W == V \cup {x}
             A == S \cup W
  <2>1. x \in W /\ W \ {x} = V /\ x \in A /\ A \ {x} = S \cup V
    OBVIOUS
  <2>2. IsFiniteSet(W) /\ IsFiniteSet(A)
    BY <1>1
  <2>3. (\A y \in W : f[y] \in Int) /\ (\A y \in A : f[y] \in Int)
    OBVIOUS
  <2> HIDE DEF W, A
  <2>4. SumOver(f, W) = f[x] + SumOver(f, V)
    BY <2>1, <2>2, <2>3, SumAdds
  <2>5. SumOver(f, A) = f[x] + SumOver(f, S \cup V)
    BY <2>1, <2>2, <2>3, SumAdds
  <2>6. SumOver(f, A) = SumOver(f, S) + SumOver(f, W)
    <3>1. \A u, v, w \in Int : u + (v + w) = v + (u + w)
      OBVIOUS
    <3>2. f[x] \in Int /\ SumOver(f, V) \in Int
      BY <1>1
    <3>3. f[x] + (SumOver(f, S) + SumOver(f, V)) = SumOver(f, S) + (f[x] + SumOver(f, V))
      BY <1>2, <3>1, <3>2
    <3> QED
      BY <1>4, <2>4, <2>5, <3>3
  <2> QED
    BY <2>6 DEF W, A
<1> HIDE DEF P
<1>5. T \in P
  BY <1>3, <1>4, SubsetsFromEmpty
<1> QED
  BY <1>5 DEF P

\* A measure of the subsets of U that adds up over disjoint sets.
Additive(V, U) ==
  /\ \A A \in SUBSET U : V[A] \in Int
  /\ V[{}] = 0
  /\ \A A, B \in SUBSET U : A \cap B = {} => V[A \cup B] = V[A] + V[B]

\* Summed over the parts of a partition, it is the measure of the whole.
LEMMA SumPartition ==
  ASSUME NEW I, IsFiniteSet(I), NEW U, NEW V, Additive(V, U),
         NEW E, \A i \in I : E[i] \in SUBSET U,
         \A x \in U : \E i \in I : x \in E[i],
         \A i, j \in I : i # j => E[i] \cap E[j] = {},
         NEW f, \A i \in I : f[i] = V[E[i]]
  PROVE  SumOver(f, I) = V[U]
<1> DEFINE Whole(J) == UNION {E[i] : i \in J}
           P == {J \in SUBSET I : SumOver(f, J) = V[Whole(J)]}
<1>1. \A i \in I : f[i] \in Int /\ f[i] = V[E[i]]
  BY DEF Additive
<1>2. {} \in P
  <2>1. SumOver(f, {}) = 0 /\ Whole({}) = {}
    BY SumUnfolds, FS_EmptySet
  <2> QED
    BY <2>1 DEF Additive
<1>3. ASSUME NEW J \in SUBSET I, NEW i \in I \ J, J \in P PROVE J \cup {i} \in P
  <2> DEFINE K == J \cup {i}
  <2>1. i \in K /\ K \ {i} = J /\ IsFiniteSet(K) /\ \A k \in K : f[k] \in Int
    BY <1>1, FS_Subset
  <2>2. Whole(K) = Whole(J) \cup E[i] /\ Whole(J) \cap E[i] = {}
    OBVIOUS
  <2>3. Whole(J) \in SUBSET U /\ E[i] \in SUBSET U
    OBVIOUS
  <2> HIDE DEF K, Whole
  <2>4. SumOver(f, K) = f[i] + SumOver(f, J)
    BY <2>1, SumAdds
  <2>5. V[Whole(J) \cup E[i]] = V[Whole(J)] + V[E[i]] /\ V[Whole(J)] \in Int /\ V[E[i]] \in Int
    BY <2>2, <2>3 DEF Additive
  <2>6. SumOver(f, K) = V[Whole(K)]
    BY <1>1, <1>3, <2>2, <2>4, <2>5
  <2> QED
    BY <2>6 DEF K
<1> HIDE DEF P
<1>4. I \in P
  BY <1>2, <1>3, SubsetsFromEmpty
<1>5. Whole(I) = U
  OBVIOUS
<1> QED
  BY <1>4, <1>5 DEF P

-----------------------------------------------------------------------------
(* Aggregates: buckets of time, windows, the watermark. *)

\* A bucket starts at its events or before, and the buckets follow time.
LEMMA Aligned ==
  /\ \A t \in Int : AlignBucket(t) \in Int /\ AlignBucket(t) <= t
  /\ \A t, u \in Int : t <= u => AlignBucket(t) <= AlignBucket(u)
<1>1. ASSUME NEW t \in Int PROVE AlignBucket(t) \in Int /\ AlignBucket(t) <= t
  <2>1. t % BucketSize \in 0..(BucketSize - 1)
    BY BucketSizeAssumption
  <2> QED
    BY <2>1, BucketSizeAssumption DEF AlignBucket
<1>2. ASSUME NEW B \in Nat \ {0}, NEW t \in Int, NEW u \in Int, t <= u
      PROVE  t - (t % B) <= u - (u % B)
  BY <1>2
<1>3. \A t, u \in Int : t <= u => AlignBucket(t) <= AlignBucket(u)
  BY <1>2, BucketSizeAssumption DEF AlignBucket
<1> QED
  BY <1>1, <1>3

\* The retention of a configuration is a time span.
LEMMA MaxWindowInt ==
  ASSUME NEW c \in Configs
  PROVE  MaxWindowOf(c.rules) \in Int
<1> DEFINE T == {r.window : r \in c.rules}
           W == {0} \cup (T \ {NoWindow})
<1>1. c.rules \subseteq Rules /\ IsFiniteSet(c.rules)
  BY ConfigsAssumption, RulesAssumption, FS_Subset
<1>2. T \subseteq Int \cup {NoWindow}
  BY <1>1, RulesAssumption
<1>3. IsFiniteSet(T)
  <2> DEFINE f == [r \in c.rules |-> r.window]
  <2>1. DOMAIN f = c.rules /\ T = {f[x] : x \in DOMAIN f}
    OBVIOUS
  <2> HIDE DEF f, T
  <2> QED
    BY <1>1, <2>1, ImageFinite
<1>4. IsFiniteSet(W) /\ W \subseteq Int /\ W # {}
  <2>1. IsFiniteSet(T \ {NoWindow})
    BY <1>3, FS_Subset
  <2>2. IsFiniteSet(W)
    BY <2>1, FS_Union, FS_Singleton
  <2> QED
    BY <1>2, <2>2
<1>5. Max(W) \in Int
  <2> HIDE DEF W
  <2> QED
    BY <1>4, MaxMin
<1> QED
  BY <1>5, WindowAssumption DEF MaxWindowOf

-----------------------------------------------------------------------------
(* Aggregates: a bucket and its events. *)

Val == [e \in Events |-> e.val]
Numeric(evs) == {e \in evs : e.val # NoNum}
Vals(evs) == {e.val : e \in Numeric(evs)}

\* The bucket d counts each of the events evs once, and nothing else.
ExactBucket(d, evs) ==
  /\ d.ids = {e.id : e \in evs}
  /\ d.count = Cardinality(evs)
  /\ d.sum = SumOver(Val, Numeric(evs))
  /\ d.max = IF Vals(evs) = {} THEN NoNum ELSE Max(Vals(evs))
  /\ d.min = IF Vals(evs) = {} THEN NoNum ELSE Min(Vals(evs))

\* An element above (below) all others is the maximum (minimum).
LEMMA MaxMinIs ==
  ASSUME NEW S, IsFiniteSet(S), S \subseteq Int, NEW x \in S
  PROVE  /\ (\A y \in S : y <= x) => Max(S) = x
         /\ (\A y \in S : x <= y) => Min(S) = x
<1>1. /\ Max(S) \in S /\ \A y \in S : y <= Max(S)
      /\ Min(S) \in S /\ \A y \in S : Min(S) <= y
  BY MaxMin
<1> DEFINE hi == Max(S)
           lo == Min(S)
<1>2. /\ hi \in S /\ \A y \in S : y <= hi
      /\ lo \in S /\ \A y \in S : lo <= y
  BY <1>1
<1> HIDE DEF hi, lo
<1>3. /\ (\A y \in S : y <= x) => hi = x
      /\ (\A y \in S : x <= y) => lo = x
  BY <1>2
<1> QED
  BY <1>3 DEF hi, lo

\* The numbers among finitely many events.
LEMMA NumericFinite ==
  ASSUME NEW evs \in SUBSET Events, IsFiniteSet(evs)
  PROVE  /\ IsFiniteSet(Numeric(evs))
         /\ IsFiniteSet(Vals(evs)) /\ Vals(evs) \subseteq Int
         /\ \A e \in Numeric(evs) : Val[e] = e.val /\ Val[e] \in Int
<1>1. IsFiniteSet(Numeric(evs))
  BY FS_Subset DEF Numeric
<1>2. \A e \in Numeric(evs) : Val[e] = e.val /\ Val[e] \in Int
  BY EventsAssumption DEF Numeric, Val
<1>3. Vals(evs) \subseteq Int
  BY <1>2 DEF Vals
<1>4. IsFiniteSet(Vals(evs))
  <2> DEFINE f == [e \in Numeric(evs) |-> e.val]
  <2>1. DOMAIN f = Numeric(evs) /\ Vals(evs) = {f[x] : x \in DOMAIN f}
    BY DEF Vals
  <2> HIDE DEF f
  <2> QED
    BY <1>1, <2>1, ImageFinite
<1> QED
  BY <1>1, <1>2, <1>3, <1>4

\* The bucket that has seen nothing.
LEMMA NewBucketExact == ExactBucket(NewBucketData, {})
<1>1. Numeric({}) = {} /\ Vals({}) = {}
  BY DEF Numeric, Vals
<1>2. SumOver(Val, {}) = 0 /\ Cardinality({}) = 0
  BY SumUnfolds, FS_EmptySet
<1> QED
  BY <1>1, <1>2 DEF ExactBucket, NewBucketData

\* Larger and Smaller keep the extrema when a value is added.
LEMMA ExtremaAdd ==
  ASSUME NEW S, IsFiniteSet(S), S \subseteq Int, NEW v \in Int
  PROVE  /\ Larger(IF S = {} THEN NoNum ELSE Max(S), v) = Max(S \cup {v})
         /\ Smaller(IF S = {} THEN NoNum ELSE Min(S), v) = Min(S \cup {v})
<1>1. NoNum \notin Int
  BY WindowAssumption
<1>2. IsFiniteSet(S \cup {v}) /\ S \cup {v} \subseteq Int /\ v \in S \cup {v}
  BY FS_Union, FS_Singleton
<1>3. CASE S = {}
  <2>1. \A y \in S \cup {v} : y <= v /\ v <= y
    BY <1>3
  <2>2. Max(S \cup {v}) = v /\ Min(S \cup {v}) = v
    BY <1>2, <2>1, MaxMinIs
  <2> QED
    BY <1>3, <2>2 DEF Larger, Smaller
<1>4. CASE S # {}
  <2> DEFINE hi == Max(S)
             lo == Min(S)
             T == S \cup {v}
  <2>1. /\ hi \in S /\ \A y \in S : y <= hi
        /\ lo \in S /\ \A y \in S : lo <= y
    BY <1>4, MaxMin
  <2>2. hi \in Int /\ lo \in Int /\ hi # NoNum /\ lo # NoNum /\ v # NoNum
    BY <1>1, <2>1
  <2> HIDE DEF hi, lo
  <2>3. /\ IF v > hi THEN \A y \in T : y <= v ELSE \A y \in T : y <= hi
        /\ IF v < lo THEN \A y \in T : v <= y ELSE \A y \in T : lo <= y
    BY <2>1, <2>2
  <2>4. hi \in T /\ lo \in T /\ v \in T /\ IsFiniteSet(T) /\ T \subseteq Int
    BY <1>2, <2>1
  <2> HIDE DEF T
  <2>5. Max(T) = IF v > hi THEN v ELSE hi
    BY <2>3, <2>4, MaxMinIs
  <2>6. Min(T) = IF v < lo THEN v ELSE lo
    BY <2>3, <2>4, MaxMinIs
  <2>7. Larger(hi, v) = Max(T) /\ Smaller(lo, v) = Min(T)
    BY <2>2, <2>5, <2>6 DEF Larger, Smaller
  <2> QED
    BY <1>4, <2>7 DEF hi, lo, T
<1> QED
  BY <1>3, <1>4

\* An event counted into a bucket is one event more in it.
LEMMA CountIntoExact ==
  ASSUME NEW evs \in SUBSET Events, IsFiniteSet(evs), NEW d, ExactBucket(d, evs),
         NEW ev \in Events \ evs
  PROVE  ExactBucket(CountInto(d, ev.id, ev.val), evs \cup {ev})
<1> DEFINE all == evs \cup {ev}
           new == CountInto(d, ev.id, ev.val)
<1>1. new = [count |-> d.count + 1,
             sum   |-> IF ev.val = NoNum THEN d.sum ELSE d.sum + ev.val,
             max   |-> IF ev.val = NoNum THEN d.max ELSE Larger(d.max, ev.val),
             min   |-> IF ev.val = NoNum THEN d.min ELSE Smaller(d.min, ev.val),
             ids   |-> d.ids \cup {ev.id}]
  BY DEF CountInto
<1>2. all \in SUBSET Events /\ IsFiniteSet(all)
  BY FS_AddElement
<1>3. new.ids = {e.id : e \in all}
  BY <1>1 DEF ExactBucket
<1>4. new.count = Cardinality(all)
  <2>1. Cardinality(all) = Cardinality(evs) + 1
    BY FS_AddElement
  <2>2. new.count = d.count + 1
    BY <1>1
  <2> QED
    BY <2>1, <2>2 DEF ExactBucket
<1> HIDE DEF new, all
<1>5. CASE ev.val = NoNum
  <2>1. Numeric(all) = Numeric(evs)
    BY <1>5 DEF Numeric, all
  <2>2. Vals(all) = Vals(evs)
    BY <2>1 DEF Vals
  <2>3. new.sum = d.sum /\ new.max = d.max /\ new.min = d.min
    BY <1>1, <1>5
  <2> QED
    BY <1>3, <1>4, <2>1, <2>2, <2>3 DEF ExactBucket, new, all
<1>6. CASE ev.val # NoNum
  <2>1. ev \in Numeric(all) /\ Numeric(all) \ {ev} = Numeric(evs)
    BY <1>6 DEF Numeric, all
  <2>2. Vals(all) = Vals(evs) \cup {ev.val}
    <3>1. Numeric(all) = Numeric(evs) \cup {ev}
      BY <2>1
    <3> QED
      BY <3>1 DEF Vals
  <2>3. /\ new.sum = d.sum + ev.val
        /\ new.max = Larger(d.max, ev.val) /\ new.min = Smaller(d.min, ev.val)
    BY <1>1, <1>6
  <2>4. SumOver(Val, Numeric(all)) = Val[ev] + SumOver(Val, Numeric(evs))
    <3>1. IsFiniteSet(Numeric(all)) /\ \A e \in Numeric(all) : Val[e] \in Int
      BY <1>2, NumericFinite
    <3> QED
      BY <2>1, <3>1, SumAdds
  <2>5. Val[ev] = ev.val /\ ev.val \in Int
    BY <1>6, EventsAssumption DEF Val
  <2>6. SumOver(Val, Numeric(evs)) \in Int
    BY NumericFinite, SumType
  <2>7. new.sum = SumOver(Val, Numeric(all))
    <3>1. \A a, b \in Int : a + b = b + a
      OBVIOUS
    <3>2. Val[ev] + SumOver(Val, Numeric(evs)) = SumOver(Val, Numeric(evs)) + Val[ev]
      BY <2>5, <2>6, <3>1
    <3> QED
      BY <2>3, <2>4, <2>5, <3>2 DEF ExactBucket
  <2>8. new.max = Max(Vals(all)) /\ new.min = Min(Vals(all)) /\ Vals(all) # {}
    <3>1. IsFiniteSet(Vals(evs)) /\ Vals(evs) \subseteq Int
      BY NumericFinite
    <3> QED
      BY <2>2, <2>3, <2>5, <3>1, ExtremaAdd DEF ExactBucket
  <2> QED
    BY <1>3, <1>4, <2>7, <2>8 DEF ExactBucket, new, all
<1> QED
  BY <1>5, <1>6

-----------------------------------------------------------------------------
(* Aggregates: the buckets of a log. *)

\* A function, whatever its domain, and one with the behaviors as its domain.
IsFcn(f) == f = [x \in DOMAIN f |-> f[x]]
ByBehavior(aggs) == aggs = [b \in Behavior |-> aggs[b]]

\* The events of member m and behavior b in the bucket ts, among the first n.
EventsAt(h, n, m, b, ts) ==
  {h[i].ev : i \in {j \in 1..n : /\ h[j].ev.member = m
                                 /\ h[j].ev.behavior = b
                                 /\ AlignBucket(h[j].ev.at) = ts}}

\* No pruning among the first n positions could have reached the bucket ts.
Retained(h, n, ts) ==
  \A i \in 1..n : ts >= AlignBucket(h[i].ev.at - MaxWindowOf(h[i].conf.rules))

\* The buckets bs of member m and behavior b after n positions.
BucketsExact(bs, h, n, m, b) ==
  /\ IsFcn(bs)
  /\ DOMAIN bs \subseteq {AlignBucket(h[i].ev.at) : i \in 1..n}
  /\ \A ts \in Int : Retained(h, n, ts) =>
       /\ ts \in DOMAIN bs <=> EventsAt(h, n, m, b, ts) # {}
       /\ ts \in DOMAIN bs => ExactBucket(bs[ts], EventsAt(h, n, m, b, ts))

AggsExact(ms, h, n) ==
  \A m \in Member :
    /\ ByBehavior(ms[m].aggs)
    /\ \A b \in Behavior : BucketsExact(ms[m].aggs[b], h, n, m, b)

\* What updateAggregations does to the buckets: the event's own, when pruning
\* does not reach it, counts the event unless it has its id; all others that
\* pruning does not reach stay.
LEMMA UpdateEffect ==
  ASSUME NEW bs, IsFcn(bs), NEW id, NEW at \in Int, NEW v, NEW w \in Int,
         NEW new, new = UpdateAggregations(bs, id, at, v, w),
         NEW ts, ts = AlignBucket(at),
         NEW b, b = IF ts \in DOMAIN bs THEN bs[ts] ELSE NewBucketData
  PROVE  /\ IsFcn(new)
         /\ DOMAIN new \subseteq DOMAIN bs \cup {ts}
         /\ \A x \in Int : x >= AlignBucket(at - w) /\ x # ts =>
              /\ x \in DOMAIN new <=> x \in DOMAIN bs
              /\ x \in DOMAIN new => new[x] = bs[x]
         /\ ts >= AlignBucket(at - w) =>
              /\ ts \in DOMAIN new
              /\ id \in b.ids => new[ts] = b
              /\ id \notin b.ids => new[ts] = CountInto(b, id, v)
<1> DEFINE low == AlignBucket(at - w)
           D == {x \in DOMAIN bs \cup {ts} : x >= low}
<1>1. CASE id \in b.ids
  <2>1. new = bs
    BY <1>1 DEF UpdateAggregations
  <2>2. ts \in DOMAIN bs
    BY <1>1 DEF NewBucketData
  <2> HIDE DEF low
  <2> QED
    BY <1>1, <2>1, <2>2
<1>2. CASE id \notin b.ids
  <2>1. new = [x \in D |-> IF x = ts THEN CountInto(b, id, v) ELSE bs[x]]
    BY <1>2 DEF UpdateAggregations, PruneExpiredBuckets
  <2>2. DOMAIN new = D /\ \A x \in D : new[x] = IF x = ts THEN CountInto(b, id, v) ELSE bs[x]
    BY <2>1
  <2>3. IsFcn(new)
    BY <2>1 DEF IsFcn
  <2> HIDE DEF low
  <2> QED
    BY <1>2, <2>2, <2>3 DEF low
<1> QED
  BY <1>1, <1>2

\* The events of a bucket are finitely many.
LEMMA EventsAtFinite ==
  ASSUME NEW h, Logged(h), NEW n \in Nat, n < Len(h), NEW m, NEW b, NEW ts
  PROVE  /\ EventsAt(h, n, m, b, ts) \in SUBSET Events
         /\ IsFiniteSet(EventsAt(h, n, m, b, ts))
<1> DEFINE I == {j \in 1..n : h[j].ev.member = m /\ h[j].ev.behavior = b /\ AlignBucket(h[j].ev.at) = ts}
           f == [i \in I |-> h[i].ev]
<1>1. 1..n \subseteq 1..Len(h)
  BY DEF Logged
<1>2. EventsAt(h, n, m, b, ts) \in SUBSET Events
  BY <1>1 DEF Logged, EventsAt
<1>3. IsFiniteSet(EventsAt(h, n, m, b, ts))
  <2>1. IsFiniteSet(I)
    <3>1. IsFiniteSet(1..n)
      BY FS_Interval
    <3> QED
      BY <3>1, FS_Subset
  <2>2. DOMAIN f = I /\ EventsAt(h, n, m, b, ts) = {f[x] : x \in DOMAIN f}
    BY DEF EventsAt
  <2> HIDE DEF I, f
  <2> QED
    BY <2>1, <2>2, ImageFinite
<1> QED
  BY <1>2, <1>3

\* What is retained now was retained before.
LEMMA RetainedBefore ==
  ASSUME NEW h, Logged(h), NEW n \in Nat, n < Len(h), NEW ts \in Int, Retained(h, n + 1, ts)
  PROVE  /\ Retained(h, n, ts)
         /\ ts >= AlignBucket(h[n+1].ev.at - MaxWindowOf(h[n+1].conf.rules))
<1>1. 1..(n + 1) = (1..n) \cup {n + 1} /\ n + 1 \in 1..(n + 1)
  OBVIOUS
<1> QED
  BY <1>1 DEF Retained

\* A position keeps every set of buckets exact: the event's own is counted into,
\* unless it has the id and thereby, an id being one event's, the event.
LEMMA BucketsStep ==
  ASSUME NEW h, Logged(h), NEW n \in Nat, n < Len(h), NEW m \in Member, NEW b \in Behavior,
         NEW bs, BucketsExact(bs, h, n, m, b),
         NEW ev, ev = h[n+1].ev, NEW w, w = MaxWindowOf(h[n+1].conf.rules)
  PROVE  BucketsExact(IF m = ev.member /\ b = ev.behavior
                      THEN UpdateAggregations(bs, ev.id, ev.at, ev.val, w) ELSE bs,
                      h, n + 1, m, b)
<1> DEFINE own == m = ev.member /\ b = ev.behavior
           new == UpdateAggregations(bs, ev.id, ev.at, ev.val, w)
           here == AlignBucket(ev.at)
           old == IF here \in DOMAIN bs THEN bs[here] ELSE NewBucketData
           E(ts) == EventsAt(h, n, m, b, ts)
           F(ts) == EventsAt(h, n + 1, m, b, ts)
<1>1. n + 1 \in 1..Len(h)
  BY DEF Logged
<1>2. ev \in Events /\ h[n+1].conf \in Configs
  BY <1>1 DEF Logged
<1>3. ev.at \in Int /\ w \in Int
  BY <1>2, MaxWindowInt, EventsAssumption
<1>4. here \in Int
  BY <1>3, Aligned
<1>5. \A ts : /\ E(ts) \in SUBSET Events /\ IsFiniteSet(E(ts))
              /\ F(ts) = IF own /\ here = ts THEN E(ts) \cup {ev} ELSE E(ts)
  <2> SUFFICES ASSUME NEW ts
               PROVE  /\ E(ts) \in SUBSET Events /\ IsFiniteSet(E(ts))
                      /\ F(ts) = IF own /\ here = ts THEN E(ts) \cup {ev} ELSE E(ts)
    OBVIOUS
  <2>1. EventsAt(h, n, m, b, ts) \in SUBSET Events /\ IsFiniteSet(EventsAt(h, n, m, b, ts))
    BY EventsAtFinite
  <2>2. 1..(n + 1) = (1..n) \cup {n + 1}
    OBVIOUS
  <2>3. CASE own /\ here = ts
    BY <2>1, <2>2, <2>3 DEF EventsAt
  <2>4. CASE ~(own /\ here = ts)
    BY <2>1, <2>2, <2>4 DEF EventsAt
  <2> QED
    BY <2>3, <2>4
<1>6. \A ts \in Int : Retained(h, n + 1, ts) => Retained(h, n, ts) /\ ts >= AlignBucket(ev.at - w)
  BY RetainedBefore
<1>7. /\ IsFcn(bs)
      /\ DOMAIN bs \subseteq {AlignBucket(h[i].ev.at) : i \in 1..n}
      /\ \A ts \in Int : Retained(h, n, ts) =>
           /\ ts \in DOMAIN bs <=> E(ts) # {}
           /\ ts \in DOMAIN bs => ExactBucket(bs[ts], E(ts))
  BY DEF BucketsExact
<1>8. {AlignBucket(h[i].ev.at) : i \in 1..(n + 1)} = {AlignBucket(h[i].ev.at) : i \in 1..n} \cup {here}
  <2>1. 1..(n + 1) = (1..n) \cup {n + 1}
    OBVIOUS
  <2> QED
    BY <2>1
<1>9. /\ IsFcn(new)
      /\ DOMAIN new \subseteq DOMAIN bs \cup {here}
      /\ \A x \in Int : x >= AlignBucket(ev.at - w) /\ x # here =>
           /\ x \in DOMAIN new <=> x \in DOMAIN bs
           /\ x \in DOMAIN new => new[x] = bs[x]
      /\ here >= AlignBucket(ev.at - w) =>
           /\ here \in DOMAIN new
           /\ ev.id \in old.ids => new[here] = old
           /\ ev.id \notin old.ids => new[here] = CountInto(old, ev.id, ev.val)
  <2> HIDE DEF new, here, old
  <2>1. new = UpdateAggregations(bs, ev.id, ev.at, ev.val, w)
    BY DEF new
  <2>2. here = AlignBucket(ev.at)
    BY DEF here
  <2>3. old = IF here \in DOMAIN bs THEN bs[here] ELSE NewBucketData
    BY DEF old
  <2>4. IsFcn(bs)
    BY <1>7
  <2>5. /\ IsFcn(new)
        /\ DOMAIN new \subseteq DOMAIN bs \cup {here}
    BY <1>3, <2>1, <2>2, <2>3, <2>4, UpdateEffect
  <2>6. \A x \in Int : x >= AlignBucket(ev.at - w) /\ x # here =>
          /\ x \in DOMAIN new <=> x \in DOMAIN bs
          /\ x \in DOMAIN new => new[x] = bs[x]
    BY <1>3, <2>1, <2>2, <2>3, <2>4, UpdateEffect
  <2>7. here >= AlignBucket(ev.at - w) =>
          /\ here \in DOMAIN new
          /\ ev.id \in old.ids => new[here] = old
          /\ ev.id \notin old.ids => new[here] = CountInto(old, ev.id, ev.val)
    BY <1>3, <2>1, <2>2, <2>3, <2>4, UpdateEffect
  <2> QED
    BY <2>5, <2>6, <2>7
<1> HIDE DEF new, here, E, F
<1>10. ASSUME Retained(h, n + 1, here)
       PROVE  ExactBucket(new[here], E(here) \cup {ev})
  <2>1. Retained(h, n, here) /\ here >= AlignBucket(ev.at - w)
    BY <1>4, <1>6, <1>10
  <2>2. ExactBucket(old, E(here))
    <3>1. here \notin DOMAIN bs => E(here) = {}
      BY <1>4, <1>7, <2>1
    <3> QED
      BY <1>4, <1>7, <2>1, <3>1, NewBucketExact
  <2>3. old.ids = {e.id : e \in E(here)}
    BY <2>2 DEF ExactBucket
  <2>4. CASE ev \in E(here)
    <3>1. ev.id \in old.ids /\ E(here) \cup {ev} = E(here)
      BY <2>3, <2>4
    <3> QED
      BY <1>9, <2>1, <2>2, <3>1
  <2>5. CASE ev \notin E(here)
    <3>1. ev.id \notin old.ids
      BY <1>2, <1>5, <2>3, <2>5, IdentityAssumption
    <3>2. E(here) \in SUBSET Events /\ IsFiniteSet(E(here)) /\ ev \in Events \ E(here)
      BY <1>2, <1>5, <2>5
    <3>3. ExactBucket(CountInto(old, ev.id, ev.val), E(here) \cup {ev})
      <4> HIDE DEF old
      <4> QED
        BY <2>2, <3>2, CountIntoExact
    <3> QED
      BY <1>9, <2>1, <3>1, <3>3
  <2> QED
    BY <2>4, <2>5
<1>11. CASE own
  <2>1. ASSUME NEW ts \in Int, Retained(h, n + 1, ts)
        PROVE  /\ ts \in DOMAIN new <=> F(ts) # {}
               /\ ts \in DOMAIN new => ExactBucket(new[ts], F(ts))
    <3>1. CASE ts = here
      BY <1>5, <1>6, <1>9, <1>10, <1>11, <2>1, <3>1
    <3>2. CASE ts # here
      BY <1>5, <1>6, <1>7, <1>9, <2>1, <3>2
    <3> QED
      BY <3>1, <3>2
  <2>2. BucketsExact(new, h, n + 1, m, b)
    BY <1>7, <1>8, <1>9, <2>1 DEF BucketsExact, F
  <2> QED
    BY <1>11, <2>2 DEF new
<1>12. CASE ~own
  <2>1. ASSUME NEW ts \in Int, Retained(h, n + 1, ts)
        PROVE  /\ ts \in DOMAIN bs <=> F(ts) # {}
               /\ ts \in DOMAIN bs => ExactBucket(bs[ts], F(ts))
    BY <1>5, <1>6, <1>7, <1>12, <2>1
  <2>2. BucketsExact(bs, h, n + 1, m, b)
    BY <1>7, <1>8, <2>1 DEF BucketsExact, F
  <2> QED
    BY <1>12, <2>2
<1> QED
  BY <1>11, <1>12

\* Applying an event touches the buckets of its member and behavior only.
LEMMA AppliedExact ==
  ASSUME NEW h, Logged(h), NEW n \in Nat, n < Len(h), NEW ms, MembersTyped(ms), AggsExact(ms, h, n),
         NEW ap, ap = AppliedTo(h[n+1].conf, ms, h[n+1].ev)
  PROVE  /\ AggsExact(ap, h, n + 1)
         /\ \A m \in Member : "aggs" \in DOMAIN ap[m]
<1> DEFINE ev == h[n+1].ev
           w == MaxWindowOf(h[n+1].conf.rules)
           new == UpdateAggregations(ms[ev.member].aggs[ev.behavior], ev.id, ev.at, ev.val, w)
<1>1. ev \in Events
  BY DEF Logged
<1>2. /\ DOMAIN ms = Member /\ ev.member \in Member /\ ev.behavior \in Behavior
      /\ \A m \in Member : {"aggs", "progresses", "lastSeen"} \subseteq DOMAIN ms[m]
  BY <1>1, EventsAssumption DEF MembersTyped
<1>3. ap = [ms EXCEPT ![ev.member].aggs[ev.behavior] = new,
                      ![ev.member].lastSeen = LaterOf(@, ev.at)]
  BY DEF AppliedTo
<1>4. \A m \in Member : DOMAIN ms[m].aggs = Behavior
  BY DEF AggsExact, ByBehavior
<1>5. \A m \in Member, b \in Behavior :
        /\ m = ev.member /\ b = ev.behavior => BucketsExact(new, h, n + 1, m, b)
        /\ m # ev.member \/ b # ev.behavior => BucketsExact(ms[m].aggs[b], h, n + 1, m, b)
  <2> SUFFICES ASSUME NEW m \in Member, NEW b \in Behavior
               PROVE  /\ m = ev.member /\ b = ev.behavior => BucketsExact(new, h, n + 1, m, b)
                      /\ m # ev.member \/ b # ev.behavior =>
                           BucketsExact(ms[m].aggs[b], h, n + 1, m, b)
    OBVIOUS
  <2>1. BucketsExact(ms[m].aggs[b], h, n, m, b)
    BY DEF AggsExact
  <2> DEFINE bs == ms[m].aggs[b]
  <2> HIDE DEF ev, w, bs
  <2>2. BucketsExact(IF m = ev.member /\ b = ev.behavior
                     THEN UpdateAggregations(bs, ev.id, ev.at, ev.val, w) ELSE bs, h, n + 1, m, b)
    BY <2>1, BucketsStep DEF ev, w, bs
  <2> QED
    BY <2>2 DEF bs
<1> HIDE DEF ev, new
<1>6. ASSUME NEW m \in Member
      PROVE  /\ "aggs" \in DOMAIN ap[m]
             /\ ByBehavior(ap[m].aggs)
             /\ \A b \in Behavior : BucketsExact(ap[m].aggs[b], h, n + 1, m, b)
  <2>1. CASE m # ev.member
    <3>1. ap[m] = ms[m]
      BY <1>2, <1>3, <2>1
    <3> QED
      BY <1>2, <1>5, <2>1, <3>1 DEF AggsExact
  <2>2. CASE m = ev.member
    <3>1. DOMAIN ap[m] = DOMAIN ms[m] /\ ap[m].aggs = [ms[m].aggs EXCEPT ![ev.behavior] = new]
      BY <1>2, <1>3, <2>2
    <3>2. ByBehavior(ap[m].aggs)
      BY <1>4, <3>1 DEF ByBehavior
    <3>3. \A b \in Behavior : ap[m].aggs[b] = IF b = ev.behavior THEN new ELSE ms[m].aggs[b]
      BY <1>4, <3>1
    <3> QED
      BY <1>2, <1>5, <2>2, <3>1, <3>2, <3>3
  <2> QED
    BY <2>1, <2>2
<1> QED
  BY <1>6 DEF AggsExact

\* The buckets of every position of a log are exact.
LEMMA LoggedAggs ==
  ASSUME NEW h, Logged(h)
  PROVE  \A n \in 0..Len(h) : AggsExact(MembersAt(h, n), h, n)
<1> DEFINE P == {n \in Nat : n <= Len(h) => AggsExact(MembersAt(h, n), h, n)}
<1>1. 0 \in P
  <2>1. \A m \in Member, b \in Behavior :
          /\ ByBehavior(Fresh[m].aggs)
          /\ Fresh[m].aggs[b] = NoBuckets
    BY DEF Fresh, NewMemberState, ByBehavior
  <2>2. DOMAIN NoBuckets = {} /\ IsFcn(NoBuckets)
    BY DEF NoBuckets, IsFcn
  <2>3. \A m, b, ts : EventsAt(h, 0, m, b, ts) = {}
    BY DEF EventsAt
  <2>4. \A m, b : BucketsExact(NoBuckets, h, 0, m, b)
    BY <2>2, <2>3 DEF BucketsExact
  <2>5. AggsExact(Fresh, h, 0)
    <3>1. \A m \in Member : ByBehavior(Fresh[m].aggs)
      BY DEF Fresh, NewMemberState, ByBehavior
    <3> QED
      BY <2>1, <2>4, <3>1 DEF AggsExact
  <2> QED
    BY <2>5 DEF MembersAt
<1>2. ASSUME NEW n \in Nat, n \in P PROVE n + 1 \in P
  <2> SUFFICES ASSUME n + 1 <= Len(h) PROVE AggsExact(MembersAt(h, n + 1), h, n + 1)
    OBVIOUS
  <2> DEFINE ms == MembersAt(h, n)
             ev == h[n+1].ev
             c == h[n+1].conf
             ap == AppliedTo(c, ms, ev)
  <2>1. Len(h) \in Nat /\ n < Len(h) /\ n <= Len(h) /\ n + 1 \in 1..Len(h) /\ n + 1 - 1 = n
    BY DEF Logged
  <2>2. AggsExact(ms, h, n)
    BY <1>2, <2>1
  <2>3. /\ ev \in Events /\ c \in Configs
        /\ h[n+1] = Outcome(c, ms, WatermarkAt(h, n), ev)
    <3>1. PICK k \in 1..Len(h) : k = n + 1 /\ k - 1 = n
      BY <2>1
    <3> QED
      BY <3>1 DEF Logged
  <2>4. MembersTyped(ms)
    <3>1. CASE n = 0
      BY <3>1, FreshSettled DEF MembersAt, Settled
    <3>2. CASE n # 0
      <4>1. n \in 1..Len(h)
        BY <2>1, <3>2
      <4> QED
        BY <3>2, <4>1 DEF Logged, MembersAt, Settled
    <3> QED
      BY <3>1, <3>2
  <2>5. MembersAt(h, n + 1) = h[n+1].members
    BY DEF MembersAt
  <2>6. AggsExact(ap, h, n + 1) /\ \A m \in Member : "aggs" \in DOMAIN ap[m]
    BY <2>1, <2>2, <2>4, AppliedExact
  <2> HIDE DEF ms, ev, c, ap
  <2>7. \A m \in Member : h[n+1].members[m].aggs = ap[m].aggs
    <3>1. ap = AppliedTo(c, ms, ev)
      BY DEF ap
    <3> QED
      BY <2>3, <2>6, <3>1, OutcomeParts
  <2> QED
    BY <2>5, <2>6, <2>7 DEF AggsExact
<1> HIDE DEF P
<1>3. Nat \subseteq P
  BY <1>1, <1>2, NumbersFromZero
<1>4. \A n \in 0..Len(h) : n \in P /\ n <= Len(h)
  BY <1>3 DEF Logged
<1> QED
  BY <1>4 DEF P

-----------------------------------------------------------------------------
(* Aggregates: an aggregate over a window. *)

\* The buckets computeBucketAggregation folds, and what their counts and sums
\* add up to.
HitBuckets(bs, window, now) ==
  {ts \in DOMAIN bs : AlignBucket(now - window) <= ts /\ ts <= AlignBucket(now)}
CountOf(bs, S) == SumOver([ts \in S |-> bs[ts].count], S)
SumOf(bs, S) == SumOver([ts \in S |-> bs[ts].sum], S)
MaxsOf(bs, S) == {bs[ts].max : ts \in S} \ {NoNum}
MinsOf(bs, S) == {bs[ts].min : ts \in S} \ {NoNum}
ValuesOf(evs) == SumOver([e \in Numeric(evs) |-> e.val], Numeric(evs))

\* MapThenSumSet over buckets is a sum.
LEMMA BucketSums ==
  ASSUME NEW bs, NEW S
  PROVE  /\ MapThenSumSet(LAMBDA ts : bs[ts].count, S) = CountOf(bs, S)
         /\ MapThenSumSet(LAMBDA ts : bs[ts].sum, S) = SumOf(bs, S)
<1>1. MapThenSumSet(LAMBDA ts : bs[ts].count, S) = CountOf(bs, S)
  BY DEF CountOf, MapThenSumSet, MapThenFoldSet, SumOver, Pick
<1>2. MapThenSumSet(LAMBDA ts : bs[ts].sum, S) = SumOf(bs, S)
  BY DEF SumOf, MapThenSumSet, MapThenFoldSet, SumOver, Pick
<1> QED
  BY <1>1, <1>2, Zenon

\* computeBucketAggregation in these terms.
LEMMA ComputeTerms ==
  ASSUME NEW bs, NEW window \in Int, NEW now, NEW S, S = HitBuckets(bs, window, now)
  PROVE  /\ ComputeBucketAggregation(bs, "COUNT", window, now) = CountOf(bs, S)
         /\ ComputeBucketAggregation(bs, "SUM", window, now) = SumOf(bs, S)
         /\ ComputeBucketAggregation(bs, "AVG", window, now) =
              IF CountOf(bs, S) = 0 THEN <<0, 1>> ELSE <<SumOf(bs, S), CountOf(bs, S)>>
         /\ ComputeBucketAggregation(bs, "MAX", window, now) =
              IF MaxsOf(bs, S) = {} THEN 0 ELSE Max(MaxsOf(bs, S))
         /\ ComputeBucketAggregation(bs, "MIN", window, now) =
              IF MinsOf(bs, S) = {} THEN 0 ELSE Min(MinsOf(bs, S))
<1>1. window # NoWindow
  BY WindowAssumption
<1>2. S = {ts \in DOMAIN bs :
             /\ (IF window = NoWindow THEN 0 ELSE AlignBucket(now - window)) <= ts
             /\ ts <= AlignBucket(now)}
  BY <1>1 DEF HitBuckets
<1>3. MapThenSumSet(LAMBDA ts : bs[ts].count, S) = CountOf(bs, S)
  BY BucketSums, Zenon
<1>4. MapThenSumSet(LAMBDA ts : bs[ts].sum, S) = SumOf(bs, S)
  BY BucketSums, Zenon
<1>5. ComputeBucketAggregation(bs, "COUNT", window, now) = CountOf(bs, S)
  <2>1. ComputeBucketAggregation(bs, "COUNT", window, now)
          = MapThenSumSet(LAMBDA ts : bs[ts].count, S)
    BY <1>2, Zenon DEF ComputeBucketAggregation
  <2> QED
    BY <1>3, <2>1, Zenon
<1>6. ComputeBucketAggregation(bs, "SUM", window, now) = SumOf(bs, S)
  <2>1. ComputeBucketAggregation(bs, "SUM", window, now)
          = MapThenSumSet(LAMBDA ts : bs[ts].sum, S)
    BY <1>2, Zenon DEF ComputeBucketAggregation
  <2> QED
    BY <1>4, <2>1, Zenon
<1>7. ComputeBucketAggregation(bs, "AVG", window, now) =
        IF CountOf(bs, S) = 0 THEN <<0, 1>> ELSE <<SumOf(bs, S), CountOf(bs, S)>>
  <2>1. ComputeBucketAggregation(bs, "AVG", window, now) =
          IF MapThenSumSet(LAMBDA ts : bs[ts].count, S) = 0 THEN <<0, 1>>
          ELSE <<MapThenSumSet(LAMBDA ts : bs[ts].sum, S),
                 MapThenSumSet(LAMBDA ts : bs[ts].count, S)>>
    BY <1>2, Zenon DEF ComputeBucketAggregation
  <2> QED
    BY <1>3, <1>4, <2>1, Zenon
<1>8. ComputeBucketAggregation(bs, "MAX", window, now) =
        IF MaxsOf(bs, S) = {} THEN 0 ELSE Max(MaxsOf(bs, S))
  BY <1>2, Zenon DEF ComputeBucketAggregation, MaxsOf
<1>9. ComputeBucketAggregation(bs, "MIN", window, now) =
        IF MinsOf(bs, S) = {} THEN 0 ELSE Min(MinsOf(bs, S))
  BY <1>2, Zenon DEF ComputeBucketAggregation, MinsOf
<1> QED
  BY <1>5, <1>6, <1>7, <1>8, <1>9

\* The reference aggregate in the same terms.
LEMMA ReferenceTerms ==
  ASSUME NEW evs \in SUBSET Events, IsFiniteSet(evs)
  PROVE  /\ Reference(evs, "COUNT") = Cardinality(evs)
         /\ Reference(evs, "SUM") = SumOver(Val, Numeric(evs))
         /\ Reference(evs, "AVG") =
              IF evs = {} THEN <<0, 1>> ELSE <<SumOver(Val, Numeric(evs)), Cardinality(evs)>>
         /\ Reference(evs, "MAX") = IF Vals(evs) = {} THEN 0 ELSE Max(Vals(evs))
         /\ Reference(evs, "MIN") = IF Vals(evs) = {} THEN 0 ELSE Min(Vals(evs))
<1>1. MapThenSumSet(LAMBDA e : e.val, Numeric(evs)) = ValuesOf(evs)
  BY DEF ValuesOf, MapThenSumSet, MapThenFoldSet, SumOver, Pick
<1>2. ValuesOf(evs) = SumOver(Val, Numeric(evs))
  <2> DEFINE f == [e \in Numeric(evs) |-> e.val]
  <2>1. \A e \in Numeric(evs) : Val[e] = f[e] /\ Val[e] \in Int
    BY NumericFinite
  <2>2. IsFiniteSet(Numeric(evs))
    BY NumericFinite
  <2> HIDE DEF f
  <2>3. SumOver(Val, Numeric(evs)) = SumOver(f, Numeric(evs))
    BY <2>1, <2>2, SumSame
  <2> QED
    BY <2>3 DEF ValuesOf, f
<1>3. MapThenSumSet(LAMBDA e : e.val, Numeric(evs)) = SumOver(Val, Numeric(evs))
  BY <1>1, <1>2, Zenon
<1>4. Reference(evs, "COUNT") = Cardinality(evs)
  BY Zenon DEF Reference
<1>5. Reference(evs, "SUM") = SumOver(Val, Numeric(evs))
  <2>1. Reference(evs, "SUM") = MapThenSumSet(LAMBDA e : e.val, Numeric(evs))
    BY Zenon DEF Reference, Numeric
  <2> QED
    BY <1>3, <2>1, Zenon
<1>6. Reference(evs, "AVG") =
        IF evs = {} THEN <<0, 1>> ELSE <<SumOver(Val, Numeric(evs)), Cardinality(evs)>>
  <2>1. Reference(evs, "AVG") =
          IF evs = {} THEN <<0, 1>>
          ELSE <<MapThenSumSet(LAMBDA e : e.val, Numeric(evs)), Cardinality(evs)>>
    BY Zenon DEF Reference, Numeric
  <2> QED
    BY <1>3, <2>1, Zenon
<1>7. Reference(evs, "MAX") = IF Vals(evs) = {} THEN 0 ELSE Max(Vals(evs))
  BY Zenon DEF Reference, Vals, Numeric
<1>8. Reference(evs, "MIN") = IF Vals(evs) = {} THEN 0 ELSE Min(Vals(evs))
  BY Zenon DEF Reference, Vals, Numeric
<1> QED
  BY <1>4, <1>5, <1>6, <1>7, <1>8

\* The events of member m and behavior b among the first n whose bucket lies in
\* the window that ends at now.
EventsWithin(h, n, m, b, window, now) ==
  {h[i].ev : i \in {j \in 1..n : /\ h[j].ev.member = m
                                 /\ h[j].ev.behavior = b
                                 /\ AlignBucket(h[j].ev.at) <= AlignBucket(now)
                                 /\ AlignBucket(h[j].ev.at) >= AlignBucket(now - window)}}

\* The buckets a window hits part the events within it, each into one.
LEMMA HitPartition ==
  ASSUME NEW h, Logged(h), NEW n \in Nat, n <= Len(h), NEW m, NEW b, NEW bs,
         BucketsExact(bs, h, n, m, b), NEW now \in Int, NEW window \in Int,
         \A ts \in Int : ts >= AlignBucket(now - window) => Retained(h, n, ts),
         NEW S, S = HitBuckets(bs, window, now),
         NEW U, U = EventsWithin(h, n, m, b, window, now),
         NEW E, E = [ts \in S |-> EventsAt(h, n, m, b, ts)]
  PROVE  /\ IsFiniteSet(S) /\ IsFiniteSet(U) /\ U \in SUBSET Events
         /\ DOMAIN E = S /\ \A ts \in S : E[ts] \in SUBSET U
         /\ \A ts, us \in S : ts # us => E[ts] \cap E[us] = {}
         /\ U = UNION {E[ts] : ts \in S}
         /\ \A ts \in S : E[ts] # {} /\ ExactBucket(bs[ts], E[ts])
<1> DEFINE A(i) == AlignBucket(h[i].ev.at)
           low == AlignBucket(now - window)
           high == AlignBucket(now)
<1>1. \A i \in 1..n : i \in 1..Len(h) /\ h[i].ev \in Events /\ A(i) \in Int
  <2> SUFFICES ASSUME NEW i \in 1..n PROVE i \in 1..Len(h) /\ h[i].ev \in Events /\ A(i) \in Int
    OBVIOUS
  <2>1. i \in 1..Len(h)
    BY DEF Logged
  <2>2. h[i].ev \in Events
    BY <2>1 DEF Logged
  <2> QED
    BY <2>1, <2>2, EventsAssumption, Aligned
<1>2. low \in Int /\ high \in Int
  BY Aligned
<1>3. /\ DOMAIN bs \subseteq {A(i) : i \in 1..n}
      /\ \A ts \in Int : Retained(h, n, ts) =>
           /\ ts \in DOMAIN bs <=> EventsAt(h, n, m, b, ts) # {}
           /\ ts \in DOMAIN bs => ExactBucket(bs[ts], EventsAt(h, n, m, b, ts))
  BY DEF BucketsExact
<1>4. \A ts \in S : ts \in DOMAIN bs /\ ts \in Int /\ low <= ts /\ ts <= high
  BY <1>1, <1>3 DEF HitBuckets
<1>5. IsFiniteSet(S)
  <2> DEFINE f == [i \in 1..n |-> A(i)]
  <2>1. IsFiniteSet(DOMAIN f)
    BY FS_Interval
  <2>2. S \subseteq {f[x] : x \in DOMAIN f}
    BY <1>3, <1>4
  <2> HIDE DEF f
  <2>3. IsFiniteSet({f[x] : x \in DOMAIN f})
    BY <2>1, ImageFinite
  <2> QED
    BY <2>2, <2>3, FS_Subset
<1>6. U = {h[i].ev : i \in {j \in 1..n : h[j].ev.member = m /\ h[j].ev.behavior = b
                                         /\ A(j) <= high /\ A(j) >= low}}
  BY DEF EventsWithin
<1>7. IsFiniteSet(U)
  <2> DEFINE I == {j \in 1..n : h[j].ev.member = m /\ h[j].ev.behavior = b
                                /\ A(j) <= high /\ A(j) >= low}
             f == [i \in I |-> h[i].ev]
  <2>1. IsFiniteSet(1..n) /\ I \subseteq 1..n
    BY FS_Interval
  <2>2. DOMAIN f = I /\ U = {f[x] : x \in DOMAIN f}
    BY <1>6
  <2> HIDE DEF I, f
  <2>3. IsFiniteSet(I)
    BY <2>1, FS_Subset
  <2> QED
    BY <2>2, <2>3, ImageFinite
<1>8. U \in SUBSET Events
  BY <1>1, <1>6
<1>9. \A ts \in S : E[ts] = {h[i].ev : i \in {j \in 1..n : h[j].ev.member = m /\ h[j].ev.behavior = b
                                                           /\ A(j) = ts}}
  BY DEF EventsAt
<1>10. \A ts \in S : E[ts] \in SUBSET U
  BY <1>4, <1>6, <1>9
<1>11. \A ts \in S : \A e \in E[ts] : AlignBucket(e.at) = ts
  BY <1>9
<1>12. \A ts, us \in S : ts # us => E[ts] \cap E[us] = {}
  BY <1>11
<1>13. \A ts \in S : E[ts] # {} /\ ExactBucket(bs[ts], E[ts])
  BY <1>2, <1>3, <1>4
<1>14. \A e \in U : \E ts \in S : e \in E[ts]
  <2> SUFFICES ASSUME NEW i \in 1..n, h[i].ev.member = m, h[i].ev.behavior = b,
                      A(i) <= high, A(i) >= low
               PROVE  \E ts \in S : h[i].ev \in E[ts]
    BY <1>6
  <2>1. A(i) \in Int /\ Retained(h, n, A(i))
    BY <1>1
  <2>2. h[i].ev \in EventsAt(h, n, m, b, A(i))
    BY DEF EventsAt
  <2>3. A(i) \in DOMAIN bs
    BY <1>3, <2>1, <2>2
  <2>4. A(i) \in S
    BY <2>3 DEF HitBuckets
  <2> QED
    BY <2>2, <2>4
<1>15. U = UNION {E[ts] : ts \in S}
  BY <1>10, <1>14
<1> QED
  BY <1>5, <1>7, <1>8, <1>10, <1>12, <1>13, <1>15

\* Counts and sums of parts add up.
LEMMA MeasuresAdd ==
  ASSUME NEW U \in SUBSET Events, IsFiniteSet(U)
  PROVE  /\ Additive([A \in SUBSET U |-> Cardinality(A)], U)
         /\ Additive([A \in SUBSET U |-> SumOver(Val, Numeric(A))], U)
<1>1. \A A \in SUBSET U : IsFiniteSet(A) /\ A \in SUBSET Events
  BY FS_Subset
<1> DEFINE C == [A \in SUBSET U |-> Cardinality(A)]
           V == [A \in SUBSET U |-> SumOver(Val, Numeric(A))]
<1>2. Additive(C, U)
  <2>1. \A A \in SUBSET U : C[A] \in Int
    <3>1. \A A \in SUBSET U : Cardinality(A) \in Nat
      BY <1>1, FS_CardinalityType
    <3> QED
      BY <3>1
  <2>2. C[{}] = 0
    BY FS_EmptySet
  <2>3. ASSUME NEW A \in SUBSET U, NEW B \in SUBSET U, A \cap B = {}
        PROVE  C[A \cup B] = C[A] + C[B]
    <3>1. Cardinality(A \cup B) = Cardinality(A) + Cardinality(B) - Cardinality({})
      BY <1>1, <2>3, FS_Union
    <3>2. Cardinality({}) = 0 /\ Cardinality(A) \in Nat /\ Cardinality(B) \in Nat
      BY <1>1, FS_EmptySet, FS_CardinalityType
    <3>3. \A a, b \in Nat : a + b - 0 = a + b
      OBVIOUS
    <3>4. Cardinality(A \cup B) = Cardinality(A) + Cardinality(B)
      BY <3>1, <3>2, <3>3
    <3>5. A \cup B \in SUBSET U
      OBVIOUS
    <3> QED
      BY <3>4, <3>5
  <2> HIDE DEF C
  <2> QED
    BY <2>1, <2>2, <2>3 DEF Additive
<1>3. Additive(V, U)
  <2>1. \A A \in SUBSET U : V[A] \in Int
    <3> SUFFICES ASSUME NEW A \in SUBSET U PROVE SumOver(Val, Numeric(A)) \in Int
      OBVIOUS
    <3>1. IsFiniteSet(Numeric(A)) /\ \A e \in Numeric(A) : Val[e] \in Int
      BY <1>1, NumericFinite
    <3> QED
      BY <3>1, SumType
  <2>2. V[{}] = 0
    <3>1. Numeric({}) = {} /\ SumOver(Val, {}) = 0
      BY SumUnfolds, FS_EmptySet DEF Numeric
    <3> QED
      BY <3>1
  <2>3. ASSUME NEW A \in SUBSET U, NEW B \in SUBSET U, A \cap B = {}
        PROVE  V[A \cup B] = V[A] + V[B]
    <3>1. /\ Numeric(A \cup B) = Numeric(A) \cup Numeric(B)
          /\ Numeric(A) \cap Numeric(B) = {}
      BY <2>3 DEF Numeric
    <3>2. /\ IsFiniteSet(Numeric(A)) /\ IsFiniteSet(Numeric(B))
          /\ \A e \in Numeric(A) \cup Numeric(B) : Val[e] \in Int
      BY <1>1, NumericFinite
    <3>3. SumOver(Val, Numeric(A) \cup Numeric(B))
            = SumOver(Val, Numeric(A)) + SumOver(Val, Numeric(B))
      BY <3>1, <3>2, SumUnion
    <3>4. A \cup B \in SUBSET U
      OBVIOUS
    <3> QED
      BY <3>1, <3>3, <3>4
  <2> HIDE DEF V
  <2> QED
    BY <2>1, <2>2, <2>3 DEF Additive
<1> QED
  BY <1>2, <1>3

\* On exact buckets, computeBucketAggregation gives what the events of the window
\* give, for every aggregation.
LEMMA ComputeExact ==
  ASSUME NEW h, Logged(h), NEW n \in Nat, n <= Len(h), NEW m, NEW b, NEW bs,
         BucketsExact(bs, h, n, m, b), NEW now \in Int, NEW window \in Int,
         \A ts \in Int : ts >= AlignBucket(now - window) => Retained(h, n, ts),
         NEW agg \in Aggregations
  PROVE  ComputeBucketAggregation(bs, agg, window, now)
           = Reference(EventsWithin(h, n, m, b, window, now), agg)
<1> DEFINE S == HitBuckets(bs, window, now)
           U == EventsWithin(h, n, m, b, window, now)
           E == [ts \in S |-> EventsAt(h, n, m, b, ts)]
<1>1. /\ IsFiniteSet(S) /\ IsFiniteSet(U) /\ U \in SUBSET Events
      /\ DOMAIN E = S /\ \A ts \in S : E[ts] \in SUBSET U
      /\ \A ts, us \in S : ts # us => E[ts] \cap E[us] = {}
      /\ U = UNION {E[ts] : ts \in S}
      /\ \A ts \in S : E[ts] # {} /\ ExactBucket(bs[ts], E[ts])
  <2>1. /\ S = HitBuckets(bs, window, now)
        /\ U = EventsWithin(h, n, m, b, window, now)
        /\ E = [ts \in S |-> EventsAt(h, n, m, b, ts)]
    OBVIOUS
  <2> HIDE DEF S, U, E
  <2> QED
    BY <2>1, HitPartition
<1> HIDE DEF S, U, E
<1>2. CountOf(bs, S) = Cardinality(U)
  <2> DEFINE V == [A \in SUBSET U |-> Cardinality(A)]
  <2>1. Additive(V, U)
    BY <1>1, MeasuresAdd
  <2> DEFINE f == [ts \in S |-> bs[ts].count]
  <2>2. \A ts \in S : f[ts] = V[E[ts]]
    BY <1>1 DEF ExactBucket
  <2>3. V[U] = Cardinality(U)
    OBVIOUS
  <2>4. SumOver(f, S) = V[U]
    <3>1. \A x \in U : \E ts \in S : x \in E[ts]
      BY <1>1
    <3> HIDE DEF V, f
    <3> QED
      BY <1>1, <2>1, <2>2, <3>1, SumPartition
  <2> HIDE DEF V
  <2> QED
    BY <1>1, <2>3, <2>4 DEF CountOf
<1>3. SumOf(bs, S) = SumOver(Val, Numeric(U))
  <2> DEFINE V == [A \in SUBSET U |-> SumOver(Val, Numeric(A))]
  <2>1. Additive(V, U)
    BY <1>1, MeasuresAdd
  <2> DEFINE f == [ts \in S |-> bs[ts].sum]
  <2>2. \A ts \in S : f[ts] = V[E[ts]]
    BY <1>1 DEF ExactBucket
  <2>3. V[U] = SumOver(Val, Numeric(U))
    OBVIOUS
  <2>4. SumOver(f, S) = V[U]
    <3>1. \A x \in U : \E ts \in S : x \in E[ts]
      BY <1>1
    <3> HIDE DEF V, f
    <3> QED
      BY <1>1, <2>1, <2>2, <3>1, SumPartition
  <2> HIDE DEF V
  <2> QED
    BY <1>1, <2>3, <2>4 DEF SumOf
<1>4. /\ \A ts \in S : IsFiniteSet(Vals(E[ts])) /\ Vals(E[ts]) \subseteq Int
      /\ IsFiniteSet(Vals(U)) /\ Vals(U) \subseteq Int
  <2>1. \A ts \in S : E[ts] \in SUBSET Events /\ IsFiniteSet(E[ts])
    BY <1>1, FS_Subset
  <2> QED
    BY <1>1, <2>1, NumericFinite
<1>5. /\ \A v \in Vals(U) : \E ts \in S : v \in Vals(E[ts])
      /\ \A ts \in S : Vals(E[ts]) \subseteq Vals(U)
  BY <1>1 DEF Vals, Numeric
<1>6. \A ts \in S :
        /\ bs[ts].max = IF Vals(E[ts]) = {} THEN NoNum ELSE Max(Vals(E[ts]))
        /\ bs[ts].min = IF Vals(E[ts]) = {} THEN NoNum ELSE Min(Vals(E[ts]))
  BY <1>1 DEF ExactBucket
<1>7. \A ts \in S : Vals(E[ts]) # {} =>
        /\ Max(Vals(E[ts])) \in Vals(E[ts]) /\ \A y \in Vals(E[ts]) : y <= Max(Vals(E[ts]))
        /\ Min(Vals(E[ts])) \in Vals(E[ts]) /\ \A y \in Vals(E[ts]) : Min(Vals(E[ts])) <= y
  BY <1>4, MaxMin
<1>8. NoNum \notin Int
  BY WindowAssumption
<1>9. /\ MaxsOf(bs, S) = {Max(Vals(E[ts])) : ts \in {us \in S : Vals(E[us]) # {}}}
      /\ MinsOf(bs, S) = {Min(Vals(E[ts])) : ts \in {us \in S : Vals(E[us]) # {}}}
  <2> DEFINE N == {us \in S : Vals(E[us]) # {}}
  <2>1. \A ts \in S : bs[ts].max # NoNum <=> ts \in N
    BY <1>4, <1>6, <1>7, <1>8
  <2>2. \A ts \in S : bs[ts].min # NoNum <=> ts \in N
    BY <1>4, <1>6, <1>7, <1>8
  <2>3. \A ts \in N : ts \in S /\ bs[ts].max = Max(Vals(E[ts])) /\ bs[ts].min = Min(Vals(E[ts]))
    BY <1>6
  <2> HIDE DEF N
  <2>4. MaxsOf(bs, S) = {bs[ts].max : ts \in N}
    BY <2>1, <2>3 DEF MaxsOf
  <2>5. MinsOf(bs, S) = {bs[ts].min : ts \in N}
    BY <2>2, <2>3 DEF MinsOf
  <2>6. /\ {bs[ts].max : ts \in N} = {Max(Vals(E[ts])) : ts \in N}
        /\ {bs[ts].min : ts \in N} = {Min(Vals(E[ts])) : ts \in N}
    BY <2>3
  <2> QED
    BY <2>4, <2>5, <2>6 DEF N
<1>10. /\ (IF MaxsOf(bs, S) = {} THEN 0 ELSE Max(MaxsOf(bs, S)))
            = IF Vals(U) = {} THEN 0 ELSE Max(Vals(U))
       /\ (IF MinsOf(bs, S) = {} THEN 0 ELSE Min(MinsOf(bs, S)))
            = IF Vals(U) = {} THEN 0 ELSE Min(Vals(U))
  <2>1. CASE Vals(U) = {}
    <3>1. \A ts \in S : Vals(E[ts]) = {}
      BY <1>5, <2>1
    <3>2. MaxsOf(bs, S) = {} /\ MinsOf(bs, S) = {}
      BY <1>9, <3>1
    <3> QED
      BY <2>1, <3>2
  <2>2. CASE Vals(U) # {}
    <3> DEFINE hi == Max(Vals(U))
               lo == Min(Vals(U))
               H == MaxsOf(bs, S)
               L == MinsOf(bs, S)
    <3>1. /\ hi \in Vals(U) /\ \A y \in Vals(U) : y <= hi
          /\ lo \in Vals(U) /\ \A y \in Vals(U) : lo <= y
      BY <1>4, <2>2, MaxMin
    <3> HIDE DEF hi, lo
    <3>2. H \subseteq Vals(U) /\ L \subseteq Vals(U)
      BY <1>5, <1>7, <1>9
    <3>3. hi \in H
      <4>1. PICK ts \in S : hi \in Vals(E[ts])
        BY <1>5, <3>1
      <4>2. Max(Vals(E[ts])) = hi
        <5>1. Vals(E[ts]) \subseteq Int /\ Vals(E[ts]) \subseteq Vals(U) /\ IsFiniteSet(Vals(E[ts]))
          BY <1>4, <1>5
        <5> QED
          BY <3>1, <4>1, <5>1, MaxMinIs
      <4> QED
        BY <1>9, <4>1, <4>2
    <3>4. lo \in L
      <4>1. PICK ts \in S : lo \in Vals(E[ts])
        BY <1>5, <3>1
      <4>2. Min(Vals(E[ts])) = lo
        <5>1. Vals(E[ts]) \subseteq Int /\ Vals(E[ts]) \subseteq Vals(U) /\ IsFiniteSet(Vals(E[ts]))
          BY <1>4, <1>5
        <5> QED
          BY <3>1, <4>1, <5>1, MaxMinIs
      <4> QED
        BY <1>9, <4>1, <4>2
    <3> HIDE DEF H, L
    <3>5. IsFiniteSet(H) /\ H \subseteq Int /\ IsFiniteSet(L) /\ L \subseteq Int
      BY <1>4, <3>2, FS_Subset
    <3>6. Max(H) = hi
      BY <3>1, <3>2, <3>3, <3>5, MaxMinIs
    <3>7. Min(L) = lo
      BY <3>1, <3>2, <3>4, <3>5, MaxMinIs
    <3> QED
      BY <2>2, <3>3, <3>4, <3>6, <3>7 DEF H, L, hi, lo
  <2> QED
    BY <2>1, <2>2
<1>11. Cardinality(U) = 0 <=> U = {}
  BY <1>1, FS_EmptySet
<1>12. /\ ComputeBucketAggregation(bs, "COUNT", window, now) = CountOf(bs, S)
       /\ ComputeBucketAggregation(bs, "SUM", window, now) = SumOf(bs, S)
       /\ ComputeBucketAggregation(bs, "AVG", window, now) =
            IF CountOf(bs, S) = 0 THEN <<0, 1>> ELSE <<SumOf(bs, S), CountOf(bs, S)>>
       /\ ComputeBucketAggregation(bs, "MAX", window, now) =
            IF MaxsOf(bs, S) = {} THEN 0 ELSE Max(MaxsOf(bs, S))
       /\ ComputeBucketAggregation(bs, "MIN", window, now) =
            IF MinsOf(bs, S) = {} THEN 0 ELSE Min(MinsOf(bs, S))
  BY ComputeTerms DEF S
<1>13. /\ Reference(U, "COUNT") = Cardinality(U)
       /\ Reference(U, "SUM") = SumOver(Val, Numeric(U))
       /\ Reference(U, "AVG") =
            IF U = {} THEN <<0, 1>> ELSE <<SumOver(Val, Numeric(U)), Cardinality(U)>>
       /\ Reference(U, "MAX") = IF Vals(U) = {} THEN 0 ELSE Max(Vals(U))
       /\ Reference(U, "MIN") = IF Vals(U) = {} THEN 0 ELSE Min(Vals(U))
  BY <1>1, ReferenceTerms
<1>14. CASE agg = "COUNT"
  BY <1>2, <1>12, <1>13, <1>14 DEF U
<1>15. CASE agg = "SUM"
  BY <1>3, <1>12, <1>13, <1>15 DEF U
<1>16. CASE agg = "AVG"
  BY <1>2, <1>3, <1>11, <1>12, <1>13, <1>16 DEF U
<1>17. CASE agg = "MAX"
  BY <1>10, <1>12, <1>13, <1>17 DEF U
<1>18. CASE agg = "MIN"
  BY <1>10, <1>12, <1>13, <1>18 DEF U
<1> QED
  BY <1>14, <1>15, <1>16, <1>17, <1>18 DEF Aggregations

-----------------------------------------------------------------------------
(* Aggregates: the watermark and what is retained behind it. *)

\* The watermark lies at most the allowed lateness behind every event.
LEMMA WatermarkCovers ==
  ASSUME NEW h, Logged(h)
  PROVE  \A n \in 0..Len(h) :
           /\ WatermarkAt(h, n) \in Int
           /\ \A i \in 1..n : h[i].ev.at - Lateness <= WatermarkAt(h, n)
<1> DEFINE P == {n \in Nat : n <= Len(h) =>
                   /\ WatermarkAt(h, n) \in Int
                   /\ \A i \in 1..n : h[i].ev.at - Lateness <= WatermarkAt(h, n)}
<1>1. 0 \in P
  BY DEF WatermarkAt
<1>2. ASSUME NEW n \in Nat, n \in P PROVE n + 1 \in P
  <2> SUFFICES ASSUME n + 1 <= Len(h)
               PROVE  /\ WatermarkAt(h, n + 1) \in Int
                      /\ \A i \in 1..(n + 1) : h[i].ev.at - Lateness <= WatermarkAt(h, n + 1)
    OBVIOUS
  <2>1. Len(h) \in Nat /\ n < Len(h) /\ n <= Len(h)
    BY DEF Logged
  <2>2. /\ WatermarkAt(h, n) \in Int
        /\ \A i \in 1..n : h[i].ev.at - Lateness <= WatermarkAt(h, n)
    BY <1>2, <2>1
  <2>3. /\ WatermarkAt(h, n + 1) \in Int
        /\ WatermarkAt(h, n) <= WatermarkAt(h, n + 1)
        /\ h[n+1].ev.at - Lateness <= WatermarkAt(h, n + 1)
    BY <2>1, <2>2, WatermarkStep
  <2>4. \A i \in 1..(n + 1) : i = n + 1 \/ i \in 1..n
    OBVIOUS
  <2>5. \A i \in 1..n : h[i].ev.at - Lateness \in Int
    <3> SUFFICES ASSUME NEW i \in 1..n PROVE h[i].ev.at - Lateness \in Int
      OBVIOUS
    <3>1. i \in 1..Len(h)
      BY <2>1
    <3>2. h[i].ev \in Events
      BY <3>1 DEF Logged
    <3> QED
      BY <3>2, EventsAssumption, LatenessAssumption
  <2> QED
    BY <2>2, <2>3, <2>4, <2>5
<1> HIDE DEF P
<1>3. Nat \subseteq P
  BY <1>1, <1>2, NumbersFromZero
<1>4. \A n \in 0..Len(h) : n \in P /\ n <= Len(h)
  BY <1>3 DEF Logged
<1> QED
  BY <1>4 DEF P

\* On an event on time, no pruning has reached a window that every process so far
\* retained with the allowed lateness on top.
LEMMA WindowRetained ==
  ASSUME NEW h, Logged(h), NEW n \in Nat, n < Len(h), ~h[n+1].late, NEW window \in Int,
         \A i \in 1..Len(h) : window + Lateness <= MaxWindowOf(h[i].conf.rules)
  PROVE  \A ts \in Int : ts >= AlignBucket(h[n+1].ev.at - window) => Retained(h, n + 1, ts)
<1> DEFINE now == h[n+1].ev.at
<1>1. Len(h) \in Nat /\ n \in 0..Len(h) /\ n + 1 \in 1..Len(h)
  BY DEF Logged
<1>2. /\ WatermarkAt(h, n) \in Int
      /\ \A i \in 1..n : h[i].ev.at - Lateness <= WatermarkAt(h, n)
  BY <1>1, WatermarkCovers
<1>3. ~(now < WatermarkAt(h, n))
  BY <1>2, WatermarkStep
<1>4. \A i \in 1..(n + 1) : i \in 1..Len(h) /\ h[i].ev \in Events /\ h[i].conf \in Configs
  BY <1>1 DEF Logged
<1>5. now \in Int /\ Lateness \in Int
  BY <1>1, <1>4, EventsAssumption, LatenessAssumption
<1>6. ASSUME NEW ts \in Int, ts >= AlignBucket(now - window), NEW i \in 1..(n + 1)
      PROVE  ts >= AlignBucket(h[i].ev.at - MaxWindowOf(h[i].conf.rules))
  <2> DEFINE at == h[i].ev.at
             w == MaxWindowOf(h[i].conf.rules)
  <2>1. at \in Int /\ w \in Int /\ window + Lateness <= w
    BY <1>4, EventsAssumption, MaxWindowInt
  <2>2. at - Lateness <= now
    <3>1. CASE i = n + 1
      BY <1>5, <3>1, LatenessAssumption
    <3>2. CASE i \in 1..n
      <4>1. at - Lateness <= WatermarkAt(h, n)
        BY <1>2, <3>2
      <4> HIDE DEF at, now
      <4> QED
        BY <1>2, <1>3, <1>5, <2>1, <4>1
    <3> QED
      BY <3>1, <3>2
  <2> HIDE DEF at, w, now
  <2>3. at - w <= now - window /\ at - w \in Int /\ now - window \in Int
    BY <1>5, <2>1, <2>2
  <2>4. AlignBucket(at - w) <= AlignBucket(now - window) /\ AlignBucket(at - w) \in Int
        /\ AlignBucket(now - window) \in Int
    BY <2>3, Aligned
  <2>5. ts >= AlignBucket(at - w)
    BY <1>6, <2>4 DEF now
  <2> QED
    BY <2>5 DEF at, w
<1> QED
  BY <1>6 DEF Retained

\* So the aggregates over that window are those of the events within it.
LEMMA WindowExact ==
  ASSUME NEW h, Logged(h), NEW n \in Nat, n < Len(h), ~h[n+1].late, NEW window \in Int,
         \A i \in 1..Len(h) : window + Lateness <= MaxWindowOf(h[i].conf.rules),
         NEW m \in Member, NEW b \in Behavior, NEW agg \in Aggregations
  PROVE  ComputeBucketAggregation(h[n+1].members[m].aggs[b], agg, window, h[n+1].ev.at)
           = Reference(EventsWithin(h, n + 1, m, b, window, h[n+1].ev.at), agg)
<1>1. n + 1 \in 0..Len(h) /\ n + 1 \in Nat /\ n + 1 <= Len(h)
  BY DEF Logged
<1>2. AggsExact(MembersAt(h, n + 1), h, n + 1)
  BY <1>1, LoggedAggs
<1>3. MembersAt(h, n + 1) = h[n+1].members /\ h[n+1].ev \in Events
  BY LoggedAt
<1>4. BucketsExact(h[n+1].members[m].aggs[b], h, n + 1, m, b)
  BY <1>2, <1>3 DEF AggsExact
<1>5. h[n+1].ev.at \in Int
  BY <1>3, EventsAssumption
<1>6. \A ts \in Int : ts >= AlignBucket(h[n+1].ev.at - window) => Retained(h, n + 1, ts)
  BY WindowRetained
<1> QED
  BY <1>1, <1>4, <1>5, <1>6, ComputeExact

\* Kept is at most what any process of the log retained.
LEMMA KeptLeast ==
  ASSUME Logged(hist), conf \in Configs
  PROVE  /\ Kept \in Int
         /\ \A i \in 1..Len(hist) : Kept <= MaxWindowOf(hist[i].conf.rules)
<1> DEFINE f == [i \in 1..Len(hist) |-> MaxWindowOf(hist[i].conf.rules)]
           T == {f[x] : x \in DOMAIN f}
           W == {MaxWindow} \cup T
<1>1. DOMAIN hist = 1..Len(hist) /\ Len(hist) \in Nat
  BY DEF Logged
<1>2. Kept = Min(W)
  BY <1>1 DEF Kept
<1>3. IsFiniteSet(T)
  <2>1. IsFiniteSet(DOMAIN f)
    BY <1>1, FS_Interval
  <2> HIDE DEF f
  <2> QED
    BY <2>1, ImageFinite
<1>4. T \subseteq Int /\ MaxWindow \in Int
  BY MaxWindowInt DEF Logged, MaxWindow
<1>5. IsFiniteSet(W) /\ W \subseteq Int /\ W # {}
  BY <1>3, <1>4, FS_Union, FS_Singleton
<1>6. Min(W) \in W /\ \A y \in W : Min(W) <= y
  <2> HIDE DEF W
  <2> QED
    BY <1>5, MaxMin
<1> QED
  BY <1>2, <1>5, <1>6

-----------------------------------------------------------------------------
(* The theorems. *)

\* The inductive invariant holds, for every choice of the constants.
THEOREM Invariant == Spec => []IInv
<1>1. Init => IInv
  BY InitIInv
<1>2. IInv /\ [Next]_vars => IInv'
  BY NextIInv
<1> QED
  BY <1>1, <1>2, PTL DEF Spec

\* The log is what ProcessEvent makes of its events, position by position, under
\* the configuration each was processed with: what was decided follows from it.
THEOREM AlwaysLogged == Spec => []Logged(hist)
<1> DEFINE L == Logged(hist)
<1>1. Init => L
  BY DEF Init, Logged
<1>2. IInv /\ L /\ [Next]_vars => L'
  BY NextLogged
<1> HIDE DEF L
<1>3. Spec => []L
  BY <1>1, <1>2, Invariant, PTL DEF Spec
<1> QED
  BY <1>3 DEF L

\* Without redelivery no event has two positions in the log.
THEOREM OncePerEvent ==
  ASSUME ~Redelivery
  PROVE  Spec => []EachOnce(hist)
<1> DEFINE L == Logged(hist)
           O == EachOnce(hist)
<1>1. Init => L /\ O
  BY DEF Init, Logged, EachOnce
<1>2. IInv /\ L /\ O /\ [Next]_vars => L' /\ O'
  BY NextLogged
<1> HIDE DEF L, O
<1>3. Spec => []O
  BY <1>1, <1>2, Invariant, PTL DEF Spec
<1> QED
  BY <1>3 DEF O

\* Restart and replay: an event processed again, from whatever snapshot the
\* process resumed, has the decisions, the matches, the watermark and the member
\* states it had the first time.
THEOREM ReplayAlwaysExact == Spec => ReplayExact
<1>1. IInv /\ [Next]_vars => [\A i \in DOMAIN hist : hist'[i] = hist[i]]_vars
  BY NextIInv
<1> QED
  BY <1>1, Invariant, PTL DEF Spec, ReplayExact

\* rebuildNegativeDeadlines and processCEP: no parked progress is ever without
\* its deadline in the heap.
THEOREM AlwaysParkedIsQueued == Spec => []ParkedIsQueued
<1>1. IInv => ParkedIsQueued
  BY DEF IInv, HeapComplete
<1> QED
  BY <1>1, Invariant, PTL

\* drainNegativeMatches: between two events nobody of the shard is parked before
\* the watermark and the heap holds nothing due.
THEOREM NeverOverdue == Spec => []NobodyOverdue
<1>1. IInv => NobodyOverdue
  BY RunningSettled DEF IInv, HeapComplete, NobodyOverdue, Settled
<1> QED
  BY <1>1, Invariant, PTL

\* ProcessEvent: a late event reaches the late sink at most once, however often
\* it is replayed.
THEOREM SideOutputAlwaysOnce == Spec => []SideOutputOnce
<1>1. IInv => SideOutputOnce
  BY DEF IInv, SinkBehind
<1> QED
  BY <1>1, Invariant, PTL

\* A pattern that is not registered in the process never matches, whatever
\* progresses and deadlines of it the snapshot still held.
THEOREM OnlyRegisteredEverMatch == Spec => []OnlyRegisteredMatch
<1>1. IInv => OnlyRegisteredMatch
  <2>1. IInv => DOMAIN hist = 1..Len(hist)
    BY DEF IInv, Positions
  <2> QED
    BY <2>1 DEF IInv, RecordsSettled, OnlyRegisteredMatch
<1> QED
  BY <1>1, Invariant, PTL

\* The reference window of the properties is that of the whole log.
LEMMA WholeWindow ==
  ASSUME Logged(hist), NEW m, NEW b, NEW window \in Int, NEW now
  PROVE  InWindow(m, b, window, now) = EventsWithin(hist, Len(hist), m, b, window, now)
<1>1. DOMAIN hist = 1..Len(hist) /\ window # NoWindow
  BY WindowAssumption DEF Logged
<1> QED
  BY <1>1 DEF InWindow, EventsWithin

\* The last position, when the whole log has been processed.
LEMMA LastPosition ==
  ASSUME IInv, Logged(hist), AtEnd
  PROVE  \E n \in Nat : /\ n < Len(hist) /\ n + 1 = Len(hist)
                        /\ Last(hist) = hist[n+1]
                        /\ members = hist[n+1].members
<1>1. Len(hist) \in Nat /\ Len(hist) # 0
  BY DEF IInv, Positions, AtEnd
<1>2. Len(hist) - 1 \in Nat /\ Len(hist) - 1 + 1 = Len(hist) /\ Len(hist) - 1 < Len(hist)
  BY <1>1
<1>3. Last(hist) = hist[Len(hist)]
  BY DEF Last
<1>4. members = hist[Len(hist)].members
  BY <1>1 DEF IInv, AtPosition, MembersAt, AtEnd
<1> QED
  BY <1>2, <1>3, <1>4

\* updateAggregations and pruneExpiredBuckets: on every event on time, every
\* aggregate over a window that the retention covers is that of the events given,
\* each counted once, whatever was pruned, given again, late or restored between.
THEOREM AlwaysAggregatesExact == Spec => []AggregatesExact
<1>1. IInv /\ Logged(hist) => AggregatesExact
  <2> SUFFICES ASSUME IInv, Logged(hist), AtEnd, ~Last(hist).late,
                      NEW b \in Behavior, NEW w \in 0..(Kept - Lateness),
                      NEW agg \in Aggregations
               PROVE  ComputeBucketAggregation(members[Last(hist).ev.member].aggs[b], agg, w,
                                               Last(hist).ev.at)
                        = Reference(InWindow(Last(hist).ev.member, b, w, Last(hist).ev.at), agg)
    BY DEF AggregatesExact
  <2>1. PICK n \in Nat : /\ n < Len(hist) /\ n + 1 = Len(hist)
                         /\ Last(hist) = hist[n+1]
                         /\ members = hist[n+1].members
    BY LastPosition
  <2>2. conf \in Configs
    BY DEF IInv, Positions
  <2>3. w \in Int /\ \A i \in 1..Len(hist) : w + Lateness <= MaxWindowOf(hist[i].conf.rules)
    <3>1. \A i \in 1..Len(hist) : MaxWindowOf(hist[i].conf.rules) \in Int
      BY MaxWindowInt DEF Logged
    <3> QED
      BY <2>2, <3>1, KeptLeast, LatenessAssumption
  <2>4. hist[n+1].ev.member \in Member
    BY <2>1, LoggedAt, EventsAssumption
  <2> DEFINE m == hist[n+1].ev.member
             at == hist[n+1].ev.at
  <2>5. ComputeBucketAggregation(hist[n+1].members[m].aggs[b], agg, w, at)
          = Reference(EventsWithin(hist, n + 1, m, b, w, at), agg)
    BY <2>1, <2>3, <2>4, WindowExact
  <2>6. InWindow(m, b, w, at) = EventsWithin(hist, n + 1, m, b, w, at)
    BY <2>1, <2>3, WholeWindow
  <2> HIDE DEF m, at
  <2> QED
    BY <2>1, <2>5, <2>6, Zenon DEF m, at
<1> QED
  BY <1>1, Invariant, AlwaysLogged, PTL

\* evaluateRules: a rule whose window the retention covers is decided, on every
\* event on time, by exactly the events given within its window.
THEOREM AlwaysRulesExact == Spec => []RulesExact
<1>1. IInv /\ Logged(hist) => RulesExact
  <2> SUFFICES ASSUME IInv, Logged(hist), AtEnd, ~Last(hist).late,
                      NEW r \in Last(hist).conf.rules,
                      r.window # NoWindow, r.window + Lateness <= Kept
               PROVE  r \in Last(hist).rules <=>
                        Reference(InWindow(Last(hist).ev.member, r.behavior, r.window,
                                           Last(hist).ev.at), r.agg) >= r.min
    BY DEF RulesExact
  <2>1. PICK n \in Nat : /\ n < Len(hist) /\ n + 1 = Len(hist)
                         /\ Last(hist) = hist[n+1]
                         /\ members = hist[n+1].members
    BY LastPosition
  <2> DEFINE ev == hist[n+1].ev
             c == hist[n+1].conf
             ms == MembersAt(hist, n)
             ap == AppliedTo(c, ms, ev)
  <2>2. /\ ev \in Events /\ c \in Configs /\ MembersTyped(ms)
        /\ hist[n+1] = Outcome(c, ms, WatermarkAt(hist, n), ev)
    BY <2>1, LoggedAt
  <2>3. ev.member \in Member /\ c.rules \subseteq Rules
    BY <2>2, EventsAssumption, ConfigsAssumption
  <2>4. r \in c.rules /\ r.behavior \in Behavior /\ r.agg \in Aggregations /\ r.window \in Int
    BY <2>1, <2>3, RulesAssumption
  <2>5. \A i \in 1..Len(hist) : r.window + Lateness <= MaxWindowOf(hist[i].conf.rules)
    <3>1. \A i \in 1..Len(hist) : MaxWindowOf(hist[i].conf.rules) \in Int
      BY MaxWindowInt DEF Logged
    <3>2. conf \in Configs
      BY DEF IInv, Positions
    <3> QED
      BY <2>4, <3>1, <3>2, KeptLeast, LatenessAssumption
  <2>6. \A m \in Member : "aggs" \in DOMAIN ap[m]
    <3>1. AggsExact(ms, hist, n)
      <4>1. n \in 0..Len(hist)
        BY <2>1
      <4> QED
        BY <4>1, LoggedAggs
    <3> QED
      BY <2>1, <2>2, <3>1, AppliedExact
  <2>7. /\ hist[n+1].rules = RulesOn(c, ap, ev)
        /\ hist[n+1].members[ev.member].aggs = ap[ev.member].aggs
    <3>1. ap = AppliedTo(c, ms, ev)
      OBVIOUS
    <3> HIDE DEF ap
    <3>2. /\ hist[n+1].rules = IF hist[n+1].late THEN {} ELSE RulesOn(c, ap, ev)
          /\ \A m \in Member : "aggs" \in DOMAIN ap[m] =>
               hist[n+1].members[m].aggs = ap[m].aggs
      BY <2>2, <3>1, OutcomeParts
    <3> QED
      BY <2>1, <2>3, <2>6, <3>2
  <2> DEFINE value == ComputeBucketAggregation(hist[n+1].members[ev.member].aggs[r.behavior],
                                               r.agg, r.window, ev.at)
             there == EventsWithin(hist, n + 1, ev.member, r.behavior, r.window, ev.at)
  <2>8. value = Reference(there, r.agg)
    BY <2>1, <2>3, <2>4, <2>5, WindowExact
  <2>9. InWindow(ev.member, r.behavior, r.window, ev.at) = there
    BY <2>1, <2>4, WholeWindow
  <2>10. r \in hist[n+1].rules <=> value >= r.min
    <3> HIDE DEF c, ap, ev
    <3> QED
      BY <2>4, <2>7 DEF RulesOn
  <2> HIDE DEF value, there
  <2> QED
    BY <2>1, <2>8, <2>9, <2>10
<1> QED
  BY <1>1, Invariant, AlwaysLogged, PTL
=============================================================================
