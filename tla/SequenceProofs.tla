-------------------------- MODULE SequenceProofs --------------------------
(***************************************************************************)
(* Sequence detection over the whole log, proved for any events, patterns  *)
(* and rules, and any restarts and changes of patterns.                    *)
(*                                                                         *)
(* Events delivered again (RedeliverySafe).  Two quantities are followed   *)
(* through the log.  A progress has served as many different events as it  *)
(* has made steps, all of them on-time events of its member since its      *)
(* start event was first given (Instance, Behind).  And the matches of a   *)
(* start event together with the progress it still has in flight are never *)
(* more than its on-time deliveries (Counted): only a delivery of the      *)
(* start event adds one, and a match takes the progress away.              *)
(*                                                                         *)
(* Exactness (PositiveExact, NegativeSound, SilentMemberFires), when no    *)
(* event is given twice.  RefChain finds the positions of an instance by   *)
(* looking at the whole log at once; the engine goes through it event by   *)
(* event with a progress it may sweep.  Follows says where the engine has  *)
(* to be after n positions: it holds the progress the reference instance   *)
(* had after its last state up to there, or it has none, and then the      *)
(* instance is lost, or completed, or its deadline has passed, for a       *)
(* reason the reference knows too.  What one position does to an instance  *)
(* (PositionEffect) keeps Follows from n to n + 1, and at the end of the   *)
(* log Follows is what the three properties say.                           *)
(***************************************************************************)
EXTENDS CoreProofs

-----------------------------------------------------------------------------
(* Events delivered again: progresses and the events they have served. *)

\* The states of a pattern that an event has to satisfy.
Positive(pid) == {k \in 1..Len(Patterns[pid]) : ~Patterns[pid][k].negative}

\* The events T suffice for a match of pattern pid.
Enough(pid, T) == IsFiniteSet(T) /\ Cardinality(Positive(pid)) <= Cardinality(T)

\* A progress under its id <<pattern, member, start event>>, waiting on state
\* step + 1, after as many different events as it has made steps.
Instance(id, q) ==
  /\ id = <<q.pattern, id[2], id[3]>>
  /\ q.pattern \in DOMAIN Patterns
  /\ id[3] \in q.seen
  /\ IsFiniteSet(q.seen)
  /\ Cardinality(q.seen) = q.step
  /\ q.step < Len(Patterns[q.pattern])
  /\ q.negDeadline # NoTime => Patterns[q.pattern][q.step + 1].negative

InstancesOf(progs) == \A id \in DOMAIN progs : Instance(id, progs[id])

\* The id of the progress that a match result comes from.
SourceOf(mt) == <<mt.pattern, mt.member, mt.start>>

\* T is what a progress had served before ev, possibly with ev, or ev starts it.
Origin(ev, id, progs, T) ==
  \/ id \in DOMAIN progs /\ T \subseteq progs[id].seen \cup {ev.id}
  \/ id[3] = ev.id /\ T = {ev.id}

\* A pattern has no more positive states than those before its negative one.
LEMMA PositiveStates ==
  ASSUME NEW pid \in DOMAIN Patterns
  PROVE  /\ Len(Patterns[pid]) \in Nat
         /\ IsFiniteSet(Positive(pid))
         /\ Cardinality(Positive(pid)) <= Len(Patterns[pid])
         /\ \A k \in Nat : k < Len(Patterns[pid]) /\ Patterns[pid][k + 1].negative =>
              Cardinality(Positive(pid)) <= k
<1> DEFINE n == Len(Patterns[pid])
<1>1. n \in Nat
  BY PatternsAssumption
<1>2. /\ IsFiniteSet(1..n) /\ Cardinality(1..n) = n
  <2>1. IsFiniteSet(1..n) /\ Cardinality(1..n) = IF 1 > n THEN 0 ELSE n - 1 + 1
    BY <1>1, FS_Interval
  <2> HIDE DEF n
  <2> QED
    BY <1>1, <2>1
<1>3. Positive(pid) \subseteq 1..n
  BY DEF Positive
<1>4. IsFiniteSet(Positive(pid)) /\ Cardinality(Positive(pid)) <= n
  BY <1>2, <1>3, FS_Subset
<1>5. ASSUME NEW k \in Nat, k < n, Patterns[pid][k + 1].negative
      PROVE  Cardinality(Positive(pid)) <= k
  <2>1. k + 1 \in 1..n
    BY <1>1, <1>5
  <2>2. k + 1 = n
    BY <1>5, <2>1, PatternsRegistered DEF AddPattern
  <2>3. Positive(pid) \subseteq 1..k
    BY <1>1, <1>5, <2>2 DEF Positive
  <2>4. IsFiniteSet(1..k) /\ Cardinality(1..k) = k
    BY FS_Interval
  <2> QED
    BY <2>3, <2>4, FS_Subset
<1> QED
  BY <1>1, <1>4, <1>5

\* What advanceProgress makes of an instance: what it keeps is one that has
\* served ev besides, if anything; a match rests on ev as a new event.
Serves(ev, id, p, a) ==
  /\ a.keep => Instance(id, a.p) /\ a.p.seen \subseteq p.seen \cup {ev.id} /\ a.matches = {}
  /\ \A mt \in a.matches : /\ SourceOf(mt) = id
                           /\ ev.id \notin p.seen
                           /\ Enough(p.pattern, p.seen \cup {ev.id})

\* advanceProgress when a new event satisfies the positive state.
LEMMA StepForwardServes ==
  ASSUME NEW ev, NEW m, NEW id, NEW p, ProgressOf(m, id, p), Instance(id, p),
         ev.id \notin p.seen,
         NEW st, st = Patterns[p.pattern][p.step + 1], ~st.negative
  PROVE  Serves(ev, id, p, StepForward(Patterns[p.pattern], ev, id, p, st))
<1> DEFINE states == Patterns[p.pattern]
           vs == Bind(ev, st, p.vars)
           step == p.step + 1
           deadline == ParkDeadline(states, step, p.started)
           a == StepForward(states, ev, id, p, st)
           T == p.seen \cup {ev.id}
<1>1. p.pattern \in DOMAIN Patterns /\ p.step \in Nat /\ p.step < Len(states)
  BY DEF Instance, ProgressOf
<1>2. Len(states) \in Nat /\ Cardinality(Positive(p.pattern)) <= Len(states)
  BY <1>1, PositiveStates
<1>3. IsFiniteSet(T) /\ Cardinality(T) = step
  BY FS_AddElement DEF Instance
<1>4. CASE step = Len(states)
  <2>1. a = [Drop EXCEPT !.matches = {MatchResult(id, vs, ev.at)}]
    BY <1>4 DEF StepForward
  <2>2. ~a.keep /\ a.matches = {MatchResult(id, vs, ev.at)}
    BY <2>1 DEF Drop
  <2>3. SourceOf(MatchResult(id, vs, ev.at)) = <<id[1], id[2], id[3]>>
    BY DEF SourceOf, MatchResult
  <2>4. id = <<id[1], id[2], id[3]>>
    BY DEF Instance
  <2>5. Enough(p.pattern, T)
    BY <1>2, <1>3, <1>4 DEF Enough
  <2> HIDE DEF a, T, vs
  <2>6. Serves(ev, id, p, a)
    BY <2>2, <2>3, <2>4, <2>5 DEF Serves, T
  <2> QED
    BY <2>6 DEF a
<1>5. CASE step # Len(states)
  <2> DEFINE q == [p EXCEPT !.step = step, !.vars = vs, !.seen = @ \cup {ev.id},
                            !.negDeadline = IF deadline = NoTime THEN @ ELSE deadline]
  <2>1. a = [keep |-> TRUE, matches |-> {}, pushes |-> Pushed(deadline, id), p |-> q]
    BY <1>5 DEF StepForward
  <2>2. a.keep /\ a.matches = {} /\ a.p = q
    <3> HIDE DEF q, deadline, a
    <3> QED
      BY <2>1
  <2>3. {"pattern", "step", "vars", "started", "seen", "negDeadline"} \subseteq DOMAIN p
    BY DEF ProgressOf
  <2>4. /\ q.pattern = p.pattern /\ q.step = step /\ q.seen = T
        /\ q.negDeadline = IF deadline = NoTime THEN p.negDeadline ELSE deadline
    <3> HIDE DEF deadline, vs, step
    <3> QED
      BY <2>3
  <2>5. p.negDeadline = NoTime
    BY DEF Instance
  <2>6. q.negDeadline # NoTime => states[step + 1].negative
    <3>1. deadline # NoTime => states[step + 1].negative
      BY DEF ParkDeadline
    <3> HIDE DEF q, deadline
    <3> QED
      BY <2>4, <2>5, <3>1
  <2>7. step < Len(states)
    BY <1>1, <1>2, <1>5
  <2>8. id = <<p.pattern, id[2], id[3]>> /\ id[3] \in T
    BY DEF Instance
  <2> HIDE DEF a, q, T
  <2>9. Instance(id, q)
    <3>1. id = <<q.pattern, id[2], id[3]>> /\ q.pattern \in DOMAIN Patterns /\ id[3] \in q.seen
      BY <1>1, <2>4, <2>8
    <3>2. /\ IsFiniteSet(q.seen) /\ Cardinality(q.seen) = q.step
          /\ q.step < Len(Patterns[q.pattern])
      BY <1>3, <2>4, <2>7
    <3>3. q.negDeadline # NoTime => Patterns[q.pattern][q.step + 1].negative
      BY <2>4, <2>6
    <3> QED
      BY <3>1, <3>2, <3>3 DEF Instance
  <2>10. Serves(ev, id, p, a)
    BY <2>2, <2>4, <2>9 DEF Serves, T
  <2> QED
    BY <2>10 DEF a
<1> QED
  BY <1>4, <1>5

\* advanceProgress, in each of its cases: an event that was served already is
\* turned away before anything else.
LEMMA AdvanceProgressServes ==
  ASSUME NEW c \in Configs, NEW ev, NEW m, NEW id, NEW p, ProgressOf(m, id, p), Instance(id, p)
  PROVE  Serves(ev, id, p, AdvanceProgress(RegisteredIn(c), ev, id, p))
<1> DEFINE patterns == RegisteredIn(c)
           a == AdvanceProgress(patterns, ev, id, p)
<1>1. Serves(ev, id, p, Drop)
  BY DEF Serves, Drop
<1>2. Serves(ev, id, p, Keep(p))
  BY DEF Serves, Keep
<1>3. CASE p.pattern \notin DOMAIN patterns \/ p.step >= Len(patterns[p.pattern])
  BY <1>1, <1>3 DEF AdvanceProgress
<1>4. CASE ~(p.pattern \notin DOMAIN patterns \/ p.step >= Len(patterns[p.pattern]))
  <2> DEFINE states == patterns[p.pattern]
             st == states[p.step + 1]
             b == StepForward(states, ev, id, p, st)
  <2>1. states = Patterns[p.pattern]
    BY <1>4 DEF RegisteredIn
  <2>2. ev.id \notin p.seen /\ ~st.negative => Serves(ev, id, p, b)
    BY <2>1, StepForwardServes
  <2>3. st.negative \in BOOLEAN
    <3>1. p.pattern \in DOMAIN Patterns /\ p.step + 1 \in 1..Len(Patterns[p.pattern])
      BY PositiveStates DEF ProgressOf, Instance
    <3> QED
      BY <2>1, <3>1, StateTyped
  <2>4. \/ a \in {Drop, Keep(p)}
        \/ ev.id \notin p.seen /\ ~st.negative /\ a = b
    BY <1>4, <2>3 DEF AdvanceProgress
  <2> QED
    BY <1>1, <1>2, <2>2, <2>4
<1> QED
  BY <1>3, <1>4

\* processCEP opens an instance that has served the event that starts it; an
\* instance of a single state is complete with it.
LEMMA NewProgressServes ==
  ASSUME NEW c \in Configs, NEW ev \in Events, NEW pid \in c.patterns
  PROVE  /\ Len(Patterns[pid]) # 1 =>
              LET q == NewProgress(RegisteredIn(c), pid, ev)
              IN Instance(ProgressID(pid, ev), q) /\ q.seen = {ev.id}
         /\ Len(Patterns[pid]) = 1 => Enough(pid, {ev.id})
<1> DEFINE q == NewProgress(RegisteredIn(c), pid, ev)
           id == ProgressID(pid, ev)
<1>1. pid \in DOMAIN Patterns /\ RegisteredIn(c)[pid] = Patterns[pid]
  BY ConfigsAssumption DEF RegisteredIn
<1>2. /\ Len(Patterns[pid]) \in Nat
      /\ Cardinality(Positive(pid)) <= Len(Patterns[pid])
      /\ Len(Patterns[pid]) > 0
  BY <1>1, PositiveStates, PatternsRegistered DEF AddPattern
<1>3. IsFiniteSet({ev.id}) /\ Cardinality({ev.id}) = 1
  BY FS_Singleton
<1>4. ASSUME Len(Patterns[pid]) # 1 PROVE Instance(id, q) /\ q.seen = {ev.id}
  <2>1. /\ q.pattern = pid /\ q.step = 1 /\ q.seen = {ev.id}
        /\ q.negDeadline = ParkDeadline(Patterns[pid], 1, ev.at)
    BY <1>1 DEF NewProgress
  <2>2. id = <<pid, id[2], id[3]>> /\ id[3] = ev.id
    BY DEF ProgressID
  <2>3. 1 < Len(Patterns[pid])
    <3>1. \A n \in Nat : n > 0 /\ n # 1 => 1 < n
      OBVIOUS
    <3> QED
      BY <1>2, <1>4, <3>1
  <2>4. q.negDeadline # NoTime => Patterns[pid][1 + 1].negative
    BY <2>1 DEF ParkDeadline
  <2> HIDE DEF q, id
  <2> QED
    BY <1>1, <1>3, <2>1, <2>2, <2>3, <2>4 DEF Instance
<1>5. Len(Patterns[pid]) = 1 => Enough(pid, {ev.id})
  BY <1>2, <1>3 DEF Enough
<1> QED
  BY <1>4, <1>5

\* processCEP: the progresses it leaves are instances, each an old one or one
\* opened by ev; a match took its progress away and rests on enough events.
LEMMA ProcessCEPServes ==
  ASSUME NEW c \in Configs, NEW ev \in Events, NEW progs, NEW wm,
         ProgressesOf(ev.member, progs), InstancesOf(progs)
  PROVE  LET cep == ProcessCEP(RegisteredIn(c), progs, ev, wm)
         IN /\ InstancesOf(cep.progresses)
            /\ \A id \in DOMAIN cep.progresses : Origin(ev, id, progs, cep.progresses[id].seen)
            /\ \A mt \in cep.matches :
                 /\ mt.member = ev.member
                 /\ SourceOf(mt) \notin DOMAIN cep.progresses
                 /\ \E T : /\ Enough(mt.pattern, T) /\ mt.start \in T
                           /\ Origin(ev, SourceOf(mt), progs, T)
<1> DEFINE patterns == RegisteredIn(c)
           m == ev.member
           swept == Sweep(patterns, progs, wm)
           adv == [id \in DOMAIN swept |-> AdvanceProgress(patterns, ev, id, swept[id])]
           kept == {id \in DOMAIN swept : adv[id].keep}
           starts == {pid \in DOMAIN patterns :
                        /\ CepMatchState(ev, patterns[pid][1], NoNum)
                        /\ ProgressID(pid, ev) \notin kept}
           instant == {pid \in starts : Len(patterns[pid]) = 1}
           opened == starts \ instant
           new == [id \in {ProgressID(pid, ev) : pid \in opened} |->
                     NewProgress(patterns, id[1], ev)]
           after == [id \in kept \cup DOMAIN new |->
                       IF id \in DOMAIN new THEN new[id] ELSE adv[id].p]
           pushes == (UNION {adv[id].pushes : id \in DOMAIN swept})
                       \cup (UNION {Pushed(new[id].negDeadline, id) : id \in DOMAIN new})
           matches == (UNION {adv[id].matches : id \in DOMAIN swept})
                       \cup {MatchResult(ProgressID(pid, ev),
                                         Bind(ev, patterns[pid][1], NoNum), ev.at)
                               : pid \in instant}
           cep == ProcessCEP(patterns, progs, ev, wm)
<1>1. cep = [progresses |-> after, pushes |-> pushes, matches |-> matches]
  BY DEF ProcessCEP
<1>2. cep.progresses = after /\ cep.matches = matches
  <2> HIDE DEF cep, after, pushes, matches
  <2> QED
    BY <1>1
<1>3. /\ DOMAIN patterns = c.patterns
      /\ \A pid \in c.patterns : patterns[pid] = Patterns[pid]
  BY DEF RegisteredIn
<1>4. ASSUME NEW id \in DOMAIN swept
      PROVE  /\ id \in DOMAIN progs
             /\ ProgressOf(m, id, progs[id])
             /\ Instance(id, progs[id])
             /\ Serves(ev, id, progs[id], adv[id])
  <2>1. id \in DOMAIN progs /\ swept[id] = progs[id]
    BY <1>4 DEF Sweep
  <2>2. ProgressOf(m, id, progs[id]) /\ Instance(id, progs[id])
    BY <2>1 DEF ProgressesOf, InstancesOf
  <2>3. adv[id] = AdvanceProgress(patterns, ev, id, progs[id])
    BY <2>1
  <2> QED
    BY <2>1, <2>2, <2>3, AdvanceProgressServes
<1>5. ASSUME NEW id \in DOMAIN new
      PROVE  \E pid \in opened : /\ id = ProgressID(pid, ev)
                                 /\ Instance(id, new[id])
                                 /\ new[id].seen = {ev.id}
  <2>1. PICK pid \in opened : id = ProgressID(pid, ev)
    BY <1>5
  <2>2. id[1] = pid
    BY <2>1 DEF ProgressID
  <2>3. new[id] = NewProgress(patterns, pid, ev)
    BY <1>5, <2>2
  <2>4. pid \in c.patterns /\ Len(Patterns[pid]) # 1
    BY <1>3
  <2>5. LET q == NewProgress(patterns, pid, ev)
        IN Instance(ProgressID(pid, ev), q) /\ q.seen = {ev.id}
    BY <2>4, NewProgressServes
  <2> HIDE DEF new, opened, patterns
  <2> QED
    BY <2>1, <2>3, <2>5
<1>6. \A pid \in opened : ProgressID(pid, ev) \in DOMAIN new
  OBVIOUS
<1>7. /\ DOMAIN after = kept \cup DOMAIN new
      /\ \A id \in DOMAIN after : after[id] = IF id \in DOMAIN new THEN new[id] ELSE adv[id].p
  OBVIOUS
<1>8. \A mt \in matches :
        \/ \E id \in DOMAIN swept : mt \in adv[id].matches
        \/ \E pid \in instant :
             mt = MatchResult(ProgressID(pid, ev), Bind(ev, patterns[pid][1], NoNum), ev.at)
  <2> HIDE DEF instant, swept, adv
  <2> DEFINE A == UNION {adv[id].matches : id \in DOMAIN swept}
             B == {MatchResult(ProgressID(pid, ev), Bind(ev, patterns[pid][1], NoNum), ev.at)
                     : pid \in instant}
  <2>1. \A mt : mt \in A <=> \E id \in DOMAIN swept : mt \in adv[id].matches
    OBVIOUS
  <2>2. matches = A \cup B
    OBVIOUS
  <2>3. \A mt \in B : \E pid \in instant :
          mt = MatchResult(ProgressID(pid, ev), Bind(ev, patterns[pid][1], NoNum), ev.at)
    OBVIOUS
  <2> HIDE DEF A, B, matches
  <2> QED
    BY <2>1, <2>2, <2>3
<1> HIDE DEF swept, adv, new, after, matches, pushes, patterns, cep
<1>9. ASSUME NEW id \in DOMAIN after
      PROVE  Instance(id, after[id]) /\ Origin(ev, id, progs, after[id].seen)
  <2>1. CASE id \in DOMAIN new
    <3>1. PICK pid \in opened : /\ id = ProgressID(pid, ev)
                                /\ Instance(id, new[id])
                                /\ new[id].seen = {ev.id}
      BY <1>5, <2>1
    <3>2. id[3] = ev.id
      BY <3>1 DEF ProgressID
    <3> QED
      BY <1>7, <2>1, <3>1, <3>2 DEF Origin
  <2>2. CASE id \notin DOMAIN new
    <3>1. id \in DOMAIN swept /\ adv[id].keep /\ after[id] = adv[id].p
      BY <1>7, <2>2
    <3> QED
      BY <1>4, <3>1 DEF Serves, Origin
  <2> QED
    BY <2>1, <2>2
<1>10. ASSUME NEW mt \in matches
       PROVE  /\ mt.member = m
              /\ SourceOf(mt) \notin DOMAIN after
              /\ \E T : /\ Enough(mt.pattern, T) /\ mt.start \in T
                        /\ Origin(ev, SourceOf(mt), progs, T)
  <2>1. CASE \E id \in DOMAIN swept : mt \in adv[id].matches
    <3>1. PICK id \in DOMAIN swept : mt \in adv[id].matches
      BY <2>1
    <3>2. /\ SourceOf(mt) = id
          /\ ev.id \notin progs[id].seen
          /\ Enough(progs[id].pattern, progs[id].seen \cup {ev.id})
          /\ ~adv[id].keep
      BY <1>4, <3>1 DEF Serves
    <3>3. /\ id[1] = progs[id].pattern /\ id[2] = m /\ id[3] \in progs[id].seen
          /\ id \in DOMAIN progs
      BY <1>4 DEF ProgressOf, Instance
    <3>4. mt.pattern = id[1] /\ mt.member = id[2] /\ mt.start = id[3]
      BY <3>2 DEF SourceOf
    <3>5. id \notin DOMAIN new
      <4>1. ASSUME id \in DOMAIN new PROVE id[3] = ev.id
        <5>1. PICK pid \in opened : id = ProgressID(pid, ev)
          BY <1>5, <4>1
        <5> QED
          BY <5>1 DEF ProgressID
      <4> QED
        BY <3>2, <3>3, <4>1
    <3>6. SourceOf(mt) \notin DOMAIN after
      BY <1>7, <3>2, <3>5
    <3>7. Origin(ev, SourceOf(mt), progs, progs[id].seen \cup {ev.id})
      BY <3>2, <3>3 DEF Origin
    <3> QED
      BY <3>2, <3>3, <3>4, <3>6, <3>7
  <2>2. CASE \E pid \in instant :
               mt = MatchResult(ProgressID(pid, ev), Bind(ev, patterns[pid][1], NoNum), ev.at)
    <3>1. PICK pid \in instant :
               mt = MatchResult(ProgressID(pid, ev), Bind(ev, patterns[pid][1], NoNum), ev.at)
      BY <2>2
    <3>2. /\ mt.pattern = pid /\ mt.member = m /\ mt.start = ev.id
          /\ SourceOf(mt) = ProgressID(pid, ev)
      BY <3>1 DEF MatchResult, ProgressID, SourceOf
    <3>3. pid \in c.patterns /\ Len(Patterns[pid]) = 1 /\ ProgressID(pid, ev) \notin kept
      BY <1>3
    <3>4. ProgressID(pid, ev) \notin DOMAIN new
      <4>1. ASSUME ProgressID(pid, ev) \in DOMAIN new PROVE FALSE
        <5>1. PICK other \in opened : ProgressID(pid, ev) = ProgressID(other, ev)
          BY <1>5, <4>1
        <5>2. pid = other
          BY <5>1 DEF ProgressID
        <5> QED
          BY <5>1, <5>2
      <4> QED
        BY <4>1
    <3>5. Enough(pid, {ev.id})
      BY <3>3, NewProgressServes
    <3>6. Origin(ev, SourceOf(mt), progs, {ev.id})
      BY <3>2 DEF Origin, SourceOf
    <3> QED
      BY <1>7, <3>2, <3>3, <3>4, <3>5, <3>6
  <2> QED
    BY <1>8, <2>1, <2>2
<1> QED
  <2>1. /\ InstancesOf(cep.progresses)
        /\ \A id \in DOMAIN cep.progresses : Origin(ev, id, progs, cep.progresses[id].seen)
    BY <1>2, <1>9 DEF InstancesOf
  <2>2. \A mt \in cep.matches :
          /\ mt.member = ev.member
          /\ SourceOf(mt) \notin DOMAIN cep.progresses
          /\ \E T : /\ Enough(mt.pattern, T) /\ mt.start \in T
                    /\ Origin(ev, SourceOf(mt), progs, T)
    BY <1>2, <1>10
  <2> QED
    BY <2>1, <2>2 DEF cep, patterns

-----------------------------------------------------------------------------
(* Events delivered again: one event. *)

\* T is what a progress of member m had served before the outcome o, or o is of
\* an on-time event of the member that adds to it or starts it.
Traced(o, m, id, progs, T) ==
  \/ id \in DOMAIN progs /\ T \subseteq progs[id].seen
  \/ ~o.late /\ o.ev.member = m /\ Origin(o.ev, id, progs, T)

\* What an outcome does to the progresses of members ms.
Effect(ms, o) ==
  /\ \A m \in Member : \A id \in DOMAIN o.members[m].progresses :
       /\ Instance(id, o.members[m].progresses[id])
       /\ Traced(o, m, id, ms[m].progresses, o.members[m].progresses[id].seen)
  /\ \A mt \in o.matches :
       /\ mt.member \in Member
       /\ SourceOf(mt) \notin DOMAIN o.members[mt.member].progresses
       /\ \E T : /\ Enough(mt.pattern, T) /\ mt.start \in T
                 /\ Traced(o, mt.member, SourceOf(mt), ms[mt.member].progresses, T)

\* drainNegativeMatches: what it leaves stays as it is; a match took its progress
\* away, which had served an event for each state before the negative one.
LEMMA DrainServes ==
  ASSUME NEW progs, DOMAIN progs = Member,
         \A m \in Member : ProgressesOf(m, progs[m]) /\ InstancesOf(progs[m]),
         NEW wm \in Int, NEW patterns
  PROVE  LET fresh == RebuildNegativeDeadlines(progs)
             drained == DrainProgresses(progs, fresh, wm)
         IN /\ \A m \in Member : \A id \in DOMAIN drained[m] :
                 id \in DOMAIN progs[m] /\ drained[m][id] = progs[m][id]
            /\ \A mt \in DrainMatches(patterns, progs, fresh, wm) :
                 /\ mt.member \in Member
                 /\ SourceOf(mt) \in DOMAIN progs[mt.member]
                 /\ SourceOf(mt) \notin DOMAIN drained[mt.member]
                 /\ Enough(mt.pattern, progs[mt.member][SourceOf(mt)].seen)
                 /\ mt.start \in progs[mt.member][SourceOf(mt)].seen
<1> DEFINE fresh == RebuildNegativeDeadlines(progs)
           drained == DrainProgresses(progs, fresh, wm)
           gone == {e.id : e \in Drained(progs, fresh, wm)}
<1>1. \A m \in Member : drained[m] = [id \in DOMAIN progs[m] \ gone |-> progs[m][id]]
  BY DEF DrainProgresses
<1>2. \A m \in Member : /\ DOMAIN drained[m] = DOMAIN progs[m] \ gone
                        /\ \A id \in DOMAIN drained[m] : drained[m][id] = progs[m][id]
  <2> HIDE DEF drained, gone
  <2> QED
    BY <1>1
<1>3. ASSUME NEW mt \in DrainMatches(patterns, progs, fresh, wm)
      PROVE  /\ mt.member \in Member
             /\ SourceOf(mt) \in DOMAIN progs[mt.member]
             /\ SourceOf(mt) \notin DOMAIN drained[mt.member]
             /\ Enough(mt.pattern, progs[mt.member][SourceOf(mt)].seen)
             /\ mt.start \in progs[mt.member][SourceOf(mt)].seen
  <2>1. PICK e \in Drained(progs, fresh, wm) :
          mt = MatchResult(e.id, progs[e.member][e.id].vars, e.deadline)
    BY <1>3 DEF DrainMatches
  <2>2. e \in fresh /\ e.id \in gone
    BY <2>1 DEF Drained, Due
  <2>3. PICK m \in Member : e \in Queue(progs[m])
    BY <2>2, RebuiltByMember
  <2>4. /\ e.id \in DOMAIN progs[m] /\ e.id[2] = m /\ e.member = m
        /\ progs[m][e.id].negDeadline \in Int
    BY <2>3, QueueEntries
  <2> DEFINE q == progs[m][e.id]
  <2>5. Instance(e.id, q) /\ ProgressOf(m, e.id, q)
    BY <2>4 DEF InstancesOf, ProgressesOf
  <2>6. mt.pattern = e.id[1] /\ mt.member = m /\ mt.start = e.id[3]
    BY <2>1, <2>4 DEF MatchResult
  <2>7. SourceOf(mt) = e.id /\ mt.pattern = q.pattern
    BY <2>4, <2>5, <2>6 DEF SourceOf, Instance, ProgressOf
  <2>8. q.negDeadline # NoTime
    BY <2>4, NoTimeAssumption
  <2>9. Enough(q.pattern, q.seen)
    <3>1. /\ q.step \in Nat /\ q.step < Len(Patterns[q.pattern])
          /\ Patterns[q.pattern][q.step + 1].negative
          /\ q.pattern \in DOMAIN Patterns
      BY <2>5, <2>8 DEF Instance, ProgressOf
    <3>2. Cardinality(Positive(q.pattern)) <= q.step
      BY <3>1, PositiveStates
    <3> QED
      BY <2>5, <3>2 DEF Instance, Enough
  <2>10. mt.start \in q.seen
    BY <2>5, <2>6 DEF Instance
  <2>11. SourceOf(mt) \notin DOMAIN drained[m]
    BY <1>2, <2>2, <2>7
  <2> QED
    BY <2>4, <2>6, <2>7, <2>9, <2>10, <2>11
<1> QED
  BY <1>2, <1>3

\* ProcessEvent on a late event.
LEMMA LateServes ==
  ASSUME NEW c \in Configs, NEW ev \in Events, NEW ms, NEW wm, MembersTyped(ms),
         \A m \in Member : InstancesOf(ms[m].progresses)
  PROVE  Effect(ms, LateOutcome(c, ms, wm, ev))
<1> DEFINE o == LateOutcome(c, ms, wm, ev)
<1>1. /\ o.members = AppliedTo(c, ms, ev)
      /\ o.matches = {}
  BY DEF LateOutcome
<1>2. \A m \in Member : o.members[m].progresses = ms[m].progresses
  BY <1>1, AppliedKeepsProgresses
<1> HIDE DEF o
<1>3. Effect(ms, o)
  BY <1>1, <1>2 DEF Effect, Traced, InstancesOf
<1> QED
  BY <1>3 DEF o

\* ProcessEvent on an event on time: processCEP on the member's progresses, then
\* the drain on everybody's.
LEMMA OnTimeServes ==
  ASSUME NEW c \in Configs, NEW ev \in Events, NEW ms, NEW old, Settled(ms, old),
         \A m \in Member : InstancesOf(ms[m].progresses)
  PROVE  Effect(ms, OnTimeOutcome(c, ms, old, ev))
<1> DEFINE o == OnTimeOutcome(c, ms, old, ev)
           wm == LaterOf(old, ev.at - Lateness)
           ap == AppliedTo(c, ms, ev)
           mine == ap[ev.member].progresses
           cep == ProcessCEP(RegisteredIn(c), mine, ev, wm)
           progs == AdvancedProgs(c, ap, wm, ev)
           fresh == RebuildNegativeDeadlines(progs)
           drained == DrainProgresses(progs, fresh, wm)
           fired == DrainMatches(RegisteredIn(c), progs, fresh, wm)
           after == [m \in Member |-> [ap[m] EXCEPT !.progresses = drained[m]]]
<1>1. wm \in Int
  BY EventsAssumption, LatenessAssumption DEF Settled, LaterOf
<1>2. /\ MembersTyped(ap)
      /\ \A m \in Member : ap[m].progresses = ms[m].progresses
      /\ ev.member \in Member
  BY EventsAssumption, AppliedKeepsProgresses DEF Settled
<1>3. o = [ev |-> ev, late |-> FALSE, wm |-> wm, rules |-> RulesOn(c, ap, ev),
           matches |-> cep.matches \cup fired, members |-> after, conf |-> c]
  BY DEF OnTimeOutcome
<1>4. progs = [ProgsOf(ap) EXCEPT ![ev.member] = cep.progresses]
  BY DEF AdvancedProgs
<1> HIDE DEF wm, ap
<1>5. mine = ms[ev.member].progresses
  BY <1>2
<1> HIDE DEF mine, cep, progs, o
<1>6. /\ ProgressesOf(ev.member, mine) /\ InstancesOf(mine)
      /\ \A m \in Member : ProgressesOf(m, ms[m].progresses)
  BY <1>2, <1>5 DEF Settled, MembersTyped
<1>7. ProgressesOf(ev.member, cep.progresses)
  BY <1>6, ProcessCEPAnswer DEF cep
<1>8. /\ InstancesOf(cep.progresses)
      /\ \A id \in DOMAIN cep.progresses : Origin(ev, id, mine, cep.progresses[id].seen)
      /\ \A mt \in cep.matches :
           /\ mt.member = ev.member
           /\ SourceOf(mt) \notin DOMAIN cep.progresses
           /\ \E T : /\ Enough(mt.pattern, T) /\ mt.start \in T
                     /\ Origin(ev, SourceOf(mt), mine, T)
  BY <1>6, ProcessCEPServes DEF cep
<1>9. /\ DOMAIN progs = Member
      /\ \A m \in Member : progs[m] = IF m = ev.member THEN cep.progresses ELSE ms[m].progresses
  BY <1>2, <1>4 DEF ProgsOf
<1>10. \A m \in Member : ProgressesOf(m, progs[m]) /\ InstancesOf(progs[m])
  BY <1>6, <1>7, <1>8, <1>9
<1>11. /\ \A m \in Member : \A id \in DOMAIN drained[m] :
            id \in DOMAIN progs[m] /\ drained[m][id] = progs[m][id]
       /\ \A mt \in fired :
            /\ mt.member \in Member
            /\ SourceOf(mt) \in DOMAIN progs[mt.member]
            /\ SourceOf(mt) \notin DOMAIN drained[mt.member]
            /\ Enough(mt.pattern, progs[mt.member][SourceOf(mt)].seen)
            /\ mt.start \in progs[mt.member][SourceOf(mt)].seen
  BY <1>1, <1>9, <1>10, DrainServes
<1> HIDE DEF drained, fired
<1>12. \A m \in Member : after[m].progresses = drained[m]
  BY <1>2 DEF MembersTyped
<1> HIDE DEF after
<1>13. /\ o.ev = ev /\ o.late = FALSE /\ o.members = after
       /\ o.matches = cep.matches \cup fired
  BY <1>3
<1>14. ASSUME NEW m \in Member, NEW id \in DOMAIN progs[m]
       PROVE  Traced(o, m, id, ms[m].progresses, progs[m][id].seen)
  <2>1. CASE m = ev.member
    BY <1>5, <1>8, <1>9, <1>13, <2>1 DEF Traced
  <2>2. CASE m # ev.member
    BY <1>9, <2>2 DEF Traced
  <2> QED
    BY <2>1, <2>2
<1>15. ASSUME NEW m \in Member, NEW id \in DOMAIN o.members[m].progresses
       PROVE  /\ Instance(id, o.members[m].progresses[id])
              /\ Traced(o, m, id, ms[m].progresses, o.members[m].progresses[id].seen)
  <2>1. o.members[m].progresses = drained[m]
    BY <1>12, <1>13
  <2>2. id \in DOMAIN progs[m] /\ o.members[m].progresses[id] = progs[m][id]
    BY <1>11, <2>1
  <2> QED
    BY <1>10, <1>14, <2>2 DEF InstancesOf
<1>16. ASSUME NEW mt \in o.matches
       PROVE  /\ mt.member \in Member
              /\ SourceOf(mt) \notin DOMAIN o.members[mt.member].progresses
              /\ \E T : /\ Enough(mt.pattern, T) /\ mt.start \in T
                        /\ Traced(o, mt.member, SourceOf(mt), ms[mt.member].progresses, T)
  <2>1. CASE mt \in cep.matches
    <3>1. /\ mt.member = ev.member
          /\ SourceOf(mt) \notin DOMAIN drained[ev.member]
      BY <1>2, <1>8, <1>9, <1>11, <2>1
    <3>2. PICK T : /\ Enough(mt.pattern, T) /\ mt.start \in T
                   /\ Origin(ev, SourceOf(mt), mine, T)
      BY <1>8, <2>1
    <3>3. Traced(o, ev.member, SourceOf(mt), ms[ev.member].progresses, T)
      BY <1>5, <1>13, <3>2 DEF Traced
    <3> QED
      BY <1>2, <1>12, <1>13, <3>1, <3>2, <3>3
  <2>2. CASE mt \in fired
    <3>1. /\ mt.member \in Member
          /\ SourceOf(mt) \notin DOMAIN o.members[mt.member].progresses
      BY <1>11, <1>12, <1>13, <2>2
    <3>2. Traced(o, mt.member, SourceOf(mt), ms[mt.member].progresses,
                 progs[mt.member][SourceOf(mt)].seen)
      BY <1>11, <1>14, <2>2
    <3> QED
      BY <1>11, <2>2, <3>1, <3>2
  <2> QED
    BY <1>13, <2>1, <2>2
<1>17. Effect(ms, o)
  BY <1>15, <1>16 DEF Effect
<1> QED
  BY <1>17 DEF o

-----------------------------------------------------------------------------
(* Events delivered again: the log. *)

\* The on-time deliveries of the event s among the first n.
GivenTo(h, s, n) == {j \in 1..n : ~h[j].late /\ h[j].ev.id = s}

\* The on-time events of member m among the first n, from the first of those
\* deliveries on.
ServingTo(h, m, s, n) ==
  {h[k].ev.id : k \in {l \in 1..n : ~h[l].late /\ h[l].ev.member = m /\ GivenTo(h, s, l) # {}}}

\* The positions among the first n with a match of pattern p started by s.
FiredBy(h, p, s, n) == {j \in 1..n : \E mt \in h[j].matches : mt.pattern = p /\ mt.start = s}

InFlight(h, p, s, n) ==
  \E m \in Member : <<p, m, s>> \in DOMAIN MembersAt(h, n)[m].progresses

\* The progresses at position n have served events of their member given since
\* their start event.
Behind(h, n) ==
  \A m \in Member : \A id \in DOMAIN MembersAt(h, n)[m].progresses :
    /\ Instance(id, MembersAt(h, n)[m].progresses[id])
    /\ MembersAt(h, n)[m].progresses[id].seen \subseteq ServingTo(h, m, id[3], n)

\* No more matches than deliveries, and fewer while the next is in flight.
Counted(h, n) ==
  \A p, s : /\ Cardinality(FiredBy(h, p, s, n)) <= Cardinality(GivenTo(h, s, n))
            /\ InFlight(h, p, s, n) =>
                 Cardinality(FiredBy(h, p, s, n)) < Cardinality(GivenTo(h, s, n))

\* Every match at position n rests on enough events given since its start.
Rested(h, n) ==
  \A mt \in h[n].matches :
    \E T : /\ Enough(mt.pattern, T) /\ mt.start \in T
           /\ T \subseteq ServingTo(h, mt.member, mt.start, n)

Served(h) ==
  /\ \A n \in 1..Len(h) : h[n].ev \in Events
  /\ \A n \in 0..Len(h) : Behind(h, n) /\ Counted(h, n)
  /\ \A n \in 1..Len(h) : Rested(h, n)

\* One more position in the sets above.
LEMMA OneMore ==
  ASSUME NEW h, NEW n \in Nat
  PROVE  /\ \A s : GivenTo(h, s, n + 1) =
              IF ~h[n+1].late /\ h[n+1].ev.id = s THEN GivenTo(h, s, n) \cup {n + 1}
                                                 ELSE GivenTo(h, s, n)
         /\ \A p, s : FiredBy(h, p, s, n + 1) =
              IF \E mt \in h[n+1].matches : mt.pattern = p /\ mt.start = s
              THEN FiredBy(h, p, s, n) \cup {n + 1} ELSE FiredBy(h, p, s, n)
         /\ \A m, s : ServingTo(h, m, s, n) \subseteq ServingTo(h, m, s, n + 1)
         /\ \A m, s : ~h[n+1].late /\ h[n+1].ev.member = m /\ GivenTo(h, s, n + 1) # {} =>
              h[n+1].ev.id \in ServingTo(h, m, s, n + 1)
<1>1. 1..(n + 1) = (1..n) \cup {n + 1} /\ n + 1 \in 1..(n + 1)
  OBVIOUS
<1>2. \A s : GivenTo(h, s, n + 1) =
         IF ~h[n+1].late /\ h[n+1].ev.id = s THEN GivenTo(h, s, n) \cup {n + 1}
                                            ELSE GivenTo(h, s, n)
  BY <1>1 DEF GivenTo
<1>3. \A p, s : FiredBy(h, p, s, n + 1) =
         IF \E mt \in h[n+1].matches : mt.pattern = p /\ mt.start = s
         THEN FiredBy(h, p, s, n) \cup {n + 1} ELSE FiredBy(h, p, s, n)
  BY <1>1 DEF FiredBy
<1>4. \A m, s : ServingTo(h, m, s, n) \subseteq ServingTo(h, m, s, n + 1)
  BY <1>1 DEF ServingTo
<1>5. \A m, s : ~h[n+1].late /\ h[n+1].ev.member = m /\ GivenTo(h, s, n + 1) # {} =>
         h[n+1].ev.id \in ServingTo(h, m, s, n + 1)
  BY <1>1 DEF ServingTo
<1> QED
  BY <1>2, <1>3, <1>4, <1>5

\* What serves a start event is an event of the log, and the start was given.
LEMMA ServingGiven ==
  ASSUME NEW h, NEW n \in Nat, NEW m, NEW s, NEW x \in ServingTo(h, m, s, n)
  PROVE  /\ GivenTo(h, s, n) # {}
         /\ \E k \in 1..n : h[k].ev.id = x /\ h[k].ev.member = m
<1>1. PICK l \in 1..n : /\ h[l].ev.member = m /\ GivenTo(h, s, l) # {}
                        /\ h[l].ev.id = x
  BY DEF ServingTo
<1>2. GivenTo(h, s, l) \subseteq GivenTo(h, s, n)
  BY DEF GivenTo
<1> QED
  BY <1>1, <1>2

\* The deliveries and the matches of a start event up to n can be counted.
LEMMA FiniteSets ==
  ASSUME NEW h, NEW n \in Nat, NEW p, NEW s
  PROVE  /\ IsFiniteSet(FiredBy(h, p, s, n)) /\ Cardinality(FiredBy(h, p, s, n)) \in Nat
         /\ IsFiniteSet(GivenTo(h, s, n)) /\ Cardinality(GivenTo(h, s, n)) \in Nat
         /\ n + 1 \notin FiredBy(h, p, s, n) /\ n + 1 \notin GivenTo(h, s, n)
<1>1. IsFiniteSet(1..n)
  BY FS_Interval
<1>2. FiredBy(h, p, s, n) \subseteq 1..n /\ GivenTo(h, s, n) \subseteq 1..n /\ n + 1 \notin 1..n
  BY DEF FiredBy, GivenTo
<1>3. IsFiniteSet(FiredBy(h, p, s, n)) /\ IsFiniteSet(GivenTo(h, s, n))
  BY <1>1, <1>2, FS_Subset
<1> QED
  BY <1>2, <1>3, FS_CardinalityType

\* What is traced to the progresses of a position has served since its start.
LEMMA TracedServing ==
  ASSUME NEW h, NEW n \in Nat, Behind(h, n), NEW m \in Member, NEW id, NEW T,
         Traced(h[n+1], m, id, MembersAt(h, n)[m].progresses, T)
  PROVE  T \subseteq ServingTo(h, m, id[3], n + 1)
<1> DEFINE progs == MembersAt(h, n)[m].progresses
           o == h[n+1]
           after == ServingTo(h, m, id[3], n + 1)
<1>1. ASSUME id \in DOMAIN progs
      PROVE  progs[id].seen \subseteq after /\ id[3] \in progs[id].seen /\ GivenTo(h, id[3], n) # {}
  <2>1. /\ progs[id].seen \subseteq ServingTo(h, m, id[3], n)
        /\ id[3] \in progs[id].seen
    BY <1>1 DEF Behind, Instance
  <2> QED
    BY <2>1, OneMore, ServingGiven
<1>2. CASE id \in DOMAIN progs /\ T \subseteq progs[id].seen
  BY <1>1, <1>2
<1>3. CASE ~o.late /\ o.ev.member = m /\ Origin(o.ev, id, progs, T)
  <2>1. CASE id \in DOMAIN progs /\ T \subseteq progs[id].seen \cup {o.ev.id}
    <3>1. GivenTo(h, id[3], n + 1) # {}
      BY <1>1, <2>1, OneMore
    <3>2. o.ev.id \in after
      BY <1>3, <3>1, OneMore
    <3>3. progs[id].seen \subseteq after
      BY <1>1, <2>1
    <3> HIDE DEF after, progs, o
    <3>4. T \subseteq after
      BY <2>1, <3>2, <3>3
    <3> QED
      BY <3>4 DEF after
  <2>2. CASE id[3] = o.ev.id /\ T = {o.ev.id}
    <3>1. GivenTo(h, id[3], n + 1) # {}
      BY <1>3, <2>2, OneMore
    <3> QED
      BY <1>3, <2>2, <3>1, OneMore
  <2> QED
    BY <1>3, <2>1, <2>2 DEF Origin
<1> QED
  BY <1>2, <1>3 DEF Traced

\* An outcome with the effect of one event keeps the log served.
LEMMA EffectServed ==
  ASSUME NEW h, NEW n \in Nat,
         \A k \in 1..(n + 1) : h[k].ev \in Events,
         Behind(h, n), Counted(h, n), Effect(MembersAt(h, n), h[n+1])
  PROVE  Behind(h, n + 1) /\ Counted(h, n + 1) /\ Rested(h, n + 1)
<1> DEFINE o == h[n+1]
           ms == MembersAt(h, n)
<1>1. MembersAt(h, n + 1) = o.members
  BY DEF MembersAt
<1>2. Behind(h, n + 1)
  <2> SUFFICES ASSUME NEW m \in Member, NEW id \in DOMAIN o.members[m].progresses
               PROVE  /\ Instance(id, o.members[m].progresses[id])
                      /\ o.members[m].progresses[id].seen \subseteq ServingTo(h, m, id[3], n + 1)
    BY <1>1 DEF Behind
  <2> QED
    BY TracedServing DEF Effect
<1>3. ASSUME NEW mt \in o.matches
      PROVE  /\ mt.member \in Member
             /\ SourceOf(mt) \notin DOMAIN o.members[mt.member].progresses
             /\ \E T : /\ Enough(mt.pattern, T) /\ mt.start \in T
                       /\ Traced(o, mt.member, SourceOf(mt), ms[mt.member].progresses, T)
                       /\ T \subseteq ServingTo(h, mt.member, mt.start, n + 1)
  <2>1. PICK T : /\ Enough(mt.pattern, T) /\ mt.start \in T
                 /\ Traced(o, mt.member, SourceOf(mt), ms[mt.member].progresses, T)
    BY DEF Effect
  <2>2. mt.member \in Member
    BY DEF Effect
  <2>3. SourceOf(mt)[3] = mt.start
    BY DEF SourceOf
  <2>4. T \subseteq ServingTo(h, mt.member, mt.start, n + 1)
    BY <2>1, <2>2, <2>3, TracedServing
  <2> QED
    BY <2>1, <2>4 DEF Effect
<1>4. Rested(h, n + 1)
  BY <1>3 DEF Rested
<1> HIDE DEF o, ms
<1>5. ASSUME NEW p, NEW s
      PROVE  LET fires == \E mt \in o.matches : mt.pattern = p /\ mt.start = s
             IN /\ fires => ~InFlight(h, p, s, n + 1)
                /\ fires \/ InFlight(h, p, s, n + 1) =>
                     InFlight(h, p, s, n) \/ (~o.late /\ o.ev.id = s)
  <2>1. ASSUME NEW m \in Member, <<p, m, s>> \in DOMAIN o.members[m].progresses
        PROVE  /\ InFlight(h, p, s, n) \/ (~o.late /\ o.ev.id = s)
               /\ \E k \in 1..(n + 1) : h[k].ev.id = s /\ h[k].ev.member = m
    <3> DEFINE id == <<p, m, s>>
    <3>1. Traced(o, m, id, ms[m].progresses, o.members[m].progresses[id].seen)
      BY <2>1 DEF Effect, o, ms
    <3>2. id \in DOMAIN ms[m].progresses \/ (~o.late /\ o.ev.id = s)
      BY <3>1 DEF Traced, Origin
    <3>3. s \in ServingTo(h, m, s, n + 1)
      <4> DEFINE q == MembersAt(h, n + 1)[m].progresses[id]
      <4>1. id \in DOMAIN MembersAt(h, n + 1)[m].progresses
        BY <1>1, <2>1
      <4>2. Instance(id, q) /\ q.seen \subseteq ServingTo(h, m, id[3], n + 1)
        BY <1>2, <4>1 DEF Behind
      <4>3. id[3] = s /\ id[3] \in q.seen
        BY <4>2 DEF Instance
      <4> QED
        BY <4>2, <4>3
    <3>4. \E k \in 1..(n + 1) : h[k].ev.id = s /\ h[k].ev.member = m
      BY <3>3, ServingGiven
    <3> QED
      BY <3>2, <3>4 DEF InFlight, ms
  <2>2. ASSUME NEW mt \in o.matches, mt.pattern = p, mt.start = s
        PROVE  /\ InFlight(h, p, s, n) \/ (~o.late /\ o.ev.id = s)
               /\ <<p, mt.member, s>> \notin DOMAIN o.members[mt.member].progresses
               /\ \E k \in 1..(n + 1) : h[k].ev.id = s /\ h[k].ev.member = mt.member
    <3>1. SourceOf(mt) = <<p, mt.member, s>>
      BY <2>2 DEF SourceOf
    <3>2. PICK T : /\ mt.start \in T
                   /\ Traced(o, mt.member, SourceOf(mt), ms[mt.member].progresses, T)
                   /\ T \subseteq ServingTo(h, mt.member, mt.start, n + 1)
      BY <1>3
    <3>3. <<p, mt.member, s>> \in DOMAIN ms[mt.member].progresses \/ (~o.late /\ o.ev.id = s)
      BY <3>1, <3>2 DEF Traced, Origin
    <3>4. s \in ServingTo(h, mt.member, s, n + 1)
      BY <2>2, <3>2
    <3>5. \E k \in 1..(n + 1) : h[k].ev.id = s /\ h[k].ev.member = mt.member
      BY <3>4, ServingGiven
    <3> QED
      BY <1>3, <3>1, <3>3, <3>5 DEF InFlight, ms
  <2>3. ASSUME NEW mt \in o.matches, mt.pattern = p, mt.start = s,
               NEW m \in Member, <<p, m, s>> \in DOMAIN o.members[m].progresses
        PROVE  FALSE
    <3>1. PICK k \in 1..(n + 1) : h[k].ev.id = s /\ h[k].ev.member = m
      BY <2>1, <2>3
    <3>2. PICK l \in 1..(n + 1) : h[l].ev.id = s /\ h[l].ev.member = mt.member
      BY <2>2, <2>3
    <3>3. m = mt.member
      BY <3>1, <3>2, IdentityAssumption
    <3> QED
      BY <2>2, <2>3, <3>3
  <2> QED
    BY <1>1, <2>1, <2>2, <2>3 DEF InFlight
<1>6. Counted(h, n + 1)
  <2> SUFFICES ASSUME NEW p, NEW s
               PROVE  /\ Cardinality(FiredBy(h, p, s, n + 1)) <= Cardinality(GivenTo(h, s, n + 1))
                      /\ InFlight(h, p, s, n + 1) =>
                           Cardinality(FiredBy(h, p, s, n + 1)) < Cardinality(GivenTo(h, s, n + 1))
    BY DEF Counted
  <2> DEFINE fires == \E mt \in o.matches : mt.pattern = p /\ mt.start = s
             gives == ~o.late /\ o.ev.id = s
             F == Cardinality(FiredBy(h, p, s, n))
             G == Cardinality(GivenTo(h, s, n))
             F1 == Cardinality(FiredBy(h, p, s, n + 1))
             G1 == Cardinality(GivenTo(h, s, n + 1))
             before == InFlight(h, p, s, n)
             now == InFlight(h, p, s, n + 1)
  <2>1. F \in Nat /\ G \in Nat
    BY FiniteSets
  <2>2. F1 = IF fires THEN F + 1 ELSE F
    <3>1. FiredBy(h, p, s, n + 1) =
            IF fires THEN FiredBy(h, p, s, n) \cup {n + 1} ELSE FiredBy(h, p, s, n)
      BY OneMore DEF o
    <3>2. Cardinality(FiredBy(h, p, s, n) \cup {n + 1}) = F + 1
      BY FiniteSets, FS_AddElement
    <3> QED
      BY <3>1, <3>2
  <2>3. G1 = IF gives THEN G + 1 ELSE G
    <3>1. GivenTo(h, s, n + 1) =
            IF gives THEN GivenTo(h, s, n) \cup {n + 1} ELSE GivenTo(h, s, n)
      BY OneMore DEF o
    <3>2. Cardinality(GivenTo(h, s, n) \cup {n + 1}) = G + 1
      BY FiniteSets, FS_AddElement
    <3> QED
      BY <3>1, <3>2
  <2>4. F <= G /\ (before => F < G)
    BY DEF Counted
  <2>5. (fires => ~now) /\ (fires \/ now => before \/ gives)
    BY <1>5
  <2> HIDE DEF fires, gives, F, G, F1, G1, before, now
  <2>6. F1 <= G1 /\ (now => F1 < G1)
    BY <2>1, <2>2, <2>3, <2>4, <2>5
  <2> QED
    BY <2>6 DEF F1, G1, now
<1> QED
  BY <1>2, <1>4, <1>6

\* What is said of the first n positions depends on nothing after them.
LEMMA PrefixOnly ==
  ASSUME NEW g, NEW h, NEW n \in Nat, \A i \in 1..n : g[i] = h[i]
  PROVE  /\ Behind(h, n) => Behind(g, n)
         /\ Counted(h, n) => Counted(g, n)
         /\ n # 0 /\ Rested(h, n) => Rested(g, n)
<1>1. MembersAt(g, n) = MembersAt(h, n)
  <2>1. n # 0 => n \in 1..n
    OBVIOUS
  <2> QED
    BY <2>1 DEF MembersAt
<1>2. \A l \in 1..n : \A s : GivenTo(g, s, l) = GivenTo(h, s, l)
  BY DEF GivenTo
<1>3. \A s : GivenTo(g, s, n) = GivenTo(h, s, n)
  BY DEF GivenTo
<1>4. \A p, s : FiredBy(g, p, s, n) = FiredBy(h, p, s, n)
  BY DEF FiredBy
<1>5. \A m, s : ServingTo(g, m, s, n) = ServingTo(h, m, s, n)
  <2> SUFFICES ASSUME NEW m, NEW s PROVE ServingTo(g, m, s, n) = ServingTo(h, m, s, n)
    OBVIOUS
  <2> DEFINE K(f) == {l \in 1..n : ~f[l].late /\ f[l].ev.member = m /\ GivenTo(f, s, l) # {}}
  <2>1. K(g) = K(h)
    BY <1>2
  <2>2. \A k \in K(g) : g[k].ev.id = h[k].ev.id
    OBVIOUS
  <2>3. ServingTo(g, m, s, n) = {g[k].ev.id : k \in K(g)}
    BY DEF ServingTo
  <2>4. ServingTo(h, m, s, n) = {h[k].ev.id : k \in K(h)}
    BY DEF ServingTo
  <2> HIDE DEF K
  <2> QED
    BY <2>1, <2>2, <2>3, <2>4
<1>6. Behind(h, n) => Behind(g, n)
  BY <1>1, <1>5 DEF Behind
<1>7. \A p, s : InFlight(g, p, s, n) => InFlight(h, p, s, n)
  BY <1>1 DEF InFlight
<1>8. Counted(h, n) => Counted(g, n)
  BY <1>3, <1>4, <1>7 DEF Counted
<1>9. n # 0 /\ Rested(h, n) => Rested(g, n)
  <2>1. n # 0 => g[n] = h[n]
    OBVIOUS
  <2> QED
    BY <1>5, <2>1 DEF Rested
<1> QED
  BY <1>6, <1>8, <1>9

\* Nothing has been served yet.
LEMMA InitServed ==
  ASSUME Init
  PROVE  Served(hist)
<1>1. hist = <<>> /\ Len(hist) = 0 /\ 0..0 = {0}
  BY DEF Init
<1>2. MembersAt(hist, 0) = Fresh
  BY DEF MembersAt
<1>3. \A m \in Member : DOMAIN Fresh[m].progresses = {}
  BY DEF Fresh, NewMemberState, NoProgresses
<1>4. Behind(hist, 0)
  BY <1>2, <1>3 DEF Behind
<1>5. Counted(hist, 0)
  <2>1. \A p, s : ~InFlight(hist, p, s, 0)
    BY <1>2, <1>3 DEF InFlight
  <2>2. \A p, s : FiredBy(hist, p, s, 0) = {} /\ GivenTo(hist, s, 0) = {}
    BY DEF FiredBy, GivenTo
  <2>3. Cardinality({}) <= Cardinality({})
    BY FS_EmptySet
  <2> QED
    BY <2>1, <2>2, <2>3 DEF Counted
<1> QED
  BY <1>1, <1>4, <1>5 DEF Served

\* Every step of the engine keeps the log served.
LEMMA NextServed ==
  ASSUME IInv, Served(hist), [Next]_vars
  PROVE  Served(hist')
<1>1. CASE hist' = hist
  BY <1>1
<1>2. CASE hist' # hist
  <2> DEFINE n == Len(hist)
             h == hist'
             o(ev) == Outcome(conf, members, watermark, ev)
  <2>1. PICK ev \in Events :
          /\ n \in Nat /\ Len(h) = n + 1
          /\ members = MembersAt(hist, n)
          /\ \A i \in 1..n : h[i] = hist[i]
          /\ h[n + 1] = o(ev)
          /\ o(ev).ev = ev
    BY <1>2, LogStep
  <2>2. Settled(members, watermark) /\ conf \in Configs
    BY RunningSettled DEF IInv, Positions
  <2>3. n \in 0..n /\ \A k \in 0..n : k \in Nat /\ k <= n
    BY <2>1
  <2>4. Behind(hist, n) /\ Counted(hist, n)
    BY <2>3 DEF Served
  <2>5. \A m \in Member : InstancesOf(members[m].progresses)
    BY <2>1, <2>4 DEF Behind, InstancesOf
  <2>6. Effect(members, o(ev))
    BY <2>2, <2>5, LateServes, OnTimeServes DEF Outcome, Settled
  <2>7. MembersAt(h, n) = members
    <3>1. n # 0 => n \in 1..n
      BY <2>1
    <3> QED
      BY <2>1, <3>1 DEF MembersAt
  <2> HIDE DEF o, h, n
  <2>8. ASSUME NEW k \in 0..n
        PROVE  /\ Behind(h, k) /\ Counted(h, k)
               /\ k # 0 => Rested(h, k)
    <3>1. k \in Nat /\ \A i \in 1..k : h[i] = hist[i]
      BY <2>1, <2>3
    <3>2. /\ Behind(hist, k) /\ Counted(hist, k)
          /\ k # 0 => Rested(hist, k)
      <4>1. k # 0 => k \in 1..Len(hist)
        BY <2>1 DEF n
      <4> QED
        BY <4>1 DEF Served, n
    <3> QED
      BY <3>1, <3>2, PrefixOnly
  <2>9. \A k \in 1..(n + 1) : h[k].ev \in Events
    <3>1. \A k \in 1..n : hist[k].ev \in Events
      BY DEF Served, n
    <3>2. \A k \in 1..(n + 1) : k \in 1..n \/ k = n + 1
      BY <2>1
    <3> QED
      BY <2>1, <3>1, <3>2
  <2>10. Behind(h, n + 1) /\ Counted(h, n + 1) /\ Rested(h, n + 1)
    BY <2>1, <2>3, <2>6, <2>7, <2>8, <2>9, EffectServed
  <2>11. /\ \A k \in 0..(n + 1) : k \in 0..n \/ k = n + 1
         /\ \A k \in 1..(n + 1) : (k \in 0..n /\ k # 0) \/ k = n + 1
    BY <2>1
  <2>12. /\ \A k \in 0..(n + 1) : Behind(h, k) /\ Counted(h, k)
         /\ \A k \in 1..(n + 1) : Rested(h, k)
    BY <2>8, <2>10, <2>11
  <2>13. Served(h)
    BY <2>1, <2>9, <2>12 DEF Served
  <2> QED
    BY <2>13 DEF h
<1> QED
  BY <1>1, <1>2

\* A non-empty set of positions has a first one.
LEMMA FirstPosition ==
  ASSUME NEW S \in SUBSET Nat, S # {}
  PROVE  Min(S) \in S /\ \A y \in S : Min(S) <= y
<1>1. PICK x \in S : \A y \in S : <<y, x>> \notin OpToRel(<, Nat)
  BY WFMin, NatLessThanWellFounded
<1>2. \A y \in S : ~(y < x)
  BY <1>1 DEF OpToRel
<1>3. \E z \in S : \A y \in S : z <= y
  BY <1>2
<1> QED
  BY <1>3 DEF Min

\* In a log that is served, matches rest on enough events and are no more than
\* the deliveries of their start event.
LEMMA ServedSafe ==
  ASSUME Len(hist) \in Nat, DOMAIN hist = 1..Len(hist), Served(hist)
  PROVE  RedeliverySafe
<1> DEFINE n == Len(hist)
<1> SUFFICES
      ASSUME NEW p \in DOMAIN Patterns, NEW i \in DOMAIN hist
      PROVE  LET given == {j \in DOMAIN hist : OnTime(j) /\ hist[j].ev.id = hist[i].ev.id}
                 steps == {k \in 1..Len(Patterns[p]) : ~Patterns[p][k].negative}
             IN /\ Cardinality(Fired(p, i)) <= Cardinality(given)
                /\ \A j \in Fired(p, i) :
                     Cardinality({hist[k].ev.id : k \in {l \in Min(given)..j :
                                    OnTime(l) /\ Own(hist[i].ev.member, l)}})
                       >= Cardinality(steps)
  BY DEF RedeliverySafe
<1> DEFINE s == hist[i].ev.id
           m == hist[i].ev.member
           given == {j \in DOMAIN hist : OnTime(j) /\ hist[j].ev.id = s}
           steps == {k \in 1..Len(Patterns[p]) : ~Patterns[p][k].negative}
<1>1. given = GivenTo(hist, s, n) /\ Fired(p, i) = FiredBy(hist, p, s, n) /\ steps = Positive(p)
  BY DEF GivenTo, FiredBy, OnTime, Fired, Positive
<1>2. Cardinality(Fired(p, i)) <= Cardinality(given)
  <2>1. n \in 0..n
    OBVIOUS
  <2>2. Counted(hist, n)
    BY <2>1 DEF Served
  <2> QED
    BY <1>1, <2>2 DEF Counted
<1>3. ASSUME NEW j \in Fired(p, i)
      PROVE  LET between == {l \in Min(given)..j : OnTime(l) /\ Own(m, l)}
             IN Cardinality({hist[k].ev.id : k \in between}) >= Cardinality(steps)
  <2> DEFINE between == {l \in Min(given)..j : OnTime(l) /\ Own(m, l)}
             ids == {hist[k].ev.id : k \in between}
  <2>1. PICK mt \in hist[j].matches : mt.pattern = p /\ mt.start = s
    BY DEF Fired
  <2>2. j \in 1..n /\ Rested(hist, j)
    BY DEF Fired, Served
  <2>3. PICK T : /\ Enough(p, T) /\ s \in T
                 /\ T \subseteq ServingTo(hist, mt.member, s, j)
    BY <2>1, <2>2 DEF Rested
  <2>4. mt.member = m
    <3>1. PICK k \in 1..j : hist[k].ev.id = s /\ hist[k].ev.member = mt.member
      BY <2>2, <2>3, ServingGiven
    <3>2. hist[k].ev \in Events /\ hist[i].ev \in Events
      BY <2>2, <3>1 DEF Served
    <3> QED
      BY <3>1, <3>2, IdentityAssumption
  <2>5. GivenTo(hist, s, j) # {} /\ GivenTo(hist, s, j) \subseteq given /\ given \subseteq Nat
    BY <2>2, <2>3, ServingGiven DEF GivenTo, OnTime
  <2>6. Min(given) \in Nat /\ \A g \in given : Min(given) <= g
    <3> HIDE DEF given
    <3> QED
      BY <2>5, FirstPosition
  <2> HIDE DEF given
  <2>7. ServingTo(hist, m, s, j) \subseteq ids
    <3> SUFFICES ASSUME NEW l \in 1..j, ~hist[l].late, hist[l].ev.member = m,
                        GivenTo(hist, s, l) # {}
                 PROVE  l \in between
      BY DEF ServingTo
    <3>1. PICK g \in GivenTo(hist, s, l) : TRUE
      OBVIOUS
    <3>2. g \in 1..l /\ g \in given
      BY <2>2, <2>5, <3>1 DEF GivenTo
    <3>3. Min(given) <= g
      BY <2>6, <3>2
    <3> QED
      BY <2>2, <2>6, <3>2, <3>3 DEF OnTime, Own
  <2>8. IsFiniteSet(ids)
    <3>1. IsFiniteSet(Min(given)..j)
      BY <2>2, <2>6, FS_Interval
    <3>2. IsFiniteSet(between)
      BY <3>1, FS_Subset
    <3> HIDE DEF between
    <3>3. [k \in between |-> hist[k].ev.id] \in Surjection(between, ids)
      BY DEF Surjection
    <3> HIDE DEF ids
    <3>4. PICK f : f \in Surjection(between, ids)
      BY <3>3
    <3> QED
      BY <3>2, <3>4, FS_Surjection
  <2> HIDE DEF ids
  <2>9. Cardinality(T) <= Cardinality(ids) /\ T \subseteq ids
    BY <2>3, <2>4, <2>7, <2>8, FS_Subset
  <2>10. Cardinality(steps) <= Cardinality(T)
    BY <1>1, <2>3 DEF Enough
  <2>11. /\ Cardinality(ids) \in Nat /\ Cardinality(T) \in Nat /\ Cardinality(steps) \in Nat
    BY <1>1, <2>3, <2>8, PositiveStates, FS_CardinalityType DEF Enough
  <2> HIDE DEF steps
  <2>12. Cardinality(ids) >= Cardinality(steps)
    BY <2>9, <2>10, <2>11
  <2> QED
    BY <2>12 DEF ids
<1> QED
  BY <1>2, <1>3

-----------------------------------------------------------------------------
(* Exactness: the reference instance. *)

\* f is a solution of the recursion of RefChain for n states.
IsChain(p, i, n, f) ==
  f = [k \in 1..n |-> IF k = 1 THEN RefFirst(p, i) ELSE RefNext(p, i, k, f[k-1])]

\* The recursion of RefChain has a solution: it is built up state by state.
LEMMA ChainExists ==
  ASSUME NEW p, NEW i, NEW n \in Nat
  PROVE  \E f : IsChain(p, i, n, f)
<1> DEFINE B(k, r) == IF k = 1 THEN RefFirst(p, i) ELSE RefNext(p, i, k, r)
           P == {l \in Nat : \E f : f = [k \in 1..l |-> B(k, f[k-1])]}
<1> HIDE DEF B
<1>1. 0 \in P
  <2>1. [k \in {} |-> 0] = [k \in 1..0 |-> B(k, [j \in {} |-> 0][k-1])]
    OBVIOUS
  <2> QED
    BY <2>1
<1>2. ASSUME NEW l \in Nat, l \in P PROVE l + 1 \in P
  <2>1. PICK f : f = [k \in 1..l |-> B(k, f[k-1])]
    BY <1>2
  <2> DEFINE g == [k \in 1..(l + 1) |-> IF k = l + 1 THEN B(l + 1, f[l]) ELSE f[k]]
  <2>2. \A k \in 1..(l + 1) : k = l + 1 \/ k \in 1..l
    OBVIOUS
  <2>3. ASSUME NEW k \in 1..(l + 1) PROVE g[k] = B(k, g[k-1])
    <3>1. CASE k = 1 /\ l = 0
      <4>1. B(1, f[0]) = B(1, g[0])
        BY DEF B
      <4> QED
        BY <3>1, <4>1
    <3>2. CASE k = 1 /\ l # 0
      <4>1. g[1] = B(1, f[0])
        BY <2>1, <3>2
      <4>2. B(1, f[0]) = B(1, g[0])
        BY DEF B
      <4> QED
        BY <3>2, <4>1, <4>2
    <3>3. CASE k # 1 /\ k = l + 1
      <4>1. g[k] = B(l + 1, f[l]) /\ g[k-1] = f[l]
        BY <3>3
      <4> QED
        BY <3>3, <4>1
    <3>4. CASE k # 1 /\ k \in 1..l
      <4>1. g[k] = f[k] /\ g[k-1] = f[k-1]
        BY <3>4
      <4>2. f[k] = B(k, f[k-1])
        BY <2>1, <3>4
      <4> QED
        BY <4>1, <4>2
    <3> QED
      BY <2>2, <3>1, <3>2, <3>3, <3>4
  <2>4. g = [k \in 1..(l + 1) |-> g[k]]
    OBVIOUS
  <2> HIDE DEF g
  <2>5. g = [k \in 1..(l + 1) |-> B(k, g[k-1])]
    BY <2>3, <2>4
  <2> QED
    BY <2>5
<1> HIDE DEF P
<1>3. n \in P
  BY <1>1, <1>2, NumbersFromZero
<1> QED
  BY <1>3 DEF P, B, IsChain

\* RefChain, state by state.
LEMMA ChainSteps ==
  ASSUME NEW p \in DOMAIN Patterns, NEW i
  PROVE  /\ RefChain(p, i)[1] = RefFirst(p, i)
         /\ \A k \in 2..Len(Patterns[p]) :
              RefChain(p, i)[k] = RefNext(p, i, k, RefChain(p, i)[k-1])
<1> DEFINE n == Len(Patterns[p])
           f == RefChain(p, i)
<1>1. n \in Nat /\ n > 0
  BY PatternsAssumption, PatternsRegistered DEF AddPattern
<1>2. f = [k \in 1..n |-> IF k = 1 THEN RefFirst(p, i) ELSE RefNext(p, i, k, f[k-1])]
  <2>1. \E g : IsChain(p, i, n, g)
    BY <1>1, ChainExists
  <2> QED
    BY <2>1, Zenon DEF RefChain, IsChain
<1> HIDE DEF n, f
<1>3. 1 \in 1..n /\ \A k \in 2..n : k \in 1..n /\ k # 1
  BY <1>1
<1>4. f[1] = RefFirst(p, i)
  BY <1>2, <1>3
<1>5. \A k \in 2..n : f[k] = RefNext(p, i, k, f[k-1])
  BY <1>2, <1>3
<1> QED
  BY <1>4, <1>5 DEF n, f

-----------------------------------------------------------------------------
(* Exactness: one progress in processCEP and in the drain. *)

\* What the answer cep of processCEP has of the progress id: nothing, a match
\* that took it away, or the progress q.
CepOff(cep, id) ==
  id \notin DOMAIN cep.progresses /\ \A mt \in cep.matches : SourceOf(mt) # id
CepDone(cep, id) ==
  id \notin DOMAIN cep.progresses /\ \E mt \in cep.matches : SourceOf(mt) = id
CepIn(cep, id, q) ==
  /\ id \in DOMAIN cep.progresses /\ cep.progresses[id] = q
  /\ \A mt \in cep.matches : SourceOf(mt) # id

\* q after event ev satisfied its next state st.
Stepped(q, r, ev, st) ==
  /\ r.pattern = q.pattern /\ r.step = q.step + 1 /\ r.started = q.started
  /\ r.vars = Bind(ev, st, q.vars)
  /\ r.negDeadline = ParkDeadline(Patterns[q.pattern], q.step + 1, q.started)

\* ev lies past the window of the positive state st for a progress q.
TooLate(ev, st, q) == st.wait # NoWait /\ ev.at > q.started + st.wait

\* What advanceProgress makes of progress q, waiting on state st, at event ev: a
\* forbidden event or one past the window ends it, an unfit one leaves it, and one
\* that satisfies st moves it on or, at the last state, matches.
Advanced(st, ev, q, a) ==
  /\ st.negative /\ ev.at <= q.negDeadline /\ CepMatchState(ev, st, q.vars) =>
       ~a.keep /\ a.matches = {}
  /\ st.negative /\ ~(ev.at <= q.negDeadline /\ CepMatchState(ev, st, q.vars)) =>
       a.keep /\ a.p = q
  /\ ~st.negative /\ TooLate(ev, st, q) => ~a.keep /\ a.matches = {}
  /\ ~st.negative /\ ~TooLate(ev, st, q) /\ ~CepMatchState(ev, st, q.vars) =>
       a.keep /\ a.p = q
  /\ ~st.negative /\ ~TooLate(ev, st, q) /\ CepMatchState(ev, st, q.vars)
       /\ q.step + 1 = Len(Patterns[q.pattern]) =>
       ~a.keep /\ a.matches # {}
  /\ ~st.negative /\ ~TooLate(ev, st, q) /\ CepMatchState(ev, st, q.vars)
       /\ q.step + 1 # Len(Patterns[q.pattern]) =>
       a.keep /\ Stepped(q, a.p, ev, st)

\* advanceProgress on an event the progress has not served.
LEMMA AdvanceCases ==
  ASSUME NEW c \in Configs, NEW ev, NEW m, NEW id, NEW q, ProgressOf(m, id, q), Instance(id, q),
         q.pattern \in c.patterns, ev.id \notin q.seen,
         NEW st, st = Patterns[q.pattern][q.step + 1],
         NEW a, a = AdvanceProgress(RegisteredIn(c), ev, id, q)
  PROVE  Advanced(st, ev, q, a)
<1> DEFINE states == Patterns[q.pattern]
           matched == CepMatchState(ev, st, q.vars)
           b == StepForward(states, ev, id, q, st)
<1>1. /\ q.pattern \in DOMAIN RegisteredIn(c)
      /\ RegisteredIn(c)[q.pattern] = states
      /\ q.pattern \in DOMAIN Patterns
      /\ q.step \in Nat /\ q.step < Len(states) /\ Len(states) \in Nat
  BY PositiveStates DEF RegisteredIn, Instance, ProgressOf
<1>2. st.negative \in BOOLEAN
  <2>1. q.step + 1 \in 1..Len(states)
    BY <1>1
  <2> QED
    BY <1>1, <2>1, StateTyped
<1>3. ~(\/ q.pattern \notin DOMAIN RegisteredIn(c)
        \/ q.step >= Len(RegisteredIn(c)[q.pattern]))
  BY <1>1
<1>4. a = CASE ev.id \in q.seen -> Keep(q)
            [] ev.id \notin q.seen /\ st.negative ->
                 IF ev.at <= q.negDeadline /\ matched THEN Drop ELSE Keep(q)
            [] ev.id \notin q.seen /\ ~st.negative ->
                 IF st.wait # NoWait /\ ev.at > q.started + st.wait THEN Drop
                 ELSE IF matched THEN b
                 ELSE Keep(q)
  BY <1>1, <1>3 DEF AdvanceProgress
<1> HIDE DEF matched, b
<1>5. /\ st.negative /\ ev.at <= q.negDeadline /\ matched => a = Drop
      /\ st.negative /\ ~(ev.at <= q.negDeadline /\ matched) => a = Keep(q)
      /\ ~st.negative /\ TooLate(ev, st, q) => a = Drop
      /\ ~st.negative /\ ~TooLate(ev, st, q) /\ matched => a = b
      /\ ~st.negative /\ ~TooLate(ev, st, q) /\ ~matched => a = Keep(q)
  BY <1>2, <1>4 DEF TooLate
<1>6. ~Drop.keep /\ Drop.matches = {} /\ Keep(q).keep /\ Keep(q).p = q
  BY DEF Drop, Keep
<1>7. ASSUME q.step + 1 = Len(states) PROVE ~b.keep /\ b.matches # {}
  BY <1>7 DEF b, StepForward, Drop
<1>8. ASSUME q.step + 1 # Len(states), ~st.negative PROVE b.keep /\ Stepped(q, b.p, ev, st)
  <2> DEFINE vs == Bind(ev, st, q.vars)
             step == q.step + 1
             deadline == ParkDeadline(states, step, q.started)
             r == [q EXCEPT !.step = step, !.vars = vs, !.seen = @ \cup {ev.id},
                            !.negDeadline = IF deadline = NoTime THEN @ ELSE deadline]
  <2>1. b = [keep |-> TRUE, matches |-> {}, pushes |-> Pushed(deadline, id), p |-> r]
    BY <1>8 DEF StepForward, b
  <2>2. b.keep /\ b.p = r
    <3> HIDE DEF r, deadline
    <3> QED
      BY <2>1
  <2>3. {"pattern", "step", "vars", "started", "seen", "negDeadline"} \subseteq DOMAIN q
    BY DEF ProgressOf
  <2>4. /\ r.pattern = q.pattern /\ r.step = step /\ r.started = q.started /\ r.vars = vs
        /\ r.negDeadline = IF deadline = NoTime THEN q.negDeadline ELSE deadline
    <3> HIDE DEF deadline, vs, step
    <3> QED
      BY <2>3
  <2>5. q.negDeadline = NoTime
    BY <1>8 DEF Instance
  <2> HIDE DEF r, deadline
  <2>6. r.negDeadline = deadline
    BY <2>4, <2>5
  <2> QED
    BY <2>2, <2>4, <2>6 DEF Stepped, deadline
<1> QED
  BY <1>5, <1>6, <1>7, <1>8 DEF matched, Advanced

\* The sweep takes q.
Overlong(q, wm) ==
  /\ MaxDuration(Patterns[q.pattern]) > 0
  /\ wm - q.started > MaxDuration(Patterns[q.pattern])

\* What processCEP makes of the progress q, which is swept or answered a.
Answered(cep, id, q, a, wm) ==
  /\ Overlong(q, wm) => CepOff(cep, id)
  /\ ~Overlong(q, wm) /\ a.keep => CepIn(cep, id, a.p)
  /\ ~Overlong(q, wm) /\ ~a.keep /\ a.matches = {} => CepOff(cep, id)
  /\ ~Overlong(q, wm) /\ ~a.keep /\ a.matches # {} => CepDone(cep, id)

\* processCEP for one progress of the event's member: it can only be opened by its
\* own start event, and is else swept or answered by advanceProgress.
LEMMA CepOnOne ==
  ASSUME NEW c \in Configs, NEW ev \in Events, NEW progs, NEW wm,
         ProgressesOf(ev.member, progs), InstancesOf(progs),
         NEW p \in c.patterns, NEW s, NEW id, id = <<p, ev.member, s>>,
         NEW cep, cep = ProcessCEP(RegisteredIn(c), progs, ev, wm)
  PROVE  /\ s # ev.id /\ id \notin DOMAIN progs => CepOff(cep, id)
         /\ s # ev.id /\ id \in DOMAIN progs =>
              Answered(cep, id, progs[id],
                       AdvanceProgress(RegisteredIn(c), ev, id, progs[id]), wm)
         /\ s = ev.id /\ id \notin DOMAIN progs =>
              /\ ~CepMatchState(ev, Patterns[p][1], NoNum) => CepOff(cep, id)
              /\ CepMatchState(ev, Patterns[p][1], NoNum) /\ Len(Patterns[p]) = 1 =>
                   CepDone(cep, id)
              /\ CepMatchState(ev, Patterns[p][1], NoNum) /\ Len(Patterns[p]) # 1 =>
                   CepIn(cep, id, NewProgress(RegisteredIn(c), p, ev))
<1> DEFINE patterns == RegisteredIn(c)
           m == ev.member
           swept == Sweep(patterns, progs, wm)
           adv == [j \in DOMAIN swept |-> AdvanceProgress(patterns, ev, j, swept[j])]
           kept == {j \in DOMAIN swept : adv[j].keep}
           starts == {pid \in DOMAIN patterns :
                        /\ CepMatchState(ev, patterns[pid][1], NoNum)
                        /\ ProgressID(pid, ev) \notin kept}
           instant == {pid \in starts : Len(patterns[pid]) = 1}
           opened == starts \ instant
           new == [j \in {ProgressID(pid, ev) : pid \in opened} |->
                     NewProgress(patterns, j[1], ev)]
           after == [j \in kept \cup DOMAIN new |->
                       IF j \in DOMAIN new THEN new[j] ELSE adv[j].p]
           pushes == (UNION {adv[j].pushes : j \in DOMAIN swept})
                       \cup (UNION {Pushed(new[j].negDeadline, j) : j \in DOMAIN new})
           matches == (UNION {adv[j].matches : j \in DOMAIN swept})
                       \cup {MatchResult(ProgressID(pid, ev),
                                         Bind(ev, patterns[pid][1], NoNum), ev.at)
                               : pid \in instant}
<1>1. cep = [progresses |-> after, pushes |-> pushes, matches |-> matches]
  BY DEF ProcessCEP
<1>2. cep.progresses = after /\ cep.matches = matches
  <2> HIDE DEF after, pushes, matches
  <2> QED
    BY <1>1
<1>3. /\ DOMAIN patterns = c.patterns
      /\ \A pid \in c.patterns : patterns[pid] = Patterns[pid]
  BY DEF RegisteredIn
<1>4. ASSUME NEW j \in DOMAIN swept
      PROVE  /\ j \in DOMAIN progs
             /\ ProgressOf(m, j, progs[j])
             /\ Instance(j, progs[j])
             /\ adv[j] = AdvanceProgress(patterns, ev, j, progs[j])
             /\ Serves(ev, j, progs[j], adv[j])
  <2>1. j \in DOMAIN progs /\ swept[j] = progs[j]
    BY <1>4 DEF Sweep
  <2>2. ProgressOf(m, j, progs[j]) /\ Instance(j, progs[j])
    BY <2>1 DEF ProgressesOf, InstancesOf
  <2>3. adv[j] = AdvanceProgress(patterns, ev, j, progs[j])
    BY <2>1
  <2> QED
    BY <2>1, <2>2, <2>3, AdvanceProgressServes
<1>5. ASSUME id \in DOMAIN progs
      PROVE  id \in DOMAIN swept <=> ~Overlong(progs[id], wm)
  <2>1. ProgressOf(m, id, progs[id])
    BY <1>5 DEF ProgressesOf
  <2>2. progs[id].pattern = p
    BY <2>1 DEF ProgressOf
  <2>3. p \in DOMAIN patterns /\ patterns[p] = Patterns[p]
    BY <1>3
  <2> HIDE DEF patterns
  <2> QED
    BY <1>5, <2>2, <2>3 DEF Sweep, Overlong
<1>6. id \notin DOMAIN progs => id \notin DOMAIN swept
  BY <1>4
<1>7. \A pid : ProgressID(pid, ev) = <<pid, m, ev.id>>
  BY DEF ProgressID
<1>8. /\ \A j \in DOMAIN new : j[3] = ev.id
      /\ id \in DOMAIN new <=> s = ev.id /\ p \in opened
      /\ id \in DOMAIN new => new[id] = NewProgress(patterns, p, ev)
  <2>1. DOMAIN new = {ProgressID(pid, ev) : pid \in opened}
    OBVIOUS
  <2>2. id \in DOMAIN new => new[id] = NewProgress(patterns, id[1], ev)
    OBVIOUS
  <2>3. id[1] = p
    OBVIOUS
  <2>4. /\ \A pid : ProgressID(pid, ev)[3] = ev.id
        /\ \A pid : ProgressID(pid, ev) = id <=> pid = p /\ s = ev.id
    BY DEF ProgressID
  <2> HIDE DEF new, opened, patterns, m
  <2>5. \A j : j \in DOMAIN new <=> \E pid \in opened : j = ProgressID(pid, ev)
    BY <2>1
  <2>6. \A j \in DOMAIN new : j[3] = ev.id
    BY <2>4, <2>5
  <2>7. id \in DOMAIN new <=> s = ev.id /\ p \in opened
    BY <2>4, <2>5
  <2> QED
    BY <2>2, <2>3, <2>6, <2>7
<1>9. /\ DOMAIN after = kept \cup DOMAIN new
      /\ \A j \in DOMAIN after : after[j] = IF j \in DOMAIN new THEN new[j] ELSE adv[j].p
  OBVIOUS
<1>10. \A mt : mt \in matches <=>
        \/ \E j \in DOMAIN swept : mt \in adv[j].matches
        \/ \E pid \in instant :
             mt = MatchResult(ProgressID(pid, ev), Bind(ev, patterns[pid][1], NoNum), ev.at)
  <2> HIDE DEF instant, swept, adv
  <2> DEFINE A == UNION {adv[j].matches : j \in DOMAIN swept}
             B == {MatchResult(ProgressID(pid, ev), Bind(ev, patterns[pid][1], NoNum), ev.at)
                     : pid \in instant}
  <2>1. \A mt : mt \in A <=> \E j \in DOMAIN swept : mt \in adv[j].matches
    OBVIOUS
  <2>2. matches = A \cup B
    OBVIOUS
  <2>3. \A mt : mt \in B <=> \E pid \in instant :
          mt = MatchResult(ProgressID(pid, ev), Bind(ev, patterns[pid][1], NoNum), ev.at)
    OBVIOUS
  <2> HIDE DEF A, B, matches
  <2> QED
    BY <2>1, <2>2, <2>3
<1>11. \A pid : SourceOf(MatchResult(ProgressID(pid, ev), Bind(ev, patterns[pid][1], NoNum), ev.at))
                  = <<pid, m, ev.id>>
  BY DEF SourceOf, MatchResult, ProgressID
<1>12. kept = {j \in DOMAIN swept : adv[j].keep} /\ instant = {pid \in starts : Len(patterns[pid]) = 1}
       /\ opened = starts \ instant
       /\ \A pid : pid \in starts <=> /\ pid \in c.patterns
                                      /\ CepMatchState(ev, patterns[pid][1], NoNum)
                                      /\ <<pid, m, ev.id>> \notin kept
  BY <1>3, <1>7
<1> HIDE DEF swept, adv, new, after, matches, pushes, patterns, kept, instant, opened, starts
<1>13. (\E mt \in matches : SourceOf(mt) = id) <=>
         \/ id \in DOMAIN swept /\ adv[id].matches # {}
         \/ s = ev.id /\ p \in instant
  <2>1. \A j \in DOMAIN swept : \A mt \in adv[j].matches : SourceOf(mt) = j
    BY <1>4 DEF Serves
  <2>2. \A pid : <<pid, m, ev.id>> = id <=> pid = p /\ s = ev.id
    BY DEF m
  <2>3. (\E mt \in matches : SourceOf(mt) = id) =>
          \/ id \in DOMAIN swept /\ adv[id].matches # {}
          \/ s = ev.id /\ p \in instant
    BY <1>10, <1>11, <2>1, <2>2
  <2>4. ASSUME id \in DOMAIN swept, adv[id].matches # {}
        PROVE  \E mt \in matches : SourceOf(mt) = id
    BY <1>10, <2>1, <2>4
  <2>5. ASSUME s = ev.id, p \in instant
        PROVE  \E mt \in matches : SourceOf(mt) = id
    BY <1>10, <1>11, <2>2, <2>5
  <2> QED
    BY <2>3, <2>4, <2>5
<1>14. id \in DOMAIN after <=> (id \in kept \/ (s = ev.id /\ p \in opened))
  BY <1>8, <1>9
<1>15. ASSUME s # ev.id, id \notin DOMAIN progs PROVE CepOff(cep, id)
  BY <1>2, <1>6, <1>12, <1>13, <1>14, <1>15 DEF CepOff
<1>16. ASSUME s # ev.id, id \in DOMAIN progs, NEW q, q = progs[id],
              NEW a, a = AdvanceProgress(patterns, ev, id, q)
       PROVE  Answered(cep, id, q, a, wm)
  <2>1. Overlong(q, wm) => CepOff(cep, id)
    BY <1>2, <1>5, <1>12, <1>13, <1>14, <1>16 DEF CepOff
  <2>2. ASSUME ~Overlong(q, wm)
        PROVE  /\ id \in DOMAIN swept /\ adv[id] = a /\ (id \in kept <=> a.keep)
               /\ a.keep => a.matches = {}
    BY <1>4, <1>5, <1>12, <1>16, <2>2 DEF Serves
  <2>3. id \in DOMAIN after /\ s # ev.id => after[id] = adv[id].p
    BY <1>8, <1>9
  <2>4. ~Overlong(q, wm) /\ a.keep => CepIn(cep, id, a.p)
    BY <1>2, <1>13, <1>14, <1>16, <2>2, <2>3 DEF CepIn
  <2>5. ~Overlong(q, wm) /\ ~a.keep /\ a.matches = {} => CepOff(cep, id)
    BY <1>2, <1>13, <1>14, <1>16, <2>2 DEF CepOff
  <2>6. ~Overlong(q, wm) /\ ~a.keep /\ a.matches # {} => CepDone(cep, id)
    BY <1>2, <1>13, <1>14, <1>16, <2>2 DEF CepDone
  <2> QED
    BY <2>1, <2>4, <2>5, <2>6 DEF Answered
<1>17. ASSUME s = ev.id, id \notin DOMAIN progs
       PROVE  /\ ~CepMatchState(ev, Patterns[p][1], NoNum) => CepOff(cep, id)
              /\ CepMatchState(ev, Patterns[p][1], NoNum) /\ Len(Patterns[p]) = 1 =>
                   CepDone(cep, id)
              /\ CepMatchState(ev, Patterns[p][1], NoNum) /\ Len(Patterns[p]) # 1 =>
                   CepIn(cep, id, NewProgress(patterns, p, ev))
  <2>1. id \notin DOMAIN swept /\ id \notin kept
    BY <1>6, <1>12, <1>17
  <2>2. id = <<p, m, ev.id>> /\ patterns[p] = Patterns[p]
    BY <1>3, <1>17 DEF m
  <2>3. p \in starts <=> CepMatchState(ev, Patterns[p][1], NoNum)
    BY <1>12, <2>1, <2>2
  <2>4. ~CepMatchState(ev, Patterns[p][1], NoNum) => CepOff(cep, id)
    BY <1>2, <1>12, <1>13, <1>14, <2>1, <2>3 DEF CepOff
  <2>5. CepMatchState(ev, Patterns[p][1], NoNum) /\ Len(Patterns[p]) = 1 => CepDone(cep, id)
    BY <1>2, <1>12, <1>13, <1>14, <1>17, <2>1, <2>2, <2>3 DEF CepDone
  <2>6. CepMatchState(ev, Patterns[p][1], NoNum) /\ Len(Patterns[p]) # 1 =>
          CepIn(cep, id, NewProgress(patterns, p, ev))
    BY <1>2, <1>8, <1>9, <1>12, <1>13, <1>14, <1>17, <2>1, <2>2, <2>3 DEF CepIn
  <2> QED
    BY <2>4, <2>5, <2>6
<1> QED
  BY <1>15, <1>16, <1>17 DEF patterns

\* The watermark wm has passed the deadline q is parked with.
Overdue(q, wm) == q.negDeadline # NoTime /\ wm > q.negDeadline

\* drainNegativeMatches for one progress: it goes, with a match, when its deadline
\* has passed, and only then.
LEMMA DrainOnOne ==
  ASSUME NEW progs, DOMAIN progs = Member,
         \A m \in Member : ProgressesOf(m, progs[m]) /\ InstancesOf(progs[m]),
         NEW wm \in Int, NEW c, NEW m \in Member, NEW p \in c.patterns, NEW s,
         NEW id, id = <<p, m, s>>,
         NEW fresh, fresh = RebuildNegativeDeadlines(progs),
         NEW drained, drained = DrainProgresses(progs, fresh, wm),
         NEW fired, fired = DrainMatches(RegisteredIn(c), progs, fresh, wm)
  PROVE  /\ id \notin DOMAIN progs[m] =>
              id \notin DOMAIN drained[m] /\ \A mt \in fired : SourceOf(mt) # id
         /\ id \in DOMAIN progs[m] =>
              \A q : q = progs[m][id] =>
                /\ Overdue(q, wm) =>
                     id \notin DOMAIN drained[m] /\ \E mt \in fired : SourceOf(mt) = id
                /\ ~Overdue(q, wm) =>
                     /\ id \in DOMAIN drained[m] /\ drained[m][id] = q
                     /\ \A mt \in fired : SourceOf(mt) # id
<1> DEFINE D == Drained(progs, fresh, wm)
           gone == {e.id : e \in D}
<1>1. HeapTyped(fresh) /\ D = Due(fresh, wm)
  <2>1. HeapTyped(fresh)
    <3>1. \A e \in fresh : \E k \in Member : e \in Queue(progs[k])
      BY RebuiltByMember
    <3> QED
      BY <3>1, QueueEntries DEF HeapTyped
  <2> QED
    BY <2>1, DrainedByProgresses
<1>2. ASSUME NEW e \in D
      PROVE  /\ SourceOf(MatchResult(e.id, progs[e.member][e.id].vars, e.deadline)) = e.id
             /\ e.id = id => /\ id \in DOMAIN progs[m]
                             /\ Overdue(progs[m][id], wm)
  <2>1. e \in fresh /\ wm > e.deadline
    BY <1>1 DEF Due
  <2>2. PICK k \in Member : e \in Queue(progs[k])
    BY <2>1, RebuiltByMember
  <2>3. /\ e.id \in DOMAIN progs[k] /\ e.deadline = progs[k][e.id].negDeadline
        /\ e.deadline \in Int /\ e.id[2] = k
    BY <2>2, QueueEntries
  <2>4. e.id = <<e.id[1], e.id[2], e.id[3]>>
    <3>1. Instance(e.id, progs[k][e.id])
      BY <2>3 DEF InstancesOf
    <3> QED
      BY <3>1 DEF Instance
  <2>5. SourceOf(MatchResult(e.id, progs[e.member][e.id].vars, e.deadline)) = e.id
    BY <2>4 DEF SourceOf, MatchResult
  <2>6. e.id = id => k = m
    BY <2>3
  <2> QED
    BY <2>1, <2>3, <2>5, <2>6, NoTimeAssumption DEF Overdue
<1>3. ASSUME id \in DOMAIN progs[m], Overdue(progs[m][id], wm)
      PROVE  \E e \in D : e.id = id
  <2> DEFINE e == Entry(progs[m][id].negDeadline, id)
  <2>1. e \in Queue(progs[m])
    BY <1>3 DEF Queue, Overdue
  <2>2. e \in fresh
    BY <2>1, RebuiltByMember
  <2>3. e.id = id /\ e.deadline = progs[m][id].negDeadline
    BY DEF Entry
  <2>4. e \in D
    BY <1>1, <1>3, <2>2, <2>3 DEF Due, Overdue
  <2> QED
    BY <2>3, <2>4
<1>4. id \in gone <=> id \in DOMAIN progs[m] /\ Overdue(progs[m][id], wm)
  BY <1>2, <1>3
<1>5. /\ DOMAIN drained[m] = DOMAIN progs[m] \ gone
      /\ \A j \in DOMAIN drained[m] : drained[m][j] = progs[m][j]
  <2>1. drained[m] = [j \in DOMAIN progs[m] \ gone |-> progs[m][j]]
    BY DEF DrainProgresses
  <2> HIDE DEF gone
  <2> QED
    BY <2>1
<1>6. \A mt : mt \in fired <=>
        \E e \in D : /\ e.id[1] \in c.patterns
                     /\ mt = MatchResult(e.id, progs[e.member][e.id].vars, e.deadline)
  BY DEF DrainMatches, RegisteredIn
<1>7. (\E mt \in fired : SourceOf(mt) = id) <=> id \in gone
  <2>1. id[1] \in c.patterns
    OBVIOUS
  <2>2. (\E mt \in fired : SourceOf(mt) = id) => id \in gone
    BY <1>2, <1>6
  <2>3. ASSUME NEW e \in D, e.id = id PROVE \E mt \in fired : SourceOf(mt) = id
    BY <1>2, <1>6, <2>1, <2>3
  <2> QED
    BY <2>2, <2>3
<1> HIDE DEF gone, D
<1> QED
  BY <1>4, <1>5, <1>7

\* What the outcome o has of a progress id of member m: nothing, a match that took
\* it away, the progress q, or what the drain makes of q.
OutOff(o, m, id) ==
  id \notin DOMAIN o.members[m].progresses /\ \A mt \in o.matches : SourceOf(mt) # id
OutDone(o, m, id) ==
  id \notin DOMAIN o.members[m].progresses /\ \E mt \in o.matches : SourceOf(mt) = id
OutIn(o, m, id, q) ==
  /\ id \in DOMAIN o.members[m].progresses /\ o.members[m].progresses[id] = q
  /\ \A mt \in o.matches : SourceOf(mt) # id
OutParked(o, m, id, q) ==
  /\ Overdue(q, o.wm) => OutDone(o, m, id)
  /\ ~Overdue(q, o.wm) => OutIn(o, m, id, q)

\* What becomes in o of the progress id is what the answer cep says, but for the
\* drain.
CepDecides(cep, o, m, id) ==
  /\ CepOff(cep, id) => OutOff(o, m, id)
  /\ CepDone(cep, id) => OutDone(o, m, id)
  /\ \A q : CepIn(cep, id, q) => OutParked(o, m, id, q)

\* ProcessEvent on an event on time, for one progress of any member.
LEMMA OnTimeOnOne ==
  ASSUME NEW c \in Configs, NEW ev \in Events, NEW ms, NEW old, Settled(ms, old),
         \A k \in Member : InstancesOf(ms[k].progresses),
         NEW m \in Member, NEW p \in c.patterns, NEW s, NEW id, id = <<p, m, s>>,
         NEW o, o = OnTimeOutcome(c, ms, old, ev),
         NEW progs, progs = ms[m].progresses
  PROVE  /\ ev.member # m =>
              /\ id \notin DOMAIN progs => OutOff(o, m, id)
              /\ id \in DOMAIN progs => OutParked(o, m, id, progs[id])
         /\ ev.member = m => CepDecides(ProcessCEP(RegisteredIn(c), progs, ev, o.wm), o, m, id)
<1> DEFINE wm == LaterOf(old, ev.at - Lateness)
           ap == AppliedTo(c, ms, ev)
           mine == ap[ev.member].progresses
           cep == ProcessCEP(RegisteredIn(c), mine, ev, wm)
           all == AdvancedProgs(c, ap, wm, ev)
           fresh == RebuildNegativeDeadlines(all)
           drained == DrainProgresses(all, fresh, wm)
           fired == DrainMatches(RegisteredIn(c), all, fresh, wm)
           after == [k \in Member |-> [ap[k] EXCEPT !.progresses = drained[k]]]
<1>1. wm \in Int
  BY EventsAssumption, LatenessAssumption DEF Settled, LaterOf
<1>2. /\ MembersTyped(ap)
      /\ \A k \in Member : ap[k].progresses = ms[k].progresses
      /\ ev.member \in Member
  BY EventsAssumption, AppliedKeepsProgresses DEF Settled
<1>3. o = [ev |-> ev, late |-> FALSE, wm |-> wm, rules |-> RulesOn(c, ap, ev),
           matches |-> cep.matches \cup fired, members |-> after, conf |-> c]
  BY DEF OnTimeOutcome
<1>4. all = [ProgsOf(ap) EXCEPT ![ev.member] = cep.progresses]
  BY DEF AdvancedProgs
<1> HIDE DEF wm, ap
<1>5. mine = ms[ev.member].progresses
  BY <1>2
<1> HIDE DEF mine, cep, all
<1>6. /\ ProgressesOf(ev.member, mine) /\ InstancesOf(mine)
      /\ \A k \in Member : ProgressesOf(k, ms[k].progresses)
  BY <1>2, <1>5 DEF Settled, MembersTyped
<1>7. ProgressesOf(ev.member, cep.progresses)
  BY <1>6, ProcessCEPAnswer DEF cep
<1>8. /\ InstancesOf(cep.progresses)
      /\ \A mt \in cep.matches : mt.member = ev.member
  BY <1>6, ProcessCEPServes DEF cep
<1>9. /\ DOMAIN all = Member
      /\ \A k \in Member : all[k] = IF k = ev.member THEN cep.progresses ELSE ms[k].progresses
  BY <1>2, <1>4 DEF ProgsOf
<1>10. \A k \in Member : ProgressesOf(k, all[k]) /\ InstancesOf(all[k])
  BY <1>6, <1>7, <1>8, <1>9
<1>11. /\ id \notin DOMAIN all[m] =>
            id \notin DOMAIN drained[m] /\ \A mt \in fired : SourceOf(mt) # id
       /\ id \in DOMAIN all[m] =>
            \A q : q = all[m][id] =>
              /\ Overdue(q, wm) =>
                   id \notin DOMAIN drained[m] /\ \E mt \in fired : SourceOf(mt) = id
              /\ ~Overdue(q, wm) =>
                   /\ id \in DOMAIN drained[m] /\ drained[m][id] = q
                   /\ \A mt \in fired : SourceOf(mt) # id
  BY <1>1, <1>9, <1>10, DrainOnOne
<1> HIDE DEF drained, fired
<1>12. \A k \in Member : after[k].progresses = drained[k]
  BY <1>2 DEF MembersTyped
<1> HIDE DEF after
<1>13. /\ o.members[m].progresses = drained[m]
       /\ o.matches = cep.matches \cup fired
       /\ o.wm = wm
  BY <1>3, <1>12
<1>14. ASSUME ev.member # m
       PROVE  /\ id \notin DOMAIN progs => OutOff(o, m, id)
              /\ id \in DOMAIN progs => OutParked(o, m, id, progs[id])
  <2>1. all[m] = progs
    BY <1>9, <1>14
  <2>2. \A mt \in cep.matches : SourceOf(mt) # id
    BY <1>8, <1>14 DEF SourceOf
  <2>3. id \notin DOMAIN progs => OutOff(o, m, id)
    BY <1>11, <1>13, <2>1, <2>2 DEF OutOff
  <2>4. id \in DOMAIN progs => OutParked(o, m, id, progs[id])
    BY <1>11, <1>13, <2>1, <2>2 DEF OutParked, OutDone, OutIn
  <2> QED
    BY <2>3, <2>4
<1>15. ASSUME ev.member = m
       PROVE  /\ cep = ProcessCEP(RegisteredIn(c), progs, ev, o.wm)
              /\ CepOff(cep, id) => OutOff(o, m, id)
              /\ CepDone(cep, id) => OutDone(o, m, id)
              /\ \A q : CepIn(cep, id, q) => OutParked(o, m, id, q)
  <2>1. all[m] = cep.progresses
    BY <1>9, <1>15
  <2>2. cep = ProcessCEP(RegisteredIn(c), progs, ev, o.wm)
    BY <1>5, <1>13, <1>15 DEF cep
  <2>3. CepOff(cep, id) => OutOff(o, m, id)
    BY <1>11, <1>13, <2>1 DEF CepOff, OutOff
  <2>4. CepDone(cep, id) => OutDone(o, m, id)
    BY <1>11, <1>13, <2>1 DEF CepDone, OutDone
  <2>5. ASSUME NEW q, CepIn(cep, id, q) PROVE OutParked(o, m, id, q)
    BY <1>11, <1>13, <2>1, <2>5 DEF CepIn, OutParked, OutDone, OutIn
  <2> QED
    BY <2>2, <2>3, <2>4, <2>5
<1>16. ev.member = m => CepDecides(ProcessCEP(RegisteredIn(c), progs, ev, o.wm), o, m, id)
  <2> HIDE DEF cep
  <2> QED
    BY <1>15 DEF CepDecides
<1> QED
  BY <1>14, <1>16

-----------------------------------------------------------------------------
(* Exactness: an instance along the log. *)

\* The log is what ProcessEvent makes of its events, each given once.
Told == Logged(hist) /\ Served(hist) /\ EachOnce(hist)

\* The progress of an instance of pattern p started by event i, in the states
\* after the first n positions, and its matches.
InstanceID(p, i) == <<p, hist[i].ev.member, hist[i].ev.id>>
ProgressesAt(i, n) == MembersAt(hist, n)[hist[i].ev.member].progresses
Missing(p, i, n) == InstanceID(p, i) \notin DOMAIN ProgressesAt(i, n)
Holds(p, i, n, q) ==
  /\ InstanceID(p, i) \in DOMAIN ProgressesAt(i, n)
  /\ ProgressesAt(i, n)[InstanceID(p, i)] = q
Fires(p, i, n) == \E mt \in hist[n].matches : SourceOf(mt) = InstanceID(p, i)

\* An instance has no progress and no match before the event that starts it, and
\* its progress has served no event that is still to come.
LEMMA NotBefore ==
  ASSUME Told, NEW p, NEW i \in 1..Len(hist)
  PROVE  /\ \A n \in 0..Len(hist) : ~Missing(p, i, n) => i <= n
         /\ \A n \in 1..Len(hist) : Fires(p, i, n) => i <= n
         /\ \A n \in 0..Len(hist) : \A q : \A j \in (n + 1)..Len(hist) :
              Holds(p, i, n, q) => hist[j].ev.id \notin q.seen
<1> DEFINE s == hist[i].ev.id
           m == hist[i].ev.member
           id == InstanceID(p, i)
           N == Len(hist)
<1>1. N \in Nat /\ m \in Member /\ id[3] = s /\ id[2] = m
  BY EventsAssumption DEF Told, Logged, InstanceID
<1>2. \A j \in 1..N : hist[j].ev.id = s => j = i
  BY DEF Told, EachOnce
<1>3. ASSUME NEW n \in 0..N, NEW k, GivenTo(hist, s, n) # {}
      PROVE  i <= n
  BY <1>1, <1>2, <1>3 DEF GivenTo
<1>4. ASSUME NEW n \in 0..N, NEW q, Holds(p, i, n, q)
      PROVE  Instance(id, q) /\ q.seen \subseteq ServingTo(hist, m, s, n)
  <2>1. Behind(hist, n)
    BY DEF Told, Served
  <2> QED
    BY <1>1, <1>4, <2>1 DEF Behind, Holds, ProgressesAt
<1>5. ASSUME NEW n \in 0..N, ~Missing(p, i, n) PROVE i <= n
  <2> DEFINE q == ProgressesAt(i, n)[InstanceID(p, i)]
  <2>1. Holds(p, i, n, q)
    BY <1>5 DEF Missing, Holds
  <2>2. s \in ServingTo(hist, m, s, n)
    BY <1>1, <1>4, <2>1 DEF Instance
  <2>3. GivenTo(hist, s, n) # {}
    BY <2>2, ServingGiven
  <2> QED
    BY <1>3, <2>3
<1>6. ASSUME NEW n \in 1..N, Fires(p, i, n) PROVE i <= n
  <2>1. PICK mt \in hist[n].matches : SourceOf(mt) = id
    BY <1>6 DEF Fires
  <2>2. mt.member = m /\ mt.start = s
    BY <2>1 DEF SourceOf, InstanceID
  <2>3. Rested(hist, n)
    BY DEF Told, Served
  <2>4. s \in ServingTo(hist, m, s, n)
    BY <2>1, <2>2, <2>3 DEF Rested
  <2>5. GivenTo(hist, s, n) # {}
    BY <2>4, ServingGiven
  <2> QED
    BY <1>3, <2>5
<1>7. ASSUME NEW n \in 0..N, NEW q, NEW j \in (n + 1)..N, Holds(p, i, n, q), hist[j].ev.id \in q.seen
      PROVE  FALSE
  <2>1. hist[j].ev.id \in ServingTo(hist, m, s, n)
    BY <1>4, <1>7
  <2>2. PICK k \in 1..n : hist[k].ev.id = hist[j].ev.id
    BY <2>1, ServingGiven
  <2>3. k \in 1..N /\ j \in 1..N /\ k # j
    BY <1>1
  <2> QED
    BY <2>2, <2>3 DEF Told, EachOnce
<1> QED
  BY <1>5, <1>6, <1>7

\* The outcome at a position, in terms of the instance.
LEMMA OutcomeSeen ==
  ASSUME Told, NEW p, NEW i \in 1..Len(hist), NEW n \in Nat, n < Len(hist),
         NEW o, o = hist[n+1], NEW m, m = hist[i].ev.member, NEW id, id = InstanceID(p, i)
  PROVE  /\ OutOff(o, m, id) => Missing(p, i, n + 1) /\ ~Fires(p, i, n + 1)
         /\ OutDone(o, m, id) => Missing(p, i, n + 1) /\ Fires(p, i, n + 1)
         /\ \A q : OutIn(o, m, id, q) => Holds(p, i, n + 1, q) /\ ~Fires(p, i, n + 1)
<1>1. MembersAt(hist, n + 1) = o.members
  BY LoggedAt DEF Told
<1> QED
  BY <1>1 DEF OutOff, OutDone, OutIn, Missing, Fires, Holds, ProgressesAt

\* A position whose event is late or another member's: at most the drain takes
\* the progress.  On an event of its own, on time, it is up to processCEP.
LEMMA PositionEffect ==
  ASSUME Told, NEW p, NEW i \in 1..Len(hist), NEW n \in Nat, n < Len(hist),
         p \in hist[n+1].conf.patterns,
         NEW o, o = hist[n+1], NEW m, m = hist[i].ev.member, NEW id, id = InstanceID(p, i),
         NEW progs, progs = ProgressesAt(i, n)
  PROVE  /\ o.late \/ o.ev.member # m =>
              /\ id \notin DOMAIN progs => OutOff(o, m, id)
              /\ \A q : Holds(p, i, n, q) => OutParked(o, m, id, q)
         /\ ~o.late /\ o.ev.member = m =>
              CepDecides(ProcessCEP(RegisteredIn(o.conf), progs, o.ev, o.wm), o, m, id)
<1> DEFINE ms == MembersAt(hist, n)
           wm == WatermarkAt(hist, n)
           c == o.conf
           ev == o.ev
<1>1. /\ ev \in Events /\ c \in Configs
      /\ o = Outcome(c, ms, wm, ev)
      /\ Settled(ms, wm) /\ MembersTyped(ms)
  BY LoggedAt DEF Told
<1>2. o.late \in BOOLEAN /\ (o.late <=> ev.at < wm) /\ (o.late => o.wm = wm)
  <2> HIDE DEF c, ms, wm, ev
  <2>1. \E ap : ap = AppliedTo(c, ms, ev)
    OBVIOUS
  <2> QED
    BY <1>1, <2>1, OutcomeParts
<1>3. m \in Member /\ progs = ms[m].progresses
  BY EventsAssumption DEF Told, Logged, ProgressesAt
<1>4. \A k \in Member : InstancesOf(ms[k].progresses)
  <2>1. n \in 0..Len(hist)
    BY DEF Told, Logged
  <2> QED
    BY <2>1 DEF Told, Served, Behind, InstancesOf
<1>5. id = <<p, m, hist[i].ev.id>> /\ p \in c.patterns
  BY DEF InstanceID
<1>6. \A q : Holds(p, i, n, q) <=> id \in DOMAIN progs /\ progs[id] = q
  BY DEF Holds
<1>7. CASE o.late
  <2>1. o = LateOutcome(c, ms, wm, ev)
    BY <1>1, <1>2, <1>7 DEF Outcome
  <2> HIDE DEF c, ms, wm, ev
  <2>2. o.matches = {} /\ o.members = AppliedTo(c, ms, ev) /\ o.wm = wm
    BY <2>1 DEF LateOutcome
  <2>3. o.members[m].progresses = progs
    BY <1>1, <1>3, <2>2, AppliedKeepsProgresses
  <2>4. id \notin DOMAIN progs => OutOff(o, m, id)
    BY <2>2, <2>3 DEF OutOff
  <2>5. ASSUME NEW q, Holds(p, i, n, q) PROVE OutParked(o, m, id, q)
    <3>1. ~Overdue(q, o.wm)
      <4>1. q.negDeadline # NoTime => q.negDeadline >= wm
        BY <1>1, <1>3, <1>6, <2>5 DEF Settled
      <4>2. ProgressOf(m, id, q)
        <5>1. ProgressesOf(m, progs) /\ id \in DOMAIN progs /\ progs[id] = q
          BY <1>1, <1>3, <1>6, <2>5 DEF MembersTyped
        <5> QED
          BY <5>1 DEF ProgressesOf
      <4>3. wm \in Int /\ (q.negDeadline # NoTime => q.negDeadline \in Int)
        BY <1>1, <4>2 DEF Settled, ProgressOf
      <4> QED
        BY <2>2, <4>1, <4>3 DEF Overdue
    <3>2. OutIn(o, m, id, q)
      BY <1>6, <2>2, <2>3, <2>5 DEF OutIn
    <3> QED
      BY <3>1, <3>2 DEF OutParked
  <2> QED
    BY <1>7, <2>4, <2>5
<1>8. CASE ~o.late
  <2>1. o = OnTimeOutcome(c, ms, wm, ev)
    BY <1>1, <1>2, <1>8 DEF Outcome
  <2> HIDE DEF c, ms, wm, ev
  <2>2. /\ ev.member # m =>
             /\ id \notin DOMAIN progs => OutOff(o, m, id)
             /\ id \in DOMAIN progs => OutParked(o, m, id, progs[id])
        /\ ev.member = m => CepDecides(ProcessCEP(RegisteredIn(c), progs, ev, o.wm), o, m, id)
    <3> DEFINE s == hist[i].ev.id
    <3>1. id = <<p, m, s>>
      BY <1>5
    <3> HIDE DEF s
    <3>2. /\ c \in Configs /\ ev \in Events /\ Settled(ms, wm) /\ m \in Member
          /\ p \in c.patterns /\ o = OnTimeOutcome(c, ms, wm, ev) /\ progs = ms[m].progresses
      BY <1>1, <1>3, <1>5, <2>1
    <3> HIDE <1>1, <1>2
    <3> QED
      BY <1>4, <3>1, <3>2, OnTimeOnOne
  <2> QED
    BY <1>6, <1>8, <2>2 DEF c, ev
<1> QED
  BY <1>2, <1>7, <1>8

\* The match of an instance among the first n positions: none, or just the one at d.
Quiet(p, i, n) == \A j \in 1..n : ~Fires(p, i, j)
FiresAt(p, i, n, d) == \A j \in 1..n : Fires(p, i, j) <=> j = d

\* q is what the reference instance is once it has reached its k-th state.
Mirrors(p, i, k, q) ==
  /\ q.pattern = p /\ q.step = k /\ q.started = hist[i].ev.at
  /\ q.vars = RefChain(p, i)[k].vars
  /\ q.negDeadline = ParkDeadline(Patterns[p], k, hist[i].ev.at)

\* The reference instance has reached its k-th state, and nothing among the first
\* n positions has ended its wait for the next.
Waits(p, i, k, n) ==
  /\ RefChain(p, i)[k].pos \in 1..n
  /\ ~Patterns[p][k+1].negative =>
       \A j \in 1..n : j \notin Ending(p, i, k + 1, RefChain(p, i)[k])
  /\ Patterns[p][k+1].negative => \A j \in 1..n : ~Forbidden(p, i, j)

\* The watermark has not passed the deadline of a parked instance up to n.
InTime(p, i, k, n) ==
  Patterns[p][k+1].negative =>
    \A l \in RefChain(p, i)[k].pos..n : hist[l].wm <= NegDeadline(p, i)

\* The sweep at position j takes an instance that waits in its k-th state.
SweptAt(p, i, k, j) ==
  Sweeps(p, i, j) /\ Waits(p, i, k, j - 1) /\ InTime(p, i, k, j - 1)

\* The ways to end without a match: the reference never reaches a state, a
\* forbidden event came, or the sweep.
Lost(p, i, n) ==
  \/ \E k \in 1..Len(Patterns[p]) : ~Patterns[p][k].negative /\ RefChain(p, i)[k].pos = 0
  \/ Negative(p) /\ \E j \in 1..n : Forbidden(p, i, j)
  \/ \E j \in 1..n : \E k \in 1..(Len(Patterns[p]) - 1) : SweptAt(p, i, k, j)

\* The ways to end with one: the last state was reached, or the deadline passed.
Completed(p, i, n) ==
  /\ ~Negative(p)
  /\ RefChain(p, i)[Len(Patterns[p])].pos \in 1..n
  /\ FiresAt(p, i, n, RefChain(p, i)[Len(Patterns[p])].pos)

ElapsedAt(p, i, n, d) ==
  /\ Negative(p)
  /\ FiresAt(p, i, n, d)
  /\ ~Sweeps(p, i, d)
  /\ ParkedAt(p, i) \in 1..d
  /\ hist[d].wm > NegDeadline(p, i)
  /\ \A j \in 1..d : ~Forbidden(p, i, j)
  /\ \A l \in ParkedAt(p, i)..(d - 1) : hist[l].wm <= NegDeadline(p, i)

\* After the first n positions the engine is where the reference is.
InStep(p, i, k, n) ==
  /\ Quiet(p, i, n)
  /\ \E q : Holds(p, i, n, q) /\ Mirrors(p, i, k, q)
  /\ Waits(p, i, k, n) /\ InTime(p, i, k, n)

Follows(p, i, n) ==
  \/ \E k \in 1..(Len(Patterns[p]) - 1) : InStep(p, i, k, n)
  \/ Missing(p, i, n) /\ Quiet(p, i, n) /\ Lost(p, i, n)
  \/ Missing(p, i, n) /\ Completed(p, i, n)
  \/ Missing(p, i, n) /\ \E d \in 1..n : ElapsedAt(p, i, n, d)

\* What AddPattern guarantees of the states of a pattern.
LEMMA PatternFacts ==
  ASSUME NEW p \in DOMAIN Patterns, NEW L, L = Len(Patterns[p])
  PROVE  /\ L \in Nat /\ L > 0 /\ ~Patterns[p][1].negative
         /\ \A k \in 1..L :
              /\ Patterns[p][k].negative \in BOOLEAN
              /\ Patterns[p][k].wait # NoWait => Patterns[p][k].wait \in Nat
              /\ Patterns[p][k].negative => k = L /\ Patterns[p][k].wait \in Nat
<1>1. L \in Nat
  BY PatternsAssumption
<1>2. \A k \in 1..L : /\ Patterns[p][k].wait \in Nat \cup {NoWait}
                      /\ Patterns[p][k].negative \in BOOLEAN
  BY StateTyped
<1>3. /\ L > 0 /\ ~Patterns[p][1].negative
      /\ \A k \in 1..L : Patterns[p][k].negative => k = L /\ Patterns[p][k].wait # NoWait
  BY PatternsRegistered DEF AddPattern
<1> QED
  BY <1>1, <1>2, <1>3

\* The reference has reached its k-th state by position n, and not the next.
Waiting(p, i, k, n) ==
  /\ RefChain(p, i)[k].pos \in 1..n
  /\ \A j \in 1..n : j \notin Ending(p, i, k + 1, RefChain(p, i)[k])

\* Where the reference goes from its k-th state with the event at position n.
Moves(p, i, k, n) ==
  /\ Expired(p, i, k + 1, n) => RefChain(p, i)[k+1].pos = 0
  /\ ~Expired(p, i, k + 1, n)
       /\ CepMatchState(hist[n].ev, Patterns[p][k+1], RefChain(p, i)[k].vars) =>
       /\ RefChain(p, i)[k+1].pos = n
       /\ RefChain(p, i)[k+1].vars = Bind(hist[n].ev, Patterns[p][k+1], RefChain(p, i)[k].vars)

\* The first event that ends the wait for a state decides the reference: past the
\* window it never gets there, else it gets there now.
LEMMA ReferenceStep ==
  ASSUME NEW p \in DOMAIN Patterns, NEW i, NEW k \in 1..(Len(Patterns[p]) - 1),
         NEW n \in Nat, n < Len(hist), Len(hist) \in Nat,
         Waiting(p, i, k, n), Own(hist[i].ev.member, n + 1), OnTime(n + 1)
  PROVE  Moves(p, i, k, n + 1)
<1> DEFINE prev == RefChain(p, i)[k]
           ending == Ending(p, i, k + 1, prev)
           matched == CepMatchState(hist[n+1].ev, Patterns[p][k+1], prev.vars)
           next == RefChain(p, i)[k+1]
<1> USE DEF Waiting
<1>1. k + 1 \in 2..Len(Patterns[p]) /\ k + 1 - 1 = k
  BY PatternFacts
<1>2. next = RefNext(p, i, k + 1, prev)
  BY <1>1, ChainSteps
<1>3. ending \in SUBSET Nat /\ \A j \in ending : j \in Nat /\ j > n
  <2>1. \A j \in ending : j \in (prev.pos + 1)..Len(hist)
    BY DEF Ending
  <2>2. \A j \in ending : j \in Nat /\ j \notin 1..n /\ j # 0
    BY <2>1
  <2> HIDE DEF ending
  <2> QED
    BY <2>2
<1>4. Expired(p, i, k + 1, n + 1) \/ matched => n + 1 \in ending
  BY DEF Ending
<1> HIDE DEF ending
<1>5. n + 1 \in ending => Min(ending) = n + 1
  <2> SUFFICES ASSUME n + 1 \in ending PROVE Min(ending) = n + 1
    OBVIOUS
  <2>1. Min(ending) \in ending /\ Min(ending) <= n + 1
    BY <1>3, FirstPosition
  <2>2. Min(ending) \in Nat /\ Min(ending) > n
    BY <1>3, <2>1
  <2>3. \A x \in Nat : x > n /\ x <= n + 1 => x = n + 1
    OBVIOUS
  <2> QED
    BY <2>1, <2>2, <2>3
<1>6. prev.pos # 0
  OBVIOUS
<1> HIDE DEF next
<1>7. ASSUME Expired(p, i, k + 1, n + 1) PROVE next.pos = 0
  BY <1>2, <1>4, <1>5, <1>7 DEF RefNext, NeverReached, ending
<1>8. ASSUME ~Expired(p, i, k + 1, n + 1), matched
      PROVE  next.pos = n + 1 /\ next.vars = Bind(hist[n+1].ev, Patterns[p][k+1], prev.vars)
  <2>1. next = [pos |-> n + 1, vars |-> Bind(hist[n+1].ev, Patterns[p][k+1], prev.vars)]
    BY <1>2, <1>4, <1>5, <1>6, <1>8 DEF RefNext, ending
  <2> QED
    BY <2>1
<1> QED
  BY <1>7, <1>8 DEF next, Moves

\* A progress that mirrors the reference and is left to the drain: it elapses or
\* waits on.
LEMMA Parks ==
  ASSUME Told, NEW p \in DOMAIN Patterns, NEW i \in 1..Len(hist), NEW n \in Nat, n < Len(hist),
         NEW k \in 1..(Len(Patterns[p]) - 1), NEW q, Mirrors(p, i, k, q),
         OutParked(hist[n+1], hist[i].ev.member, InstanceID(p, i), q),
         Quiet(p, i, n), Waits(p, i, k, n + 1), InTime(p, i, k, n), ~Sweeps(p, i, n + 1)
  PROVE  Follows(p, i, n + 1)
<1> DEFINE o == hist[n+1]
           m == hist[i].ev.member
           id == InstanceID(p, i)
           L == Len(Patterns[p])
           st == Patterns[p][k+1]
           reached == RefChain(p, i)[k].pos
<1>1. L \in Nat /\ k + 1 \in 1..L
  BY PatternFacts
<1>2. /\ st.negative \in BOOLEAN
      /\ st.negative => k + 1 = L /\ k = L - 1 /\ st.wait \in Nat
  BY <1>1, PatternFacts
<1>3. hist[i].ev.at \in Int /\ o.wm \in Int
  BY EventsAssumption, LoggedAt DEF Told, Logged, Settled
<1>4. st.negative =>
        /\ NegDeadline(p, i) \in Int /\ NegDeadline(p, i) # NoTime
        /\ q.negDeadline = NegDeadline(p, i)
        /\ Negative(p) /\ ParkedAt(p, i) = reached
  BY <1>2, <1>3, NoTimeAssumption DEF NegDeadline, ParkDeadline, Mirrors, Negative, ParkedAt
<1>5. ~st.negative => q.negDeadline = NoTime
  BY DEF ParkDeadline, Mirrors
<1>6. n + 1 \in 1..(n + 1) /\ \A j \in 1..(n + 1) : j \in 1..n \/ j = n + 1
  OBVIOUS
<1>7. reached \in 1..(n + 1)
  BY DEF Waits
<1>8. CASE Overdue(q, o.wm)
  <2>1. st.negative /\ o.wm > NegDeadline(p, i)
    BY <1>4, <1>5, <1>8 DEF Overdue
  <2>2. Missing(p, i, n + 1) /\ Fires(p, i, n + 1)
    BY <1>8, OutcomeSeen DEF OutParked
  <2>3. FiresAt(p, i, n + 1, n + 1)
    BY <1>6, <2>2 DEF FiresAt, Quiet
  <2>4. \A l \in reached..(n + 1 - 1) : hist[l].wm <= NegDeadline(p, i)
    BY <2>1 DEF InTime
  <2>5. ElapsedAt(p, i, n + 1, n + 1)
    <3>1. \A j \in 1..(n + 1) : ~Forbidden(p, i, j)
      BY <2>1 DEF Waits
    <3> HIDE DEF reached, st
    <3> QED
      BY <1>4, <1>7, <2>1, <2>3, <2>4, <3>1 DEF ElapsedAt
  <2> QED
    BY <1>6, <2>2, <2>5 DEF Follows
<1>9. CASE ~Overdue(q, o.wm)
  <2>1. Holds(p, i, n + 1, q) /\ ~Fires(p, i, n + 1)
    BY <1>9, OutcomeSeen DEF OutParked
  <2>2. Quiet(p, i, n + 1)
    BY <1>6, <2>1 DEF Quiet
  <2>3. InTime(p, i, k, n + 1)
    <3> SUFFICES ASSUME st.negative, NEW l \in reached..(n + 1)
                 PROVE  hist[l].wm <= NegDeadline(p, i)
      BY DEF InTime
    <3>1. o.wm <= NegDeadline(p, i)
      BY <1>3, <1>4, <1>9 DEF Overdue
    <3>2. l \in reached..n \/ l = n + 1
      BY <1>7
    <3> QED
      BY <3>1, <3>2 DEF InTime
  <2>4. InStep(p, i, k, n + 1)
    BY <2>1, <2>2, <2>3 DEF InStep
  <2> QED
    BY <2>4 DEF Follows
<1> QED
  BY <1>8, <1>9

\* Nothing is left of the instance: it was lost.
LEMMA Ends ==
  ASSUME Told, NEW p, NEW i \in 1..Len(hist), NEW n \in Nat, n < Len(hist),
         OutOff(hist[n+1], hist[i].ev.member, InstanceID(p, i)),
         Quiet(p, i, n), Lost(p, i, n + 1)
  PROVE  Follows(p, i, n + 1)
<1>1. Missing(p, i, n + 1) /\ ~Fires(p, i, n + 1)
  BY OutcomeSeen
<1>2. \A j \in 1..(n + 1) : j \in 1..n \/ j = n + 1
  OBVIOUS
<1>3. Quiet(p, i, n + 1)
  BY <1>1, <1>2 DEF Quiet
<1> QED
  BY <1>1, <1>3 DEF Follows

\* maxDuration is the longest window of the pattern's states.
LEMMA MaxDurationLongest ==
  ASSUME NEW p \in DOMAIN Patterns
  PROVE  /\ MaxDuration(Patterns[p]) \in Int
         /\ \A k \in 1..Len(Patterns[p]) : Patterns[p][k].wait # NoWait =>
              Patterns[p][k].wait <= MaxDuration(Patterns[p])
<1> DEFINE K == {j \in 1..Len(Patterns[p]) : Patterns[p][j].wait # NoWait}
           T == {Patterns[p][j].wait : j \in K}
           W == {0} \cup T
<1>1. Len(Patterns[p]) \in Nat /\ \A j \in K : Patterns[p][j].wait \in Nat
  BY PatternFacts
<1>2. IsFiniteSet(K)
  <2>1. IsFiniteSet(1..Len(Patterns[p]))
    BY <1>1, FS_Interval
  <2>2. K \subseteq 1..Len(Patterns[p])
    OBVIOUS
  <2> HIDE DEF K
  <2> QED
    BY <2>1, <2>2, FS_Subset
<1>3. IsFiniteSet(T)
  <2> DEFINE f == [j \in K |-> Patterns[p][j].wait]
  <2>1. DOMAIN f = K /\ T = {f[x] : x \in DOMAIN f}
    OBVIOUS
  <2> HIDE DEF f, T, K
  <2> QED
    BY <1>2, <2>1, ImageFinite
<1>4. IsFiniteSet(W) /\ W \subseteq Int /\ W # {}
  <2>1. T \subseteq Int
    BY <1>1
  <2> HIDE DEF T
  <2>2. IsFiniteSet({0})
    BY FS_Singleton
  <2>3. IsFiniteSet({0} \cup T)
    BY <1>3, <2>2, FS_Union
  <2> QED
    BY <2>1, <2>3
<1>5. MaxDuration(Patterns[p]) = Max(W)
  BY DEF MaxDuration
<1>6. \A k \in 1..Len(Patterns[p]) : Patterns[p][k].wait # NoWait => Patterns[p][k].wait \in W
  OBVIOUS
<1> HIDE DEF W
<1>7. Max(W) \in W /\ \A y \in W : y <= Max(W)
  BY <1>4, MaxMin
<1> QED
  BY <1>4, <1>5, <1>6, <1>7

\* The watermark only grows, and an event on time is not behind it.
LEMMA WatermarkGrows ==
  ASSUME Told, NEW d \in 1..Len(hist), NEW e \in d..Len(hist)
  PROVE  /\ hist[d].wm \in Int /\ hist[e].wm \in Int /\ hist[d].wm <= hist[e].wm
         /\ OnTime(e) => hist[e].wm <= hist[e].ev.at
         /\ OnTime(e) /\ d < e => hist[d].wm <= hist[e].ev.at
<1> DEFINE N == Len(hist)
           P == {l \in Nat : d + l <= N => hist[d].wm <= hist[d + l].wm}
<1>1. N \in Nat /\ \A n \in 1..N : hist[n].wm \in Int /\ hist[n].ev.at \in Int
  BY EventsAssumption DEF Told, Logged, Settled
<1>2. ASSUME NEW n \in Nat, n < N
      PROVE  /\ WatermarkAt(hist, n) \in Int /\ WatermarkAt(hist, n) <= hist[n+1].wm
             /\ OnTime(n + 1) => /\ WatermarkAt(hist, n) <= hist[n+1].ev.at
                                 /\ hist[n+1].wm <= hist[n+1].ev.at
  <2> HIDE DEF N
  <2>0. Logged(hist) /\ n < Len(hist) /\ N = Len(hist)
    BY <1>2 DEF Told, N
  <2>1. WatermarkAt(hist, n) \in Int
    BY <2>0, LoggedAt DEF Settled
  <2>2. /\ hist[n+1].late <=> hist[n+1].ev.at < WatermarkAt(hist, n)
        /\ WatermarkAt(hist, n) <= WatermarkAt(hist, n + 1)
        /\ ~hist[n+1].late => WatermarkAt(hist, n + 1) <= LaterOf(WatermarkAt(hist, n), hist[n+1].ev.at)
    BY <2>0, <2>1, WatermarkStep
  <2>3. n + 1 \in 1..N /\ WatermarkAt(hist, n + 1) = hist[n+1].wm
    BY <2>0, LoggedAt
  <2>4. hist[n+1].ev.at \in Int /\ hist[n+1].wm \in Int
    BY <1>1, <2>3
  <2> QED
    BY <2>1, <2>2, <2>3, <2>4 DEF LaterOf, OnTime
<1>3. 0 \in P
  <2>1. d \in 1..N /\ d + 0 = d /\ hist[d].wm \in Int
    BY <1>1
  <2> QED
    BY <2>1
<1>4. ASSUME NEW l \in Nat, l \in P PROVE l + 1 \in P
  <2> SUFFICES ASSUME d + (l + 1) <= N PROVE hist[d].wm <= hist[d + (l + 1)].wm
    OBVIOUS
  <2> DEFINE n == d + l
  <2>1. n \in Nat /\ n < N /\ n # 0 /\ n \in 1..N /\ n + 1 = d + (l + 1) /\ n + 1 \in 1..N
    BY <1>1
  <2>2. hist[d].wm <= hist[n].wm
    BY <1>4, <2>1
  <2> HIDE DEF n
  <2>3. hist[n].wm <= hist[n+1].wm
    BY <1>2, <2>1 DEF WatermarkAt
  <2>4. hist[d].wm \in Int /\ hist[n].wm \in Int /\ hist[n+1].wm \in Int
    BY <1>1, <2>1
  <2>5. hist[d].wm <= hist[n+1].wm
    BY <2>2, <2>3, <2>4
  <2> QED
    BY <2>1, <2>5
<1> HIDE DEF P
<1>5. ASSUME NEW f \in d..N PROVE hist[d].wm <= hist[f].wm
  <2>1. f - d \in Nat /\ d + (f - d) = f /\ f <= N
    BY <1>1
  <2>2. f - d \in P
    BY <1>3, <1>4, <2>1, NumbersFromZero
  <2> QED
    BY <2>1, <2>2 DEF P
<1>6. d \in 1..N /\ e \in 1..N /\ e - 1 \in Nat /\ e - 1 < N /\ e - 1 + 1 = e
  BY <1>1
<1>7. OnTime(e) => hist[e].wm <= hist[e].ev.at
  BY <1>2, <1>6
<1>8. ASSUME OnTime(e), d < e PROVE hist[d].wm <= hist[e].ev.at
  <2>1. e - 1 \in d..N /\ e - 1 # 0 /\ e - 1 \in 1..N
    BY <1>6, <1>8
  <2>2. hist[d].wm <= hist[e - 1].wm
    BY <1>5, <2>1
  <2>3. hist[e - 1].wm <= hist[e].ev.at
    BY <1>2, <1>6, <1>8, <2>1 DEF WatermarkAt
  <2>4. hist[d].wm \in Int /\ hist[e-1].wm \in Int /\ hist[e].ev.at \in Int
    BY <1>1, <1>6, <2>1
  <2> QED
    BY <2>2, <2>3, <2>4
<1> QED
  BY <1>1, <1>5, <1>6, <1>7, <1>8

\* The event that starts an instance, or could have.
LEMMA FollowsFirst ==
  ASSUME Told, NEW p \in DOMAIN Patterns, NEW i \in 1..Len(hist), p \in hist[i].conf.patterns
  PROVE  Follows(p, i, i)
<1> DEFINE n == i - 1
           m == hist[i].ev.member
           id == InstanceID(p, i)
           o == hist[i]
           L == Len(Patterns[p])
           first == RefChain(p, i)[1]
           matched == CepMatchState(o.ev, Patterns[p][1], NoNum)
           progs == ProgressesAt(i, n)
<1>1. /\ Len(hist) \in Nat /\ n \in Nat /\ n < Len(hist) /\ n + 1 = i /\ n \in 0..Len(hist)
      /\ \A j \in 1..n : j \in 1..Len(hist) /\ ~(i <= j)
  BY DEF Told, Logged
<1>2. L \in Nat /\ L > 0 /\ 1 \in 1..L /\ ~Patterns[p][1].negative
  BY PatternFacts
<1>3. Missing(p, i, n) /\ Quiet(p, i, n)
  <2>1. ~Missing(p, i, n) => i <= n
    BY <1>1, NotBefore
  <2>2. \A j \in 1..n : ~Fires(p, i, j)
    BY <1>1, NotBefore
  <2> QED
    BY <1>1, <2>1, <2>2 DEF Quiet
<1>4. first = RefFirst(p, i)
  BY ChainSteps
<1>5. /\ o.ev \in Events /\ o.conf \in Configs /\ o.late \in BOOLEAN
      /\ ProgressesOf(m, progs) /\ InstancesOf(progs)
  <2>1. /\ o.ev \in Events /\ o.conf \in Configs
        /\ o = Outcome(o.conf, MembersAt(hist, n), WatermarkAt(hist, n), o.ev)
        /\ MembersTyped(MembersAt(hist, n))
    BY <1>1, LoggedAt DEF Told
  <2>2. o.late \in BOOLEAN
    <3>1. \E ap : ap = AppliedTo(o.conf, MembersAt(hist, n), o.ev)
      OBVIOUS
    <3> QED
      BY <2>1, <3>1, OutcomeParts
  <2>3. m \in Member
    BY <2>1, EventsAssumption
  <2>4. Behind(hist, n)
    BY <1>1 DEF Told, Served
  <2> QED
    BY <2>1, <2>2, <2>3, <2>4 DEF MembersTyped, Behind, InstancesOf, ProgressesAt
<1> HIDE DEF n
<1>6. id \notin DOMAIN progs
  BY <1>3 DEF Missing
<1>7. id = <<p, m, o.ev.id>>
  BY DEF InstanceID
<1>8. ASSUME OutOff(o, m, id), first.pos = 0
      PROVE  Follows(p, i, i)
  <2>1. Lost(p, i, i)
    BY <1>2, <1>8 DEF Lost
  <2> QED
    BY <1>1, <1>3, <1>8, <2>1, Ends
<1>9. CASE o.late
  <2>1. OutOff(o, m, id)
    BY <1>1, <1>6, <1>9, PositionEffect
  <2>2. first.pos = 0
    BY <1>4, <1>9 DEF RefFirst, NeverReached, OnTime
  <2> QED
    BY <1>8, <2>1, <2>2
<1>10. CASE ~o.late
  <2> DEFINE cep == ProcessCEP(RegisteredIn(o.conf), progs, o.ev, o.wm)
             new == NewProgress(RegisteredIn(o.conf), p, o.ev)
  <2>1. CepDecides(cep, o, m, id)
    BY <1>1, <1>10, PositionEffect
  <2>2. /\ ~matched => CepOff(cep, id)
        /\ matched /\ L = 1 => CepDone(cep, id)
        /\ matched /\ L # 1 => CepIn(cep, id, new)
    <3>1. /\ o.ev.id = o.ev.id /\ id \notin DOMAIN progs =>
              /\ ~CepMatchState(o.ev, Patterns[p][1], NoNum) => CepOff(cep, id)
              /\ CepMatchState(o.ev, Patterns[p][1], NoNum) /\ Len(Patterns[p]) = 1 =>
                   CepDone(cep, id)
              /\ CepMatchState(o.ev, Patterns[p][1], NoNum) /\ Len(Patterns[p]) # 1 =>
                   CepIn(cep, id, NewProgress(RegisteredIn(o.conf), p, o.ev))
      BY <1>5, <1>7, CepOnOne
    <3> QED
      BY <1>6, <3>1
  <2> HIDE DEF cep, new, progs
  <2>3. CASE ~matched
    <3>1. OutOff(o, m, id)
      BY <2>1, <2>2, <2>3 DEF CepDecides
    <3>2. first.pos = 0
      BY <1>4, <2>3 DEF RefFirst, NeverReached
    <3> QED
      BY <1>8, <3>1, <3>2
  <2>4. ASSUME matched
        PROVE  first.pos = i /\ first.vars = Bind(o.ev, Patterns[p][1], NoNum)
    BY <1>4, <1>10, <2>4 DEF RefFirst, OnTime
  <2>5. CASE matched /\ L = 1
    <3>1. Missing(p, i, i) /\ Fires(p, i, i)
      BY <1>1, <2>1, <2>2, <2>5, OutcomeSeen DEF CepDecides
    <3>2. FiresAt(p, i, i, i)
      <4>1. \A j \in 1..i : j \in 1..n \/ j = i
        BY <1>1
      <4>2. \A j \in 1..n : j # i
        BY <1>1
      <4> QED
        BY <1>3, <3>1, <4>1, <4>2 DEF FiresAt, Quiet
    <3>3. ~Negative(p)
      BY <1>2, <2>5 DEF Negative
    <3>4. RefChain(p, i)[Len(Patterns[p])].pos = i /\ i \in 1..i
      BY <2>4, <2>5
    <3>5. Completed(p, i, i)
      BY <3>2, <3>3, <3>4 DEF Completed
    <3> QED
      BY <3>1, <3>5 DEF Follows
  <2>6. CASE matched /\ L # 1
    <3>1. OutParked(o, m, id, new)
      BY <2>1, <2>2, <2>6 DEF CepDecides
    <3>2. 1 \in 1..(L - 1)
      <4>1. \A l \in Nat : l > 0 /\ l # 1 => 1 \in 1..(l - 1)
        OBVIOUS
      <4> QED
        BY <1>2, <2>6, <4>1
    <3>3. Mirrors(p, i, 1, new)
      <4>1. RegisteredIn(o.conf)[p] = Patterns[p]
        BY DEF RegisteredIn
      <4>2. /\ new.pattern = p /\ new.step = 1 /\ new.started = o.ev.at
            /\ new.vars = Bind(o.ev, Patterns[p][1], NoNum)
            /\ new.negDeadline = ParkDeadline(Patterns[p], 1, o.ev.at)
        BY <4>1 DEF NewProgress, new
      <4> QED
        BY <2>4, <2>6, <4>2 DEF Mirrors
    <3>4. first.pos = i /\ i \in 1..i
      BY <2>4, <2>6
    <3>5. Waits(p, i, 1, n + 1)
      <4>1. \A j \in 1..i : j \notin Ending(p, i, 1 + 1, first)
        BY <3>4 DEF Ending
      <4>2. ASSUME Patterns[p][1+1].negative, NEW j \in 1..i
            PROVE  ~Forbidden(p, i, j)
        <5>1. 1 + 1 \in 1..L
          BY <1>2, <3>2
        <5>2. 1 + 1 = L
          BY <4>2, <5>1, PatternFacts
        <5>3. L - 1 = 1
          BY <5>2
        <5>4. RefChain(p, i)[Len(Patterns[p]) - 1].pos = i
          BY <3>4, <5>3
        <5>5. ~(i < j)
          BY <4>2
        <5> QED
          BY <5>4, <5>5 DEF Forbidden
      <4> QED
        BY <1>1, <3>4, <4>1, <4>2 DEF Waits
    <3>6. InTime(p, i, 1, n)
      <4>1. \A l \in first.pos..n : FALSE
        BY <1>1, <3>4
      <4> QED
        BY <4>1 DEF InTime
    <3>7. ~Sweeps(p, i, i)
      <4>1. i \in i..Len(hist)
        BY <1>1
      <4>2. hist[i].wm \in Int /\ hist[i].wm <= hist[i].ev.at
        BY <1>10, <4>1, WatermarkGrows DEF OnTime
      <4>3. hist[i].ev.at \in Int /\ MaxDuration(Patterns[p]) \in Int
        BY EventsAssumption, MaxDurationLongest DEF Told, Logged
      <4>4. \A w, a, d \in Int : w <= a /\ d > 0 => ~(w > a + d)
        OBVIOUS
      <4> QED
        BY <4>2, <4>3, <4>4 DEF Sweeps
    <3> HIDE DEF L, first, o, m, id
    <3> QED
      BY <1>1, <1>3, <3>1, <3>2, <3>3, <3>5, <3>6, <3>7, Parks DEF L, o, m, id
  <2> QED
    BY <2>3, <2>5, <2>6
<1> QED
  BY <1>5, <1>9, <1>10

\* No progress and no event that starts it: nothing comes of the instance.
LEMMA StaysAway ==
  ASSUME Told, NEW p \in DOMAIN Patterns, NEW i \in 1..Len(hist), NEW n \in Nat, n < Len(hist),
         i <= n, p \in hist[n+1].conf.patterns, Missing(p, i, n)
  PROVE  Missing(p, i, n + 1) /\ ~Fires(p, i, n + 1)
<1> DEFINE o == hist[n+1]
           m == hist[i].ev.member
           id == InstanceID(p, i)
           progs == ProgressesAt(i, n)
           cep == ProcessCEP(RegisteredIn(o.conf), progs, o.ev, o.wm)
<1>1. n + 1 \in 1..Len(hist) /\ n + 1 # i /\ n \in 0..Len(hist)
  BY DEF Told, Logged
<1>2. id \notin DOMAIN progs
  BY DEF Missing
<1>3. hist[i].ev.id # o.ev.id
  BY <1>1 DEF Told, EachOnce
<1>4. OutOff(o, m, id)
  <2>1. CASE o.late \/ o.ev.member # m
    BY <1>2, <2>1, PositionEffect
  <2>2. CASE ~(o.late \/ o.ev.member # m)
    <3>1. CepDecides(cep, o, m, id)
      BY <2>2, PositionEffect
    <3>2. /\ o.ev \in Events /\ o.conf \in Configs
          /\ ProgressesOf(m, progs) /\ InstancesOf(progs)
      <4>1. /\ o.ev \in Events /\ o.conf \in Configs
            /\ MembersTyped(MembersAt(hist, n))
        BY LoggedAt DEF Told
      <4>2. m \in Member
        BY <2>2, <4>1, EventsAssumption
      <4>3. Behind(hist, n)
        BY <1>1 DEF Told, Served
      <4> QED
        BY <4>1, <4>2, <4>3 DEF MembersTyped, Behind, InstancesOf, ProgressesAt
    <3>3. id = <<p, o.ev.member, hist[i].ev.id>>
      BY <2>2 DEF InstanceID
    <3> DEFINE s == hist[i].ev.id
    <3>4. s # o.ev.id /\ id \notin DOMAIN progs => CepOff(cep, id)
      <4> HIDE DEF s
      <4>1. id = <<p, o.ev.member, s>>
        BY <3>3 DEF s
      <4>2. ProgressesOf(o.ev.member, progs)
        BY <2>2, <3>2
      <4> HIDE DEF id, progs, m, o
      <4>3. p \in o.conf.patterns
        BY DEF o
      <4> QED
        BY <3>2, <4>1, <4>2, <4>3, CepOnOne
    <3> QED
      BY <1>2, <1>3, <3>1, <3>4 DEF CepDecides
  <2> QED
    BY <2>1, <2>2
<1> QED
  BY <1>4, OutcomeSeen

\* What becomes in o of a progress q that waits on the k+1-st state st.
Resolved(o, m, id, p, k, q, st) ==
  \/ OutOff(o, m, id) /\ Overlong(q, o.wm)
  \/ /\ ~Overlong(q, o.wm)
     /\ \/ OutOff(o, m, id) /\ st.negative
             /\ o.ev.at <= q.negDeadline /\ CepMatchState(o.ev, st, q.vars)
        \/ OutParked(o, m, id, q) /\ st.negative
             /\ ~(o.ev.at <= q.negDeadline /\ CepMatchState(o.ev, st, q.vars))
        \/ OutOff(o, m, id) /\ ~st.negative /\ TooLate(o.ev, st, q)
        \/ OutParked(o, m, id, q) /\ ~st.negative
             /\ ~TooLate(o.ev, st, q) /\ ~CepMatchState(o.ev, st, q.vars)
        \/ OutDone(o, m, id) /\ ~st.negative
             /\ ~TooLate(o.ev, st, q) /\ CepMatchState(o.ev, st, q.vars)
             /\ k + 1 = Len(Patterns[p])
        \/ ~st.negative /\ ~TooLate(o.ev, st, q) /\ CepMatchState(o.ev, st, q.vars)
             /\ k + 1 # Len(Patterns[p])
             /\ \E r : OutParked(o, m, id, r) /\ Stepped(q, r, o.ev, st)

\* What an event of its own, on time, makes of an instance that waits on state st.
LEMMA OwnEvent ==
  ASSUME Told, NEW p \in DOMAIN Patterns, NEW i \in 1..Len(hist), NEW n \in Nat, n < Len(hist),
         i <= n, p \in hist[n+1].conf.patterns,
         NEW o, o = hist[n+1], NEW m, m = hist[i].ev.member, NEW id, id = InstanceID(p, i),
         ~o.late, o.ev.member = m,
         NEW q, Holds(p, i, n, q), NEW k, Mirrors(p, i, k, q), NEW st, st = Patterns[p][k+1]
  PROVE  Resolved(o, m, id, p, k, q, st)
<1> DEFINE progs == ProgressesAt(i, n)
           cep == ProcessCEP(RegisteredIn(o.conf), progs, o.ev, o.wm)
           a == AdvanceProgress(RegisteredIn(o.conf), o.ev, id, q)
           s == hist[i].ev.id
           matched == CepMatchState(o.ev, st, q.vars)
<1>1. n + 1 \in 1..Len(hist) /\ n + 1 # i /\ n \in 0..Len(hist)
  BY DEF Told, Logged
<1>2. id \in DOMAIN progs /\ progs[id] = q /\ id = <<p, m, s>>
  BY DEF Holds, InstanceID
<1>3. s # o.ev.id
  BY <1>1 DEF Told, EachOnce
<1>4. o.ev.id \notin q.seen
  <2>1. n + 1 \in (n + 1)..Len(hist)
    BY <1>1
  <2> QED
    BY <1>1, <2>1, NotBefore
<1>5. /\ o.ev \in Events /\ o.conf \in Configs /\ p \in o.conf.patterns
      /\ ProgressesOf(m, progs) /\ InstancesOf(progs)
  <2>1. /\ o.ev \in Events /\ o.conf \in Configs
        /\ MembersTyped(MembersAt(hist, n))
    BY LoggedAt DEF Told
  <2>2. m \in Member
    BY <2>1, EventsAssumption
  <2>3. Behind(hist, n)
    BY <1>1 DEF Told, Served
  <2> QED
    BY <2>1, <2>2, <2>3 DEF MembersTyped, Behind, InstancesOf, ProgressesAt
<1>6. ProgressOf(m, id, q) /\ Instance(id, q)
  BY <1>2, <1>5 DEF ProgressesOf, InstancesOf
<1>7. q.pattern = p /\ q.step = k
  BY DEF Mirrors
<1>8. CepDecides(cep, o, m, id)
  BY PositionEffect
<1> HIDE DEF s, progs
<1>9. /\ Overlong(q, o.wm) => CepOff(cep, id)
      /\ ~Overlong(q, o.wm) /\ a.keep => CepIn(cep, id, a.p)
      /\ ~Overlong(q, o.wm) /\ ~a.keep /\ a.matches = {} => CepOff(cep, id)
      /\ ~Overlong(q, o.wm) /\ ~a.keep /\ a.matches # {} => CepDone(cep, id)
  <2>1. id = <<p, o.ev.member, s>> /\ ProgressesOf(o.ev.member, progs)
    BY <1>2, <1>5
  <2>2. cep = ProcessCEP(RegisteredIn(o.conf), progs, o.ev, o.wm)
    OBVIOUS
  <2>3. a = AdvanceProgress(RegisteredIn(o.conf), o.ev, id, q)
    OBVIOUS
  <2> HIDE DEF cep, a
  <2>4. s # o.ev.id /\ id \in DOMAIN progs =>
          Answered(cep, id, progs[id],
                   AdvanceProgress(RegisteredIn(o.conf), o.ev, id, progs[id]), o.wm)
    BY <1>5, <2>1, <2>2, CepOnOne
  <2> QED
    BY <1>2, <1>3, <2>3, <2>4 DEF Answered
<1>10. /\ st.negative /\ o.ev.at <= q.negDeadline /\ matched => ~a.keep /\ a.matches = {}
       /\ st.negative /\ ~(o.ev.at <= q.negDeadline /\ matched) => a.keep /\ a.p = q
       /\ ~st.negative /\ TooLate(o.ev, st, q) => ~a.keep /\ a.matches = {}
       /\ ~st.negative /\ ~TooLate(o.ev, st, q) /\ ~matched => a.keep /\ a.p = q
       /\ ~st.negative /\ ~TooLate(o.ev, st, q) /\ matched /\ k + 1 = Len(Patterns[p]) =>
            ~a.keep /\ a.matches # {}
       /\ ~st.negative /\ ~TooLate(o.ev, st, q) /\ matched /\ k + 1 # Len(Patterns[p]) =>
            a.keep /\ Stepped(q, a.p, o.ev, st)
  <2>1. st = Patterns[q.pattern][q.step + 1] /\ q.pattern \in o.conf.patterns
    BY <1>5, <1>7
  <2> HIDE DEF matched
  <2>2. Advanced(st, o.ev, q, a)
    BY <1>4, <1>5, <1>6, <2>1, AdvanceCases
  <2> HIDE DEF a
  <2> QED
    BY <1>7, <2>2 DEF matched, Advanced
<1> HIDE DEF cep, a, matched
<1>11. /\ CepOff(cep, id) => OutOff(o, m, id)
       /\ CepDone(cep, id) => OutDone(o, m, id)
       /\ CepIn(cep, id, a.p) => OutParked(o, m, id, a.p)
  BY <1>8 DEF CepDecides
<1> QED
  BY <1>9, <1>10, <1>11 DEF matched, Resolved

\* Where the instance is gone, the log goes on without it.
LEMMA FollowsGone ==
  ASSUME Told, NEW p \in DOMAIN Patterns, NEW i \in 1..Len(hist), NEW n \in Nat, n < Len(hist),
         i <= n, p \in hist[n+1].conf.patterns, Missing(p, i, n), Follows(p, i, n)
  PROVE  Follows(p, i, n + 1)
<1>1. Missing(p, i, n + 1) /\ ~Fires(p, i, n + 1)
  BY StaysAway
<1>2. /\ \A j \in 1..(n + 1) : j \in 1..n \/ j = n + 1
      /\ \A j \in 1..n : j \in 1..(n + 1) /\ j # n + 1
  OBVIOUS
<1>3. \A d \in 1..n : FiresAt(p, i, n, d) => FiresAt(p, i, n + 1, d)
  BY <1>1, <1>2 DEF FiresAt
<1>4. ~ \E k \in 1..(Len(Patterns[p]) - 1) : InStep(p, i, k, n)
  BY DEF InStep, Holds, Missing
<1>5. CASE Quiet(p, i, n) /\ Lost(p, i, n)
  <2>1. Quiet(p, i, n + 1)
    BY <1>1, <1>2, <1>5 DEF Quiet
  <2>2. Lost(p, i, n + 1)
    BY <1>2, <1>5 DEF Lost
  <2> QED
    BY <1>1, <2>1, <2>2 DEF Follows
<1>6. CASE Completed(p, i, n)
  <2>1. Completed(p, i, n + 1)
    BY <1>2, <1>3, <1>6 DEF Completed
  <2> QED
    BY <1>1, <2>1 DEF Follows
<1>7. CASE \E d \in 1..n : ElapsedAt(p, i, n, d)
  <2>1. PICK d \in 1..n : ElapsedAt(p, i, n, d)
    BY <1>7
  <2>2. d \in 1..(n + 1) /\ ElapsedAt(p, i, n + 1, d)
    BY <1>2, <1>3, <2>1 DEF ElapsedAt
  <2> QED
    BY <1>1, <2>2 DEF Follows
<1> QED
  BY <1>4, <1>5, <1>6, <1>7 DEF Follows

\* Where it waits, the next position moves engine and reference alike.
LEMMA FollowsWaiting ==
  ASSUME Told, NEW p \in DOMAIN Patterns, NEW i \in 1..Len(hist), NEW n \in Nat, n < Len(hist),
         i <= n, p \in hist[n+1].conf.patterns,
         NEW k \in 1..(Len(Patterns[p]) - 1), InStep(p, i, k, n)
  PROVE  Follows(p, i, n + 1)
<1> DEFINE o == hist[n+1]
           m == hist[i].ev.member
           id == InstanceID(p, i)
           L == Len(Patterns[p])
           st == Patterns[p][k+1]
           prev == RefChain(p, i)[k]
           matched == CepMatchState(o.ev, st, prev.vars)
           own == Own(m, n + 1) /\ OnTime(n + 1)
<1>1. PICK q : Holds(p, i, n, q) /\ Mirrors(p, i, k, q)
  BY DEF InStep
<1>2. /\ Len(hist) \in Nat /\ n + 1 \in 1..Len(hist) /\ n + 1 \in 1..(n + 1) /\ n + 1 - 1 = n
      /\ \A j \in 1..(n + 1) : j \in 1..n \/ j = n + 1
      /\ \A j \in 1..n : j \in 1..(n + 1)
  BY DEF Told, Logged
<1>3. /\ L \in Nat /\ L > 0 /\ k + 1 \in 1..L /\ k \in 1..(L - 1)
      /\ st.negative \in BOOLEAN
      /\ st.negative => k + 1 = L /\ L - 1 = k /\ st.wait \in Nat
  <2>1. L \in Nat /\ L > 0 /\ k + 1 \in 1..L /\ k \in 1..(L - 1)
    BY PatternFacts
  <2>2. /\ st.negative \in BOOLEAN
        /\ st.negative => k + 1 = L /\ st.wait \in Nat
    BY <2>1, PatternFacts
  <2> QED
    BY <2>1, <2>2
<1>4. /\ hist[i].ev.at \in Int /\ o.ev.at \in Int /\ o.wm \in Int
      /\ o.late \in BOOLEAN
  <2>1. /\ o.ev \in Events /\ o.conf \in Configs /\ hist[i].ev \in Events
        /\ o = Outcome(o.conf, MembersAt(hist, n), WatermarkAt(hist, n), o.ev)
    BY LoggedAt DEF Told, Logged
  <2>2. \E ap : ap = AppliedTo(o.conf, MembersAt(hist, n), o.ev)
    OBVIOUS
  <2>3. o.late \in BOOLEAN
    BY <2>1, <2>2, OutcomeParts
  <2>4. o.wm \in Int
    BY <1>2 DEF Told, Logged, Settled
  <2> QED
    BY <2>1, <2>3, <2>4, EventsAssumption
<1>5. /\ prev.pos \in 1..n
      /\ ~st.negative => \A j \in 1..n : j \notin Ending(p, i, k + 1, prev)
      /\ st.negative => \A j \in 1..n : ~Forbidden(p, i, j)
      /\ Quiet(p, i, n) /\ InTime(p, i, k, n) /\ Waits(p, i, k, n)
  BY DEF InStep, Waits
<1>6. /\ q.vars = prev.vars /\ q.started = hist[i].ev.at /\ q.pattern = p /\ q.step = k
      /\ st.negative => q.negDeadline = NegDeadline(p, i)
      /\ ~st.negative => q.negDeadline = NoTime
  BY <1>1, <1>3 DEF Mirrors, ParkDeadline, NegDeadline
<1>7. TooLate(o.ev, st, q) <=> Expired(p, i, k + 1, n + 1)
  BY <1>6 DEF TooLate, Expired
<1>8. st.negative =>
        (Forbidden(p, i, n + 1) <=> own /\ o.ev.at <= NegDeadline(p, i) /\ matched)
  <2>1. prev.pos # 0 /\ prev.pos < n + 1
    BY <1>5
  <2> QED
    BY <1>3, <2>1 DEF Forbidden
<1>9. n + 1 \in Ending(p, i, k + 1, prev) => own /\ (Expired(p, i, k + 1, n + 1) \/ matched)
  BY DEF Ending
<1>10. own <=> ~o.late /\ o.ev.member = m
  BY DEF Own, OnTime
<1>11. Overlong(q, o.wm) <=> o.wm > hist[i].ev.at + MaxDuration(Patterns[p])
                             /\ MaxDuration(Patterns[p]) > 0
  <2>1. \A a, b, c \in Int : a - b > c <=> a > b + c
    OBVIOUS
  <2> QED
    BY <1>4, <1>6, <2>1, MaxDurationLongest DEF Overlong
<1>12. Sweeps(p, i, n + 1) <=> own /\ Overlong(q, o.wm)
  BY <1>11 DEF Sweeps
<1> HIDE DEF prev, st, L, matched, own
<1>13. ASSUME OutParked(o, m, id, q),
              ~st.negative => n + 1 \notin Ending(p, i, k + 1, prev),
              st.negative => ~Forbidden(p, i, n + 1),
              own => ~Overlong(q, o.wm)
       PROVE  Follows(p, i, n + 1)
  <2>1. Waits(p, i, k, n + 1)
    <3>1. prev.pos \in 1..(n + 1)
      BY <1>2, <1>5
    <3>2. ~st.negative => \A j \in 1..(n + 1) : j \notin Ending(p, i, k + 1, prev)
      BY <1>2, <1>5, <1>13
    <3>3. st.negative => \A j \in 1..(n + 1) : ~Forbidden(p, i, j)
      BY <1>2, <1>5, <1>13
    <3> QED
      BY <3>1, <3>2, <3>3 DEF Waits, prev, st
  <2>2. ~Sweeps(p, i, n + 1)
    BY <1>13, <1>12
  <2> HIDE DEF o, m, id
  <2> QED
    BY <1>1, <1>5, <1>13, <2>1, <2>2, Parks DEF o, m, id
<1>14. ASSUME OutOff(o, m, id), Lost(p, i, n + 1) PROVE Follows(p, i, n + 1)
  BY <1>5, <1>14, Ends
<1>15. CASE ~own
  <2>1. OutParked(o, m, id, q)
    BY <1>1, <1>4, <1>10, <1>15, PositionEffect
  <2> QED
    BY <1>8, <1>9, <1>13, <1>15, <2>1
<1>16. CASE own
  <2> USE <1>10, <1>16
  <2>1. CASE OutOff(o, m, id) /\ Overlong(q, o.wm)
    <3>1. Sweeps(p, i, n + 1)
      BY <1>12, <2>1
    <3>2. Waits(p, i, k, n + 1 - 1) /\ InTime(p, i, k, n + 1 - 1)
      BY <1>2, <1>5
    <3>3. SweptAt(p, i, k, n + 1)
      BY <3>1, <3>2 DEF SweptAt
    <3>4. Lost(p, i, n + 1)
      BY <1>2, <3>3 DEF Lost
    <3> QED
      BY <1>14, <2>1, <3>4
  <2>2. CASE OutOff(o, m, id) /\ st.negative
               /\ o.ev.at <= q.negDeadline /\ CepMatchState(o.ev, st, q.vars)
    <3>1. Forbidden(p, i, n + 1)
      BY <1>6, <1>8, <2>2 DEF matched
    <3>2. Negative(p)
      BY <1>3, <2>2 DEF Negative, st, L
    <3>3. Lost(p, i, n + 1)
      BY <1>2, <3>1, <3>2 DEF Lost
    <3> QED
      BY <1>14, <2>2, <3>3
  <2>3. CASE ~Overlong(q, o.wm) /\ OutParked(o, m, id, q) /\ st.negative
               /\ ~(o.ev.at <= q.negDeadline /\ CepMatchState(o.ev, st, q.vars))
    <3>1. ~Forbidden(p, i, n + 1)
      BY <1>6, <1>8, <2>3 DEF matched
    <3> QED
      BY <1>13, <2>3, <3>1
  <2>4. CASE OutOff(o, m, id) /\ ~st.negative /\ TooLate(o.ev, st, q)
    <3>1. RefChain(p, i)[k+1].pos = 0
      BY <1>2, <1>5, <1>7, <2>4, ReferenceStep DEF prev, own, Waiting, Moves
    <3>2. Lost(p, i, n + 1)
      BY <1>3, <2>4, <3>1 DEF Lost, st, L
    <3> QED
      BY <1>14, <2>4, <3>2
  <2>5. CASE ~Overlong(q, o.wm) /\ OutParked(o, m, id, q) /\ ~st.negative
               /\ ~TooLate(o.ev, st, q) /\ ~CepMatchState(o.ev, st, q.vars)
    <3>1. n + 1 \notin Ending(p, i, k + 1, prev)
      BY <1>6, <1>7, <1>9, <2>5 DEF matched
    <3> QED
      BY <1>13, <2>5, <3>1
  <2>6. ASSUME ~st.negative, ~TooLate(o.ev, st, q), CepMatchState(o.ev, st, q.vars)
        PROVE  /\ RefChain(p, i)[k+1].pos = n + 1
               /\ RefChain(p, i)[k+1].vars = Bind(o.ev, st, q.vars)
    <3>1. ~Expired(p, i, k + 1, n + 1) /\ CepMatchState(o.ev, st, prev.vars)
      BY <1>6, <1>7, <2>6
    <3>2. /\ Waiting(p, i, k, n) /\ Len(hist) \in Nat
          /\ Own(hist[i].ev.member, n + 1) /\ OnTime(n + 1)
      BY <1>2, <1>5, <2>6 DEF prev, own, m, Waiting
    <3>3. Moves(p, i, k, n + 1)
      BY <3>2, ReferenceStep
    <3> QED
      BY <1>6, <3>1, <3>3 DEF Moves, st, prev
  <2>7. CASE OutDone(o, m, id) /\ ~st.negative /\ ~TooLate(o.ev, st, q)
               /\ CepMatchState(o.ev, st, q.vars) /\ k + 1 = Len(Patterns[p])
    <3>1. Missing(p, i, n + 1) /\ Fires(p, i, n + 1)
      BY <2>7, OutcomeSeen
    <3>2. RefChain(p, i)[Len(Patterns[p])].pos = n + 1
      BY <2>6, <2>7
    <3>3. ~Negative(p)
      BY <2>7 DEF Negative, st
    <3>4. FiresAt(p, i, n + 1, n + 1)
      BY <1>2, <1>5, <3>1 DEF FiresAt, Quiet
    <3>5. Completed(p, i, n + 1)
      BY <1>2, <3>2, <3>3, <3>4 DEF Completed
    <3> QED
      BY <3>1, <3>5 DEF Follows
  <2>8. CASE /\ ~Overlong(q, o.wm)
             /\ ~st.negative /\ ~TooLate(o.ev, st, q) /\ CepMatchState(o.ev, st, q.vars)
             /\ k + 1 # Len(Patterns[p])
             /\ \E r : OutParked(o, m, id, r) /\ Stepped(q, r, o.ev, st)
    <3> DEFINE k1 == k + 1
               next == RefChain(p, i)[k1]
    <3>1. PICK r : OutParked(o, m, id, r) /\ Stepped(q, r, o.ev, st)
      BY <2>8
    <3>2. k1 \in 1..(Len(Patterns[p]) - 1)
      BY <1>3, <2>8 DEF L
    <3>3. next.pos = n + 1 /\ next.vars = Bind(o.ev, st, q.vars)
      BY <2>6, <2>8
    <3>4. Mirrors(p, i, k1, r)
      BY <1>6, <3>1, <3>3 DEF Stepped, Mirrors
    <3> HIDE DEF k1, next
    <3>5. Waits(p, i, k1, n + 1)
      <4>1. \A j \in 1..(n + 1) : j \notin Ending(p, i, k1 + 1, next)
        BY <3>3 DEF Ending
      <4>2. ASSUME Patterns[p][k1+1].negative, NEW j \in 1..(n + 1)
            PROVE  ~Forbidden(p, i, j)
        <5>1. k1 + 1 \in 1..L
          BY <1>3, <3>2 DEF L
        <5>2. k1 + 1 = L
          BY <4>2, <5>1, PatternFacts DEF L
        <5>3. Len(Patterns[p]) - 1 = k1
          BY <3>2, <5>2 DEF L
        <5>4. RefChain(p, i)[Len(Patterns[p]) - 1].pos = n + 1
          BY <3>3, <5>3 DEF next
        <5>5. ~(n + 1 < j)
          BY <4>2
        <5> QED
          BY <5>4, <5>5 DEF Forbidden
      <4> QED
        BY <1>2, <3>3, <4>1, <4>2 DEF Waits, next
    <3>6. InTime(p, i, k1, n)
      <4>1. \A l \in next.pos..n : FALSE
        BY <3>3
      <4> QED
        BY <4>1 DEF InTime, next
    <3>7. ~Sweeps(p, i, n + 1)
      BY <1>12, <2>8
    <3> HIDE DEF o, m, id
    <3> QED
      BY <1>5, <3>1, <3>2, <3>4, <3>5, <3>6, <3>7, Parks DEF o, m, id
  <2>9. Resolved(o, m, id, p, k, q, st)
    <3>1. ~o.late /\ o.ev.member = m /\ Holds(p, i, n, q) /\ Mirrors(p, i, k, q)
      BY <1>1
    <3>2. st = Patterns[p][k+1] /\ o = hist[n+1] /\ m = hist[i].ev.member /\ id = InstanceID(p, i)
      BY DEF st
    <3> HIDE DEF o, m, id
    <3>3. p \in hist[n+1].conf.patterns
      OBVIOUS
    <3> QED
      BY <3>1, <3>2, <3>3, OwnEvent
  <2> QED
    BY <2>1, <2>2, <2>3, <2>4, <2>5, <2>7, <2>8, <2>9 DEF Resolved
<1> QED
  BY <1>15, <1>16

\* After every position since its start, engine and reference agree on an instance.
LEMMA FollowsToTheEnd ==
  ASSUME Told, NEW p \in DOMAIN Patterns, NEW i \in 1..Len(hist),
         \A j \in i..Len(hist) : p \in hist[j].conf.patterns
  PROVE  Follows(p, i, Len(hist))
<1> DEFINE N == Len(hist)
           P == {l \in Nat : i + l <= N => Follows(p, i, i + l)}
<1>1. N \in Nat /\ i \in Nat /\ i <= N
  BY DEF Told, Logged
<1>2. 0 \in P
  <2>1. p \in hist[i].conf.patterns
    BY <1>1
  <2>2. Follows(p, i, i)
    BY <2>1, FollowsFirst
  <2> QED
    BY <2>2
<1>3. ASSUME NEW l \in Nat, l \in P PROVE l + 1 \in P
  <2> SUFFICES ASSUME i + (l + 1) <= N PROVE Follows(p, i, i + (l + 1))
    OBVIOUS
  <2> DEFINE n == i + l
  <2>1. n \in Nat /\ n < N /\ i <= n /\ n + 1 = i + (l + 1) /\ n + 1 \in i..N
    BY <1>1
  <2>2. Follows(p, i, n) /\ p \in hist[n+1].conf.patterns
    BY <1>1, <1>3, <2>1
  <2> HIDE DEF n
  <2>3. Follows(p, i, n + 1)
    <3>1. CASE Missing(p, i, n)
      BY <2>1, <2>2, <3>1, FollowsGone
    <3>2. CASE ~Missing(p, i, n)
      <4>1. PICK k \in 1..(Len(Patterns[p]) - 1) : InStep(p, i, k, n)
        BY <2>2, <3>2 DEF Follows
      <4> QED
        BY <2>1, <2>2, <4>1, FollowsWaiting
    <3> QED
      BY <3>1, <3>2
  <2> QED
    BY <2>1, <2>3
<1> HIDE DEF P
<1>4. N - i \in P
  <2>1. N - i \in Nat
    BY <1>1
  <2> QED
    BY <1>2, <1>3, <2>1, NumbersFromZero
<1>5. i + (N - i) = N /\ i + (N - i) <= N
  BY <1>1
<1> QED
  BY <1>4, <1>5 DEF P

-----------------------------------------------------------------------------
(* Exactness: the reference and the watermark at the end of the log. *)

\* The matches of the properties are the matches of the instance.
LEMMA FiredIsFires ==
  ASSUME Told, NEW p, NEW i \in 1..Len(hist)
  PROVE  \A j : j \in Fired(p, i) <=> j \in 1..Len(hist) /\ Fires(p, i, j)
<1>1. DOMAIN hist = 1..Len(hist)
  BY DEF Told, Logged
<1>2. ASSUME NEW j \in 1..Len(hist), NEW mt \in hist[j].matches,
             mt.pattern = p, mt.start = hist[i].ev.id
      PROVE  SourceOf(mt) = InstanceID(p, i)
  <2>1. Rested(hist, j) /\ Len(hist) \in Nat /\ j \in Nat
    BY DEF Told, Served, Logged
  <2>2. mt.start \in ServingTo(hist, mt.member, mt.start, j)
    BY <2>1 DEF Rested
  <2>3. PICK k \in 1..j : hist[k].ev.id = mt.start /\ hist[k].ev.member = mt.member
    BY <2>1, <2>2, ServingGiven
  <2>4. k = i
    BY <1>2, <2>1, <2>3 DEF Told, EachOnce
  <2> QED
    BY <1>2, <2>3, <2>4 DEF SourceOf, InstanceID
<1>3. ASSUME NEW j, NEW mt \in hist[j].matches, SourceOf(mt) = InstanceID(p, i)
      PROVE  mt.pattern = p /\ mt.start = hist[i].ev.id
  BY <1>3 DEF SourceOf, InstanceID
<1> QED
  BY <1>1, <1>2, <1>3 DEF Fired, Fires

\* A quiet instance has no match, one that fired at d has that one.
LEMMA FiredAs ==
  ASSUME Told, NEW p, NEW i \in 1..Len(hist)
  PROVE  /\ Quiet(p, i, Len(hist)) => Fired(p, i) = {}
         /\ \A d \in 1..Len(hist) : FiresAt(p, i, Len(hist), d) => Fired(p, i) = {d}
<1>1. \A j : j \in Fired(p, i) <=> j \in 1..Len(hist) /\ Fires(p, i, j)
  BY FiredIsFires
<1> QED
  BY <1>1 DEF Quiet, FiresAt

\* The states are reached one after the other, by on-time events of the member.
LEMMA ChainPositions ==
  ASSUME Told, NEW p \in DOMAIN Patterns, NEW i \in 1..Len(hist)
  PROVE  /\ \A k \in 1..Len(Patterns[p]) :
              /\ RefChain(p, i)[k].pos \in 0..Len(hist)
              /\ RefChain(p, i)[k].pos # 0 =>
                   /\ Own(hist[i].ev.member, RefChain(p, i)[k].pos)
                   /\ OnTime(RefChain(p, i)[k].pos)
         /\ \A k \in 1..(Len(Patterns[p]) - 1) : RefChain(p, i)[k+1].pos # 0 =>
              /\ RefChain(p, i)[k].pos # 0
              /\ RefChain(p, i)[k].pos < RefChain(p, i)[k+1].pos
              /\ RefChain(p, i)[k+1].pos \in Ending(p, i, k + 1, RefChain(p, i)[k])
<1> DEFINE L == Len(Patterns[p])
           N == Len(hist)
           m == hist[i].ev.member
           own(j) == Own(m, j) /\ OnTime(j)
           at(k) == RefChain(p, i)[k].pos
           P == {l \in Nat : l + 1 <= L => at(l + 1) \in 0..N /\ (at(l + 1) # 0 => own(at(l + 1)))}
           Up(k) == at(k + 1) # 0 =>
                      /\ at(k) # 0 /\ at(k) < at(k + 1)
                      /\ at(k + 1) \in Ending(p, i, k + 1, RefChain(p, i)[k])
<1>1. L \in Nat /\ L > 0 /\ N \in Nat
  BY PatternFacts DEF Told, Logged
<1>2. at(1) \in 0..N /\ (at(1) # 0 => own(at(1)))
  <2>1. RefChain(p, i)[1] = RefFirst(p, i)
    BY ChainSteps
  <2>2. at(1) = 0 \/ (at(1) = i /\ OnTime(i))
    BY <2>1 DEF RefFirst, NeverReached
  <2> HIDE DEF at
  <2> QED
    BY <1>1, <2>2 DEF Own
<1>3. ASSUME NEW k \in 1..(L - 1), at(k) \in 0..N
      PROVE  at(k + 1) \in 0..N /\ (at(k + 1) # 0 => own(at(k + 1))) /\ Up(k)
  <2> DEFINE prev == RefChain(p, i)[k]
             ending == Ending(p, i, k + 1, prev)
  <2>1. RefChain(p, i)[k+1] = RefNext(p, i, k + 1, prev)
    <3>1. k + 1 \in 2..L /\ k + 1 - 1 = k
      BY <1>1
    <3> QED
      BY <3>1, ChainSteps
  <2>2. /\ ending \in SUBSET Nat
        /\ \A j \in ending : j \in 0..N /\ prev.pos < j /\ own(j)
    <3>1. \A j \in ending : j \in (prev.pos + 1)..N /\ own(j)
      BY DEF Ending
    <3>2. prev.pos \in 0..N
      BY <1>3
    <3> HIDE DEF ending, prev
    <3> QED
      BY <1>1, <3>1, <3>2
  <2> HIDE DEF ending
  <2>3. at(k + 1) = 0 \/ (prev.pos # 0 /\ ending # {} /\ at(k + 1) = Min(ending))
    BY <2>1 DEF RefNext, NeverReached, ending
  <2>4. ending # {} => Min(ending) \in ending
    BY <2>2, FirstPosition
  <2>5. prev.pos = at(k)
    OBVIOUS
  <2> HIDE DEF prev, at
  <2>6. at(k + 1) \in 0..N /\ (at(k + 1) # 0 => own(at(k + 1)))
    <3>1. CASE at(k + 1) = 0
      BY <1>1, <3>1
    <3>2. CASE at(k + 1) # 0
      <4>1. at(k + 1) \in ending
        BY <2>3, <2>4, <3>2
      <4> QED
        BY <2>2, <4>1
    <3> QED
      BY <3>1, <3>2
  <2>7. at(k + 1) # 0 => at(k) # 0 /\ at(k) < at(k + 1) /\ at(k + 1) \in ending
    BY <2>2, <2>3, <2>4, <2>5
  <2> QED
    BY <2>6, <2>7 DEF ending, prev
<1> HIDE DEF at, Up
<1>4. 0 \in P
  BY <1>2
<1>5. ASSUME NEW l \in Nat, l \in P PROVE l + 1 \in P
  <2> SUFFICES ASSUME l + 1 + 1 <= L
               PROVE  at(l + 1 + 1) \in 0..N /\ (at(l + 1 + 1) # 0 => own(at(l + 1 + 1)))
    OBVIOUS
  <2>1. l + 1 \in 1..(L - 1) /\ l + 1 <= L
    BY <1>1
  <2>2. at(l + 1) \in 0..N
    BY <1>5, <2>1
  <2> QED
    BY <1>3, <2>1, <2>2
<1> HIDE DEF P
<1>6. ASSUME NEW k \in 1..L
      PROVE  at(k) \in 0..N /\ (at(k) # 0 => own(at(k)))
  <2>1. k - 1 \in Nat /\ k - 1 + 1 = k /\ k <= L
    BY <1>1
  <2>2. k - 1 \in P
    BY <1>4, <1>5, <2>1, NumbersFromZero
  <2> QED
    BY <2>1, <2>2 DEF P
<1>7. ASSUME NEW k \in 1..(L - 1) PROVE Up(k)
  <2>1. k \in 1..L
    BY <1>1
  <2> QED
    BY <1>3, <1>6, <2>1
<1> QED
  BY <1>6, <1>7 DEF at, Up

\* Later states are reached later.
LEMMA ChainOrdered ==
  ASSUME Told, NEW p \in DOMAIN Patterns, NEW i \in 1..Len(hist),
         NEW k \in 1..Len(Patterns[p]), NEW l \in k..Len(Patterns[p]), RefChain(p, i)[l].pos # 0
  PROVE  RefChain(p, i)[k].pos # 0 /\ RefChain(p, i)[k].pos <= RefChain(p, i)[l].pos
<1> DEFINE L == Len(Patterns[p])
           at(j) == RefChain(p, i)[j].pos
           P == {d \in Nat : k + d <= L /\ at(k + d) # 0 => at(k) # 0 /\ at(k) <= at(k + d)}
<1>1. L \in Nat /\ \A j \in 1..L : at(j) \in Nat
  <2>1. Len(hist) \in Nat /\ L \in Nat
    BY PatternFacts DEF Told, Logged
  <2>2. \A j \in 1..L : at(j) \in 0..Len(hist)
    BY ChainPositions
  <2> HIDE DEF at
  <2> QED
    BY <2>1, <2>2
<1>2. \A j \in 1..(L - 1) : at(j + 1) # 0 => at(j) # 0 /\ at(j) < at(j + 1)
  BY ChainPositions
<1>3. at(l) # 0
  OBVIOUS
<1> HIDE DEF at
<1>4. 0 \in P
  BY <1>1
<1>5. ASSUME NEW d \in Nat, d \in P PROVE d + 1 \in P
  <2> SUFFICES ASSUME k + (d + 1) <= L, at(k + (d + 1)) # 0
               PROVE  at(k) # 0 /\ at(k) <= at(k + (d + 1))
    OBVIOUS
  <2> DEFINE j == k + d
  <2>1. j \in 1..(L - 1) /\ j \in 1..L /\ j + 1 = k + (d + 1) /\ j + 1 \in 1..L /\ k \in 1..L
    BY <1>1
  <2>2. at(j) # 0 /\ at(j) < at(k + (d + 1))
    BY <1>2, <2>1
  <2>3. at(k) # 0 /\ at(k) <= at(j)
    BY <1>1, <1>5, <2>1, <2>2
  <2>4. at(k) \in Nat /\ at(j) \in Nat /\ at(k + (d + 1)) \in Nat
    BY <1>1, <2>1
  <2> QED
    BY <2>2, <2>3, <2>4
<1> HIDE DEF P
<1>6. l - k \in P
  <2>1. l - k \in Nat
    BY <1>1
  <2> QED
    BY <1>4, <1>5, <2>1, NumbersFromZero
<1>7. k + (l - k) = l /\ l <= L
  BY <1>1
<1> QED
  BY <1>3, <1>6, <1>7 DEF P, at

\* Where nothing ends the wait for a positive state, it is never reached.
LEMMA NeverOn ==
  ASSUME Told, NEW p \in DOMAIN Patterns, NEW i \in 1..Len(hist),
         NEW k \in 1..(Len(Patterns[p]) - 1), RefChain(p, i)[k].pos \in 1..Len(hist),
         \A j \in 1..Len(hist) : j \notin Ending(p, i, k + 1, RefChain(p, i)[k])
  PROVE  RefChain(p, i)[k+1].pos = 0
<1>1. Len(hist) \in Nat
  BY DEF Told, Logged
<1>2. \A j \in Ending(p, i, k + 1, RefChain(p, i)[k]) : j \in (RefChain(p, i)[k].pos + 1)..Len(hist)
  BY DEF Ending
<1>3. \A j \in (RefChain(p, i)[k].pos + 1)..Len(hist) : j \in 1..Len(hist)
  BY <1>1
<1> QED
  BY <1>2, <1>3, ChainPositions

-----------------------------------------------------------------------------
(* Exactness: what the properties say, at the end of the log. *)

\* The patterns that were registered since position i, at the end of the log.
LEMMA SinceStart ==
  ASSUME NEW p, NEW i, Since(p, i)
  PROVE  \A j \in i..Len(hist) : p \in hist[j].conf.patterns
  BY DEF Since

\* A set of positions that contains d and nothing before it has its least there.
LEMMA FirstIs ==
  ASSUME NEW S \in SUBSET Nat, NEW d \in S, \A y \in S : ~(y < d)
  PROVE  Min(S) = d
<1>1. Min(S) \in S /\ Min(S) <= d
  BY FirstPosition
<1>2. Min(S) \in Nat /\ d \in Nat /\ ~(Min(S) < d)
  BY <1>1
<1>3. \A x, y \in Nat : x <= y /\ ~(x < y) => x = y
  OBVIOUS
<1> QED
  BY <1>1, <1>2, <1>3

\* A positive pattern with windows fires exactly where the reference completes.
LEMMA PositiveFollows ==
  ASSUME Told, NEW p \in DOMAIN Patterns, ~Negative(p), Windowed(p),
         NEW i \in 1..Len(hist), Follows(p, i, Len(hist)),
         NEW done, done = RefChain(p, i)[Len(Patterns[p])].pos
  PROVE  Fired(p, i) = IF done = 0 THEN {} ELSE {done}
<1> DEFINE L == Len(Patterns[p])
           N == Len(hist)
<1>1. L \in Nat /\ L > 0 /\ N \in Nat /\ L \in 1..L
  BY PatternFacts DEF Told, Logged
<1>2. \A k \in 1..L : ~Patterns[p][k].negative
  BY PatternFacts DEF Negative
<1>3. ASSUME NEW k \in 1..L, RefChain(p, i)[k].pos = 0 PROVE done = 0
  BY <1>1, <1>3, ChainOrdered
<1>4. \A k \in 1..(L - 1) : k \in 1..L /\ k + 1 \in 1..L /\ k + 1 \in 2..L
  BY <1>1
<1>5. CASE \E k \in 1..(L - 1) : InStep(p, i, k, N)
  <2>1. PICK k \in 1..(L - 1) : InStep(p, i, k, N)
    BY <1>5
  <2>2. RefChain(p, i)[k+1].pos = 0
    BY <1>2, <1>4, <2>1, NeverOn DEF InStep, Waits
  <2>3. Fired(p, i) = {}
    BY <2>1, FiredAs DEF InStep
  <2> QED
    BY <1>3, <1>4, <2>2, <2>3
<1>6. CASE Quiet(p, i, N) /\ Lost(p, i, N)
  <2>1. Fired(p, i) = {}
    BY <1>6, FiredAs
  <2>2. CASE \E k \in 1..L : RefChain(p, i)[k].pos = 0
    BY <1>3, <2>1, <2>2
  <2>3. CASE \E j \in 1..N : \E k \in 1..(L - 1) : SweptAt(p, i, k, j)
    <3>1. PICK j \in 1..N, k \in 1..(L - 1) : SweptAt(p, i, k, j)
      BY <2>3
    <3> DEFINE n == j - 1
    <3>2. n \in Nat /\ n < N /\ n + 1 = j
      BY <1>1
    <3>3. /\ RefChain(p, i)[k].pos \in 1..n
          /\ \A l \in 1..n : l \notin Ending(p, i, k + 1, RefChain(p, i)[k])
          /\ Own(hist[i].ev.member, j) /\ OnTime(j)
          /\ hist[j].wm > hist[i].ev.at + MaxDuration(Patterns[p])
      BY <1>2, <1>4, <3>1 DEF SweptAt, Waits, Sweeps
    <3>4. Expired(p, i, k + 1, j)
      <4>1. Patterns[p][k+1].wait # NoWait
        BY <1>4 DEF Windowed
      <4>2. /\ Patterns[p][k+1].wait \in Nat
            /\ Patterns[p][k+1].wait <= MaxDuration(Patterns[p])
            /\ MaxDuration(Patterns[p]) \in Int
        BY <1>4, <4>1, PatternFacts, MaxDurationLongest
      <4>3. hist[j].wm \in Int /\ hist[j].wm <= hist[j].ev.at
        <5>1. j \in j..Len(hist)
          BY <1>1
        <5> QED
          BY <3>3, <5>1, WatermarkGrows
      <4>4. hist[i].ev.at \in Int /\ hist[j].ev.at \in Int
        BY EventsAssumption DEF Told, Logged
      <4> DEFINE d == MaxDuration(Patterns[p])
                 t == Patterns[p][k+1].wait
                 w == hist[j].wm
                 s == hist[i].ev.at
                 a == hist[j].ev.at
      <4>5. /\ d \in Int /\ t \in Int /\ w \in Int /\ s \in Int /\ a \in Int
            /\ w > s + d /\ w <= a /\ t <= d
        BY <3>3, <4>2, <4>3, <4>4
      <4> HIDE DEF d, t, w, s, a
      <4>6. a > s + t
        BY <4>5
      <4> QED
        BY <4>1, <4>6 DEF Expired, a, s, t
    <3> HIDE DEF n
    <3>5. RefChain(p, i)[k+1].pos = 0
      <4>1. Own(hist[i].ev.member, n + 1) /\ OnTime(n + 1) /\ Expired(p, i, k + 1, n + 1)
        BY <3>2, <3>3, <3>4
      <4>2. Waiting(p, i, k, n)
        BY <3>2, <3>3 DEF Waiting
      <4> HIDE DEF N
      <4>3. n < Len(hist) /\ Len(hist) \in Nat
        BY <1>1, <3>2 DEF N
      <4>4. Moves(p, i, k, n + 1)
        BY <3>2, <3>3, <4>1, <4>2, <4>3, ReferenceStep
      <4> QED
        BY <4>1, <4>4 DEF Moves
    <3> QED
      BY <1>3, <1>4, <2>1, <3>5
  <2> QED
    BY <1>6, <2>2, <2>3 DEF Lost
<1>7. CASE Completed(p, i, N)
  <2>1. done \in 1..N /\ FiresAt(p, i, N, done)
    BY <1>7 DEF Completed
  <2>2. Fired(p, i) = {done}
    BY <2>1, FiredAs
  <2> QED
    BY <2>1, <2>2
<1>8. ~ \E d \in 1..N : ElapsedAt(p, i, N, d)
  BY DEF ElapsedAt
<1> QED
  BY <1>5, <1>6, <1>7, <1>8 DEF Follows

\* A negative pattern fires only where it elapsed.
LEMMA NegativeFollows ==
  ASSUME Told, NEW p \in DOMAIN Patterns, Negative(p),
         NEW i \in 1..Len(hist), Follows(p, i, Len(hist)), NEW j \in Fired(p, i)
  PROVE  /\ ParkedAt(p, i) # 0 /\ ParkedAt(p, i) <= j
         /\ Fired(p, i) = {j}
         /\ hist[j].wm > NegDeadline(p, i)
         /\ \A k \in DOMAIN hist : ~Forbidden(p, i, k)
<1> DEFINE N == Len(hist)
           L == Len(Patterns[p])
<1>1. N \in Nat /\ DOMAIN hist = 1..N
  BY DEF Told, Logged
<1>2. ~Quiet(p, i, N)
  BY FiredAs
<1>3. PICK d \in 1..N : ElapsedAt(p, i, N, d)
  BY <1>2 DEF Follows, InStep, Completed
<1>4. Fired(p, i) = {d} /\ j = d
  BY <1>3, FiredAs DEF ElapsedAt
<1>5. ParkedAt(p, i) # 0 /\ ParkedAt(p, i) <= d /\ hist[d].wm > NegDeadline(p, i)
  BY <1>3 DEF ElapsedAt
<1>6. ASSUME NEW k \in 1..N PROVE ~Forbidden(p, i, k)
  <2>1. CASE k <= d
    <3>1. k \in 1..d
      BY <1>1, <2>1
    <3> QED
      BY <1>3, <3>1 DEF ElapsedAt
  <2>2. CASE d < k
    <3>1. k \in d..N
      BY <1>1, <2>2
    <3>2. OnTime(k) => hist[d].wm <= hist[k].ev.at
      BY <2>2, <3>1, WatermarkGrows
    <3>3. hist[d].wm \in Int /\ hist[k].ev.at \in Int /\ NegDeadline(p, i) \in Int
      <4>1. L \in 1..L /\ Patterns[p][L].negative
        BY PatternFacts DEF Negative
      <4>2. Patterns[p][L].wait \in Nat
        BY <4>1, PatternFacts
      <4> QED
        BY <4>2, EventsAssumption DEF Told, Logged, Settled, NegDeadline
    <3> QED
      BY <1>5, <3>2, <3>3 DEF Forbidden
  <2> QED
    BY <1>1, <2>1, <2>2
<1> QED
  BY <1>1, <1>4, <1>5, <1>6

\* The positions past the deadline of the instance of position i, parked there.
PastDeadline(p, i, parked) ==
  {j \in DOMAIN hist : parked <= j /\ hist[j].wm > NegDeadline(p, i)}

\* No event aborts the instance of position i.
NeverAborted(p, i) == \A k \in DOMAIN hist : ~Forbidden(p, i, k)

\* The deadline of an instance that is never aborted is met at the first position
\* past it, unless the sweep takes the instance there.
LEMMA SilentFollows ==
  ASSUME Told, NEW p \in DOMAIN Patterns, Negative(p),
         NEW i \in 1..Len(hist), Follows(p, i, Len(hist)),
         NEW parked, parked = ParkedAt(p, i), parked # 0,
         NEW past, past = PastDeadline(p, i, parked),
         past # {}, NeverAborted(p, i)
  PROVE  Fired(p, i) = IF Sweeps(p, i, Min(past)) THEN {} ELSE {Min(past)}
<1> DEFINE L == Len(Patterns[p])
           N == Len(hist)
           m == hist[i].ev.member
           last == L - 1
           at(k) == RefChain(p, i)[k].pos
<1>1. N \in Nat /\ DOMAIN hist = 1..N /\ \A j \in 1..N : hist[j].wm \in Int
  BY DEF Told, Logged, Settled
<1>2. /\ L \in Nat /\ L \in 1..L /\ Patterns[p][L].negative /\ Patterns[p][L].wait \in Nat
      /\ \A k \in 1..L : Patterns[p][k].negative => k = L
  <2>1. L \in Nat /\ L \in 1..L /\ Patterns[p][L].negative
    BY PatternFacts DEF Negative
  <2>2. \A k \in 1..L : Patterns[p][k].negative => k = L /\ Patterns[p][k].wait \in Nat
    BY PatternFacts
  <2> QED
    BY <2>1, <2>2
<1>3. last \in 1..(L - 1) /\ last + 1 = L /\ last \in 1..L
  <2>1. L # 1
    BY <1>2, PatternFacts
  <2>2. \A l \in Nat : l \in 1..l /\ l # 1
                       => l - 1 \in 1..(l - 1) /\ (l - 1) + 1 = l /\ l - 1 \in 1..l
    OBVIOUS
  <2>3. L \in Nat /\ L \in 1..L
    BY <1>2
  <2> HIDE DEF L
  <2> QED
    BY <2>1, <2>2, <2>3
<1>4. parked = at(last)
  BY DEF ParkedAt
<1>5. /\ \A k \in 1..L : at(k) \in 0..N
      /\ parked \in 1..N /\ Own(m, parked) /\ OnTime(parked)
  <2>1. \A k \in 1..L : at(k) \in 0..N /\ (at(k) # 0 => Own(m, at(k)) /\ OnTime(at(k)))
    BY ChainPositions
  <2> HIDE DEF at, last
  <2> QED
    BY <1>1, <1>3, <1>4, <2>1
<1>6. ASSUME NEW k \in 1..last PROVE at(k) # 0 /\ at(k) <= parked
  <2>1. \A l \in Nat : \A e \in 1..l : \A j \in 1..e : j \in 1..l /\ e \in j..l
    OBVIOUS
  <2>2. L \in Nat /\ last \in 1..L /\ k \in 1..last
    BY <1>2, <1>3, <1>6
  <2>3. k \in 1..L /\ last \in k..L
    <3> HIDE DEF L, last
    <3> QED
      BY <2>1, <2>2
  <2> QED
    BY <1>4, <2>3, ChainOrdered
<1>7. /\ \A j : j \in past <=> j \in 1..N /\ parked <= j /\ hist[j].wm > NegDeadline(p, i)
      /\ past \in SUBSET Nat
  BY <1>1 DEF PastDeadline
<1> HIDE DEF at, last
<1>8. ASSUME NEW d \in past, \A y \in past : ~(y < d) PROVE Min(past) = d
  BY <1>7, <1>8, FirstIs
<1>9. NegDeadline(p, i) \in Int /\ NegDeadline(p, i) <= hist[i].ev.at + MaxDuration(Patterns[p])
      /\ hist[i].ev.at \in Int /\ MaxDuration(Patterns[p]) \in Int
  <2>1. hist[i].ev.at \in Int
    BY EventsAssumption DEF Told, Logged
  <2>2. Patterns[p][L].wait # NoWait => Patterns[p][L].wait <= MaxDuration(Patterns[p])
    BY <1>2, MaxDurationLongest
  <2>3. MaxDuration(Patterns[p]) \in Int
    BY MaxDurationLongest
  <2>4. Patterns[p][L].wait # NoWait
    BY <1>2, PatternsRegistered DEF AddPattern
  <2> DEFINE w == Patterns[p][L].wait
             d == MaxDuration(Patterns[p])
             s == hist[i].ev.at
  <2>5. w \in Int /\ d \in Int /\ s \in Int /\ w <= d
    BY <1>2, <2>1, <2>2, <2>3, <2>4
  <2>6. NegDeadline(p, i) = s + w
    BY DEF NegDeadline
  <2> HIDE DEF w, d, s
  <2>7. s + w \in Int /\ s + w <= s + d
    BY <2>5
  <2> QED
    BY <2>1, <2>3, <2>6, <2>7 DEF d, s
<1>10. ASSUME NEW k \in 1..(L - 1), InStep(p, i, k, N) PROVE FALSE
  <2>1. CASE k = last
    <3>1. \A l \in parked..N : hist[l].wm <= NegDeadline(p, i)
      BY <1>2, <1>3, <1>4, <1>10, <2>1 DEF InStep, InTime, at
    <3>2. PICK j \in past : TRUE
      OBVIOUS
    <3>3. j \in parked..N /\ hist[j].wm > NegDeadline(p, i) /\ hist[j].wm \in Int
      BY <1>1, <1>5, <1>7, <3>2
    <3> QED
      BY <1>9, <3>1, <3>3
  <2>2. CASE k # last
    <3>1. k + 1 \in 1..last /\ k + 1 \in 1..L /\ k + 1 # L
      BY <1>2, <1>3, <2>2
    <3>2. at(k + 1) = 0
      BY <1>2, <1>10, <3>1, NeverOn DEF InStep, Waits, at
    <3> QED
      BY <1>6, <3>1, <3>2
  <2> QED
    BY <2>1, <2>2
<1>11. ASSUME NEW j \in 1..N, NEW k \in 1..(L - 1), SweptAt(p, i, k, j)
       PROVE  Sweeps(p, i, Min(past))
  <2>1. /\ Sweeps(p, i, j) /\ hist[j].wm > hist[i].ev.at + MaxDuration(Patterns[p])
        /\ at(k) \in 1..(j - 1) /\ InTime(p, i, k, j - 1) /\ Waits(p, i, k, j - 1)
    BY <1>11 DEF SweptAt, Sweeps, Waits, at
  <2>2. hist[j].wm \in Int /\ hist[j].wm > NegDeadline(p, i)
    <3> DEFINE w == hist[j].wm
               e == hist[i].ev.at + MaxDuration(Patterns[p])
               t == NegDeadline(p, i)
    <3>1. w \in Int /\ e \in Int /\ t \in Int /\ w > e /\ t <= e
      BY <1>1, <1>9, <2>1
    <3> HIDE DEF w, e, t
    <3>2. w > t
      BY <3>1
    <3> QED
      BY <3>1, <3>2 DEF w, t
  <2>3. CASE k = last
    <3>1. parked <= j
      BY <1>4, <1>5, <2>1, <2>3
    <3>2. j \in past
      BY <1>7, <2>2, <3>1
    <3>3. \A l \in parked..(j - 1) : hist[l].wm <= NegDeadline(p, i)
      BY <1>2, <1>3, <1>4, <2>1, <2>3 DEF InTime, at
    <3>4. ASSUME NEW y \in past, y < j PROVE FALSE
      <4>1. y \in parked..(j - 1) /\ hist[y].wm > NegDeadline(p, i) /\ hist[y].wm \in Int
        BY <1>1, <1>5, <1>7, <3>4
      <4> QED
        BY <1>9, <3>3, <4>1
    <3> QED
      BY <1>8, <2>1, <3>2, <3>4
  <2>4. CASE k # last
    <3>1. k + 1 \in 1..last /\ k + 1 \in 1..L /\ k + 1 # L
      BY <1>2, <1>3, <2>4
    <3>2. at(k + 1) # 0 /\ at(k + 1) <= parked /\ at(k + 1) \in 0..N
      BY <1>5, <1>6, <3>1
    <3>3. at(k + 1) \notin 1..(j - 1)
      <4>1. at(k + 1) \in Ending(p, i, k + 1, RefChain(p, i)[k])
        BY <3>2, ChainPositions DEF at
      <4> QED
        BY <1>2, <2>1, <3>1, <4>1 DEF Waits
    <3>4. j <= parked /\ parked \in j..N
      BY <1>1, <1>5, <3>2, <3>3
    <3>5. hist[parked].wm \in Int /\ hist[j].wm <= hist[parked].wm
      BY <3>4, WatermarkGrows
    <3>6. parked \in past
      <4>1. hist[parked].wm > NegDeadline(p, i)
        BY <1>9, <2>2, <3>5
      <4> QED
        BY <1>5, <1>7, <4>1
    <3>7. Min(past) = parked
      BY <1>5, <1>7, <1>8, <3>6
    <3>8. Sweeps(p, i, parked)
      <4>1. hist[parked].wm > hist[i].ev.at + MaxDuration(Patterns[p])
        <5>1. hist[j].wm \in Int /\ hist[i].ev.at + MaxDuration(Patterns[p]) \in Int
          BY <1>9, <2>2
        <5>2. \A x, y, e \in Int : x <= y /\ x > e => y > e
          OBVIOUS
        <5> QED
          BY <2>1, <3>5, <5>1, <5>2
      <4> QED
        BY <1>5, <2>1, <4>1 DEF Sweeps
    <3> QED
      BY <3>7, <3>8
  <2> QED
    BY <2>3, <2>4
<1>12. ASSUME Lost(p, i, N) PROVE Sweeps(p, i, Min(past))
  <2>1. ASSUME NEW k \in 1..L, ~Patterns[p][k].negative PROVE at(k) # 0
    <3>1. k \in 1..last
      BY <1>2, <1>3, <2>1
    <3> QED
      BY <1>6, <3>1
  <2> QED
    BY <1>1, <1>11, <1>12, <2>1 DEF Lost, at, NeverAborted
<1>13. ~Completed(p, i, N)
  BY DEF Completed
<1>14. CASE Quiet(p, i, N) /\ Lost(p, i, N)
  <2>1. Fired(p, i) = {}
    BY <1>14, FiredAs
  <2> QED
    BY <1>12, <1>14, <2>1
<1>15. CASE \E d \in 1..N : ElapsedAt(p, i, N, d)
  <2>1. PICK d \in 1..N : ElapsedAt(p, i, N, d)
    BY <1>15
  <2>2. /\ Fired(p, i) = {d} /\ parked <= d /\ hist[d].wm > NegDeadline(p, i)
        /\ \A l \in parked..(d - 1) : hist[l].wm <= NegDeadline(p, i)
        /\ ~Sweeps(p, i, d)
    BY <2>1, FiredAs DEF ElapsedAt
  <2>3. d \in past
    BY <1>7, <2>2
  <2>4. ASSUME NEW y \in past, y < d PROVE FALSE
    <3>1. y \in parked..(d - 1) /\ hist[y].wm > NegDeadline(p, i) /\ hist[y].wm \in Int
      BY <1>1, <1>5, <1>7, <2>4
    <3> QED
      BY <1>9, <2>2, <3>1
  <2>5. Min(past) = d
    BY <1>8, <2>3, <2>4
  <2> QED
    BY <2>2, <2>5
<1> QED
  BY <1>10, <1>13, <1>14, <1>15 DEF Follows

-----------------------------------------------------------------------------
(* The theorems. *)

\* advanceProgress (an event that was served already is kept out) and processCEP
\* (a start event opens nothing while its progress is in flight): however often
\* and wherever events are delivered again, no event serves two states of one
\* instance and a start event matches at most once per delivery.
THEOREM AlwaysRedeliverySafe == Spec => []RedeliverySafe
<1> DEFINE LogServed == Served(hist)
<1>1. Init => LogServed
  BY InitServed
<1>2. IInv /\ LogServed /\ [Next]_vars => LogServed'
  BY NextServed
<1>3. IInv /\ LogServed => RedeliverySafe
  <2> SUFFICES ASSUME IInv, LogServed PROVE RedeliverySafe
    OBVIOUS
  <2>1. Len(hist) \in Nat /\ DOMAIN hist = 1..Len(hist)
    BY DEF IInv, Positions
  <2> QED
    BY <2>1, ServedSafe
<1> HIDE DEF LogServed
<1> QED
  BY <1>1, <1>2, <1>3, Invariant, PTL DEF Spec


\* Without redelivery the log is told in every state.
LEMMA AlwaysTold ==
  ASSUME ~Redelivery
  PROVE  Spec => []Told
<1> DEFINE S == Served(hist)
           L == Logged(hist)
           O == EachOnce(hist)
<1>1. Init => S
  BY InitServed
<1>2. IInv /\ S /\ [Next]_vars => S'
  BY NextServed
<1>3. L /\ S /\ O => Told
  BY DEF Told
<1>4. Spec => []L
  BY AlwaysLogged
<1>5. Spec => []O
  BY OncePerEvent
<1> HIDE DEF S, L, O
<1> QED
  BY <1>1, <1>2, <1>3, <1>4, <1>5, Invariant, PTL DEF Spec

\* Every instance of a pattern registered since its start follows the reference.
LEMMA ToldFollows ==
  ASSUME Told, NEW p \in DOMAIN Patterns, NEW i \in {k \in DOMAIN hist : Since(p, k)}
  PROVE  i \in 1..Len(hist) /\ Follows(p, i, Len(hist))
<1>1. i \in 1..Len(hist) /\ Since(p, i)
  BY DEF Told, Logged
<1> QED
  BY <1>1, SinceStart, FollowsToTheEnd

\* advanceProgress, processCEP and sweepExpiredProgresses: a positive pattern with
\* windows matches exactly when and where its states are satisfied one after the
\* other, with any number of states, patterns, restarts and changes of patterns;
\* the sweep that bounds memory never costs a match.
THEOREM AlwaysPositiveExact ==
  ASSUME ~Redelivery
  PROVE  Spec => []PositiveExact
<1>1. Told => PositiveExact
  <2> SUFFICES ASSUME Told, NEW p \in DOMAIN Patterns, ~Negative(p), Windowed(p),
                      NEW i \in {k \in DOMAIN hist : Since(p, k)}
               PROVE  LET done == RefChain(p, i)[Len(Patterns[p])].pos
                      IN Fired(p, i) = IF done = 0 THEN {} ELSE {done}
    BY DEF PositiveExact
  <2> QED
    BY ToldFollows, PositiveFollows
<1> QED
  BY <1>1, AlwaysTold, PTL

\* drainNegativeMatches and advanceProgress: a negative match is emitted once, for
\* an instance that parked, after its deadline, and no forbidden event of the
\* window is accepted as on time before it or after it.
THEOREM AlwaysNegativeSound ==
  ASSUME ~Redelivery
  PROVE  Spec => []NegativeSound
<1>1. Told => NegativeSound
  <2> SUFFICES ASSUME Told, NEW p \in DOMAIN Patterns, Negative(p),
                      NEW i \in {k \in DOMAIN hist : Since(p, k)}, NEW j \in Fired(p, i)
               PROVE  /\ ParkedAt(p, i) # 0 /\ ParkedAt(p, i) <= j
                      /\ Fired(p, i) = {j}
                      /\ hist[j].wm > NegDeadline(p, i)
                      /\ \A k \in DOMAIN hist : ~Forbidden(p, i, k)
    BY DEF NegativeSound
  <2> QED
    BY ToldFollows, NegativeFollows
<1> QED
  BY <1>1, AlwaysTold, PTL

\* drainNegativeMatches over every member of the shard: the deadline of an instance
\* that is never aborted is met at the first position whose watermark is past it,
\* by whomever the event there is, and missed exactly when sweepExpiredProgresses
\* takes the instance at that very position.
THEOREM AlwaysSilentMemberFires ==
  ASSUME ~Redelivery
  PROVE  Spec => []SilentMemberFires
<1>1. Told => SilentMemberFires
  <2> SUFFICES ASSUME Told, NEW p \in DOMAIN Patterns, Negative(p),
                      NEW i \in {k \in DOMAIN hist : Since(p, k)},
                      NEW parked, parked = ParkedAt(p, i), parked # 0,
                      NEW past,
                      past = {j \in DOMAIN hist : parked <= j /\ hist[j].wm > NegDeadline(p, i)},
                      past # {},
                      \A k \in DOMAIN hist : ~Forbidden(p, i, k)
               PROVE  Fired(p, i) = IF Sweeps(p, i, Min(past)) THEN {} ELSE {Min(past)}
    BY DEF SilentMemberFires
  <2>1. i \in 1..Len(hist) /\ Follows(p, i, Len(hist))
    BY ToldFollows
  <2>2. past = PastDeadline(p, i, parked) /\ NeverAborted(p, i)
    BY DEF PastDeadline, NeverAborted
  <2> QED
    BY <2>1, <2>2, SilentFollows
<1> QED
  BY <1>1, AlwaysTold, PTL
=============================================================================
