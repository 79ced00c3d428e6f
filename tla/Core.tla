-------------------------------- MODULE Core --------------------------------
(***************************************************************************)
(* One shard's engine (core.go, eval.go, watermark.go): ProcessEvent folds *)
(* an event into the member's buckets and, when the event is not behind    *)
(* the watermark, advances the watermark, evaluates the rules, advances    *)
(* the member's pattern progresses and fires the negative deadlines the    *)
(* watermark has passed, for every member of the shard.                    *)
(*                                                                         *)
(* Events reach the core in any order of event time, which is what the     *)
(* allowed lateness is for, and possibly more than once.  A restart        *)
(* restores members and watermark as they were at an earlier position,     *)
(* rebuilds the heap, and the events after that position are processed     *)
(* again.  A new process may also be given other rules and patterns.       *)
(*                                                                         *)
(* hist is the log as the core has seen it, with what came out of every    *)
(* event and the state after it.  The properties are stated against it.    *)
(***************************************************************************)
EXTENDS Aggregation, SequencesExt

CONSTANTS Member, Behavior,
          Events,      \* [id, member, behavior, val, at]: what may be delivered
          Patterns,    \* [pattern id -> sequence of states]
          Rules,       \* [id, behavior, agg, window, min]: "agg over window >= min"
          Configs,     \* [rules, patterns]: what is active when a process starts
          NoWait, NoTime, \* see Cep
          Lateness,    \* allowedLateness
          DefaultMaxWindow,
          Redelivery,  \* may an event be delivered again?
          MaxEvents    \* bound: deliveries in one behavior

INSTANCE Cep

ASSUME LatenessAssumption == Lateness \in Nat
ASSUME PatternsRegistered == \A p \in DOMAIN Patterns : AddPattern(Patterns[p])
ASSUME PatternsAssumption ==
  \A p \in DOMAIN Patterns :
    Patterns[p] \in Seq([behavior : Behavior, joins : BOOLEAN, binds : BOOLEAN,
                        wait : Nat \cup {NoWait}, negative : BOOLEAN])
ASSUME EventsAssumption ==
  \A ev \in Events : /\ ev.member \in Member /\ ev.behavior \in Behavior
                     /\ ev.at \in Int /\ ev.val \in Int \cup {NoNum}
\* The Event Identity Contract of behavior/model/entity.go: an id stays with its
\* event (its producer makes a fresh id and publishes once).
ASSUME IdentityAssumption == \A e, f \in Events : e.id = f.id => e = f
ASSUME RulesAssumption ==
  /\ IsFiniteSet(Rules)
  /\ \A r \in Rules : /\ r.behavior \in Behavior
                     /\ r.agg \in Aggregations
                     /\ r.window \in Int \cup {NoWindow}
ASSUME ConfigsAssumption ==
  \A c \in Configs : c.rules \subseteq Rules /\ c.patterns \subseteq DOMAIN Patterns
ASSUME WindowAssumption == DefaultMaxWindow \in Nat /\ {NoWindow, NoNum} \cap Int = {}
ASSUME NoTimeAssumption == NoTime \notin Int

VARIABLES conf,         \* the rules and patterns this process was started with
          members,      \* [Member -> [aggs, progresses, lastSeen]]
          negDeadlines, \* the heap, as the set of its entries
          watermark,
          replaying,    \* Core.replaying
          pos,          \* position of the last event processed
          sink,         \* positions of the events handed to the late sink
          hist,         \* the events so far, their outcomes, the state after each
          base          \* position at which conf took effect

vars == <<conf, members, negDeadlines, watermark, replaying, pos, sink, hist, base>>

\* MaxWindowFromKeys over a set of rules, with NewCore's default.
MaxWindowOf(rules) ==
  LET longest == Max({0} \cup ({r.window : r \in rules} \ {NoWindow}))
  IN IF longest = 0 THEN DefaultMaxWindow ELSE longest

MaxWindow == MaxWindowOf(conf.rules)

\* The patterns added to this core.
Registered == [p \in conf.patterns |-> Patterns[p]]

NewMemberState == [aggs |-> [b \in Behavior |-> NoBuckets],
                   progresses |-> NoProgresses,
                   lastSeen |-> 0]

LaterOf(a, b) == IF b > a THEN b ELSE a
IsLate(t) == t < watermark

\* The bug of a watermark that follows the newest event, forgetting lateness.
AdvanceWatermark_Bug(t) == t - Lateness

AdvanceWatermark(t) == LaterOf(watermark, t - Lateness)

ProgsOf(ms) == [m \in Member |-> ms[m].progresses]

\* updateAggregations and LastSeenAt: applied to every event, late or not.
Applied(ev) ==
  [members EXCEPT
     ![ev.member].aggs[ev.behavior] = UpdateAggregations(@, ev.id, ev.at, ev.val, MaxWindow),
     ![ev.member].lastSeen = LaterOf(@, ev.at)]

\* evaluateRules on the member's buckets after the event was applied.
EvaluateRules(ms, ev) ==
  {r \in conf.rules : ComputeBucketAggregation(ms.aggs[r.behavior], r.agg, r.window, ev.at) >= r.min}

\* During replay the next event is the one of the log; then a new one.
Deliverable(ev) ==
  IF pos < Len(hist) THEN ev = hist[pos + 1].ev
  ELSE /\ Len(hist) < MaxEvents
       /\ Redelivery \/ \A i \in DOMAIN hist : hist[i].ev.id # ev.id

\* What is known of position pos + 1 once the event there has been processed.
Record(ev, late, rules, matches) ==
  LET entry == [ev |-> ev, late |-> late, wm |-> watermark', rules |-> rules,
                matches |-> matches, members |-> members', conf |-> conf]
  IN /\ hist' = IF pos = Len(hist) THEN Append(hist, entry)
                ELSE [hist EXCEPT ![pos + 1] = entry]
     /\ pos' = pos + 1

-----------------------------------------------------------------------------
Fresh == [m \in Member |-> NewMemberState]

Init ==
  /\ conf \in Configs
  /\ members = Fresh
  /\ negDeadlines = {}
  /\ watermark = 0
  /\ replaying = FALSE
  /\ pos = 0
  /\ sink = <<>>
  /\ hist = <<>>
  /\ base = 0

\* ProcessEvent on an event behind the watermark.
ProcessLate(ev) ==
  /\ Deliverable(ev)
  /\ IsLate(ev.at)
  /\ members' = Applied(ev)
  /\ sink' = IF replaying THEN sink ELSE Append(sink, pos + 1)
  /\ UNCHANGED <<conf, negDeadlines, watermark, replaying, base>>
  /\ Record(ev, TRUE, {}, {})

\* ProcessEvent on an event that is on time.
ProcessOnTime(ev) ==
  /\ Deliverable(ev)
  /\ ~IsLate(ev.at)
  /\ LET wm == AdvanceWatermark(ev.at)
         applied == Applied(ev)
         rules == EvaluateRules(applied[ev.member], ev)
         cep == ProcessCEP(Registered, applied[ev.member].progresses, ev, wm)
         progs == [ProgsOf(applied) EXCEPT ![ev.member] = cep.progresses]
         heap == negDeadlines \cup cep.pushes
         drained == DrainProgresses(progs, heap, wm)
     IN /\ watermark' = wm
        /\ members' = [m \in Member |-> [applied[m] EXCEPT !.progresses = drained[m]]]
        /\ negDeadlines' = heap \ Due(heap, wm)
        /\ Record(ev, FALSE, rules,
                  cep.matches \cup DrainMatches(Registered, progs, heap, wm))
  /\ UNCHANGED <<conf, replaying, sink, base>>

ProcessEvent(ev) == ProcessLate(ev) \/ ProcessOnTime(ev)

\* The bug of a watermark that is not part of the snapshot.
Restore_Bug(i) ==
  /\ pos' = i
  /\ members' = IF i = 0 THEN Fresh ELSE hist[i].members
  /\ watermark' = 0
  /\ negDeadlines' = RebuildNegativeDeadlines(ProgsOf(members'))

\* Restore of a snapshot taken at position i: its members and watermark, the
\* heap rebuilt.
Restore(i) ==
  /\ pos' = i
  /\ members' = IF i = 0 THEN Fresh ELSE hist[i].members
  /\ watermark' = IF i = 0 THEN 0 ELSE hist[i].wm
  /\ negDeadlines' = RebuildNegativeDeadlines(ProgsOf(members'))

\* The process dies and another one starts from the file, which may lie
\* anywhere behind; the consumer begins replay.
Restart ==
  /\ \E i \in base..Len(hist) : Restore(i)
  /\ replaying' = TRUE
  /\ UNCHANGED <<conf, sink, hist, base>>

\* An orderly stop, whose final snapshot is at the end, and a start with other
\* rules or patterns (bound: once).
Reconfigure ==
  /\ base = 0
  /\ 0 < pos /\ pos = Len(hist)
  /\ \E c \in Configs \ {conf} : conf' = c
  /\ Restore(pos)
  /\ base' = pos
  /\ replaying' = TRUE
  /\ UNCHANGED <<sink, hist>>

\* The bug of ending replay before the log has been read again to its end.
EndReplay_Bug ==
  /\ replaying
  /\ replaying' = FALSE
  /\ UNCHANGED <<conf, members, negDeadlines, watermark, pos, sink, hist, base>>

\* The consumer has passed its replay target.
EndReplay ==
  /\ replaying
  /\ pos = Len(hist)
  /\ replaying' = FALSE
  /\ UNCHANGED <<conf, members, negDeadlines, watermark, pos, sink, hist, base>>

Next ==
  \/ \E ev \in Events : ProcessEvent(ev)
  \/ Restart
  \/ Reconfigure
  \/ EndReplay

Spec == Init /\ [][Next]_vars

-----------------------------------------------------------------------------
(* Reference definitions, over the history only. *)

\* Pattern p has been registered ever since position i.
Since(p, i) == p \in conf.patterns /\ \A j \in i..Len(hist) : p \in hist[j].conf.patterns

\* The shortest retention any process has pruned with.
Kept == Min({MaxWindow} \cup {MaxWindowOf(hist[i].conf.rules) : i \in DOMAIN hist})

OnTime(i) == ~hist[i].late
Own(m, i) == hist[i].ev.member = m

\* The distinct events of member m and behavior b delivered so far whose bucket
\* lies in the window that ends at `now`.
InWindow(m, b, window, now) ==
  {hist[i].ev : i \in {j \in DOMAIN hist :
     /\ hist[j].ev.member = m
     /\ hist[j].ev.behavior = b
     /\ AlignBucket(hist[j].ev.at) <= AlignBucket(now)
     /\ window # NoWindow => AlignBucket(hist[j].ev.at) >= AlignBucket(now - window)}}

\* The aggregate recomputed from the events themselves.
Reference(evs, agg) ==
  LET nums == {e \in evs : e.val # NoNum}
      sum == MapThenSumSet(LAMBDA e : e.val, nums)
      vals == {e.val : e \in nums}
  IN CASE agg = "COUNT" -> Cardinality(evs)
       [] agg = "SUM" -> sum
       [] agg = "AVG" -> IF evs = {} THEN <<0, 1>> ELSE <<sum, Cardinality(evs)>>
       [] agg = "MAX" -> IF vals = {} THEN 0 ELSE Max(vals)
       [] agg = "MIN" -> IF vals = {} THEN 0 ELSE Min(vals)

\* Event j lies past the window of the k-th state of pattern p, for an instance
\* started by event i.
Expired(p, i, k, j) ==
  Patterns[p][k].wait # NoWait /\ hist[j].ev.at > hist[i].ev.at + Patterns[p][k].wait

\* The on-time events of the member that end the wait for state k of an instance
\* whose state before it is prev: they satisfy it or lie past its window.
Ending(p, i, k, prev) ==
  {j \in (prev.pos + 1)..Len(hist) :
     /\ Own(hist[i].ev.member, j)
     /\ OnTime(j)
     /\ Expired(p, i, k, j) \/ CepMatchState(hist[j].ev, Patterns[p][k], prev.vars)}

NeverReached == [pos |-> 0, vars |-> NoNum]

RefFirst(p, i) ==
  IF OnTime(i) /\ CepMatchState(hist[i].ev, Patterns[p][1], NoNum)
  THEN [pos |-> i, vars |-> Bind(hist[i].ev, Patterns[p][1], NoNum)]
  ELSE NeverReached

RefNext(p, i, k, prev) ==
  LET ending == Ending(p, i, k, prev)
  IN IF prev.pos = 0 \/ ending = {} \/ Expired(p, i, k, Min(ending))
     THEN NeverReached
     ELSE [pos |-> Min(ending),
           vars |-> Bind(hist[Min(ending)].ev, Patterns[p][k], prev.vars)]

\* The positions at which an instance of pattern p started by event i reaches
\* its k-th state, with the variable bound so far: 0 when it never does.
RefChain(p, i) ==
  LET f[k \in 1..Len(Patterns[p])] ==
        IF k = 1 THEN RefFirst(p, i) ELSE RefNext(p, i, k, f[k-1])
  IN f

Negative(p) == Patterns[p][Len(Patterns[p])].negative

\* Every state of p after the first has a window.
Windowed(p) == \A k \in 2..Len(Patterns[p]) : Patterns[p][k].wait # NoWait

\* The position at which an instance of a negative pattern parks, 0 if never.
ParkedAt(p, i) == RefChain(p, i)[Len(Patterns[p]) - 1].pos
NegDeadline(p, i) == hist[i].ev.at + Patterns[p][Len(Patterns[p])].wait

\* An on-time event of the member, processed after the instance parked, that
\* satisfies the forbidden condition inside the window.
Forbidden(p, i, j) ==
  LET n == Len(Patterns[p])
      parked == RefChain(p, i)[n - 1]
  IN
  /\ parked.pos # 0
  /\ parked.pos < j
  /\ Own(hist[i].ev.member, j)
  /\ OnTime(j)
  /\ hist[j].ev.at <= NegDeadline(p, i)
  /\ CepMatchState(hist[j].ev, Patterns[p][n], parked.vars)

\* The event at j makes the sweep take an instance of p started by event i.
Sweeps(p, i, j) ==
  LET longest == MaxDuration(Patterns[p])
  IN /\ Own(hist[i].ev.member, j)
     /\ OnTime(j)
     /\ longest > 0
     /\ hist[j].wm > hist[i].ev.at + longest

Fired(p, i) == {j \in DOMAIN hist : \E mt \in hist[j].matches :
                  mt.pattern = p /\ mt.start = hist[i].ev.id}

-----------------------------------------------------------------------------
(* Properties. *)

\* The whole log has been processed.
AtEnd == hist # <<>> /\ pos = Len(hist)

\* A rule that looks back at most Kept - Lateness sees, on every on-time
\* event, exactly the events delivered so far whose bucket is in its window,
\* each counted once: neither pruning, nor redelivery, nor arrival out of order,
\* nor late events, nor a restart with other rules make a decision wrong
\* (core.go: "state stays complete").
RulesExact ==
  AtEnd /\ ~Last(hist).late =>
    LET h == Last(hist) IN
    \A r \in h.conf.rules :
      r.window # NoWindow /\ r.window + Lateness <= Kept =>
        (r \in h.rules <=> Reference(InWindow(h.ev.member, r.behavior, r.window, h.ev.at), r.agg) >= r.min)

\* The same for the aggregates themselves, for every kind of aggregate.
AggregatesExact ==
  AtEnd /\ ~Last(hist).late =>
    LET h == Last(hist) IN
    \A b \in Behavior, w \in 0..(Kept - Lateness),
       agg \in Aggregations :
      ComputeBucketAggregation(members[h.ev.member].aggs[b], agg, w, h.ev.at)
        = Reference(InWindow(h.ev.member, b, w, h.ev.at), agg)

\* Every progress parked on a negative state has its entry in the heap, also
\* after the heap was rebuilt by a restart: no deadline is ever forgotten.
ParkedIsQueued ==
  RebuildNegativeDeadlines(ProgsOf(members)) \subseteq negDeadlines

\* Once an event has been processed nobody is parked past the watermark, and
\* nothing due is left in the heap: the drain reached the deadlines of every
\* member, not only the event's, also right after a restart.
NobodyOverdue ==
  /\ \A e \in negDeadlines : e.deadline >= watermark
  /\ \A m \in Member : \A id \in DOMAIN members[m].progresses :
       members[m].progresses[id].negDeadline # NoTime =>
         members[m].progresses[id].negDeadline >= watermark

\* A positive pattern whose states have windows matches exactly when, and
\* where, the reference instance completes; the sweep that bounds memory never
\* costs a match, and neither a restart nor the arrival or removal of other
\* patterns loses or repeats one.
PositiveExact ==
  AtEnd => \A p \in DOMAIN Patterns :
    ~Negative(p) /\ Windowed(p) =>
      \A i \in {k \in DOMAIN hist : Since(p, k)} :
        LET done == RefChain(p, i)[Len(Patterns[p])].pos
        IN Fired(p, i) = IF done = 0 THEN {} ELSE {done}

\* A negative match is emitted for an instance that really parked, at most
\* once, after the watermark passed its deadline, and no forbidden event of the
\* window is ever accepted as on time, neither before the match nor after it.
NegativeSound ==
  AtEnd => \A p \in DOMAIN Patterns :
    Negative(p) =>
      \A i \in {k \in DOMAIN hist : Since(p, k)} : \A j \in Fired(p, i) :
        /\ ParkedAt(p, i) # 0 /\ ParkedAt(p, i) <= j
        /\ Fired(p, i) = {j}
        /\ hist[j].wm > NegDeadline(p, i)
        /\ \A k \in DOMAIN hist : ~Forbidden(p, i, k)

\* core.go: "a member who's gone silent still gets their negative match emitted
\* as soon as time advances on the shard".  A parked instance that nothing aborts
\* matches at the first position past its deadline, and only there, save when the
\* event there is the member's own and takes the watermark past the longest
\* window of the pattern as well: the sweep runs before the drain.
SilentMemberFires ==
  AtEnd => \A p \in DOMAIN Patterns :
    Negative(p) =>
      \A i \in {k \in DOMAIN hist : Since(p, k)} :
        LET parked == ParkedAt(p, i)
            past == {j \in DOMAIN hist : parked <= j /\ hist[j].wm > NegDeadline(p, i)}
        IN (/\ parked # 0
            /\ past # {}
            /\ \A k \in DOMAIN hist : ~Forbidden(p, i, k)) =>
              Fired(p, i) = IF Sweeps(p, i, Min(past)) THEN {} ELSE {Min(past)}

\* core.go: "state is rebuilt"; cep.go: "reproducible on replay (same inputs ->
\* same IDs -> same state)".  Wherever a process resumes, processing an event
\* again gives the decisions, the matches, the watermark and the member states
\* it gave the first time.
ReplayExact == [][\A i \in DOMAIN hist : hist'[i] = hist[i]]_vars

\* core.go: "the side output already happened originally".  However often a
\* late event is processed again, it reaches the late sink at most once.
SideOutputOnce == \A i, j \in DOMAIN sink : i < j => sink[i] < sink[j]

\* A pattern that was removed never matches again, although a snapshot still
\* holds its progresses and deadlines.
OnlyRegisteredMatch ==
  \A i \in DOMAIN hist : \A mt \in hist[i].matches : mt.pattern \in hist[i].conf.patterns

\* Events delivered again: an event never serves two states of one instance, so
\* a match rests on as many on-time events of its member as its pattern has
\* positive states, and a start event yields at most one match per delivery.
RedeliverySafe ==
  \A p \in DOMAIN Patterns : \A i \in DOMAIN hist :
    LET given == {j \in DOMAIN hist : OnTime(j) /\ hist[j].ev.id = hist[i].ev.id}
        steps == {k \in 1..Len(Patterns[p]) : ~Patterns[p][k].negative}
    IN /\ Cardinality(Fired(p, i)) <= Cardinality(given)
       /\ \A j \in Fired(p, i) :
            Cardinality({hist[k].ev.id : k \in {l \in Min(given)..j :
                           OnTime(l) /\ Own(hist[i].ev.member, l)}}) >= Cardinality(steps)

\* cep/model/entity.go, IsNegative: "if any event matching Condition occurs
\* within MaxWait, abort the progress; otherwise emit a match when the deadline
\* passes".
NegativeComplete ==
  \A p \in DOMAIN Patterns :
    Negative(p) =>
      \A i \in DOMAIN hist :
        (/\ ParkedAt(p, i) # 0
         /\ AtEnd
         /\ watermark > NegDeadline(p, i)
         /\ \A k \in DOMAIN hist : ~Forbidden(p, i, k)) => Fired(p, i) # {}
=============================================================================
