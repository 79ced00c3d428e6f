-------------------------------- MODULE Cep --------------------------------
(***************************************************************************)
(* Sequence detection over one member's in-flight progresses (cep.go) and  *)
(* the heap of negative deadlines (negative_queue.go), as functions from   *)
(* the old state to the new one.                                           *)
(*                                                                         *)
(* A pattern is a sequence of states                                       *)
(*   [behavior, joins, binds, wait, negative]                              *)
(* whose condition is "behavior is this one and, if joins, the event's     *)
(* value equals the variable bound so far"; binds is a context binding of  *)
(* the event's value.  A progress is identified by                         *)
(* <<pattern, member, start event>>, and the heap is the set of its        *)
(* entries: equal entries are interchangeable and all but one are stale.   *)
(***************************************************************************)
EXTENDS Integers, Sequences, FiniteSets, FiniteSetsExt

CONSTANTS NoNum,   \* the event has no such value; a variable not bound
          NoWait,  \* a state without MaxWait
          NoTime   \* the zero NegativeDeadline

NoProgresses == [id \in {} |-> 0]

\* AddPattern: at least one state, a positive first one, negative states only
\* at the end and with a window.
AddPattern(states) ==
  /\ Len(states) > 0
  /\ ~states[1].negative
  /\ \A i \in 1..Len(states) :
       states[i].negative => i = Len(states) /\ states[i].wait # NoWait

\* maxDuration: the largest MaxWait, 0 when no state has one.
MaxDuration(states) ==
  Max({0} \cup {states[i].wait : i \in {j \in 1..Len(states) : states[j].wait # NoWait}})

ProgressID(pattern, ev) == <<pattern, ev.member, ev.id>>

\* cepMatchState: the reference to an unbound variable stays its own text, which
\* no value equals, and a field the event lacks equals nothing bound.
CepMatchState(ev, st, vars) ==
  /\ ev.behavior = st.behavior
  /\ st.joins => vars # NoNum /\ ev.val = vars

\* extractBindings merged over what is bound already.
Bind(ev, st, vars) == IF st.binds /\ ev.val # NoNum THEN ev.val ELSE vars

Entry(deadline, id) == [deadline |-> deadline, member |-> id[2], id |-> id]

MatchResult(id, vars, at) ==
  [pattern |-> id[1], member |-> id[2], start |-> id[3], vars |-> vars, at |-> at]

\* The deadline a progress started at `started` is parked with when it steps
\* to states[step + 1], NoTime when that state is positive.
ParkDeadline(states, step, started) ==
  IF states[step + 1].negative THEN started + states[step + 1].wait ELSE NoTime

Pushed(deadline, id) == IF deadline = NoTime THEN {} ELSE {Entry(deadline, id)}

\* What advanceProgress may answer: drop, keep p as it is, or move it.
Drop == [keep |-> FALSE, matches |-> {}, pushes |-> {}, p |-> <<>>]
Keep(p) == [keep |-> TRUE, matches |-> {}, pushes |-> {}, p |-> p]

\* The bug of moving to a negative state without registering its deadline.
StepForward_Bug(states, ev, id, p, st) ==
  [keep |-> p.step + 1 < Len(states),
   matches |-> IF p.step + 1 < Len(states)
               THEN {} ELSE {MatchResult(id, Bind(ev, st, p.vars), ev.at)},
   pushes |-> {},
   p |-> [p EXCEPT !.step = @ + 1,
                   !.vars = Bind(ev, st, @),
                   !.seen = @ \cup {ev.id},
                   !.negDeadline = IF p.step + 1 < Len(states)
                                   THEN ParkDeadline(states, p.step + 1, p.started)
                                   ELSE @]]

\* advanceProgress when the event satisfies the positive state st.
StepForward(states, ev, id, p, st) ==
  LET vars == Bind(ev, st, p.vars)
      step == p.step + 1
      deadline == ParkDeadline(states, step, p.started)
  IN IF step = Len(states)
     THEN [Drop EXCEPT !.matches = {MatchResult(id, vars, ev.at)}]
     ELSE [keep |-> TRUE,
           matches |-> {},
           pushes |-> Pushed(deadline, id),
           p |-> [p EXCEPT !.step = step,
                           !.vars = vars,
                           !.seen = @ \cup {ev.id},
                           !.negDeadline = IF deadline = NoTime THEN @ ELSE deadline]]

\* The bug of letting an event that was delivered again advance its instance.
AdvanceProgress_Bug(patterns, ev, id, p) ==
  LET states == patterns[p.pattern]
      st == states[p.step + 1]
      matched == CepMatchState(ev, st, p.vars)
  IN IF st.negative
     THEN IF ev.at <= p.negDeadline /\ matched THEN Drop ELSE Keep(p)
     ELSE IF st.wait # NoWait /\ ev.at > p.started + st.wait THEN Drop
     ELSE IF matched THEN StepForward(states, ev, id, p, st)
     ELSE Keep(p)

\* advanceProgress.  patterns is the set registered in this process.
AdvanceProgress(patterns, ev, id, p) ==
  IF \/ p.pattern \notin DOMAIN patterns
     \/ p.step >= Len(patterns[p.pattern])
  THEN Drop
  ELSE LET states == patterns[p.pattern]
           st == states[p.step + 1]
           matched == CepMatchState(ev, st, p.vars)
       IN CASE ev.id \in p.seen -> Keep(p)
            [] ev.id \notin p.seen /\ st.negative ->
                 IF ev.at <= p.negDeadline /\ matched THEN Drop ELSE Keep(p)
            [] ev.id \notin p.seen /\ ~st.negative ->
                 IF st.wait # NoWait /\ ev.at > p.started + st.wait THEN Drop
                 ELSE IF matched THEN StepForward(states, ev, id, p, st)
                 ELSE Keep(p)

\* The bug of sweeping at the end of the window instead of after it.
Sweep_Bug(patterns, progs, wm) ==
  [id \in {i \in DOMAIN progs :
             /\ progs[i].pattern \in DOMAIN patterns
             /\ LET d == MaxDuration(patterns[progs[i].pattern])
                IN ~(d > 0 /\ wm - progs[i].started >= d)}
     |-> progs[id]]

\* sweepExpiredProgresses.
Sweep(patterns, progs, wm) ==
  [id \in {i \in DOMAIN progs :
             /\ progs[i].pattern \in DOMAIN patterns
             /\ LET d == MaxDuration(patterns[progs[i].pattern])
                IN ~(d > 0 /\ wm - progs[i].started > d)}
     |-> progs[id]]

\* Action B of processCEP: the progress opened for pattern pid by ev.
NewProgress(patterns, pid, ev) ==
  [pattern |-> pid, member |-> ev.member, step |-> 1,
   vars |-> Bind(ev, patterns[pid][1], NoNum),
   started |-> ev.at, seen |-> {ev.id},
   negDeadline |-> ParkDeadline(patterns[pid], 1, ev.at)]

\* processCEP: sweep, advance what is in flight, then open new instances.
\* The answer has the new progresses, the heap entries pushed and the matches.
ProcessCEP(patterns, progs, ev, wm) ==
  LET swept == Sweep(patterns, progs, wm)
      adv == [id \in DOMAIN swept |-> AdvanceProgress(patterns, ev, id, swept[id])]
      kept == {id \in DOMAIN swept : adv[id].keep}
      starts == {pid \in DOMAIN patterns :
                   /\ CepMatchState(ev, patterns[pid][1], NoNum)
                   /\ ProgressID(pid, ev) \notin kept}
      instant == {pid \in starts : Len(patterns[pid]) = 1}
      opened == starts \ instant
      new == [id \in {ProgressID(pid, ev) : pid \in opened} |->
                NewProgress(patterns, id[1], ev)]
  IN [progresses |-> [id \in kept \cup DOMAIN new |->
                        IF id \in DOMAIN new THEN new[id] ELSE adv[id].p],
      pushes |-> (UNION {adv[id].pushes : id \in DOMAIN swept})
                   \cup (UNION {Pushed(new[id].negDeadline, id) : id \in DOMAIN new}),
      matches |-> (UNION {adv[id].matches : id \in DOMAIN swept})
                   \cup {MatchResult(ProgressID(pid, ev),
                                     Bind(ev, patterns[pid][1], NoNum), ev.at)
                           : pid \in instant}]

\* The bug of leaving an entry until the watermark is a whole unit further.
Due_Bug(heap, wm) == {e \in heap : wm > e.deadline + 1}

\* The entries of a heap the watermark has strictly passed.
Due(heap, wm) == {e \in heap : wm > e.deadline}

\* drainNegativeMatches, over the progresses of every member: due entries leave
\* the heap; a progress still parked with that very deadline leaves too, with a
\* match if its pattern is still registered.
Drained(progsOf, heap, wm) ==
  {e \in Due(heap, wm) : /\ e.id \in DOMAIN progsOf[e.member]
                         /\ progsOf[e.member][e.id].negDeadline = e.deadline}

\* The bug of a drain that does not look the pattern up.
DrainMatches_Bug(patterns, progsOf, heap, wm) ==
  {MatchResult(e.id, progsOf[e.member][e.id].vars, e.deadline) : e \in Drained(progsOf, heap, wm)}

DrainMatches(patterns, progsOf, heap, wm) ==
  {MatchResult(e.id, progsOf[e.member][e.id].vars, e.deadline)
     : e \in {d \in Drained(progsOf, heap, wm) : d.id[1] \in DOMAIN patterns}}

DrainProgresses(progsOf, heap, wm) ==
  [m \in DOMAIN progsOf |->
     [id \in DOMAIN progsOf[m] \ {e.id : e \in Drained(progsOf, heap, wm)}
        |-> progsOf[m][id]]]

\* The bug of rebuilding only the entries of progresses on their second state.
RebuildNegativeDeadlines_Bug(progsOf) ==
  UNION {{Entry(progsOf[m][id].negDeadline, id)
            : id \in {i \in DOMAIN progsOf[m] :
                        /\ progsOf[m][i].negDeadline # NoTime
                        /\ progsOf[m][i].step = 1}}
           : m \in DOMAIN progsOf}

\* rebuildNegativeDeadlines: the heap a restored process starts with.
RebuildNegativeDeadlines(progsOf) ==
  UNION {{Entry(progsOf[m][id].negDeadline, id)
            : id \in {i \in DOMAIN progsOf[m] : progsOf[m][i].negDeadline # NoTime}}
           : m \in DOMAIN progsOf}

=============================================================================
