--------------------------- MODULE AtomicSnapshot ---------------------------
(***************************************************************************)
(* What a shard's checkpointing promises, with no pointer, goroutine or    *)
(* temporary file in sight.  A process folds events into per-member state  *)
(* while at most one snapshot is in flight.  A snapshot is the WHOLE state *)
(* at one event boundary, paired with the position of the last event in    *)
(* it, and it reaches the file in one step or not at all.  A crash loses   *)
(* the memory and nothing else.                                            *)
(*                                                                         *)
(* The member state is abstracted to the set of event positions folded     *)
(* into it; {} is a member never seen.                                     *)
(***************************************************************************)
EXTENDS Naturals

CONSTANTS Member,   \* member ids of one shard
          NoImage   \* "there is no snapshot"

VARIABLES state,    \* [Member -> set of positions folded into the member]
          seq,      \* position of the last event completely applied
          inflight, \* the snapshot being written, or NoImage
          file      \* the snapshot a restart would load, or NoImage

vars == <<state, seq, inflight, file>>

Empty == [m \in Member |-> {}]

\* A state and the position it reflects.
Image(s, n) == [members |-> s, lastSeq |-> n]

\* No event is half applied: every position folded in is at most seq.
Boundary == \A m \in Member : \A n \in state[m] : n <= seq

Init == /\ state = Empty
        /\ seq = 0
        /\ inflight = NoImage
        /\ file = NoImage

\* The event after seq is folded into m (one event may touch several members).
Write(m) == /\ state' = [state EXCEPT ![m] = @ \cup {seq + 1}]
            /\ UNCHANGED <<seq, inflight, file>>

\* The event after seq is completely applied.
Commit == /\ seq' = seq + 1
          /\ UNCHANGED <<state, inflight, file>>

\* A snapshot starts: it is the state as it is now, at an event boundary.
Begin == /\ inflight = NoImage
         /\ Boundary
         /\ inflight' = Image(state, seq)
         /\ UNCHANGED <<state, seq, file>>

\* The snapshot in flight becomes the file, exactly as it was begun.
Publish == /\ inflight # NoImage
           /\ file' = inflight
           /\ inflight' = NoImage
           /\ UNCHANGED <<state, seq>>

\* The snapshot in flight fails; the file keeps the previous one.
Abandon == /\ inflight # NoImage
           /\ inflight' = NoImage
           /\ UNCHANGED <<state, seq, file>>

\* The process dies.
Crash == /\ state' = Empty
         /\ seq' = 0
         /\ inflight' = NoImage
         /\ UNCHANGED file

\* A fresh process loads the file.
Restore == /\ state = Empty
           /\ seq = 0
           /\ file # NoImage
           /\ state' = file.members
           /\ seq' = file.lastSeq
           /\ UNCHANGED <<inflight, file>>

Next == \/ \E m \in Member : Write(m)
        \/ Commit
        \/ Begin
        \/ Publish
        \/ Abandon
        \/ Crash
        \/ Restore

Spec == Init /\ [][Next]_vars
=============================================================================
