----------------------------- MODULE MCCowState -----------------------------
(* TLC instance of CowState: members that share one key group.             *)
EXTENDS CowState

CONSTANT g1

MCKeyGroupOf == [m \in Member |-> g1]

\* Neither the contents of collected objects nor the buffer and path.tmp of a
\* snapshot that is over are ever read: states that differ only there are one.
\* They have the same successors, no property tells them apart, and every step
\* changes what is left, so that the fairness conditions do not either.
Collected ==
  <<pc, lastSeq, live, epoch, frozenEpoch, frozen, phase, unread, file,
    IF phase = "done" THEN NothingRead ELSE image,
    IF phase = "done" THEN 0 ELSE frozenSeq,
    IF phase = "rename" THEN tmp ELSE NoImage,
    [k \in KgReach(live) \cup KgReach(frozen) |-> kgHeap[k]],
    [r \in MsReach(live) \cup MsReach(frozen) |-> msHeap[r]]>>
=============================================================================
