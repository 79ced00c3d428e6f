------------------------------ MODULE CowState ------------------------------
(***************************************************************************)
(* The shard state of service/engine/core at the level of its pointers,    *)
(* and the background snapshot that reads it while the main goroutine      *)
(* keeps writing (state.go, snapshot.go, asyncSnapshotter of consumer.go). *)
(*                                                                         *)
(* The live state is an array of pointers to key group maps, which hold    *)
(* pointers to members.  A snapshot copies only the array and bumps the    *)
(* epoch; from then on memberForWrite clones every map and member older    *)
(* than the freeze before the first write to it.  A second goroutine walks *)
(* the copied array, member by member, then writes path.tmp and renames it *)
(* over path.  The process may crash at any point and restart from path.   *)
(*                                                                         *)
(* A member's contents are abstracted to the set of event positions folded *)
(* into it.  lastSeq stands for the two scalars captured by value with the *)
(* array (the position and the watermark).                                 *)
(***************************************************************************)
EXTENDS Naturals, FiniteSets

CONSTANTS Member,      \* members of the shard
          KeyGroup,    \* key group indices
          KeyGroupOf,  \* [Member -> KeyGroup]: the fixed hash of a member
          KgRef,       \* addresses of key group maps
          MsRef,       \* addresses of member states
          Nil,         \* the nil pointer
          NoImage,     \* no snapshot (no file, nothing in the buffer)
          Torn,        \* contents of a half-written file
          MaxSeq,      \* bound: events in the log
          MaxEpoch     \* bound: snapshots begun by one process

ASSUME KeyGroupOfAssumption == KeyGroupOf \in [Member -> KeyGroup]
ASSUME RefAssumption == /\ Nil \notin KgRef
                        /\ Nil \notin MsRef
ASSUME BoundAssumption == /\ MaxSeq \in Nat
                          /\ MaxEpoch \in Nat
ASSUME MarkerAssumption ==
    /\ NoImage # Torn
    /\ NoImage \notin [members : [Member -> SUBSET Nat], lastSeq : Nat]
    /\ Torn \notin [members : [Member -> SUBSET Nat], lastSeq : Nat]

VARIABLES
  pc,          \* main goroutine: "loop", "event", "drain", "final", "stopped", "down"
  lastSeq,     \* Core.lastSeq
  live,        \* Core.State.keyGroups
  kgHeap,      \* keyGroupState objects by address
  msHeap,      \* MemberState objects by address
  epoch,       \* Core.epoch
  frozenEpoch, \* Core.frozenEpoch, 0 when nothing is frozen
  frozen,      \* frozenSnapshot.state.keyGroups (all Nil when released)
  frozenSeq,   \* frozenSnapshot.lastSeq
  phase,       \* the snapshot: "idle", "encode", "write", "tmp", "rename", "done"
  unread,      \* members the encoder has not reached yet
  image,       \* what has been encoded so far ({} for a member not written)
  tmp,         \* contents of path.tmp
  file         \* contents of path

coreVars == <<lastSeq, live, kgHeap, msHeap, epoch, frozenEpoch>>
snapVars == <<frozen, frozenSeq, phase, unread, image>>
diskVars == <<tmp, file>>
vars == <<pc, coreVars, snapVars, diskVars>>

Img == [members : [Member -> SUBSET Nat], lastSeq : Nat]
NoKeyGroups == [g \in KeyGroup |-> Nil]
NoMembers == [m \in Member |-> Nil]
NothingRead == [m \in Member |-> {}]

-----------------------------------------------------------------------------
(* Reading through the pointers. *)

\* The address of m's state under the pointer array arr, Nil if never seen.
MemberRef(arr, m) == IF arr[KeyGroupOf[m]] = Nil
                     THEN Nil
                     ELSE kgHeap[arr[KeyGroupOf[m]]].members[m]

\* The contents of m under arr.
MemberVal(arr, m) == IF MemberRef(arr, m) = Nil
                     THEN {}
                     ELSE msHeap[MemberRef(arr, m)].content

\* Addresses the collector keeps because arr reaches them.
KgReach(arr) == {k \in KgRef : \E g \in KeyGroup : arr[g] = k}
MsReach(arr) == {r \in MsRef : \E k \in KgReach(arr), m \in Member :
                                  kgHeap[k].members[m] = r}

\* Addresses an allocation may return: nothing reaches them.
FreshKg == KgRef \ (KgReach(live) \cup KgReach(frozen))
FreshMs == MsRef \ (MsReach(live) \cup MsReach(frozen))

-----------------------------------------------------------------------------
(* memberForWrite. *)

\* An object of this version is still shared with the snapshot in flight.
Shared(version) == frozenEpoch # 0 /\ version < frozenEpoch

\* The bug of forgetting the key group map: it is written while shared.
NewKg_Bug(g) == live[g] = Nil

\* The bug of comparing the member's version the wrong way round a boundary.
NewMs_Bug(m) == IF MemberRef(live, m) = Nil
                THEN TRUE
                ELSE /\ frozenEpoch # 0
                     /\ msHeap[MemberRef(live, m)].version + 1 < frozenEpoch

\* The bug of cloning whatever the member's version is.
NewMs_Always(m) == TRUE

NewKg(g) == IF live[g] = Nil THEN TRUE ELSE Shared(kgHeap[live[g]].version)
NewMs(m) == IF MemberRef(live, m) = Nil
            THEN TRUE
            ELSE Shared(msHeap[MemberRef(live, m)].version)

\* memberForWrite(m) followed by a mutation that folds position n into m.
\* k and r are the addresses of the key group map and member it returns.
MemberForWrite(m, n) ==
  LET g == KeyGroupOf[m]
      members == IF live[g] = Nil THEN NoMembers ELSE kgHeap[live[g]].members
  IN \E k \in (IF NewKg(g) THEN FreshKg ELSE {live[g]}),
        r \in (IF NewMs(m) THEN FreshMs ELSE {MemberRef(live, m)}) :
       /\ live' = [live EXCEPT ![g] = k]
       /\ kgHeap' = [kgHeap EXCEPT ![k] =
            [members |-> [members EXCEPT ![m] = r],
             version |-> IF NewKg(g) THEN epoch ELSE @.version]]
       /\ msHeap' = [msHeap EXCEPT ![r] =
            [content |-> MemberVal(live, m) \cup {n},
             version |-> IF NewMs(m) THEN epoch ELSE @.version]]

-----------------------------------------------------------------------------
Init ==
  /\ pc = "loop"
  /\ lastSeq = 0
  /\ live = NoKeyGroups
  /\ kgHeap = [k \in KgRef |-> [members |-> NoMembers, version |-> 0]]
  /\ msHeap = [r \in MsRef |-> [content |-> {}, version |-> 0]]
  /\ epoch = 0
  /\ frozenEpoch = 0
  /\ frozen = NoKeyGroups
  /\ frozenSeq = 0
  /\ phase = "idle"
  /\ unread = {}
  /\ image = NothingRead
  /\ tmp = NoImage
  /\ file = NoImage

(* The main goroutine. *)

\* ProcessEvent starts: the event's own member is written.
ProcessEvent(m) ==
  /\ pc = "loop"
  /\ lastSeq < MaxSeq
  /\ MemberForWrite(m, lastSeq + 1)
  /\ pc' = "event"
  /\ UNCHANGED <<lastSeq, epoch, frozenEpoch, snapVars, diskVars>>

\* drainNegativeMatches, inside the same event, deletes a due progress of a
\* member already known.
DrainWrite(m) ==
  /\ pc = "event"
  /\ MemberRef(live, m) # Nil
  /\ lastSeq + 1 \notin MemberVal(live, m)
  /\ MemberForWrite(m, lastSeq + 1)
  /\ UNCHANGED <<pc, lastSeq, epoch, frozenEpoch, snapVars, diskVars>>

\* The consumer stores the position after ProcessEvent returned.
StoreLastSeq ==
  /\ pc = "event"
  /\ lastSeq' = lastSeq + 1
  /\ pc' = "loop"
  /\ UNCHANGED <<live, kgHeap, msHeap, epoch, frozenEpoch, snapVars, diskVars>>

\* beginSnapshot: freezeState and the capture of the position.
BeginSnapshot ==
  /\ epoch' = epoch + 1
  /\ frozenEpoch' = epoch + 1
  /\ frozen' = live
  /\ frozenSeq' = lastSeq
  /\ unread' = Member
  /\ image' = NothingRead
  /\ phase' = "encode"

\* finish: endSnapshot, and the done channel is forgotten.
Finish ==
  /\ frozenEpoch' = 0
  /\ frozen' = NoKeyGroups
  /\ frozenSeq' = 0
  /\ unread' = {}
  /\ image' = NothingRead
  /\ phase' = "idle"

\* tick with a finished snapshot and the interval not yet over.
TickFinish ==
  /\ pc = "loop"
  /\ phase = "done"
  /\ Finish
  /\ UNCHANGED <<pc, lastSeq, live, kgHeap, msHeap, epoch, diskVars>>

\* The bug of letting a timer start the snapshot while an event is applied.
TickBegin_MidEvent ==
  /\ pc \in {"loop", "event"}
  /\ phase \in {"idle", "done"}
  /\ epoch < MaxEpoch
  /\ BeginSnapshot
  /\ UNCHANGED <<pc, lastSeq, live, kgHeap, msHeap, diskVars>>

\* tick with nothing in flight (or a finished one, which is released first)
\* and the interval over.
TickBegin ==
  /\ pc = "loop"
  /\ phase \in {"idle", "done"}
  /\ epoch < MaxEpoch
  /\ BeginSnapshot
  /\ UNCHANGED <<pc, lastSeq, live, kgHeap, msHeap, diskVars>>

\* The context is cancelled: no further event is taken, drain starts.
Shutdown ==
  /\ pc = "loop"
  /\ pc' = "drain"
  /\ UNCHANGED <<coreVars, snapVars, diskVars>>

\* drain: after any snapshot in flight has finished, Snapshot() freezes,
\* encodes and releases without leaving the main goroutine.
DrainFinal ==
  /\ pc = "drain"
  /\ phase \in {"idle", "done"}
  /\ epoch' = epoch + 1
  /\ frozenEpoch' = 0
  /\ frozen' = NoKeyGroups
  /\ frozenSeq' = lastSeq
  /\ unread' = {}
  /\ image' = [m \in Member |-> MemberVal(live, m)]
  /\ phase' = "write"
  /\ pc' = "final"
  /\ UNCHANGED <<lastSeq, live, kgHeap, msHeap, diskVars>>

\* Snapshot() fails: drain returns the error and Run ends without a file.
DrainFail ==
  /\ pc = "drain"
  /\ phase \in {"idle", "done"}
  /\ epoch' = epoch + 1
  /\ Finish
  /\ pc' = "stopped"
  /\ UNCHANGED <<lastSeq, live, kgHeap, msHeap, diskVars>>

\* Run returns once the final file is written (or failed to be).
DrainDone ==
  /\ pc = "final"
  /\ phase = "done"
  /\ Finish
  /\ pc' = "stopped"
  /\ UNCHANGED <<lastSeq, live, kgHeap, msHeap, epoch, diskVars>>

(* The snapshot goroutine (the main one for the final snapshot). *)

\* gob reaches one more member of the frozen view.
EncodeMember(m) ==
  /\ phase = "encode"
  /\ m \in unread
  /\ unread' = unread \ {m}
  /\ image' = [image EXCEPT ![m] = MemberVal(frozen, m)]
  /\ UNCHANGED <<pc, coreVars, frozen, frozenSeq, phase, diskVars>>

EncodeDone ==
  /\ phase = "encode"
  /\ unread = {}
  /\ phase' = "write"
  /\ UNCHANGED <<pc, coreVars, frozen, frozenSeq, unread, image, diskVars>>

\* The bug of renaming before the contents are complete.
WriteTmpStart_Bug ==
  /\ phase = "write"
  /\ phase' = "rename"
  /\ tmp' = Torn
  /\ UNCHANGED <<pc, coreVars, frozen, frozenSeq, unread, image, file>>

\* os.WriteFile(tmp): created and truncated, then filled.
WriteTmpStart ==
  /\ phase = "write"
  /\ phase' = "tmp"
  /\ tmp' = Torn
  /\ UNCHANGED <<pc, coreVars, frozen, frozenSeq, unread, image, file>>

WriteTmpEnd ==
  /\ phase = "tmp"
  /\ phase' = "rename"
  /\ tmp' = [members |-> image, lastSeq |-> frozenSeq]
  /\ UNCHANGED <<pc, coreVars, frozen, frozenSeq, unread, image, file>>

Rename ==
  /\ phase = "rename"
  /\ phase' = "done"
  /\ file' = tmp
  /\ tmp' = NoImage
  /\ UNCHANGED <<pc, coreVars, frozen, frozenSeq, unread, image>>

\* The bug of returning on an error without signalling the done channel.
SnapshotFails_NoSend ==
  /\ phase \in {"encode", "write", "tmp", "rename"}
  /\ phase' = "hung"
  /\ UNCHANGED <<pc, coreVars, frozen, frozenSeq, unread, image, diskVars>>

\* encode, WriteFile or Rename returns an error, which is only logged.
SnapshotFails ==
  /\ phase \in {"encode", "write", "tmp", "rename"}
  /\ phase' = "done"
  /\ UNCHANGED <<pc, coreVars, frozen, frozenSeq, unread, image, diskVars>>

(* The process. *)

Lose ==
  /\ lastSeq' = 0
  /\ live' = NoKeyGroups
  /\ epoch' = 0
  /\ Finish

\* The process dies at any point; the disk stays as it is.
Crash ==
  /\ pc # "down"
  /\ pc' = "down"
  /\ Lose
  /\ UNCHANGED <<kgHeap, msHeap, diskVars>>

\* A new process with no snapshot file starts empty.
StartEmpty ==
  /\ pc = "down"
  /\ file = NoImage
  /\ pc' = "loop"
  /\ UNCHANGED <<coreVars, snapVars, diskVars>>

\* Restore: one map per key group present in the file, version 0 everywhere.
\* kr and mr choose the addresses.
Restore ==
  /\ pc = "down"
  /\ file # NoImage
  /\ LET seen == {m \in Member : file.members[m] # {}}
         groups == {KeyGroupOf[m] : m \in seen}
     IN \E kr \in [KeyGroup -> KgRef \cup {Nil}], mr \in [Member -> MsRef \cup {Nil}] :
          /\ \A g \in KeyGroup : kr[g] # Nil <=> g \in groups
          /\ \A g, h \in groups : kr[g] = kr[h] => g = h
          /\ \A m \in Member : mr[m] # Nil <=> m \in seen
          /\ \A m, p \in seen : mr[m] = mr[p] => m = p
          /\ live' = kr
          /\ kgHeap' = [k \in KgRef |->
               IF \E g \in groups : kr[g] = k
               THEN [members |-> [m \in Member |->
                        IF kr[KeyGroupOf[m]] = k THEN mr[m] ELSE Nil],
                     version |-> 0]
               ELSE kgHeap[k]]
          /\ msHeap' = [r \in MsRef |->
               IF \E m \in seen : mr[m] = r
               THEN [content |-> file.members[CHOOSE m \in seen : mr[m] = r],
                     version |-> 0]
               ELSE msHeap[r]]
  /\ lastSeq' = file.lastSeq
  /\ pc' = "loop"
  /\ UNCHANGED <<epoch, frozenEpoch, snapVars, diskVars>>

MainStep ==
  \/ \E m \in Member : ProcessEvent(m) \/ DrainWrite(m)
  \/ StoreLastSeq
  \/ TickFinish
  \/ TickBegin
  \/ Shutdown
  \/ DrainFinal
  \/ DrainFail
  \/ DrainDone

SnapshotStep ==
  \/ \E m \in Member : EncodeMember(m)
  \/ EncodeDone
  \/ WriteTmpStart
  \/ WriteTmpEnd
  \/ Rename
  \/ SnapshotFails

Next ==
  \/ MainStep
  \/ SnapshotStep
  \/ Crash
  \/ StartEmpty
  \/ Restore

Spec == Init /\ [][Next]_vars

-----------------------------------------------------------------------------
(* Properties. *)

KgObj == [members : [Member -> MsRef \cup {Nil}], version : Nat]
MsObj == [content : SUBSET Nat, version : Nat]

\* Every variable holds a value of its Go type.
TypeOK ==
  /\ pc \in {"loop", "event", "drain", "final", "stopped", "down"}
  /\ lastSeq \in Nat
  /\ live \in [KeyGroup -> KgRef \cup {Nil}]
  /\ kgHeap \in [KgRef -> KgObj]
  /\ msHeap \in [MsRef -> MsObj]
  /\ epoch \in Nat
  /\ frozenEpoch \in Nat
  /\ frozen \in [KeyGroup -> KgRef \cup {Nil}]
  /\ frozenSeq \in Nat
  /\ phase \in {"idle", "encode", "write", "tmp", "rename", "done"}
  /\ unread \subseteq Member
  /\ image \in [Member -> SUBSET Nat]
  /\ tmp \in Img \cup {NoImage, Torn}
  /\ file \in Img \cup {NoImage}

\* While the encoder may still read it, no step writes a map or a member that
\* the frozen view reaches (the claim on frozenSnapshot: "copy-on-write keeps
\* every map and member it reaches unmodified until endSnapshot").
FrozenUntouched ==
  [][phase = "encode" =>
       /\ \A k \in KgReach(frozen) : kgHeap'[k] = kgHeap[k]
       /\ \A r \in MsReach(frozen) : msHeap'[r] = msHeap[r]]_vars

\* memberForWrite replaces a member object only when the snapshot in flight
\* still shares it: each object is cloned at most once per freeze, and not at
\* all when nothing is frozen.
CloneOnlyShared ==
  [][\A m \in Member :
       LET old == MemberRef(live, m) IN
       (/\ old # Nil
        /\ live'[KeyGroupOf[m]] # Nil
        /\ MemberRef(live, m)' # old) => /\ frozenEpoch # 0
                                         /\ old \in MsReach(frozen)]_vars

\* The file a restart would load is the state at one event boundary: it holds
\* nothing past its own position, so resuming at LastSeq+1 is exact.
FileIsACut ==
  file # NoImage => \A m \in Member : \A n \in file.members[m] : n <= file.lastSeq

\* The checkpointing implements AtomicSnapshot: what the file receives is the
\* whole state as it was when the snapshot began, whatever was written while
\* it was being encoded, and a crash or failure never damages the file.
SnapshotInFlight ==
  CASE phase = "encode" -> [members |-> [m \in Member |-> MemberVal(frozen, m)],
                            lastSeq |-> frozenSeq]
    [] phase \in {"write", "tmp", "rename"} -> [members |-> image, lastSeq |-> frozenSeq]
    [] OTHER -> NoImage

Abs == INSTANCE AtomicSnapshot
         WITH state <- [m \in Member |-> MemberVal(live, m)],
              seq <- lastSeq,
              inflight <- SnapshotInFlight

ImplementsAtomicSnapshot == Abs!Spec

-----------------------------------------------------------------------------
(* Fairness: the Go scheduler runs the snapshot goroutine, and the I/O it   *)
(* does ends; the main goroutine leaves an event it started and, once       *)
(* shutting down, runs drain to its end.  Nothing makes an event arrive.    *)
FairSpec ==
  /\ Spec
  /\ WF_vars(SnapshotStep)
  /\ WF_vars(StoreLastSeq)
  /\ WF_vars(DrainFinal \/ DrainFail \/ DrainDone)

\* A snapshot that was started ends (written, failed, or the process died), so
\* the main goroutine can release the frozen view at its next tick.
SnapshotEnds == phase = "encode" ~> phase \in {"done", "idle"}

\* A clean shutdown always terminates: drain waits for the snapshot in flight
\* and that wait ends.
ShutdownTerminates == pc = "drain" ~> pc \in {"stopped", "down"}
=============================================================================
