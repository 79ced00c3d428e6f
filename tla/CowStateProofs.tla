--------------------------- MODULE CowStateProofs ---------------------------
(***************************************************************************)
(* Machine-checked proofs about CowState, for any members, key groups,     *)
(* addresses and bounds: the types, that the frozen view is never written  *)
(* while it is encoded, that an object is cloned only when it is shared,   *)
(* that the file is always a cut of the log, and that the whole implements *)
(* AtomicSnapshot.                                                         *)
(*                                                                         *)
(* The argument rests on versions alone.  What the frozen view reaches is  *)
(* older than the freeze, what memberForWrite writes in place is not, and  *)
(* what it allocates nobody reaches; so no write lands in the frozen view. *)
(***************************************************************************)
EXTENDS CowState, TLAPS

USE KeyGroupOfAssumption, RefAssumption, BoundAssumption

-----------------------------------------------------------------------------
(* The effect of memberForWrite. *)

\* memberForWrite(m) and its mutation wrote map k and member object r.
Wrote(m, n, k, r) ==
  LET g == KeyGroupOf[m] IN
  /\ live' = [live EXCEPT ![g] = k]
  /\ \/ k \notin KgReach(live) \cup KgReach(frozen)
     \/ k = live[g] /\ ~Shared(kgHeap[k].version)
  /\ \A j \in KgRef : j # k => kgHeap'[j] = kgHeap[j]
  /\ \A p \in Member : kgHeap'[k].members[p] =
       IF p = m THEN r ELSE IF live[g] = Nil THEN Nil ELSE kgHeap[live[g]].members[p]
  /\ kgHeap'[k].version \in {epoch, kgHeap[k].version}
  /\ k \notin KgReach(live) => kgHeap'[k].version = epoch
  /\ \/ r \notin MsReach(live) \cup MsReach(frozen)
     \/ r = MemberRef(live, m) /\ ~Shared(msHeap[r].version)
  /\ \A q \in MsRef : q # r => msHeap'[q] = msHeap[q]
  /\ msHeap'[r].content = MemberVal(live, m) \cup {n}
  /\ \/ msHeap'[r].version = epoch
     \/ r = MemberRef(live, m) /\ msHeap'[r].version = msHeap[r].version

\* The heaps keep their types.
HeapTypes ==
  /\ live \in [KeyGroup -> KgRef \cup {Nil}]
  /\ kgHeap \in [KgRef -> KgObj]
  /\ msHeap \in [MsRef -> MsObj]

\* The address of a member under a well-typed array is an address or nil, and
\* the contents are a set of positions.
LEMMA MemberRefType ==
  ASSUME HeapTypes, NEW arr \in [KeyGroup -> KgRef \cup {Nil}], NEW m \in Member
  PROVE  /\ MemberRef(arr, m) \in MsRef \cup {Nil}
         /\ MemberVal(arr, m) \in SUBSET Nat
<1>1. MemberRef(arr, m) \in MsRef \cup {Nil}
  BY DEF HeapTypes, KgObj, MemberRef
<1> QED
  BY <1>1 DEF HeapTypes, MsObj, MemberVal

\* A member's object under an array is reached from the array.
LEMMA MemberRefReached ==
  ASSUME HeapTypes, NEW arr \in [KeyGroup -> KgRef \cup {Nil}], NEW m \in Member,
         MemberRef(arr, m) # Nil
  PROVE  MemberRef(arr, m) \in MsReach(arr)
<1>1. MemberRef(arr, m) \in MsRef
  BY MemberRefType
<1>2. /\ arr[KeyGroupOf[m]] \in KgReach(arr)
      /\ MemberRef(arr, m) = kgHeap[arr[KeyGroupOf[m]]].members[m]
  BY DEF MemberRef, KgReach
<1> QED
  BY <1>1, <1>2 DEF MsReach

\* memberForWrite writes one map and one member object, each of them new or
\* not shared with the snapshot in flight, and keeps the types.
LEMMA WriteEffect ==
  ASSUME HeapTypes, epoch \in Nat, NEW m \in Member, NEW n \in Nat, MemberForWrite(m, n)
  PROVE  /\ HeapTypes'
         /\ \E k \in KgRef, r \in MsRef : Wrote(m, n, k, r)
<1> DEFINE g == KeyGroupOf[m]
           members == IF live[g] = Nil THEN NoMembers ELSE kgHeap[live[g]].members
<1>1. g \in KeyGroup
  OBVIOUS
<1>2. PICK k \in (IF NewKg(g) THEN FreshKg ELSE {live[g]}),
           r \in (IF NewMs(m) THEN FreshMs ELSE {MemberRef(live, m)}) :
        /\ live' = [live EXCEPT ![g] = k]
        /\ kgHeap' = [kgHeap EXCEPT ![k] =
             [members |-> [members EXCEPT ![m] = r],
              version |-> IF NewKg(g) THEN epoch ELSE kgHeap[k].version]]
        /\ msHeap' = [msHeap EXCEPT ![r] =
             [content |-> MemberVal(live, m) \cup {n},
              version |-> IF NewMs(m) THEN epoch ELSE msHeap[r].version]]
  BY DEF MemberForWrite
<1>3. k \in KgRef /\ (~NewKg(g) => k = live[g] /\ ~Shared(kgHeap[k].version))
  BY <1>1, <1>2 DEF NewKg, FreshKg, HeapTypes
<1>4. r \in MsRef /\ (~NewMs(m) => r = MemberRef(live, m) /\ ~Shared(msHeap[r].version))
  BY <1>2, MemberRefType DEF NewMs, FreshMs, HeapTypes
<1>5. members \in [Member -> MsRef \cup {Nil}]
  BY <1>1 DEF HeapTypes, KgObj, NoMembers
<1>6. MemberVal(live, m) \in SUBSET Nat
  BY MemberRefType DEF HeapTypes
<1>7. HeapTypes'
  <2>1. live' \in [KeyGroup -> KgRef \cup {Nil}]
    BY <1>1, <1>2, <1>3 DEF HeapTypes
  <2>2. kgHeap' \in [KgRef -> KgObj]
    <3>1. [members |-> [members EXCEPT ![m] = r],
           version |-> IF NewKg(g) THEN epoch ELSE kgHeap[k].version] \in KgObj
      BY <1>3, <1>4, <1>5 DEF HeapTypes, KgObj
    <3> QED
      BY <3>1, <1>2, <1>3 DEF HeapTypes
  <2>3. msHeap' \in [MsRef -> MsObj]
    <3>1. [content |-> MemberVal(live, m) \cup {n},
           version |-> IF NewMs(m) THEN epoch ELSE msHeap[r].version] \in MsObj
      BY <1>4, <1>6 DEF HeapTypes, MsObj
    <3> QED
      BY <3>1, <1>2, <1>4 DEF HeapTypes
  <2> QED
    BY <2>1, <2>2, <2>3 DEF HeapTypes
<1>8. Wrote(m, n, k, r)
  <2>1. k \notin KgReach(live) \cup KgReach(frozen) \/ (k = live[g] /\ ~Shared(kgHeap[k].version))
    BY <1>2, <1>3 DEF FreshKg
  <2>2. r \notin MsReach(live) \cup MsReach(frozen)
          \/ (r = MemberRef(live, m) /\ ~Shared(msHeap[r].version))
    BY <1>2, <1>4 DEF FreshMs
  <2>3. /\ \A j \in KgRef : j # k => kgHeap'[j] = kgHeap[j]
        /\ kgHeap'[k].members = [members EXCEPT ![m] = r]
        /\ kgHeap'[k].version = IF NewKg(g) THEN epoch ELSE kgHeap[k].version
    BY <1>2, <1>3 DEF HeapTypes
  <2>4. \A p \in Member : kgHeap'[k].members[p] =
          IF p = m THEN r ELSE IF live[g] = Nil THEN Nil ELSE kgHeap[live[g]].members[p]
    BY <2>3, <1>5 DEF NoMembers
  <2>5. k \notin KgReach(live) => kgHeap'[k].version = epoch
    BY <1>1, <1>3, <2>3 DEF KgReach
  <2>6. /\ \A q \in MsRef : q # r => msHeap'[q] = msHeap[q]
        /\ msHeap'[r].content = MemberVal(live, m) \cup {n}
        /\ msHeap'[r].version = IF NewMs(m) THEN epoch ELSE msHeap[r].version
    BY <1>2, <1>4 DEF HeapTypes
  <2> QED
    BY <1>2, <1>4, <2>1, <2>2, <2>3, <2>4, <2>5, <2>6 DEF Wrote
<1> QED
  BY <1>3, <1>4, <1>7, <1>8

-----------------------------------------------------------------------------
(* Type correctness. *)

\* The variables start with values of their types.
LEMMA TypeInit == Init => TypeOK
BY DEF Init, TypeOK, NoKeyGroups, NoMembers, NothingRead, KgObj, MsObj

\* A restored process has well-typed heaps.
LEMMA RestoreType == TypeOK /\ Restore => HeapTypes'
<1> SUFFICES ASSUME TypeOK, Restore PROVE HeapTypes'
  OBVIOUS
<1>1. file \in Img
  BY DEF Restore, TypeOK
<1> DEFINE seen == {m \in Member : file.members[m] # {}}
           groups == {KeyGroupOf[m] : m \in seen}
<1>2. PICK kr \in [KeyGroup -> KgRef \cup {Nil}], mr \in [Member -> MsRef \cup {Nil}] :
          /\ live' = kr
          /\ kgHeap' = [k \in KgRef |->
               IF \E g \in groups : kr[g] = k
               THEN [members |-> [m \in Member |->
                        IF kr[KeyGroupOf[m]] = k THEN mr[m] ELSE Nil],
                     version |-> 0]
               ELSE kgHeap[k]]
          /\ msHeap' = [r \in MsRef |->
               IF \E m \in seen : mr[m] = r
               THEN [content |-> file.members[CHOOSE m \in seen : mr[m] = r],
                     version |-> 0]
               ELSE msHeap[r]]
  BY ZenonT(60) DEF Restore
<1>3. kgHeap' \in [KgRef -> KgObj]
  <2> SUFFICES ASSUME NEW k \in KgRef
               PROVE  kgHeap'[k] \in KgObj
    BY <1>2
  <2>1. [members |-> [m \in Member |-> IF kr[KeyGroupOf[m]] = k THEN mr[m] ELSE Nil],
         version |-> 0] \in KgObj
    BY DEF KgObj
  <2> QED
    BY <1>2, <2>1 DEF TypeOK
<1>4. msHeap' \in [MsRef -> MsObj]
  <2> SUFFICES ASSUME NEW r \in MsRef
               PROVE  msHeap'[r] \in MsObj
    BY <1>2
  <2>1. CASE \E m \in seen : mr[m] = r
    <3>1. (CHOOSE m \in seen : mr[m] = r) \in Member
      BY <2>1
    <3>2. file.members[CHOOSE m \in seen : mr[m] = r] \in SUBSET Nat
      BY <1>1, <3>1 DEF Img
    <3> QED
      BY <1>2, <2>1, <3>2 DEF MsObj
  <2>2. CASE ~ \E m \in seen : mr[m] = r
    BY <1>2, <2>2 DEF TypeOK
  <2> QED
    BY <2>1, <2>2
<1> QED
  BY <1>2, <1>3, <1>4 DEF HeapTypes

\* When path.tmp is about to be renamed it holds the whole encoded snapshot.
TmpComplete == phase = "rename" => tmp = [members |-> image, lastSeq |-> frozenSeq]

\* Only WriteTmpEnd leads to the rename, and nothing disturbs the file meanwhile.
LEMMA TmpStep == TmpComplete /\ [Next]_vars => TmpComplete'
<1> SUFFICES ASSUME TmpComplete, [Next]_vars PROVE TmpComplete'
  OBVIOUS
<1> USE DEF vars, coreVars, snapVars, diskVars, TmpComplete
<1>1. CASE MainStep
  BY <1>1 DEF MainStep, ProcessEvent, DrainWrite, StoreLastSeq, TickFinish, TickBegin,
     BeginSnapshot, Shutdown, DrainFinal, DrainFail, DrainDone, Finish
<1>2. CASE SnapshotStep
  BY <1>2 DEF SnapshotStep, EncodeMember, EncodeDone, WriteTmpStart, WriteTmpEnd, Rename,
     SnapshotFails
<1>3. CASE Crash \/ StartEmpty \/ Restore
  BY <1>3 DEF Crash, Lose, Finish, StartEmpty, Restore
<1>4. CASE UNCHANGED vars
  BY <1>4
<1> QED
  BY <1>1, <1>2, <1>3, <1>4 DEF Next

\* Every step keeps the types.
LEMMA TypeStep == TypeOK /\ TmpComplete /\ [Next]_vars => TypeOK'
<1> SUFFICES ASSUME TypeOK, TmpComplete, [Next]_vars PROVE TypeOK'
  OBVIOUS
<1> USE DEF vars, coreVars, snapVars, diskVars
<1>1. ASSUME NEW m \in Member, ProcessEvent(m) \/ DrainWrite(m) PROVE TypeOK'
  <2>1. HeapTypes'
    BY <1>1, WriteEffect DEF TypeOK, HeapTypes, ProcessEvent, DrainWrite
  <2> QED
    BY <1>1, <2>1 DEF TypeOK, HeapTypes, ProcessEvent, DrainWrite
<1>2. CASE StoreLastSeq
  BY <1>2 DEF TypeOK, StoreLastSeq
<1>3. CASE TickFinish
  BY <1>3 DEF TypeOK, TickFinish, Finish, NoKeyGroups, NothingRead
<1>4. CASE TickBegin
  BY <1>4 DEF TypeOK, TickBegin, BeginSnapshot, NothingRead
<1>5. CASE Shutdown
  BY <1>5 DEF TypeOK, Shutdown
<1>6. CASE DrainFinal
  <2>1. \A m \in Member : MemberVal(live, m) \in SUBSET Nat
    BY MemberRefType DEF TypeOK, HeapTypes
  <2>2. image' \in [Member -> SUBSET Nat]
    BY <1>6, <2>1 DEF DrainFinal
  <2> QED
    BY <1>6, <2>2 DEF TypeOK, DrainFinal, NoKeyGroups
<1>7. CASE DrainFail
  BY <1>7 DEF TypeOK, DrainFail, Finish, NoKeyGroups, NothingRead
<1>8. CASE DrainDone
  BY <1>8 DEF TypeOK, DrainDone, Finish, NoKeyGroups, NothingRead
<1>9. ASSUME NEW m \in Member, EncodeMember(m) PROVE TypeOK'
  <2>1. MemberVal(frozen, m) \in SUBSET Nat
    BY MemberRefType DEF TypeOK, HeapTypes
  <2> QED
    BY <1>9, <2>1 DEF TypeOK, EncodeMember
<1>10. CASE EncodeDone
  BY <1>10 DEF TypeOK, EncodeDone
<1>11. CASE WriteTmpStart
  BY <1>11 DEF TypeOK, WriteTmpStart
<1>12. CASE WriteTmpEnd
  BY <1>12 DEF TypeOK, WriteTmpEnd, Img
<1>13. CASE Rename
  <2>1. tmp \in Img
    BY <1>13 DEF TypeOK, TmpComplete, Rename, Img
  <2> QED
    BY <1>13, <2>1 DEF TypeOK, Rename
<1>14. CASE SnapshotFails
  BY <1>14 DEF TypeOK, SnapshotFails
<1>15. CASE Crash
  BY <1>15 DEF TypeOK, Crash, Lose, Finish, NoKeyGroups, NothingRead
<1>16. CASE StartEmpty
  BY <1>16 DEF TypeOK, StartEmpty
<1>17. CASE Restore
  <2>1. HeapTypes'
    BY <1>17, RestoreType
  <2>2. file.lastSeq \in Nat
    BY <1>17 DEF TypeOK, Restore, Img
  <2> QED
    BY <1>17, <2>1, <2>2 DEF TypeOK, HeapTypes, Restore
<1>18. CASE UNCHANGED vars
  BY <1>18 DEF TypeOK
<1> QED
  BY <1>1, <1>2, <1>3, <1>4, <1>5, <1>6, <1>7, <1>8, <1>9, <1>10, <1>11, <1>12,
     <1>13, <1>14, <1>15, <1>16, <1>17, <1>18 DEF Next, MainStep, SnapshotStep

\* The types and the completeness of path.tmp are invariants.
THEOREM TypeCorrect == Spec => []TypeOK
<1>1. Init => TypeOK /\ TmpComplete
  BY TypeInit DEF Init, TmpComplete
<1>2. TypeOK /\ TmpComplete /\ [Next]_vars => (TypeOK /\ TmpComplete)'
  BY TypeStep, TmpStep
<1> QED
  BY <1>1, <1>2, PTL DEF Spec

-----------------------------------------------------------------------------
(* The inductive invariant. *)

\* Which parts of the snapshot's bookkeeping go together: the freeze is the
\* newest epoch, the released view is empty, the encoder only runs on a frozen
\* view, and a dead process has nothing.
SnapshotInv ==
  /\ frozenEpoch # 0 => frozenEpoch = epoch
  /\ frozenEpoch = 0 => frozen = NoKeyGroups
  /\ phase = "encode" => frozenEpoch # 0
  /\ pc = "down" => /\ phase = "idle"
                    /\ frozenEpoch = 0
                    /\ live = NoKeyGroups
                    /\ lastSeq = 0

\* Nothing live is newer than the epoch.
LiveVersions ==
  /\ \A k \in KgReach(live) : kgHeap[k].version <= epoch
  /\ \A r \in MsReach(live) : msHeap[r].version <= epoch

\* Everything the frozen view reaches is older than the freeze, and what is
\* live and older than the freeze is in the frozen view.
FrozenVersions ==
  frozenEpoch # 0 =>
    /\ \A k \in KgReach(frozen) : kgHeap[k].version < frozenEpoch
    /\ \A r \in MsReach(frozen) : msHeap[r].version < frozenEpoch
    /\ \A r \in MsReach(live) :
         msHeap[r].version < frozenEpoch => r \in MsReach(frozen)

\* The last position that may be folded into the live state.
Horizon == IF pc = "event" THEN lastSeq + 1 ELSE lastSeq

\* Live contents stay below the horizon; frozen, encoded and stored ones below
\* the position they were captured with.
ContentInv ==
  /\ \A r \in MsReach(live) : \A n \in msHeap[r].content : n <= Horizon
  /\ frozenEpoch # 0 =>
       \A r \in MsReach(frozen) : \A n \in msHeap[r].content : n <= frozenSeq
  /\ phase \in {"encode", "write", "tmp", "rename"} =>
       \A m \in Member : \A n \in image[m] : n <= frozenSeq
  /\ FileIsACut

\* No two members share an object, and what has been encoded is what the frozen
\* view holds.
ViewInv ==
  /\ \A m, p \in Member :
       MemberRef(live, m) # Nil /\ MemberRef(live, m) = MemberRef(live, p) => m = p
  /\ phase = "encode" =>
       \A m \in Member \ unread : image[m] = MemberVal(frozen, m)

Inv ==
  /\ TypeOK
  /\ TmpComplete
  /\ SnapshotInv
  /\ LiveVersions
  /\ FrozenVersions
  /\ ContentInv
  /\ ViewInv

\* The invariant holds initially: nothing is reachable.
LEMMA InvInit == Init => Inv
<1> SUFFICES ASSUME Init PROVE Inv
  OBVIOUS
<1>1. KgReach(live) = {} /\ MsReach(live) = {}
  BY DEF Init, KgReach, MsReach, NoKeyGroups
<1>2. TypeOK /\ TmpComplete /\ SnapshotInv
  BY TypeInit DEF Init, TmpComplete, SnapshotInv
<1>3. LiveVersions /\ FrozenVersions /\ ContentInv
  BY <1>1 DEF Init, LiveVersions, FrozenVersions, ContentInv, FileIsACut
<1>4. ViewInv
  BY DEF Init, ViewInv, MemberRef, NoKeyGroups
<1> QED
  BY <1>2, <1>3, <1>4 DEF Inv

-----------------------------------------------------------------------------
(* A write keeps the invariant and does not touch the frozen view. *)

\* A write adds at most the map and the object it wrote to what is live, and
\* moves no other member.
LEMMA WriteReach ==
  ASSUME HeapTypes, NEW m \in Member, NEW n \in Nat, NEW k \in KgRef, NEW r \in MsRef,
         Wrote(m, n, k, r)
  PROVE  /\ KgReach(live)' \subseteq KgReach(live) \cup {k}
         /\ MsReach(live)' \subseteq MsReach(live) \cup {r}
         /\ MemberRef(live, m)' = r
         /\ \A p \in Member \ {m} : MemberRef(live, p)' = MemberRef(live, p)
<1> DEFINE g == KeyGroupOf[m]
<1>1. g \in KeyGroup /\ live'[g] = k /\ \A h \in KeyGroup \ {g} : live'[h] = live[h]
  BY DEF HeapTypes, Wrote
<1>2. KgReach(live)' \subseteq KgReach(live) \cup {k}
  BY <1>1 DEF KgReach
<1>3. ASSUME NEW j \in KgReach(live)', NEW p \in Member, kgHeap'[j].members[p] \in MsRef,
             kgHeap'[j].members[p] # r
      PROVE  kgHeap'[j].members[p] \in MsReach(live)
  <2>1. CASE j = k
    <3>1. p # m /\ live[g] # Nil /\ kgHeap'[j].members[p] = kgHeap[live[g]].members[p]
      BY <1>3, <2>1 DEF Wrote
    <3>2. live[g] \in KgReach(live)
      BY <1>1, <3>1 DEF HeapTypes, KgReach
    <3> QED
      BY <1>3, <3>1, <3>2 DEF MsReach
  <2>2. CASE j # k
    <3>1. j \in KgReach(live) /\ j \in KgRef /\ kgHeap'[j] = kgHeap[j]
      BY <1>2, <1>3, <2>2 DEF KgReach, Wrote
    <3> QED
      BY <1>3, <3>1 DEF MsReach
  <2> QED
    BY <2>1, <2>2
<1>4. MsReach(live)' \subseteq MsReach(live) \cup {r}
  BY <1>3 DEF MsReach
<1>5. MemberRef(live, m)' = r
  BY <1>1 DEF MemberRef, Wrote
<1>6. ASSUME NEW p \in Member \ {m} PROVE MemberRef(live, p)' = MemberRef(live, p)
  <2> DEFINE h == KeyGroupOf[p]
  <2>1. CASE h = g
    <3>1. kgHeap'[k].members[p] = IF live[g] = Nil THEN Nil ELSE kgHeap[live[g]].members[p]
      BY DEF Wrote
    <3> QED
      BY <1>1, <2>1, <3>1 DEF MemberRef
  <2>2. CASE h # g
    <3>1. h \in KeyGroup /\ live'[h] = live[h] /\ live[h] \in KgRef \cup {Nil}
      BY <1>1, <2>2 DEF HeapTypes
    <3>2. CASE live[h] = k
      <4>1. k = live[g]
        BY <3>1, <3>2 DEF Wrote, KgReach
      <4>2. kgHeap'[k].members[p] = kgHeap[k].members[p]
        BY <4>1 DEF Wrote
      <4> QED
        BY <3>1, <3>2, <4>2 DEF MemberRef
    <3>3. CASE live[h] # k
      BY <3>1, <3>3 DEF MemberRef, Wrote
    <3> QED
      BY <3>2, <3>3
  <2> QED
    BY <2>1, <2>2
<1> QED
  BY <1>2, <1>4, <1>5, <1>6

\* A write lands outside the frozen view, which therefore reads the same.
LEMMA WriteFrozen ==
  ASSUME TypeOK, SnapshotInv, FrozenVersions,
         NEW m \in Member, NEW n \in Nat, NEW k \in KgRef, NEW r \in MsRef,
         Wrote(m, n, k, r), frozen' = frozen
  PROVE  /\ \A j \in KgReach(frozen) : kgHeap'[j] = kgHeap[j]
         /\ \A q \in MsReach(frozen) : msHeap'[q] = msHeap[q]
         /\ KgReach(frozen)' = KgReach(frozen)
         /\ MsReach(frozen)' = MsReach(frozen)
         /\ \A p \in Member : MemberVal(frozen, p)' = MemberVal(frozen, p)
         /\ k \notin KgReach(frozen)
         /\ r \notin MsReach(frozen)
<1>1. frozenEpoch = 0 => KgReach(frozen) = {} /\ MsReach(frozen) = {}
  BY DEF SnapshotInv, NoKeyGroups, KgReach, MsReach
<1>2. k \notin KgReach(frozen)
  BY <1>1 DEF Wrote, Shared, FrozenVersions
<1>3. r \notin MsReach(frozen)
  BY <1>1 DEF Wrote, Shared, FrozenVersions
<1>4. \A j \in KgReach(frozen) : kgHeap'[j] = kgHeap[j]
  BY <1>2 DEF Wrote, KgReach
<1>5. \A q \in MsReach(frozen) : msHeap'[q] = msHeap[q]
  BY <1>3 DEF Wrote, MsReach
<1>6. KgReach(frozen)' = KgReach(frozen)
  BY DEF KgReach
<1>7. MsReach(frozen)' = MsReach(frozen)
  BY <1>4, <1>6 DEF MsReach
<1>8. ASSUME NEW p \in Member PROVE MemberVal(frozen, p)' = MemberVal(frozen, p)
  <2>1. MemberRef(frozen, p)' = MemberRef(frozen, p)
    BY <1>4 DEF MemberRef, KgReach, TypeOK
  <2>2. MemberRef(frozen, p) # Nil => MemberRef(frozen, p) \in MsReach(frozen)
    BY MemberRefReached DEF TypeOK, HeapTypes
  <2> QED
    BY <1>5, <2>1, <2>2 DEF MemberVal
<1> QED
  BY <1>2, <1>3, <1>4, <1>5, <1>6, <1>7, <1>8

\* The two steps that call memberForWrite keep the invariant.
LEMMA WriteStep ==
  ASSUME Inv, NEW m \in Member, ProcessEvent(m) \/ DrainWrite(m)
  PROVE  SnapshotInv' /\ LiveVersions' /\ FrozenVersions' /\ ContentInv' /\ ViewInv'
<1> USE DEF snapVars, diskVars
<1>1. /\ MemberForWrite(m, lastSeq + 1)
      /\ pc \in {"loop", "event"} /\ pc' = "event"
      /\ UNCHANGED <<lastSeq, epoch, frozenEpoch, frozen, frozenSeq, phase, unread, image,
                     tmp, file>>
  BY DEF ProcessEvent, DrainWrite
<1>2. TypeOK /\ HeapTypes /\ lastSeq \in Nat /\ lastSeq + 1 \in Nat /\ epoch \in Nat
      /\ frozenEpoch \in Nat
  BY DEF Inv, TypeOK, HeapTypes
<1>3. PICK k \in KgRef, r \in MsRef : Wrote(m, lastSeq + 1, k, r)
  BY <1>1, <1>2, WriteEffect
<1>4. HeapTypes'
  BY <1>1, <1>2, WriteEffect
<1>5. /\ KgReach(live)' \subseteq KgReach(live) \cup {k}
      /\ MsReach(live)' \subseteq MsReach(live) \cup {r}
      /\ MemberRef(live, m)' = r
      /\ \A p \in Member \ {m} : MemberRef(live, p)' = MemberRef(live, p)
  BY <1>2, <1>3, WriteReach
<1>6. /\ \A j \in KgReach(frozen) : kgHeap'[j] = kgHeap[j]
      /\ \A q \in MsReach(frozen) : msHeap'[q] = msHeap[q]
      /\ KgReach(frozen)' = KgReach(frozen)
      /\ MsReach(frozen)' = MsReach(frozen)
      /\ \A p \in Member : MemberVal(frozen, p)' = MemberVal(frozen, p)
  BY <1>1, <1>2, <1>3, WriteFrozen DEF Inv
<1>7. MemberRef(live, m) # Nil => MemberRef(live, m) \in MsReach(live)
  BY <1>2, MemberRefReached DEF HeapTypes
<1>8. SnapshotInv'
  BY <1>1 DEF Inv, SnapshotInv
<1>9. LiveVersions'
  <2>1. ASSUME NEW j \in KgReach(live)' PROVE kgHeap'[j].version <= epoch
    <3>1. CASE j = k
      <4>1. k \in KgReach(live) => kgHeap[k].version <= epoch
        BY DEF Inv, LiveVersions
      <4> QED
        BY <1>2, <1>3, <3>1, <4>1 DEF Wrote
    <3>2. CASE j # k
      BY <1>3, <1>5, <3>2 DEF Inv, LiveVersions, Wrote, KgReach
    <3> QED
      BY <3>1, <3>2
  <2>2. ASSUME NEW q \in MsReach(live)' PROVE msHeap'[q].version <= epoch
    <3>1. CASE q = r
      BY <1>2, <1>3, <1>7, <3>1 DEF Inv, LiveVersions, Wrote
    <3>2. CASE q # r
      BY <1>3, <1>5, <3>2 DEF Inv, LiveVersions, Wrote, MsReach
    <3> QED
      BY <3>1, <3>2
  <2> QED
    BY <1>1, <2>1, <2>2 DEF LiveVersions
<1>10. FrozenVersions'
  <2> SUFFICES ASSUME frozenEpoch # 0
               PROVE  /\ \A j \in KgReach(frozen) : kgHeap'[j].version < frozenEpoch
                      /\ \A q \in MsReach(frozen) : msHeap'[q].version < frozenEpoch
                      /\ \A q \in MsReach(live)' :
                           msHeap'[q].version < frozenEpoch => q \in MsReach(frozen)
    BY <1>1, <1>6 DEF FrozenVersions
  <2>1. /\ \A j \in KgReach(frozen) : kgHeap'[j].version < frozenEpoch
        /\ \A q \in MsReach(frozen) : msHeap'[q].version < frozenEpoch
    BY <1>6 DEF Inv, FrozenVersions
  <2>2. ASSUME NEW q \in MsReach(live)', msHeap'[q].version < frozenEpoch
        PROVE  q \in MsReach(frozen)
    <3>1. CASE q = r
      <4>1. frozenEpoch = epoch
        BY DEF Inv, SnapshotInv
      <4>2. r = MemberRef(live, m) /\ msHeap'[r].version = msHeap[r].version
        BY <1>2, <1>3, <2>2, <3>1, <4>1 DEF Wrote
      <4>3. r \in MsReach(live)
        BY <1>7, <4>2
      <4> QED
        BY <2>2, <3>1, <4>2, <4>3 DEF Inv, FrozenVersions
    <3>2. CASE q # r
      BY <1>3, <1>5, <2>2, <3>2 DEF Inv, FrozenVersions, Wrote, MsReach
    <3> QED
      BY <3>1, <3>2
  <2> QED
    BY <2>1, <2>2
<1>11. ContentInv'
  <2>1. ASSUME NEW q \in MsReach(live)', NEW i \in msHeap'[q].content
        PROVE  i <= lastSeq + 1
    <3>1. i \in Nat
      BY <2>1, <1>4 DEF HeapTypes, MsObj, MsReach
    <3>2. \A x \in MsReach(live) : \A y \in msHeap[x].content : y \in Nat /\ y <= lastSeq + 1
      <4> SUFFICES ASSUME NEW x \in MsReach(live), NEW y \in msHeap[x].content
                   PROVE  y \in Nat /\ y <= lastSeq + 1
        OBVIOUS
      <4>1. y \in Nat
        BY <1>2 DEF HeapTypes, MsObj, MsReach
      <4>2. y <= Horizon
        BY DEF Inv, ContentInv
      <4> QED
        BY <1>2, <4>1, <4>2 DEF Horizon
    <3>3. CASE q = r
      <4>1. i \in MemberVal(live, m) \/ i = lastSeq + 1
        BY <1>3, <2>1, <3>3 DEF Wrote
      <4>2. MemberVal(live, m) # {} => MemberVal(live, m) = msHeap[MemberRef(live, m)].content
                                       /\ MemberRef(live, m) # Nil
        BY DEF MemberVal
      <4> QED
        BY <1>2, <1>7, <3>1, <3>2, <4>1, <4>2
    <3>4. CASE q # r
      BY <1>3, <1>5, <2>1, <3>2, <3>4 DEF Wrote, MsReach
    <3> QED
      BY <3>3, <3>4
  <2>2. Horizon' = lastSeq + 1
    BY <1>1 DEF Horizon
  <2> QED
    BY <1>1, <1>6, <2>1, <2>2 DEF Inv, ContentInv, FileIsACut
<1>12. ViewInv'
  <2>1. ASSUME NEW p \in Member \ {m}, MemberRef(live, p) # Nil
        PROVE  MemberRef(live, p) # r
    <3>1. MemberRef(live, p) \in MsReach(live)
      BY <1>2, <2>1, MemberRefReached DEF HeapTypes
    <3> QED
      BY <1>3, <2>1, <3>1 DEF Inv, ViewInv, Wrote
  <2>2. \A p, q \in Member :
          MemberRef(live, p)' # Nil /\ MemberRef(live, p)' = MemberRef(live, q)' => p = q
    BY <1>5, <2>1 DEF Inv, ViewInv
  <2> QED
    BY <1>1, <1>6, <2>2 DEF Inv, ViewInv
<1> QED
  BY <1>8, <1>9, <1>10, <1>11, <1>12

-----------------------------------------------------------------------------
(* Restarting from the file. *)

\* What a restored process reaches is new, and holds what the file holds.
LEMMA RestoreEffect ==
  ASSUME TypeOK, Restore
  PROVE  /\ file \in Img
         /\ \A k \in KgReach(live)' : kgHeap'[k].version = 0
         /\ \A r \in MsReach(live)' : /\ msHeap'[r].version = 0
                                      /\ \E m \in Member : msHeap'[r].content = file.members[m]
         /\ \A m \in Member : MemberVal(live, m)' = file.members[m]
         /\ \A m, p \in Member :
              MemberRef(live, m)' # Nil /\ MemberRef(live, m)' = MemberRef(live, p)' => m = p
<1>1. file \in Img
  BY DEF Restore, TypeOK
<1> DEFINE seen == {m \in Member : file.members[m] # {}}
           groups == {KeyGroupOf[m] : m \in seen}
<1>2. PICK kr \in [KeyGroup -> KgRef \cup {Nil}], mr \in [Member -> MsRef \cup {Nil}] :
          /\ \A g \in KeyGroup : kr[g] # Nil <=> g \in groups
          /\ \A g, h \in groups : kr[g] = kr[h] => g = h
          /\ \A m \in Member : mr[m] # Nil <=> m \in seen
          /\ \A m, p \in seen : mr[m] = mr[p] => m = p
          /\ live' = kr
          /\ kgHeap' = [k \in KgRef |->
               IF \E g \in groups : kr[g] = k
               THEN [members |-> [m \in Member |->
                        IF kr[KeyGroupOf[m]] = k THEN mr[m] ELSE Nil],
                     version |-> 0]
               ELSE kgHeap[k]]
          /\ msHeap' = [r \in MsRef |->
               IF \E m \in seen : mr[m] = r
               THEN [content |-> file.members[CHOOSE m \in seen : mr[m] = r],
                     version |-> 0]
               ELSE msHeap[r]]
  BY DEF Restore
<1>3. ASSUME NEW k \in KgReach(live)'
      PROVE  /\ k \in KgRef
             /\ kgHeap'[k].version = 0
             /\ \A m \in Member : kgHeap'[k].members[m] =
                                    IF kr[KeyGroupOf[m]] = k THEN mr[m] ELSE Nil
  <2>1. k \in KgRef /\ \E g \in groups : kr[g] = k
    BY <1>2 DEF KgReach
  <2> QED
    BY <1>2, <2>1
<1>4. ASSUME NEW m \in seen
      PROVE  mr[m] \in MsRef /\ msHeap'[mr[m]].version = 0
             /\ msHeap'[mr[m]].content = file.members[m]
  <2>1. mr[m] \in MsRef
    BY <1>2
  <2> DEFINE c == CHOOSE p \in seen : mr[p] = mr[m]
  <2>2. c = m
    BY <1>2
  <2>3. msHeap'[mr[m]] = [content |-> file.members[c], version |-> 0]
    BY <1>2, <2>1
  <2> HIDE DEF c
  <2> QED
    BY <2>1, <2>2, <2>3
<1>5. ASSUME NEW r \in MsReach(live)' PROVE \E m \in seen : mr[m] = r
  <2>1. PICK k \in KgReach(live)', m \in Member : kgHeap'[k].members[m] = r
    BY DEF MsReach
  <2>2. mr[m] = r /\ r \in MsRef
    BY <1>3, <2>1 DEF MsReach
  <2> QED
    BY <1>2, <2>2
<1>6. ASSUME NEW m \in Member PROVE MemberRef(live, m)' = mr[m]
  <2>1. CASE kr[KeyGroupOf[m]] = Nil
    <3>1. m \notin seen
      BY <1>2, <2>1
    <3> QED
      BY <1>2, <2>1, <3>1 DEF MemberRef
  <2>2. CASE kr[KeyGroupOf[m]] # Nil
    <3>1. kr[KeyGroupOf[m]] \in KgReach(live)'
      BY <1>2, <2>2 DEF KgReach
    <3> QED
      BY <1>2, <1>3, <2>2, <3>1 DEF MemberRef
  <2> QED
    BY <2>1, <2>2
<1>7. ASSUME NEW m \in Member PROVE MemberVal(live, m)' = file.members[m]
  <2>1. MemberRef(live, m)' = mr[m]
    BY <1>6
  <2>2. CASE m \in seen
    <3>1. mr[m] # Nil /\ msHeap'[mr[m]].content = file.members[m]
      BY <1>2, <1>4, <2>2
    <3> QED
      BY <2>1, <3>1 DEF MemberVal
  <2>3. CASE m \notin seen
    BY <1>2, <2>1, <2>3 DEF MemberVal
  <2> QED
    BY <2>2, <2>3
<1>8. \A m, p \in Member :
        MemberRef(live, m)' # Nil /\ MemberRef(live, m)' = MemberRef(live, p)' => m = p
  BY <1>2, <1>6
<1> QED
  BY <1>1, <1>3, <1>4, <1>5, <1>7, <1>8

\* Restore keeps the invariant: the file is a cut, so the new state is too.
LEMMA RestoreStep ==
  ASSUME Inv, Restore
  PROVE  SnapshotInv' /\ LiveVersions' /\ FrozenVersions' /\ ContentInv' /\ ViewInv'
<1> USE DEF snapVars, diskVars
<1>1. /\ pc = "down" /\ pc' = "loop" /\ file # NoImage /\ lastSeq' = file.lastSeq
      /\ UNCHANGED <<epoch, frozenEpoch, frozen, frozenSeq, phase, unread, image, tmp, file>>
  BY DEF Restore
<1>2. phase = "idle" /\ frozenEpoch = 0 /\ epoch \in Nat
  BY <1>1 DEF Inv, SnapshotInv, TypeOK
<1>3. TypeOK
  BY DEF Inv
<1>4. SnapshotInv'
  BY <1>1, <1>2 DEF Inv, SnapshotInv
<1>5. LiveVersions'
  BY <1>1, <1>2, <1>3, RestoreEffect DEF LiveVersions
<1>6. FrozenVersions'
  BY <1>1, <1>2 DEF FrozenVersions
<1>7. ContentInv'
  <2>1. ASSUME NEW r \in MsReach(live)', NEW n \in msHeap'[r].content PROVE n <= lastSeq'
    <3>1. PICK m \in Member : msHeap'[r].content = file.members[m]
      BY <1>3, <2>1, RestoreEffect
    <3> QED
      BY <1>1, <2>1, <3>1 DEF Inv, ContentInv, FileIsACut
  <2>2. Horizon' = lastSeq'
    BY <1>1 DEF Horizon
  <2> QED
    BY <1>1, <1>2, <2>1, <2>2 DEF Inv, ContentInv, FileIsACut
<1>8. ViewInv'
  BY <1>1, <1>2, <1>3, RestoreEffect DEF ViewInv
<1> QED
  BY <1>4, <1>5, <1>6, <1>7, <1>8

-----------------------------------------------------------------------------
(* The other steps leave every object alone. *)

\* Reading through unchanged heaps.
LEMMA SameHeap ==
  ASSUME UNCHANGED <<kgHeap, msHeap>>
  PROVE  /\ live' = live => /\ KgReach(live)' = KgReach(live)
                            /\ MsReach(live)' = MsReach(live)
                            /\ \A m \in Member : /\ MemberRef(live, m)' = MemberRef(live, m)
                                                  /\ MemberVal(live, m)' = MemberVal(live, m)
         /\ frozen' = frozen => /\ KgReach(frozen)' = KgReach(frozen)
                                /\ MsReach(frozen)' = MsReach(frozen)
                                /\ \A m \in Member : MemberVal(frozen, m)' = MemberVal(frozen, m)
         /\ frozen' = live => /\ KgReach(frozen)' = KgReach(live)
                              /\ MsReach(frozen)' = MsReach(live)
                              /\ \A m \in Member : MemberVal(frozen, m)' = MemberVal(live, m)
BY DEF KgReach, MsReach, MemberRef, MemberVal

\* A dead process reaches nothing.
LEMMA NilReachesNothing ==
  ASSUME live' = NoKeyGroups
  PROVE  /\ KgReach(live)' = {} /\ MsReach(live)' = {}
         /\ \A m \in Member : MemberRef(live, m)' = Nil /\ MemberVal(live, m)' = {}
BY DEF KgReach, MsReach, MemberRef, MemberVal, NoKeyGroups

\* Contents reached from a pointer array, member by member.
LEMMA ValuesBelow ==
  ASSUME HeapTypes, NEW arr \in [KeyGroup -> KgRef \cup {Nil}], NEW bound \in Nat,
         \A r \in MsReach(arr) : \A n \in msHeap[r].content : n <= bound
  PROVE  \A m \in Member : \A n \in MemberVal(arr, m) : n <= bound
BY MemberRefReached DEF MemberVal

\* The steps of the main goroutine that write no object keep the invariant.
LEMMA QuietMainStep ==
  ASSUME Inv,
         StoreLastSeq \/ TickFinish \/ TickBegin \/ Shutdown \/ DrainFinal \/ DrainFail \/ DrainDone
  PROVE  SnapshotInv' /\ LiveVersions' /\ FrozenVersions' /\ ContentInv' /\ ViewInv'
<1> USE DEF snapVars, diskVars
<1>1. UNCHANGED <<live, kgHeap, msHeap>>
  BY DEF StoreLastSeq, TickFinish, TickBegin, Shutdown, DrainFinal, DrainFail, DrainDone, coreVars
<1>2. /\ KgReach(live)' = KgReach(live)
      /\ MsReach(live)' = MsReach(live)
      /\ \A m \in Member : /\ MemberRef(live, m)' = MemberRef(live, m)
                            /\ MemberVal(live, m)' = MemberVal(live, m)
  BY <1>1, SameHeap
<1>3. /\ HeapTypes /\ live \in [KeyGroup -> KgRef \cup {Nil}]
      /\ lastSeq \in Nat /\ epoch \in Nat /\ frozenEpoch \in Nat
      /\ \A k \in KgReach(live) : kgHeap[k].version \in Nat
      /\ \A r \in MsReach(live) : /\ msHeap[r].version \in Nat
                                  /\ msHeap[r].content \subseteq Nat
  BY DEF Inv, TypeOK, HeapTypes, KgObj, MsObj, KgReach, MsReach
<1>4. CASE StoreLastSeq
  <2>1. /\ lastSeq' = lastSeq + 1 /\ pc = "event" /\ pc' = "loop"
        /\ UNCHANGED <<epoch, frozenEpoch, frozen, frozenSeq, phase, unread, image, file>>
    BY <1>4 DEF StoreLastSeq
  <2>2. /\ MsReach(frozen)' = MsReach(frozen)
        /\ KgReach(frozen)' = KgReach(frozen)
        /\ \A m \in Member : MemberVal(frozen, m)' = MemberVal(frozen, m)
    BY <1>1, <2>1, SameHeap
  <2>3. Horizon' = Horizon
    BY <2>1 DEF Horizon
  <2>4. SnapshotInv' /\ LiveVersions' /\ FrozenVersions'
    BY <1>1, <1>2, <2>1, <2>2 DEF Inv, SnapshotInv, LiveVersions, FrozenVersions
  <2>5. ContentInv' /\ ViewInv'
    BY <1>1, <1>2, <2>1, <2>2, <2>3 DEF Inv, ContentInv, FileIsACut, ViewInv
  <2> QED
    BY <2>4, <2>5
<1>5. CASE TickFinish \/ DrainFail \/ DrainDone
  <2>1. /\ frozenEpoch' = 0 /\ frozen' = NoKeyGroups /\ phase' = "idle" /\ pc' # "down"
        /\ pc # "event" /\ pc' # "event"
        /\ epoch' \in {epoch, epoch + 1} /\ UNCHANGED <<lastSeq, file>>
    BY <1>5 DEF TickFinish, DrainFail, DrainDone, Finish
  <2>2. Horizon' = Horizon
    BY <2>1 DEF Horizon
  <2>3. SnapshotInv' /\ FrozenVersions'
    BY <2>1 DEF SnapshotInv, FrozenVersions
  <2>4. LiveVersions'
    BY <1>1, <1>2, <1>3, <2>1 DEF Inv, LiveVersions
  <2>5. ContentInv' /\ ViewInv'
    BY <1>1, <1>2, <2>1, <2>2 DEF Inv, ContentInv, FileIsACut, ViewInv
  <2> QED
    BY <2>3, <2>4, <2>5
<1>6. CASE TickBegin
  <2>1. /\ epoch' = epoch + 1 /\ frozenEpoch' = epoch + 1 /\ frozen' = live
        /\ frozenSeq' = lastSeq /\ unread' = Member /\ image' = NothingRead
        /\ phase' = "encode" /\ pc = "loop" /\ UNCHANGED <<pc, lastSeq, file>>
    BY <1>6 DEF TickBegin, BeginSnapshot
  <2>2. KgReach(frozen)' = KgReach(live) /\ MsReach(frozen)' = MsReach(live)
    BY <1>1, <2>1, SameHeap
  <2>3. Horizon = lastSeq /\ Horizon' = lastSeq
    BY <2>1 DEF Horizon
  <2>4. SnapshotInv'
    BY <1>3, <2>1 DEF SnapshotInv
  <2>5. LiveVersions' /\ FrozenVersions'
    BY <1>1, <1>2, <1>3, <2>1, <2>2 DEF Inv, LiveVersions, FrozenVersions
  <2>6. ContentInv'
    BY <1>1, <1>2, <2>1, <2>2, <2>3 DEF Inv, ContentInv, FileIsACut, NothingRead
  <2>7. ViewInv'
    BY <1>2, <2>1 DEF Inv, ViewInv
  <2> QED
    BY <2>4, <2>5, <2>6, <2>7
<1>7. CASE Shutdown
  <2>1. /\ pc = "loop" /\ pc' = "drain"
        /\ UNCHANGED <<lastSeq, epoch, frozenEpoch, frozen, frozenSeq, phase, unread, image, file>>
    BY <1>7 DEF Shutdown, coreVars
  <2>2. /\ MsReach(frozen)' = MsReach(frozen)
        /\ KgReach(frozen)' = KgReach(frozen)
        /\ \A m \in Member : MemberVal(frozen, m)' = MemberVal(frozen, m)
    BY <1>1, <2>1, SameHeap
  <2>3. Horizon' = Horizon
    BY <2>1 DEF Horizon
  <2>4. SnapshotInv' /\ LiveVersions' /\ FrozenVersions'
    BY <1>1, <1>2, <2>1, <2>2 DEF Inv, SnapshotInv, LiveVersions, FrozenVersions
  <2>5. ContentInv' /\ ViewInv'
    BY <1>1, <1>2, <2>1, <2>2, <2>3 DEF Inv, ContentInv, FileIsACut, ViewInv
  <2> QED
    BY <2>4, <2>5
<1>8. CASE DrainFinal
  <2>1. /\ epoch' = epoch + 1 /\ frozenEpoch' = 0 /\ frozen' = NoKeyGroups
        /\ frozenSeq' = lastSeq /\ image' = [m \in Member |-> MemberVal(live, m)]
        /\ phase' = "write" /\ pc = "drain" /\ pc' = "final" /\ UNCHANGED <<lastSeq, file>>
    BY <1>8 DEF DrainFinal
  <2>2. Horizon = lastSeq /\ Horizon' = lastSeq
    BY <2>1 DEF Horizon
  <2>3. \A m \in Member : \A n \in MemberVal(live, m) : n <= lastSeq
    <3>1. \A r \in MsReach(live) : \A n \in msHeap[r].content : n <= lastSeq
      BY <2>2 DEF Inv, ContentInv
    <3> QED
      BY <1>3, <3>1, ValuesBelow
  <2>4. SnapshotInv' /\ FrozenVersions'
    BY <2>1 DEF SnapshotInv, FrozenVersions
  <2>5. LiveVersions'
    BY <1>1, <1>2, <1>3, <2>1 DEF Inv, LiveVersions
  <2>6. ContentInv'
    BY <1>1, <1>2, <2>1, <2>2, <2>3 DEF Inv, ContentInv, FileIsACut
  <2>7. ViewInv'
    BY <1>2, <2>1 DEF Inv, ViewInv
  <2> QED
    BY <2>4, <2>5, <2>6, <2>7
<1> QED
  BY <1>4, <1>5, <1>6, <1>7, <1>8

\* The snapshot goroutine writes no object and only encodes what is frozen.
LEMMA SnapshotStepInv ==
  ASSUME Inv, SnapshotStep
  PROVE  SnapshotInv' /\ LiveVersions' /\ FrozenVersions' /\ ContentInv' /\ ViewInv'
<1> USE DEF coreVars, snapVars, diskVars
<1>1. UNCHANGED <<pc, lastSeq, live, kgHeap, msHeap, epoch, frozenEpoch, frozen, frozenSeq>>
  BY DEF SnapshotStep, EncodeMember, EncodeDone, WriteTmpStart, WriteTmpEnd, Rename, SnapshotFails
<1>2. /\ KgReach(live)' = KgReach(live) /\ MsReach(live)' = MsReach(live)
      /\ KgReach(frozen)' = KgReach(frozen) /\ MsReach(frozen)' = MsReach(frozen)
      /\ \A m \in Member : /\ MemberRef(live, m)' = MemberRef(live, m)
                            /\ MemberVal(frozen, m)' = MemberVal(frozen, m)
  BY <1>1, SameHeap
<1>3. Horizon' = Horizon
  BY <1>1 DEF Horizon
<1>4. phase' = "encode" => phase = "encode"
  BY DEF SnapshotStep, EncodeMember, EncodeDone, WriteTmpStart, WriteTmpEnd, Rename, SnapshotFails
<1>5. SnapshotInv' /\ LiveVersions' /\ FrozenVersions'
  <2>1. pc = "down" => phase = "idle"
    BY DEF Inv, SnapshotInv
  <2>2. phase # "idle"
    BY DEF SnapshotStep, EncodeMember, EncodeDone, WriteTmpStart, WriteTmpEnd, Rename, SnapshotFails
  <2> QED
    BY <1>1, <1>2, <1>4, <2>1, <2>2 DEF Inv, SnapshotInv, LiveVersions, FrozenVersions
<1>6. \A m, p \in Member :
        MemberRef(live, m)' # Nil /\ MemberRef(live, m)' = MemberRef(live, p)' => m = p
  BY <1>2 DEF Inv, ViewInv
<1>7. ASSUME NEW m \in Member, EncodeMember(m) PROVE ContentInv' /\ ViewInv'
  <2>1. /\ phase = "encode" /\ phase' = "encode" /\ file' = file
        /\ unread' = unread \ {m} /\ image' = [image EXCEPT ![m] = MemberVal(frozen, m)]
    BY <1>7 DEF EncodeMember
  <2>2. image \in [Member -> SUBSET Nat] /\ frozenSeq \in Nat /\ HeapTypes
        /\ frozen \in [KeyGroup -> KgRef \cup {Nil}]
    BY DEF Inv, TypeOK, HeapTypes
  <2>3. \A n \in MemberVal(frozen, m) : n <= frozenSeq
    <3>1. \A r \in MsReach(frozen) : \A n \in msHeap[r].content : n <= frozenSeq
      BY <2>1 DEF Inv, SnapshotInv, ContentInv
    <3> QED
      BY <2>2, <3>1, ValuesBelow
  <2>4. \A p \in Member : image'[p] = IF p = m THEN MemberVal(frozen, m) ELSE image[p]
    BY <2>1, <2>2
  <2>5. ContentInv'
    BY <1>1, <1>2, <1>3, <2>1, <2>3, <2>4 DEF Inv, ContentInv, FileIsACut
  <2>6. ViewInv'
    BY <1>2, <2>1, <2>4 DEF Inv, ViewInv
  <2> QED
    BY <2>5, <2>6
<1>8. CASE EncodeDone \/ WriteTmpStart \/ WriteTmpEnd \/ SnapshotFails
  <2>1. /\ phase \in {"encode", "write", "tmp", "rename"} /\ phase' # "encode"
        /\ UNCHANGED <<unread, image, file>>
    BY <1>8 DEF EncodeDone, WriteTmpStart, WriteTmpEnd, SnapshotFails
  <2>2. ContentInv'
    BY <1>1, <1>2, <1>3, <2>1 DEF Inv, ContentInv, FileIsACut
  <2>3. ViewInv'
    BY <1>6, <2>1 DEF ViewInv
  <2> QED
    BY <1>5, <2>2, <2>3
<1>9. CASE Rename
  <2>1. /\ phase = "rename" /\ phase' = "done" /\ file' = tmp /\ UNCHANGED <<unread, image>>
    BY <1>9 DEF Rename
  <2>2. tmp = [members |-> image, lastSeq |-> frozenSeq]
    BY <2>1 DEF Inv, TmpComplete
  <2>3. FileIsACut'
    BY <2>1, <2>2 DEF Inv, ContentInv, FileIsACut
  <2>4. ContentInv'
    BY <1>1, <1>2, <1>3, <2>1, <2>3 DEF Inv, ContentInv
  <2>5. ViewInv'
    BY <1>6, <2>1 DEF ViewInv
  <2> QED
    BY <1>5, <2>4, <2>5
<1> QED
  BY <1>5, <1>7, <1>8, <1>9 DEF SnapshotStep

\* Every step keeps the invariant.
LEMMA InvStep == Inv /\ [Next]_vars => Inv'
<1> SUFFICES ASSUME Inv, [Next]_vars PROVE Inv'
  OBVIOUS
<1>1. TypeOK' /\ TmpComplete'
  BY TypeStep, TmpStep DEF Inv
<1>2. CASE MainStep
  BY <1>1, <1>2, WriteStep, QuietMainStep DEF MainStep, Inv
<1>3. CASE SnapshotStep
  BY <1>1, <1>3, SnapshotStepInv DEF Inv
<1>4. CASE Crash
  <2>1. /\ lastSeq' = 0 /\ live' = NoKeyGroups /\ epoch' = 0 /\ frozenEpoch' = 0
        /\ frozen' = NoKeyGroups /\ phase' = "idle" /\ UNCHANGED file
    BY <1>4 DEF Crash, Lose, Finish, diskVars
  <2>2. SnapshotInv' /\ LiveVersions' /\ FrozenVersions'
    BY <2>1, NilReachesNothing DEF SnapshotInv, LiveVersions, FrozenVersions
  <2>3. ContentInv' /\ ViewInv'
    BY <2>1, NilReachesNothing DEF Inv, ContentInv, FileIsACut, ViewInv
  <2> QED
    BY <1>1, <2>2, <2>3 DEF Inv
<1>5. CASE StartEmpty \/ UNCHANGED vars
  <2>1. /\ UNCHANGED <<lastSeq, live, kgHeap, msHeap, epoch, frozenEpoch, frozen, frozenSeq,
                       phase, unread, image, file>>
        /\ (pc = "down" /\ pc' = "loop") \/ pc' = pc
    BY <1>5 DEF StartEmpty, vars, coreVars, snapVars, diskVars
  <2>2. /\ KgReach(live)' = KgReach(live) /\ MsReach(live)' = MsReach(live)
        /\ KgReach(frozen)' = KgReach(frozen) /\ MsReach(frozen)' = MsReach(frozen)
        /\ \A m \in Member : /\ MemberRef(live, m)' = MemberRef(live, m)
                              /\ MemberVal(frozen, m)' = MemberVal(frozen, m)
    BY <2>1, SameHeap
  <2>3. Horizon' = Horizon
    BY <2>1 DEF Horizon
  <2>4. SnapshotInv' /\ LiveVersions' /\ FrozenVersions'
    BY <2>1, <2>2 DEF Inv, SnapshotInv, LiveVersions, FrozenVersions
  <2>5. ContentInv' /\ ViewInv'
    BY <2>1, <2>2, <2>3 DEF Inv, ContentInv, FileIsACut, ViewInv
  <2> QED
    BY <1>1, <2>4, <2>5 DEF Inv
<1>6. CASE Restore
  BY <1>1, <1>6, RestoreStep DEF Inv
<1> QED
  BY <1>1, <1>2, <1>3, <1>4, <1>5, <1>6 DEF Next, Inv

\* The inductive invariant holds throughout.
THEOREM Invariant == Spec => []Inv
BY InvInit, InvStep, PTL DEF Spec

-----------------------------------------------------------------------------
(* What the invariant gives. *)

\* The file a restart loads never holds anything past its own position.
THEOREM FileAlwaysACut == Spec => []FileIsACut
<1>1. Inv => FileIsACut
  BY DEF Inv, ContentInv
<1> QED
  BY <1>1, Invariant, PTL

\* Steps that are neither a write nor a restore leave every object alone.
LEMMA OnlyWritesWrite ==
  ASSUME [Next]_vars,
         ~Restore, \A m \in Member : ~ProcessEvent(m) /\ ~DrainWrite(m)
  PROVE  UNCHANGED <<kgHeap, msHeap>>
BY DEF Next, MainStep, SnapshotStep, StoreLastSeq, TickFinish, TickBegin, Shutdown, DrainFinal,
   DrainFail, DrainDone, EncodeMember, EncodeDone, WriteTmpStart, WriteTmpEnd, Rename,
   SnapshotFails, Crash, StartEmpty, vars, coreVars

\* A write step, seen through WriteEffect.
LEMMA WriteStepEffect ==
  ASSUME Inv, NEW m \in Member, ProcessEvent(m) \/ DrainWrite(m)
  PROVE  /\ HeapTypes /\ TypeOK /\ lastSeq + 1 \in Nat /\ frozen' = frozen
         /\ \E k \in KgRef, r \in MsRef : Wrote(m, lastSeq + 1, k, r)
<1>1. HeapTypes /\ TypeOK /\ lastSeq + 1 \in Nat /\ epoch \in Nat
  BY DEF Inv, TypeOK, HeapTypes
<1>2. frozen' = frozen /\ MemberForWrite(m, lastSeq + 1)
  BY DEF ProcessEvent, DrainWrite, snapVars
<1> QED
  BY <1>1, <1>2, WriteEffect

\* While a snapshot is being encoded no step writes a map or a member it reaches.
THEOREM FrozenNeverWritten == Spec => FrozenUntouched
<1> DEFINE A == phase = "encode" =>
                  /\ \A k \in KgReach(frozen) : kgHeap'[k] = kgHeap[k]
                  /\ \A r \in MsReach(frozen) : msHeap'[r] = msHeap[r]
<1>1. Inv /\ [Next]_vars => A
  <2> SUFFICES ASSUME Inv, [Next]_vars, phase = "encode" PROVE A
    OBVIOUS
  <2>1. ASSUME NEW m \in Member, ProcessEvent(m) \/ DrainWrite(m) PROVE A
    <3>1. PICK k \in KgRef, r \in MsRef : Wrote(m, lastSeq + 1, k, r)
      BY <2>1, WriteStepEffect
    <3> QED
      BY <2>1, <3>1, WriteStepEffect, WriteFrozen DEF Inv
  <2>2. ~Restore
    BY DEF Inv, SnapshotInv, Restore
  <2> QED
    BY <2>1, <2>2, OnlyWritesWrite
<1> QED
  BY <1>1, Invariant, PTL DEF Spec, FrozenUntouched

\* A member that need not be cloned keeps its object.
LEMMA WriteNotNew ==
  ASSUME HeapTypes, NEW m \in Member, NEW n, MemberForWrite(m, n), ~NewMs(m)
  PROVE  MemberRef(live, m)' = MemberRef(live, m)
<1> DEFINE g == KeyGroupOf[m]
           members == IF live[g] = Nil THEN NoMembers ELSE kgHeap[live[g]].members
<1>1. PICK k \in (IF NewKg(g) THEN FreshKg ELSE {live[g]}) :
        /\ live' = [live EXCEPT ![g] = k]
        /\ kgHeap' = [kgHeap EXCEPT ![k] =
             [members |-> [members EXCEPT ![m] = MemberRef(live, m)],
              version |-> IF NewKg(g) THEN epoch ELSE kgHeap[k].version]]
  BY DEF MemberForWrite
<1>2. g \in KeyGroup /\ k \in KgRef
  BY <1>1 DEF HeapTypes, NewKg, FreshKg
<1>3. members \in [Member -> MsRef \cup {Nil}]
  BY <1>2 DEF HeapTypes, KgObj, NoMembers
<1>4. live'[g] = k /\ kgHeap'[k].members[m] = MemberRef(live, m)
  BY <1>1, <1>2, <1>3 DEF HeapTypes
<1> QED
  BY <1>2, <1>4 DEF MemberRef

\* memberForWrite replaces a member object only when the snapshot in flight
\* reaches it.
THEOREM OnlySharedIsCloned == Spec => CloneOnlyShared
<1> DEFINE A == \A m \in Member :
                  LET old == MemberRef(live, m) IN
                  (/\ old # Nil
                   /\ live'[KeyGroupOf[m]] # Nil
                   /\ MemberRef(live, m)' # old) => /\ frozenEpoch # 0
                                                    /\ old \in MsReach(frozen)
<1>1. Inv /\ [Next]_vars => A
  <2> SUFFICES ASSUME Inv, [Next]_vars, NEW p \in Member,
                      MemberRef(live, p) # Nil, live'[KeyGroupOf[p]] # Nil,
                      MemberRef(live, p)' # MemberRef(live, p)
               PROVE  frozenEpoch # 0 /\ MemberRef(live, p) \in MsReach(frozen)
    OBVIOUS
  <2>1. ASSUME NEW m \in Member, ProcessEvent(m) \/ DrainWrite(m)
        PROVE  frozenEpoch # 0 /\ MemberRef(live, p) \in MsReach(frozen)
    <3>1. NewMs(m) /\ m = p
      <4>1. PICK k \in KgRef, r \in MsRef : Wrote(m, lastSeq + 1, k, r)
        BY <2>1, WriteStepEffect
      <4>2. m = p
        BY <2>1, <4>1, WriteStepEffect, WriteReach
      <4>3. ASSUME ~NewMs(m) PROVE FALSE
        BY <2>1, <4>2, <4>3, WriteStepEffect, WriteNotNew DEF ProcessEvent, DrainWrite
      <4> QED
        BY <4>2, <4>3
    <3>2. Shared(msHeap[MemberRef(live, p)].version)
      BY <3>1 DEF NewMs
    <3>3. MemberRef(live, p) \in MsReach(live)
      BY <2>1, WriteStepEffect, MemberRefReached DEF HeapTypes
    <3> QED
      BY <3>2, <3>3 DEF Shared, Inv, FrozenVersions
  <2>2. ASSUME Restore \/ Crash PROVE FALSE
    <3>1. CASE Crash
      BY <3>1 DEF Crash, Lose, NoKeyGroups
    <3>2. CASE Restore
      BY <3>2 DEF Restore, Inv, SnapshotInv, MemberRef, NoKeyGroups
    <3> QED
      BY <2>2, <3>1, <3>2
  <2>3. ASSUME ~Restore, ~Crash, \A m \in Member : ~ProcessEvent(m) /\ ~DrainWrite(m) PROVE FALSE
    <3>1. live' = live
      BY <2>3 DEF Next, MainStep, SnapshotStep, StoreLastSeq, TickFinish, TickBegin, Shutdown,
         DrainFinal, DrainFail, DrainDone, EncodeMember, EncodeDone, WriteTmpStart, WriteTmpEnd,
         Rename, SnapshotFails, StartEmpty, vars, coreVars
    <3> QED
      BY <2>3, <3>1, OnlyWritesWrite, SameHeap
  <2> QED
    BY <2>1, <2>2, <2>3
<1> QED
  BY <1>1, Invariant, PTL DEF Spec, CloneOnlyShared

-----------------------------------------------------------------------------
(* The copy-on-write snapshot implements the atomic one. *)

\* The state and the snapshot in flight as AtomicSnapshot sees them.
AbsState == [m \in Member |-> MemberVal(live, m)]
FrozenState == [m \in Member |-> MemberVal(frozen, m)]

\* A write changes one member's contents and nothing of the frozen view.
LEMMA WriteValues ==
  ASSUME Inv, NEW m \in Member, ProcessEvent(m) \/ DrainWrite(m)
  PROVE  /\ AbsState' = [AbsState EXCEPT ![m] = @ \cup {lastSeq + 1}]
         /\ FrozenState' = FrozenState
<1>1. HeapTypes /\ TypeOK /\ lastSeq + 1 \in Nat /\ frozen' = frozen
  BY WriteStepEffect
<1>2. PICK k \in KgRef, r \in MsRef : Wrote(m, lastSeq + 1, k, r)
  BY WriteStepEffect
<1>3. /\ MemberRef(live, m)' = r
      /\ \A p \in Member \ {m} : MemberRef(live, p)' = MemberRef(live, p)
  BY <1>1, <1>2, WriteReach
<1>4. MemberVal(live, m)' = MemberVal(live, m) \cup {lastSeq + 1}
  BY <1>2, <1>3 DEF MemberVal, Wrote
<1>5. ASSUME NEW p \in Member \ {m} PROVE MemberVal(live, p)' = MemberVal(live, p)
  <2>1. CASE MemberRef(live, p) = Nil
    BY <1>3, <2>1 DEF MemberVal
  <2>2. CASE MemberRef(live, p) # Nil
    <3>1. MemberRef(live, p) \in MsReach(live)
      BY <1>1, <2>2, MemberRefReached DEF HeapTypes
    <3>2. MemberRef(live, p) # r
      BY <1>2, <2>2, <3>1 DEF Wrote, Inv, ViewInv
    <3>3. msHeap'[MemberRef(live, p)] = msHeap[MemberRef(live, p)]
      BY <1>2, <3>1, <3>2 DEF Wrote, MsReach
    <3> QED
      BY <1>3, <2>2, <3>3 DEF MemberVal
  <2> QED
    BY <2>1, <2>2
<1>6. \A p \in Member : MemberVal(frozen, p)' = MemberVal(frozen, p)
  BY <1>1, <1>2, WriteFrozen DEF Inv
<1> QED
  BY <1>4, <1>5, <1>6 DEF AbsState, FrozenState

\* Steps that leave the heaps and an array alone leave its contents alone.
LEMMA SameValues ==
  ASSUME UNCHANGED <<kgHeap, msHeap>>
  PROVE  /\ live' = live => AbsState' = AbsState
         /\ frozen' = frozen => FrozenState' = FrozenState
         /\ frozen' = live => FrozenState' = AbsState
BY SameHeap DEF AbsState, FrozenState

\* Outside an event the live state holds nothing past lastSeq.
LEMMA AtBoundary ==
  ASSUME Inv, pc # "event"
  PROVE  \A m \in Member : \A n \in AbsState[m] : n <= lastSeq
<1>1. \A r \in MsReach(live) : \A n \in msHeap[r].content : n <= lastSeq
  BY DEF Inv, ContentInv, Horizon
<1>2. HeapTypes /\ live \in [KeyGroup -> KgRef \cup {Nil}] /\ lastSeq \in Nat
  BY DEF Inv, TypeOK, HeapTypes
<1> QED
  BY <1>1, <1>2, ValuesBelow DEF AbsState

\* SnapshotInFlight, by phase, before and after a step.
LEMMA InFlight ==
  /\ phase = "encode" => SnapshotInFlight = [members |-> FrozenState, lastSeq |-> frozenSeq]
  /\ phase \in {"write", "tmp", "rename"} =>
       SnapshotInFlight = [members |-> image, lastSeq |-> frozenSeq]
  /\ phase \in {"idle", "done"} => SnapshotInFlight = NoImage
  /\ phase' = "encode" =>
       SnapshotInFlight' = [members |-> FrozenState', lastSeq |-> frozenSeq']
  /\ phase' \in {"write", "tmp", "rename"} =>
       SnapshotInFlight' = [members |-> image', lastSeq |-> frozenSeq']
  /\ phase' \in {"idle", "done"} => SnapshotInFlight' = NoImage
BY DEF SnapshotInFlight, FrozenState

\* A snapshot in flight is not the marker for none.
LEMMA InFlightIsAnImage ==
  ASSUME Inv, phase \in {"encode", "write", "tmp", "rename"}
  PROVE  SnapshotInFlight # NoImage
<1>1. image \in [Member -> SUBSET Nat] /\ frozenSeq \in Nat /\ HeapTypes
      /\ frozen \in [KeyGroup -> KgRef \cup {Nil}]
  BY DEF Inv, TypeOK, HeapTypes
<1>2. FrozenState \in [Member -> SUBSET Nat]
  BY <1>1, MemberRefType DEF FrozenState
<1>3. SnapshotInFlight \in [members : [Member -> SUBSET Nat], lastSeq : Nat]
  BY <1>1, <1>2, InFlight
<1> QED
  BY <1>3, MarkerAssumption

\* Every step of the pointers is a step of AtomicSnapshot or none at all.
LEMMA RefinementStep == Inv /\ [Next]_vars => [Abs!Next]_(Abs!vars)
<1> SUFFICES ASSUME Inv, [Next]_vars PROVE Abs!Next \/ UNCHANGED Abs!vars
  OBVIOUS
<1> USE DEF coreVars, snapVars, diskVars, AbsState
<1>1. ASSUME NEW m \in Member, ProcessEvent(m) \/ DrainWrite(m) PROVE Abs!Write(m)
  <2>1. UNCHANGED <<lastSeq, frozenSeq, phase, image, file>>
    BY <1>1 DEF ProcessEvent, DrainWrite
  <2>2. SnapshotInFlight' = SnapshotInFlight
    <3>1. FrozenState' = FrozenState
      BY <1>1, WriteValues
    <3>2. phase \in {"idle", "encode", "write", "tmp", "rename", "done"}
      BY DEF Inv, TypeOK
    <3> QED
      BY <2>1, <3>1, <3>2, InFlight
  <2> QED
    BY <1>1, <2>1, <2>2, WriteValues DEF Abs!Write
<1>2. CASE StoreLastSeq
  <2>1. UNCHANGED <<live, kgHeap, msHeap, frozen, frozenSeq, phase, image, file>>
        /\ lastSeq' = lastSeq + 1
    BY <1>2 DEF StoreLastSeq
  <2>2. SnapshotInFlight' = SnapshotInFlight /\ AbsState' = AbsState
    BY <2>1, SameValues, InFlight DEF Inv, TypeOK
  <2> QED
    BY <2>1, <2>2 DEF Abs!Next, Abs!Commit
<1>3. CASE TickBegin \/ DrainFinal
  <2>1. /\ pc # "event" /\ phase \in {"idle", "done"}
        /\ UNCHANGED <<live, kgHeap, msHeap, lastSeq, file>> /\ frozenSeq' = lastSeq
    BY <1>3 DEF TickBegin, BeginSnapshot, DrainFinal
  <2>2. AbsState' = AbsState /\ SnapshotInFlight = NoImage
    BY <2>1, SameValues, InFlight
  <2>3. SnapshotInFlight' = [members |-> AbsState, lastSeq |-> lastSeq]
    <3>1. CASE TickBegin
      BY <2>1, <3>1, SameValues, InFlight DEF TickBegin, BeginSnapshot
    <3>2. CASE DrainFinal
      BY <2>1, <3>2, InFlight DEF DrainFinal
    <3> QED
      BY <1>3, <3>1, <3>2
  <2>4. Abs!Begin
    BY <2>1, <2>2, <2>3, AtBoundary DEF Abs!Begin, Abs!Boundary, Abs!Image
  <2> QED
    BY <2>4 DEF Abs!Next
<1>4. CASE \/ TickFinish \/ Shutdown \/ DrainFail \/ DrainDone \/ StartEmpty \/ UNCHANGED vars
  <2>1. UNCHANGED <<live, kgHeap, msHeap, lastSeq, file>>
    BY <1>4 DEF TickFinish, Shutdown, DrainFail, DrainDone, StartEmpty, vars
  <2>2. \/ phase \in {"idle", "done"} /\ phase' = "idle"
        \/ UNCHANGED <<frozen, frozenSeq, phase, image>>
    BY <1>4 DEF TickFinish, Shutdown, DrainFail, DrainDone, StartEmpty, Finish, vars
  <2>3. SnapshotInFlight' = SnapshotInFlight /\ AbsState' = AbsState
    BY <2>1, <2>2, SameValues, InFlight DEF Inv, TypeOK
  <2> QED
    BY <2>1, <2>3 DEF Abs!vars
<1>5. CASE SnapshotStep
  <2>1. UNCHANGED <<live, kgHeap, msHeap, lastSeq, frozen, frozenSeq>>
    BY <1>5 DEF SnapshotStep, EncodeMember, EncodeDone, WriteTmpStart, WriteTmpEnd, Rename,
       SnapshotFails
  <2>2. AbsState' = AbsState /\ FrozenState' = FrozenState
    BY <2>1, SameValues
  <2>3. CASE \E m \in Member : EncodeMember(m)
    <3>1. phase = "encode" /\ phase' = "encode" /\ file' = file
      BY <2>3 DEF EncodeMember
    <3> QED
      BY <2>1, <2>2, <3>1, InFlight DEF Abs!vars
  <2>4. CASE EncodeDone
    <3>1. phase = "encode" /\ phase' = "write" /\ image' = image /\ file' = file /\ unread = {}
      BY <2>4 DEF EncodeDone
    <3>2. image = FrozenState
      BY <3>1 DEF Inv, ViewInv, TypeOK, FrozenState
    <3> QED
      BY <2>1, <2>2, <3>1, <3>2, InFlight DEF Abs!vars
  <2>5. CASE WriteTmpStart \/ WriteTmpEnd
    <3>1. /\ phase \in {"write", "tmp"} /\ phase' \in {"tmp", "rename"}
          /\ image' = image /\ file' = file
      BY <2>5 DEF WriteTmpStart, WriteTmpEnd
    <3> QED
      BY <2>1, <2>2, <3>1, InFlight DEF Abs!vars
  <2>6. CASE Rename
    <3>1. phase = "rename" /\ phase' = "done" /\ file' = tmp
      BY <2>6 DEF Rename
    <3>2. file' = SnapshotInFlight /\ SnapshotInFlight' = NoImage
      BY <3>1, InFlight DEF Inv, TmpComplete
    <3>3. Abs!Publish
      BY <2>1, <2>2, <3>1, <3>2, InFlightIsAnImage DEF Abs!Publish
    <3> QED
      BY <3>3 DEF Abs!Next
  <2>7. CASE SnapshotFails
    <3>1. /\ phase \in {"encode", "write", "tmp", "rename"} /\ phase' = "done" /\ file' = file
      BY <2>7 DEF SnapshotFails
    <3>2. Abs!Abandon
      BY <2>1, <2>2, <3>1, InFlight, InFlightIsAnImage DEF Abs!Abandon
    <3> QED
      BY <3>2 DEF Abs!Next
  <2> QED
    BY <1>5, <2>3, <2>4, <2>5, <2>6, <2>7 DEF SnapshotStep
<1>6. CASE Crash
  <2>1. lastSeq' = 0 /\ live' = NoKeyGroups /\ phase' = "idle" /\ file' = file
    BY <1>6 DEF Crash, Lose, Finish
  <2>2. AbsState' = [m \in Member |-> {}]
    BY <2>1, NilReachesNothing
  <2>3. Abs!Crash
    BY <2>1, <2>2, InFlight DEF Abs!Crash, Abs!Empty
  <2> QED
    BY <2>3 DEF Abs!Next
<1>7. CASE Restore
  <2>1. /\ pc = "down" /\ file # NoImage /\ lastSeq' = file.lastSeq
        /\ UNCHANGED <<phase, frozenSeq, image, file>>
    BY <1>7 DEF Restore
  <2>2. lastSeq = 0 /\ live = NoKeyGroups /\ phase = "idle"
    BY <2>1 DEF Inv, SnapshotInv
  <2>3. AbsState = [m \in Member |-> {}]
    BY <2>2 DEF MemberVal, MemberRef, NoKeyGroups
  <2>4. file.members \in [Member -> SUBSET Nat]
    BY <1>7, RestoreEffect DEF Inv, Img
  <2>5. AbsState' = file.members
    BY <1>7, <2>4, RestoreEffect DEF Inv
  <2>6. Abs!Restore
    BY <2>1, <2>2, <2>3, <2>5, InFlight DEF Abs!Restore, Abs!Empty
  <2> QED
    BY <2>6 DEF Abs!Next
<1> QED
  BY <1>1, <1>2, <1>3, <1>4, <1>5, <1>6, <1>7 DEF Next, MainStep, Abs!Next

\* The checkpointing implements AtomicSnapshot: what reaches the file is the
\* whole state at one event boundary, and a crash or failure never damages it.
THEOREM Refinement == Spec => ImplementsAtomicSnapshot
<1>1. Init => Abs!Init
  <2> SUFFICES ASSUME Init PROVE Abs!Init
    OBVIOUS
  <2>1. \A m \in Member : MemberVal(live, m) = {}
    BY DEF Init, MemberVal, MemberRef, NoKeyGroups
  <2>2. SnapshotInFlight = NoImage
    BY InFlight DEF Init
  <2> QED
    BY <2>1, <2>2 DEF Init, Abs!Init, Abs!Empty
<1> QED
  BY <1>1, RefinementStep, Invariant, PTL DEF Spec, ImplementsAtomicSnapshot, Abs!Spec
=============================================================================
