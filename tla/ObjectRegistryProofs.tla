------------------------ MODULE ObjectRegistryProofs ------------------------
(***************************************************************************)
(* Proofs about the object registry, for every size of the table, every    *)
(* frame and scope bound and every address layout: its invariants, and     *)
(* that it implements the abstract memory CheckedMemory.                   *)
(***************************************************************************)
EXTENDS ObjectRegistry, TLAPS

-----------------------------------------------------------------------------
(* Type correctness.                                                       *)

\* hs_clear returns a well-formed, empty entry.
LEMMA ClearType ==
    ASSUME NEW e \in HsAlloc
    PROVE  hs_clear(e) \in HsAlloc /\ hs_clear(e).ptr = NULL
BY DEF hs_clear, HsAlloc, Kinds, NULL

\* Rewriting an entry keeps it well formed.
LEMMA RewriteType ==
    ASSUME NEW e \in HsAlloc, NEW p \in Nat, NEW n \in Nat
    PROVE  /\ Moved(e, p, n) \in HsAlloc
           /\ Reallocated(e, p, n) \in HsAlloc
           /\ MarkFreed(e) \in HsAlloc
BY DEF Moved, Reallocated, MarkFreed, HsAlloc, Kinds

\* Taking a slot for a well-formed entry keeps the table well formed.
LEMMA TakeSlotType ==
    ASSUME TypeOK, NEW e \in HsAlloc, TakeSlot(e)
    PROVE  hs_allocs' \in [Slots -> HsAlloc] /\ status' \in Messages \cup {"running"}
BY DEF TypeOK, TakeSlot, Messages, hs_fail, FreeSlots

\* Registering an object keeps the table well formed.
LEMMA RegisterType ==
    ASSUME TypeOK, NEW p \in Nat, NEW n \in Nat, NEW k \in Kinds,
           NEW f \in Nat, NEW s \in Nat, hs_register(p, n, k, f, s)
    PROVE  hs_allocs' \in [Slots -> HsAlloc] /\ status' \in Messages \cup {"running"}
<1>1. [ptr |-> p, size |-> n, frame |-> f, scope |-> s,
       registration_id |-> 0, kind |-> k, freed |-> 0] \in HsAlloc
  BY DEF HsAlloc
<1>. QED
  BY <1>1, TakeSlotType DEF hs_register, hs_fail, Messages, TypeOK

\* The byte count hs_calloc computes is a size.
LEMMA TotalType ==
    ASSUME NEW c \in Nat, NEW n \in Nat
    PROVE  (c * n) % (UINT64_MAX + 1) \in Nat
<1>1. c * n \in Nat
  BY SMT
<1>. QED
  BY <1>1, TableAssumption

\* Allocation, registered or failed, keeps the types.
LEMMA AllocateType ==
    ASSUME TypeOK, NEW n \in Nat, AllocateAndRegister(n)
    PROVE  /\ hs_allocs' \in [Slots -> HsAlloc] /\ status' \in Messages \cup {"running"}
           /\ blocks' \in [HeapAddr -> Nat]
<1>1. PICK a \in Placements(n, NULL) \cup {NULL} :
          IF a = NULL
            THEN hs_fail("allocation returned null") /\ UNCHANGED blocks
            ELSE blocks' = [blocks EXCEPT ![a] = n] /\ hs_register(a, n, "heap", 0, 0)
  BY DEF AllocateAndRegister
<1>2. CASE a = NULL
  BY <1>1, <1>2 DEF hs_fail, Messages, TypeOK
<1>3. CASE a # NULL
  <2>1. a \in HeapAddr /\ a \in Nat
    BY <1>3, AddressAssumption DEF Placements
  <2>2. hs_register(a, n, "heap", 0, 0) /\ blocks' = [blocks EXCEPT ![a] = n]
    BY <1>1, <1>3
  <2>3. hs_allocs' \in [Slots -> HsAlloc] /\ status' \in Messages \cup {"running"}
    BY <2>1, <2>2, RegisterType DEF Kinds
  <2>. QED
    BY <2>1, <2>2, <2>3 DEF TypeOK
<1>. QED
  BY <1>2, <1>3

\* hs_free, accepted or not, keeps the types.
LEMMA FreeType ==
    ASSUME TypeOK, NEW p, Free(p)
    PROVE  /\ hs_allocs' \in [Slots -> HsAlloc] /\ status' \in Messages \cup {"running"}
           /\ blocks' \in [HeapAddr -> Nat]
<1>1. CASE p = NULL
  BY <1>1 DEF Free, TypeOK
<1>2. CASE p # NULL /\ FreeAccepts(p)
  <2>1. PICK i \in Slots : hs_allocs' = [hs_allocs EXCEPT ![i] = MarkFreed(hs_allocs[i])]
    BY <1>2 DEF Free
  <2>2. hs_allocs' \in [Slots -> HsAlloc]
    BY <2>1, RewriteType DEF TypeOK
  <2>. QED
    BY <1>2, <2>2 DEF Free, TypeOK
<1>3. CASE p # NULL /\ ~FreeAccepts(p)
  BY <1>3 DEF Free, TypeOK, Messages, hs_fail
<1>. QED
  BY <1>1, <1>2, <1>3

\* Leaving scopes keeps the types.
LEMMA LeaveScopesType ==
    ASSUME TypeOK, NEW target \in 0 .. SCOPE_MAX, LeaveScopes(target)
    PROVE  /\ hs_allocs' \in [Slots -> HsAlloc]
           /\ hs_frame_scopes' \in [Frames -> 0 .. SCOPE_MAX]
           /\ UNCHANGED <<hs_current_frame, status>>
<1>1. hs_allocs' \in [Slots -> HsAlloc]
  <2>. DEFINE Out(i) == /\ IsAuto(i)
                        /\ hs_allocs[i].frame = hs_current_frame
                        /\ hs_allocs[i].scope > target
                        /\ hs_allocs[i].scope <= hs_frame_scopes[hs_current_frame]
  <2>1. hs_allocs' = [i \in Slots |-> IF Out(i) THEN hs_clear(hs_allocs[i]) ELSE hs_allocs[i]]
    BY DEF LeaveScopes
  <2>2. \A i \in Slots : hs_allocs[i] \in HsAlloc /\ hs_clear(hs_allocs[i]) \in HsAlloc
    BY ClearType DEF TypeOK
  <2>. HIDE DEF Out
  <2>. QED
    BY <2>1, <2>2
<1>2. hs_frame_scopes' \in [Frames -> 0 .. SCOPE_MAX]
  BY DEF LeaveScopes, TypeOK
<1>. QED
  BY <1>1, <1>2 DEF LeaveScopes

\* Every call keeps each slot well formed and the frame and scope counters
\* inside their tables.
LEMMA TypeStep == TypeOK /\ [Next]_vars => TypeOK'
<1>. SUFFICES ASSUME TypeOK, [Next]_vars PROVE TypeOK'
  OBVIOUS
<1>. QED
  <2>. USE TableAssumption
  <2>1. CASE hs_frame_enter
    <3>1. CASE hs_current_frame + 1 >= HS_MAX_FRAMES
      BY <2>1, <3>1 DEF hs_frame_enter, hs_fail, Messages, TypeOK, frameVars
    <3>2. CASE ~(hs_current_frame + 1 >= HS_MAX_FRAMES)
      <4>1. hs_current_frame + 1 \in Frames
        BY <3>2 DEF TypeOK, Frames
      <4>. QED
        BY <2>1, <3>2, <4>1 DEF hs_frame_enter, TypeOK
    <3>. QED
      BY <3>1, <3>2
  <2>2. CASE hs_frame_exit
    <3>1. hs_allocs' \in [Slots -> HsAlloc]
      <4>1. \A i \in Slots : hs_allocs[i] \in HsAlloc /\ hs_clear(hs_allocs[i]) \in HsAlloc
        BY ClearType DEF TypeOK
      <4>2. CASE hs_current_frame = 0
        BY <2>2, <4>2 DEF hs_frame_exit, hs_fail, Messages, TypeOK
      <4>3. CASE hs_current_frame # 0
        <5>. DEFINE Out(i) == IsAuto(i) /\ hs_allocs[i].frame = hs_current_frame
        <5>1. hs_allocs' = [i \in Slots |-> IF Out(i) THEN hs_clear(hs_allocs[i]) ELSE hs_allocs[i]]
          BY <2>2, <4>3 DEF hs_frame_exit
        <5>. HIDE DEF Out
        <5>. QED
          BY <4>1, <5>1
      <4>. QED
        BY <4>2, <4>3
    <3>2. CASE hs_current_frame = 0
      BY <2>2, <3>2 DEF hs_frame_exit, hs_fail, Messages, TypeOK, frameVars
    <3>3. CASE hs_current_frame # 0
      <4>1. hs_current_frame - 1 \in Frames
        BY <3>3 DEF TypeOK, Frames
      <4>. QED
        BY <2>2, <3>1, <3>3, <4>1 DEF hs_frame_exit, TypeOK
    <3>. QED
      BY <3>2, <3>3
  <2>3. CASE hs_scope_enter
    <3>. DEFINE depth == hs_frame_scopes[hs_current_frame]
    <3>1. CASE hs_current_frame = 0 \/ depth = SCOPE_MAX
      BY <2>3, <3>1 DEF hs_scope_enter, hs_fail, Messages, TypeOK, frameVars
    <3>2. CASE ~(hs_current_frame = 0 \/ depth = SCOPE_MAX)
      <4>1. depth + 1 \in 0 .. SCOPE_MAX
        BY <3>2 DEF TypeOK
      <4>. QED
        BY <2>3, <3>2, <4>1 DEF hs_scope_enter, TypeOK
    <3>. QED
      BY <3>1, <3>2
  <2>4. CASE hs_scope_exit
    <3>1. CASE hs_current_frame = 0 \/ hs_frame_scopes[hs_current_frame] = 0
      BY <2>4, <3>1 DEF hs_scope_exit, hs_fail, Messages, TypeOK, frameVars
    <3>2. CASE ~(hs_current_frame = 0 \/ hs_frame_scopes[hs_current_frame] = 0)
      <4>1. hs_frame_scopes[hs_current_frame] - 1 \in 0 .. SCOPE_MAX
        BY <3>2 DEF TypeOK
      <4>. QED
        BY <2>4, <3>2, <4>1, LeaveScopesType DEF hs_scope_exit, TypeOK
    <3>. QED
      BY <3>1, <3>2
  <2>5. CASE \E target \in 0 .. SCOPE_MAX : hs_scope_exit_to(target)
    <3>. PICK target \in 0 .. SCOPE_MAX : hs_scope_exit_to(target)
      BY <2>5
    <3>1. CASE hs_current_frame = 0 \/ target > hs_frame_scopes[hs_current_frame]
      BY <3>1 DEF hs_scope_exit_to, hs_fail, Messages, TypeOK, frameVars
    <3>2. CASE ~(hs_current_frame = 0 \/ target > hs_frame_scopes[hs_current_frame])
      BY <3>2, LeaveScopesType DEF hs_scope_exit_to, TypeOK
    <3>. QED
      BY <3>1, <3>2
  <2>6. CASE \E p \in StackAddr, n \in Sizes \ {0} : hs_register_local(p, n)
    <3>. PICK p \in StackAddr, n \in Sizes \ {0} : hs_register_local(p, n)
      BY <2>6
    <3>1. /\ p \in Nat /\ n \in Nat /\ hs_current_frame \in Nat
          /\ hs_frame_scopes[hs_current_frame] \in Nat
      BY AddressAssumption DEF TypeOK, Frames
    <3>2. hs_allocs' \in [Slots -> HsAlloc] /\ status' \in Messages \cup {"running"}
      BY <3>1, RegisterType DEF hs_register_local, hs_fail, Messages, TypeOK, Kinds
    <3>. QED
      BY <3>2 DEF hs_register_local, TypeOK
  <2>7. CASE \E p \in StackAddr, n \in Sizes, id \in TempIds : hs_register_temporary(p, n, id)
    <3>. PICK p \in StackAddr, n \in Sizes, id \in TempIds : hs_register_temporary(p, n, id)
      BY <2>7
    <3>. DEFINE scope == hs_frame_scopes[hs_current_frame]
                existing == Temporaries(hs_current_frame, scope, id)
                e == [ptr |-> p, size |-> n, frame |-> hs_current_frame,
                      scope |-> scope, registration_id |-> id,
                      kind |-> "temporary", freed |-> 0]
    <3>1. /\ p \in Nat /\ n \in Nat /\ id \in Nat /\ hs_current_frame \in Nat
          /\ scope \in Nat
      BY AddressAssumption DEF TypeOK, Frames
    <3>2. e \in HsAlloc
      BY <3>1 DEF HsAlloc, Kinds
    <3>3. \/ hs_allocs' = hs_allocs /\ status' \in Messages \cup {"running"}
          \/ /\ hs_allocs' = [i \in Slots |->
                    IF hs_find_temporary(hs_current_frame, scope, id, i)
                      THEN hs_clear(hs_allocs[i]) ELSE hs_allocs[i]]
             /\ UNCHANGED status
          \/ /\ \E i \in existing :
                    hs_allocs' = [hs_allocs EXCEPT ![i] = Moved(hs_allocs[i], p, n)]
             /\ UNCHANGED status
          \/ TakeSlot(e)
      BY DEF hs_register_temporary, hs_fail, Messages
    <3>4. \A i \in Slots : hs_allocs[i] \in HsAlloc /\ hs_clear(hs_allocs[i]) \in HsAlloc
      BY ClearType DEF TypeOK
    <3>5. existing \subseteq Slots
      BY DEF Temporaries
    <3>6. hs_allocs' \in [Slots -> HsAlloc] /\ status' \in Messages \cup {"running"}
      <4>1. CASE hs_allocs' = hs_allocs /\ status' \in Messages \cup {"running"}
        BY <4>1 DEF TypeOK
      <4>2. CASE /\ hs_allocs' = [i \in Slots |->
                        IF hs_find_temporary(hs_current_frame, scope, id, i)
                          THEN hs_clear(hs_allocs[i]) ELSE hs_allocs[i]]
                 /\ UNCHANGED status
        BY <3>4, <4>2 DEF TypeOK
      <4>3. CASE /\ \E i \in existing :
                        hs_allocs' = [hs_allocs EXCEPT ![i] = Moved(hs_allocs[i], p, n)]
                 /\ UNCHANGED status
        BY <3>1, <3>5, <4>3, RewriteType DEF TypeOK
      <4>4. CASE TakeSlot(e)
        BY <3>2, <4>4, TakeSlotType
      <4>. QED
        BY <3>3, <4>1, <4>2, <4>3, <4>4
    <3>. QED
      BY <3>6 DEF hs_register_temporary, TypeOK
  <2>8. CASE \E o \in StaticObjects : hs_register_static(o[1], o[2])
    <3>. PICK o \in StaticObjects : hs_register_static(o[1], o[2])
      BY <2>8
    <3>1. o[1] \in Nat /\ o[2] \in Nat
      BY AddressAssumption
    <3>2. hs_allocs' \in [Slots -> HsAlloc] /\ status' \in Messages \cup {"running"}
      BY <3>1, RegisterType DEF hs_register_static, Kinds
    <3>. QED
      BY <3>2 DEF hs_register_static, TypeOK
  <2>9. CASE \E n \in Sizes : hs_alloc(n)
    BY <2>9, AllocateType, AddressAssumption DEF hs_alloc, TypeOK, frameVars
  <2>10. CASE \E count, n \in Sizes : hs_calloc(count, n)
    <3>. PICK count \in Sizes, n \in Sizes : hs_calloc(count, n)
      BY <2>10
    <3>1. (count * n) % (UINT64_MAX + 1) \in Nat
      BY AddressAssumption, TotalType
    <3>. DEFINE total == (count * n) % (UINT64_MAX + 1)
    <3>2. /\ \/ hs_fail("calloc size overflow") /\ UNCHANGED blocks
             \/ UNCHANGED <<hs_allocs, blocks, status>>
             \/ AllocateAndRegister(total)
          /\ UNCHANGED frameVars
      BY DEF hs_calloc
    <3>. HIDE DEF total
    <3>3. total \in Nat
      BY <3>1 DEF total
    <3>. QED
      BY <3>2, <3>3, AllocateType DEF hs_fail, Messages, TypeOK, frameVars
  <2>11. CASE \E p \in Addr \cup {NULL}, n \in Sizes : hs_realloc(p, n)
    <3>. PICK p \in Addr \cup {NULL}, n \in Sizes : hs_realloc(p, n)
      BY <2>11
    <3>0. n \in Nat
      BY AddressAssumption
    <3>1. CASE p = NULL
      BY <3>0, <3>1, AllocateType DEF hs_realloc, TypeOK, frameVars
    <3>2. CASE p # NULL /\ n = 0
      BY <3>2, FreeType DEF hs_realloc, TypeOK, frameVars
    <3>3. CASE p # NULL /\ n # 0 /\ ~FreeAccepts(p)
      BY <3>3 DEF hs_realloc, hs_fail, Messages, TypeOK, frameVars
    <3>4. CASE p # NULL /\ n # 0 /\ FreeAccepts(p)
      <4>1. PICK next \in Placements(n, p) \cup {NULL} :
              IF next = NULL
                THEN hs_fail("realloc returned null") /\ UNCHANGED blocks
                ELSE /\ \E i \in Slots :
                           /\ hs_find(p, i)
                           /\ hs_allocs' = [hs_allocs EXCEPT
                                                ![i] = Reallocated(hs_allocs[i], next, n)]
                     /\ blocks' = [blocks EXCEPT ![p] = 0, ![next] = n]
                     /\ UNCHANGED status
        BY <3>4 DEF hs_realloc
      <4>2. UNCHANGED frameVars
        BY DEF hs_realloc
      <4>3. CASE next = NULL
        BY <4>1, <4>2, <4>3 DEF hs_fail, Messages, TypeOK, frameVars
      <4>4. CASE next # NULL
        <5>1. next \in Nat
          BY <4>4, AddressAssumption DEF Placements
        <5>2. hs_allocs' \in [Slots -> HsAlloc]
          <6>1. PICK i \in Slots :
                   hs_allocs' = [hs_allocs EXCEPT
                                                ![i] = Reallocated(hs_allocs[i], next, n)]
            BY <4>1, <4>4
          <6>. QED
            BY <3>0, <5>1, <6>1, RewriteType DEF TypeOK
        <5>. QED
          BY <3>0, <4>1, <4>2, <4>4, <5>2 DEF TypeOK, frameVars
      <4>. QED
        BY <4>3, <4>4
    <3>. QED
      BY <3>1, <3>2, <3>3, <3>4
  <2>12. CASE \E p \in Addr \cup {NULL} : hs_free(p)
    BY <2>12, FreeType DEF hs_free, TypeOK, frameVars
  <2>13. CASE \E p \in Addr \cup {NULL}, n \in Sizes : hs_check(p, n)
    BY <2>13 DEF hs_check, hs_fail, Messages, TypeOK
  <2>14. CASE Exited
    BY <2>14 DEF Exited, vars, TypeOK
  <2>15. CASE UNCHANGED vars
    BY <2>15 DEF vars, TypeOK
  <2>. QED
    BY <2>1, <2>2, <2>3, <2>4, <2>5, <2>6, <2>7, <2>8, <2>9, <2>10, <2>11,
       <2>12, <2>13, <2>14, <2>15 DEF Next

\* The registry is type correct.
THEOREM TypeCorrect == Spec => []TypeOK
<1>1. Init => TypeOK
  BY TableAssumption DEF Init, TypeOK, NoAlloc, HsAlloc, Kinds, NULL, Frames
<1>. QED
  BY <1>1, TypeStep, PTL DEF Spec

-----------------------------------------------------------------------------
(* What each shape of step does to the table and the allocator.            *)

\* The part of the invariant that does not mention frames and scopes.
StorageInv ==
    /\ StorageByKind
    /\ HeapEntriesAreBlocks
    /\ BlocksAreRegistered
    /\ LiveObjectsDisjoint

\* A nonempty object contains its base address.
LEMMA BaseInBytes ==
    ASSUME NEW p \in Nat, NEW n \in Nat, n # 0
    PROVE  p \in Bytes(p, n)
BY DEF Bytes

\* A failed call leaves the table alone, and a call without effect everything.
LEMMA NoEffectStorage ==
    ASSUME StorageInv, UNCHANGED hs_allocs,
           \/ UNCHANGED <<blocks, status>>
           \/ status' \notin {"running", "conflicting object registration"}
    PROVE  StorageInv'
<1>1. StorageByKind'
  BY DEF StorageInv, StorageByKind
<1>2. HeapEntriesAreBlocks' /\ BlocksAreRegistered'
  BY DEF StorageInv, HeapEntriesAreBlocks, BlocksAreRegistered, IsLive
<1>3. LiveObjectsDisjoint'
  BY DEF StorageInv, LiveObjectsDisjoint, IsLive
<1>. QED
  BY <1>1, <1>2, <1>3 DEF StorageInv

\* Clearing automatic entries, as every scope and frame exit does.
LEMMA ClearStorage ==
    ASSUME StorageInv, UNCHANGED <<blocks, status>>,
           \A i \in Slots : \/ hs_allocs'[i] = hs_allocs[i]
                            \/ IsAuto(i) /\ hs_allocs'[i].ptr = NULL
    PROVE  StorageInv'
<1>1. StorageByKind'
  BY DEF StorageInv, StorageByKind
<1>2. HeapEntriesAreBlocks'
  BY DEF StorageInv, HeapEntriesAreBlocks, IsLive
<1>3. BlocksAreRegistered'
  BY DEF StorageInv, BlocksAreRegistered, IsLive, IsAuto
<1>4. LiveObjectsDisjoint'
  BY DEF StorageInv, LiveObjectsDisjoint, IsLive
<1>. QED
  BY <1>1, <1>2, <1>3, <1>4 DEF StorageInv

\* e may be stored in slot i: it is in the region of its kind and shares no
\* byte with the live object of another slot.
Fits(e, i) ==
    /\ e \in HsAlloc
    /\ e.ptr # NULL /\ e.size # 0 /\ e.freed = 0
    /\ e.kind = "heap" => Bytes(e.ptr, e.size) \subseteq HeapAddr
    /\ e.kind = "static" => /\ <<e.ptr, e.size>> \in StaticObjects
                            /\ e.frame = 0 /\ e.scope = 0
    /\ e.kind \in {"local", "temporary"} => Bytes(e.ptr, e.size) \subseteq StackAddr
    /\ \A j \in Slots \ {i} :
          IsLive(j) => Bytes(hs_allocs[j].ptr, hs_allocs[j].size)
                         \cap Bytes(e.ptr, e.size) = {}

\* Storing an object that fits keeps the regions and the disjointness.
LEMMA PutDisjoint ==
    ASSUME TypeOK, StorageInv, NEW i \in Slots, NEW e, Fits(e, i), UNCHANGED status,
           hs_allocs' = [hs_allocs EXCEPT ![i] = e]
    PROVE  StorageByKind' /\ LiveObjectsDisjoint'
<1>1. /\ hs_allocs'[i] = e
      /\ \A j \in Slots \ {i} : hs_allocs'[j] = hs_allocs[j]
  BY DEF TypeOK
<1>2. StorageByKind'
  BY <1>1 DEF StorageInv, StorageByKind, Fits
<1>3. LiveObjectsDisjoint'
  <2>1. \A j, k \in Slots \ {i} :
           j # k /\ IsLive(j)' /\ IsLive(k)' =>
             (Bytes(hs_allocs[j].ptr, hs_allocs[j].size)
               \cap Bytes(hs_allocs[k].ptr, hs_allocs[k].size) = {})'
    BY <1>1 DEF StorageInv, LiveObjectsDisjoint, IsLive
  <2>2. \A j \in Slots \ {i} : IsLive(j)' =>
             (Bytes(hs_allocs[j].ptr, hs_allocs[j].size)
               \cap Bytes(hs_allocs[i].ptr, hs_allocs[i].size) = {})'
    BY <1>1 DEF Fits, IsLive
  <2>. QED
    BY <2>1, <2>2 DEF StorageInv, LiveObjectsDisjoint
<1>. QED
  BY <1>2, <1>3

\* Registering an automatic or static object in a slot that holds no live block.
LEMMA PutAuto ==
    ASSUME TypeOK, StorageInv, NEW i \in Slots, NEW e, Fits(e, i), e.kind # "heap",
           IsLive(i) => hs_allocs[i].kind # "heap",
           UNCHANGED <<blocks, status>>, hs_allocs' = [hs_allocs EXCEPT ![i] = e]
    PROVE  StorageInv'
<1>1. /\ hs_allocs'[i] = e
      /\ \A j \in Slots \ {i} : hs_allocs'[j] = hs_allocs[j]
  BY DEF TypeOK
<1>2. HeapEntriesAreBlocks'
  BY <1>1 DEF StorageInv, HeapEntriesAreBlocks, IsLive
<1>3. BlocksAreRegistered'
  BY <1>1 DEF StorageInv, BlocksAreRegistered, IsLive
<1>. QED
  BY <1>2, <1>3, PutDisjoint DEF StorageInv

\* Registering the block the allocator has just returned.
LEMMA PutBlock ==
    ASSUME TypeOK, StorageInv, status = "running", NEW i \in FreeSlots, NEW e,
           Fits(e, i), e.kind = "heap", UNCHANGED status,
           blocks' = [blocks EXCEPT ![e.ptr] = e.size],
           hs_allocs' = [hs_allocs EXCEPT ![i] = e]
    PROVE  StorageInv'
<1>0. i \in Slots /\ ~IsLive(i)
  BY DEF FreeSlots, IsLive
<1>1. /\ hs_allocs'[i] = e
      /\ \A j \in Slots \ {i} : hs_allocs'[j] = hs_allocs[j]
  BY <1>0 DEF TypeOK
<1>2. e.ptr \in HeapAddr /\ e.ptr \in Bytes(e.ptr, e.size)
  BY BaseInBytes DEF Fits, HsAlloc
<1>3. \A j \in Slots \ {i} : IsLive(j) => hs_allocs[j].ptr # e.ptr
  <2>. SUFFICES ASSUME NEW j \in Slots \ {i}, IsLive(j) PROVE hs_allocs[j].ptr # e.ptr
    OBVIOUS
  <2>1. hs_allocs[j].ptr \in Bytes(hs_allocs[j].ptr, hs_allocs[j].size)
    BY BaseInBytes DEF StorageInv, StorageByKind, IsLive, TypeOK, HsAlloc
  <2>. QED
    BY <1>2, <2>1 DEF Fits
<1>4. HeapEntriesAreBlocks'
  BY <1>1, <1>2, <1>3 DEF StorageInv, HeapEntriesAreBlocks, IsLive, TypeOK
<1>5. BlocksAreRegistered'
  <2>. SUFFICES ASSUME NEW a \in HeapAddr, blocks'[a] # 0
                PROVE  \E j \in Slots : /\ IsLive(j)'
                                        /\ hs_allocs'[j].kind = "heap"
                                        /\ hs_allocs'[j].ptr = a
    BY DEF BlocksAreRegistered
  <2>1. CASE a = e.ptr
    BY <1>0, <1>1, <2>1 DEF IsLive, Fits
  <2>2. CASE a # e.ptr
    <3>1. blocks[a] # 0
      BY <2>2 DEF TypeOK
    <3>2. PICK j \in Slots : IsLive(j) /\ hs_allocs[j].kind = "heap" /\ hs_allocs[j].ptr = a
      BY <3>1 DEF StorageInv, BlocksAreRegistered
    <3>. QED
      BY <1>0, <1>1, <3>2 DEF IsLive
  <2>. QED
    BY <2>1, <2>2
<1>. QED
  BY <1>0, <1>4, <1>5, PutDisjoint DEF StorageInv

\* Moving or resizing a live block in place of its entry.
LEMMA MoveBlock ==
    ASSUME TypeOK, StorageInv, status = "running", NEW i \in Slots, NEW e,
           IsLive(i), hs_allocs[i].kind = "heap",
           Fits(e, i), e.kind = "heap", UNCHANGED status,
           blocks' = [blocks EXCEPT ![hs_allocs[i].ptr] = 0, ![e.ptr] = e.size],
           hs_allocs' = [hs_allocs EXCEPT ![i] = e]
    PROVE  StorageInv'
<1>1. /\ hs_allocs'[i] = e
      /\ \A j \in Slots \ {i} : hs_allocs'[j] = hs_allocs[j]
  BY DEF TypeOK
<1>2. e.ptr \in HeapAddr /\ e.ptr \in Bytes(e.ptr, e.size)
  BY BaseInBytes DEF Fits, HsAlloc
<1>3. \A j \in Slots \ {i} :
         IsLive(j) => hs_allocs[j].ptr # e.ptr /\ hs_allocs[j].ptr # hs_allocs[i].ptr
  <2>. SUFFICES ASSUME NEW j \in Slots \ {i}, IsLive(j)
                PROVE  hs_allocs[j].ptr # e.ptr /\ hs_allocs[j].ptr # hs_allocs[i].ptr
    OBVIOUS
  <2>1. hs_allocs[j].ptr \in Bytes(hs_allocs[j].ptr, hs_allocs[j].size)
    BY BaseInBytes DEF StorageInv, StorageByKind, IsLive, TypeOK, HsAlloc
  <2>2. hs_allocs[i].ptr \in Bytes(hs_allocs[i].ptr, hs_allocs[i].size)
    BY BaseInBytes DEF StorageInv, StorageByKind, IsLive, TypeOK, HsAlloc
  <2>3. Bytes(hs_allocs[j].ptr, hs_allocs[j].size)
          \cap Bytes(hs_allocs[i].ptr, hs_allocs[i].size) = {}
    BY DEF StorageInv, LiveObjectsDisjoint
  <2>. QED
    BY <1>2, <2>1, <2>2, <2>3 DEF Fits
<1>4. \A a \in HeapAddr : blocks'[a] = IF a = e.ptr THEN e.size
                                       ELSE IF a = hs_allocs[i].ptr THEN 0 ELSE blocks[a]
  BY DEF TypeOK
<1>5. HeapEntriesAreBlocks'
  <2>. SUFFICES ASSUME NEW j \in Slots, IsLive(j)', hs_allocs'[j].kind = "heap"
                PROVE  /\ hs_allocs'[j].ptr \in HeapAddr
                       /\ blocks'[hs_allocs'[j].ptr] = hs_allocs'[j].size
    BY DEF HeapEntriesAreBlocks
  <2>1. CASE j = i
    BY <1>1, <1>2, <1>4, <2>1
  <2>2. CASE j # i
    <3>1. IsLive(j) /\ hs_allocs'[j] = hs_allocs[j]
      BY <1>1, <2>2 DEF IsLive
    <3>2. hs_allocs[j].ptr \in HeapAddr /\ blocks[hs_allocs[j].ptr] = hs_allocs[j].size
      BY <3>1 DEF StorageInv, HeapEntriesAreBlocks
    <3>. QED
      BY <1>3, <1>4, <2>2, <3>1, <3>2
  <2>. QED
    BY <2>1, <2>2
<1>6. BlocksAreRegistered'
  <2>. SUFFICES ASSUME NEW a \in HeapAddr, blocks'[a] # 0
                PROVE  \E j \in Slots : /\ IsLive(j)'
                                        /\ hs_allocs'[j].kind = "heap"
                                        /\ hs_allocs'[j].ptr = a
    BY DEF BlocksAreRegistered
  <2>1. CASE a = e.ptr
    BY <1>1, <2>1 DEF IsLive, Fits
  <2>2. CASE a # e.ptr
    <3>1. blocks[a] # 0 /\ a # hs_allocs[i].ptr
      BY <1>4, <2>2
    <3>2. PICK j \in Slots : IsLive(j) /\ hs_allocs[j].kind = "heap" /\ hs_allocs[j].ptr = a
      BY <3>1 DEF StorageInv, BlocksAreRegistered
    <3>. QED
      BY <1>1, <3>1, <3>2 DEF IsLive
  <2>. QED
    BY <2>1, <2>2
<1>. QED
  BY <1>5, <1>6, PutDisjoint DEF StorageInv

\* Releasing a live block.
LEMMA ReleaseBlock ==
    ASSUME TypeOK, StorageInv, status = "running", NEW i \in Slots,
           IsLive(i), hs_allocs[i].kind = "heap", UNCHANGED status,
           blocks' = [blocks EXCEPT ![hs_allocs[i].ptr] = 0],
           hs_allocs' = [hs_allocs EXCEPT ![i] = MarkFreed(hs_allocs[i])]
    PROVE  StorageInv'
<1>1. /\ hs_allocs'[i] = MarkFreed(hs_allocs[i])
      /\ \A j \in Slots \ {i} : hs_allocs'[j] = hs_allocs[j]
  BY DEF TypeOK
<1>2. ~IsLive(i)' /\ hs_allocs'[i].kind = "heap"
  BY <1>1 DEF IsLive, MarkFreed
<1>3. \A j \in Slots \ {i} : IsLive(j) => hs_allocs[j].ptr # hs_allocs[i].ptr
  <2>. SUFFICES ASSUME NEW j \in Slots \ {i}, IsLive(j)
                PROVE  hs_allocs[j].ptr # hs_allocs[i].ptr
    OBVIOUS
  <2>1. hs_allocs[j].ptr \in Bytes(hs_allocs[j].ptr, hs_allocs[j].size)
    BY BaseInBytes DEF StorageInv, StorageByKind, IsLive, TypeOK, HsAlloc
  <2>2. hs_allocs[i].ptr \in Bytes(hs_allocs[i].ptr, hs_allocs[i].size)
    BY BaseInBytes DEF StorageInv, StorageByKind, IsLive, TypeOK, HsAlloc
  <2>3. Bytes(hs_allocs[j].ptr, hs_allocs[j].size)
          \cap Bytes(hs_allocs[i].ptr, hs_allocs[i].size) = {}
    BY DEF StorageInv, LiveObjectsDisjoint
  <2>. QED
    BY <2>1, <2>2, <2>3
<1>4. StorageByKind'
  BY <1>1 DEF StorageInv, StorageByKind, MarkFreed, IsLive
<1>5. HeapEntriesAreBlocks'
  BY <1>1, <1>2, <1>3 DEF StorageInv, HeapEntriesAreBlocks, IsLive, TypeOK
<1>6. BlocksAreRegistered'
  <2>. SUFFICES ASSUME NEW a \in HeapAddr, blocks'[a] # 0
                PROVE  \E j \in Slots : /\ IsLive(j)'
                                        /\ hs_allocs'[j].kind = "heap"
                                        /\ hs_allocs'[j].ptr = a
    BY DEF BlocksAreRegistered
  <2>1. blocks[a] # 0 /\ a # hs_allocs[i].ptr
    BY DEF TypeOK
  <2>2. PICK j \in Slots : IsLive(j) /\ hs_allocs[j].kind = "heap" /\ hs_allocs[j].ptr = a
    BY <2>1 DEF StorageInv, BlocksAreRegistered
  <2>. QED
    BY <1>1, <2>1, <2>2 DEF IsLive
<1>7. LiveObjectsDisjoint'
  BY <1>1, <1>2 DEF StorageInv, LiveObjectsDisjoint, IsLive
<1>. QED
  BY <1>4, <1>5, <1>6, <1>7 DEF StorageInv

-----------------------------------------------------------------------------
(* Registration and allocation.                                            *)

\* Live objects that are not dynamic lie outside the heap.
LEMMA ApartFromHeap ==
    ASSUME StorageInv, NEW j \in Slots, IsLive(j), hs_allocs[j].kind \in Kinds,
           hs_allocs[j].kind # "heap", NEW X \in SUBSET HeapAddr
    PROVE  Bytes(hs_allocs[j].ptr, hs_allocs[j].size) \cap X = {}
<1>1. \/ Bytes(hs_allocs[j].ptr, hs_allocs[j].size) \subseteq StackAddr
      \/ <<hs_allocs[j].ptr, hs_allocs[j].size>> \in StaticObjects
  BY DEF StorageInv, StorageByKind, IsLive, Kinds
<1>2. CASE Bytes(hs_allocs[j].ptr, hs_allocs[j].size) \subseteq StackAddr
  BY <1>2, LayoutAssumption
<1>3. CASE <<hs_allocs[j].ptr, hs_allocs[j].size>> \in StaticObjects
  <2>1. Bytes(hs_allocs[j].ptr, hs_allocs[j].size) \subseteq StaticAddr
    BY <1>3 DEF StaticAddr
  <2>. QED
    BY <2>1, LayoutAssumption
<1>. QED
  BY <1>1, <1>2, <1>3

\* The only live object that shares a byte with the one presented for
\* registration is the same object, registered before.
OnlySelf(p, n, k, f, s) ==
    \A j \in Slots :
       IsLive(j) /\ Bytes(hs_allocs[j].ptr, hs_allocs[j].size) \cap Bytes(p, n) # {}
       => j \in Exact(p, k, f, s) /\ hs_allocs[j].size = n

\* Static objects are those of the program, locals lie on the stack.
InRegion(p, n, k, f, s) ==
    /\ k = "static" => <<p, n>> \in StaticObjects /\ f = 0 /\ s = 0
    /\ k = "local" => Bytes(p, n) \subseteq StackAddr

\* hs_register, when the only live object that shares a byte with the new one
\* is the new one itself: nothing, "registry is full", or a fresh slot.
LEMMA RegisterCases ==
    ASSUME TypeOK, StorageInv, NEW p \in Nat \ {0}, NEW n \in Nat \ {0},
           NEW k, NEW f, NEW s, hs_register(p, n, k, f, s),
           OnlySelf(p, n, k, f, s)
    PROVE  \/ UNCHANGED <<hs_allocs, status>> /\ Exact(p, k, f, s) # {}
           \/ UNCHANGED hs_allocs /\ status' = "object registry is full"
           \/ /\ \E i \in FreeSlots :
                    hs_allocs' = [hs_allocs EXCEPT ![i] =
                        [ptr |-> p, size |-> n, frame |-> f, scope |-> s,
                         registration_id |-> 0, kind |-> k, freed |-> 0]]
              /\ UNCHANGED status
              /\ \A j \in Slots :
                    IsLive(j) => Bytes(hs_allocs[j].ptr, hs_allocs[j].size)
                                   \cap Bytes(p, n) = {}
<1>1. p # NULL /\ n # 0 /\ p \in Bytes(p, n)
  BY BaseInBytes DEF NULL
<1>2. \A i \in Exact(p, k, f, s) : hs_allocs[i].size = n
  <2>. SUFFICES ASSUME NEW i \in Exact(p, k, f, s) PROVE hs_allocs[i].size = n
    OBVIOUS
  <2>1. i \in Slots /\ IsLive(i) /\ hs_allocs[i].ptr = p
    BY <1>1 DEF Exact, IsLive
  <2>2. p \in Bytes(hs_allocs[i].ptr, hs_allocs[i].size)
    BY <2>1, BaseInBytes DEF StorageInv, StorageByKind, IsLive, TypeOK, HsAlloc
  <2>. QED
    BY <1>1, <2>1, <2>2 DEF OnlySelf
<1>3. CASE Exact(p, k, f, s) # {}
  BY <1>1, <1>2, <1>3 DEF hs_register
<1>4. CASE Exact(p, k, f, s) = {}
  <2>1. TakeSlot([ptr |-> p, size |-> n, frame |-> f, scope |-> s,
                  registration_id |-> 0, kind |-> k, freed |-> 0])
    BY <1>1, <1>4 DEF hs_register
  <2>2. \A j \in Slots :
           IsLive(j) => Bytes(hs_allocs[j].ptr, hs_allocs[j].size) \cap Bytes(p, n) = {}
    BY <1>4 DEF OnlySelf
  <2>. QED
    BY <2>1, <2>2 DEF TakeSlot, hs_fail
<1>. QED
  BY <1>3, <1>4

\* Registering an automatic or static object in its region.
LEMMA RegisterAutoStorage ==
    ASSUME TypeOK, StorageInv, NEW p \in Nat \ {0}, NEW n \in Nat \ {0},
           NEW k \in {"static", "local"}, NEW f \in Nat, NEW s \in Nat,
           hs_register(p, n, k, f, s), UNCHANGED blocks,
           InRegion(p, n, k, f, s), OnlySelf(p, n, k, f, s)
    PROVE  StorageInv'
<1>. DEFINE e == [ptr |-> p, size |-> n, frame |-> f, scope |-> s,
                  registration_id |-> 0, kind |-> k, freed |-> 0]
<1>0. \/ UNCHANGED <<hs_allocs, status>>
      \/ UNCHANGED hs_allocs /\ status' = "object registry is full"
      \/ /\ \E i \in FreeSlots : hs_allocs' = [hs_allocs EXCEPT ![i] = e]
         /\ UNCHANGED status
         /\ \A j \in Slots :
               IsLive(j) => Bytes(hs_allocs[j].ptr, hs_allocs[j].size)
                              \cap Bytes(p, n) = {}
  BY RegisterCases
<1>1. CASE UNCHANGED <<hs_allocs, status>>
  BY <1>1, NoEffectStorage
<1>2. CASE UNCHANGED hs_allocs /\ status' = "object registry is full"
  BY <1>2, NoEffectStorage
<1>3. CASE /\ \E i \in FreeSlots : hs_allocs' = [hs_allocs EXCEPT ![i] = e]
           /\ UNCHANGED status
           /\ \A j \in Slots :
                 IsLive(j) => Bytes(hs_allocs[j].ptr, hs_allocs[j].size)
                                \cap Bytes(p, n) = {}
  <2>1. PICK i \in FreeSlots : hs_allocs' = [hs_allocs EXCEPT ![i] = e]
    BY <1>3
  <2>2. e \in HsAlloc
    BY DEF HsAlloc, Kinds
  <2>3. Fits(e, i)
    BY <1>3, <2>2 DEF Fits, NULL, InRegion
  <2>4. i \in Slots /\ ~IsLive(i) /\ e.kind # "heap"
    BY DEF FreeSlots, IsLive
  <2>. HIDE DEF e
  <2>. QED
    BY <1>3, <2>1, <2>3, <2>4, PutAuto
<1>. QED
  BY <1>0, <1>1, <1>2, <1>3

\* Storage the allocator may hand out shares no byte with a live object,
\* the block that is being resized excepted.
LEMMA PlacementsApart ==
    ASSUME TypeOK, StorageInv, status = "running", NEW n \in Nat, NEW moved,
           NEW a \in Placements(n, moved), NEW j \in Slots, IsLive(j),
           hs_allocs[j].ptr # moved
    PROVE  Bytes(hs_allocs[j].ptr, hs_allocs[j].size) \cap Bytes(a, n) = {}
<1>1. Bytes(a, n) \subseteq HeapAddr
  BY DEF Placements
<1>2. CASE hs_allocs[j].kind # "heap"
  BY <1>1, <1>2, ApartFromHeap DEF TypeOK, HsAlloc
<1>3. CASE hs_allocs[j].kind = "heap"
  <2>1. /\ hs_allocs[j].ptr \in HeapAddr \ {moved}
        /\ blocks[hs_allocs[j].ptr] = hs_allocs[j].size
        /\ hs_allocs[j].size # 0
    BY <1>3 DEF StorageInv, HeapEntriesAreBlocks, StorageByKind, IsLive
  <2>. QED
    BY <2>1 DEF Placements
<1>. QED
  BY <1>2, <1>3

\* hs_alloc, hs_calloc and hs_realloc(NULL, n).
LEMMA AllocateStorage ==
    ASSUME TypeOK, StorageInv, status = "running", NEW n \in Nat \ {0},
           AllocateAndRegister(n)
    PROVE  StorageInv'
<1>1. PICK a \in Placements(n, NULL) \cup {NULL} :
          IF a = NULL
            THEN hs_fail("allocation returned null") /\ UNCHANGED blocks
            ELSE blocks' = [blocks EXCEPT ![a] = n] /\ hs_register(a, n, "heap", 0, 0)
  BY DEF AllocateAndRegister
<1>2. CASE a = NULL
  BY <1>1, <1>2, NoEffectStorage DEF hs_fail
<1>3. CASE a # NULL
  <2>. DEFINE e == [ptr |-> a, size |-> n, frame |-> 0, scope |-> 0,
                    registration_id |-> 0, kind |-> "heap", freed |-> 0]
  <2>1. a \in Placements(n, NULL) /\ a \in Nat \ {0} /\ Bytes(a, n) \subseteq HeapAddr
    BY <1>3, AddressAssumption DEF Placements, NULL
  <2>2. blocks' = [blocks EXCEPT ![a] = n] /\ hs_register(a, n, "heap", 0, 0)
    BY <1>1, <1>3
  <2>3. \A j \in Slots : IsLive(j) =>
           Bytes(hs_allocs[j].ptr, hs_allocs[j].size) \cap Bytes(a, n) = {}
    BY <2>1, PlacementsApart DEF IsLive
  <2>4. CASE UNCHANGED <<hs_allocs, status>> /\ Exact(a, "heap", 0, 0) # {}
    <3>1. PICK j \in Slots : hs_allocs[j].ptr = a /\ hs_allocs[j].freed = 0
      BY <2>4 DEF Exact
    <3>2. IsLive(j) /\ a \in Bytes(hs_allocs[j].ptr, hs_allocs[j].size) /\ a \in Bytes(a, n)
      BY <2>1, <3>1, BaseInBytes DEF StorageInv, StorageByKind, IsLive, TypeOK, HsAlloc, NULL
    <3>. QED
      BY <2>3, <3>2
  <2>5. CASE UNCHANGED hs_allocs /\ status' = "object registry is full"
    BY <2>5, NoEffectStorage
  <2>6. CASE (\E i \in FreeSlots : hs_allocs' = [hs_allocs EXCEPT ![i] = e]) /\ UNCHANGED status
    <3>1. PICK i \in FreeSlots : hs_allocs' = [hs_allocs EXCEPT ![i] = e]
      BY <2>6
    <3>2. e \in HsAlloc
      BY <2>1 DEF HsAlloc, Kinds
    <3>3. Fits(e, i) /\ e.kind = "heap" /\ e.ptr = a /\ e.size = n
      BY <2>1, <2>3, <3>2 DEF Fits, NULL
    <3>. HIDE DEF e
    <3>. QED
      BY <2>2, <2>6, <3>1, <3>3, PutBlock
  <2>. QED
    BY <2>1, <2>2, <2>3, <2>4, <2>5, <2>6, RegisterCases DEF OnlySelf
<1>. QED
  BY <1>2, <1>3

\* The entry that FreeAccepts recognises.
LEMMA AcceptedEntry ==
    ASSUME TypeOK, NEW p, FreeAccepts(p), NEW i \in Slots, hs_find(p, i)
    PROVE  IsLive(i) /\ hs_allocs[i].kind = "heap" /\ hs_allocs[i].ptr = p
<1>1. PICK j \in Slots : /\ hs_find(p, j) /\ hs_allocs[j].ptr = p
                         /\ hs_allocs[j].kind = "heap" /\ hs_allocs[j].freed = 0
  BY DEF FreeAccepts
<1>2. i \in Containing(p) /\ j \in Containing(p) /\ i <= j /\ j <= i
  BY <1>1 DEF hs_find, IsFirst
<1>3. i = j
  BY <1>2, TableAssumption DEF Slots
<1>. QED
  BY <1>1, <1>2, <1>3 DEF Containing, IsLive

\* hs_free.
LEMMA FreeStorage ==
    ASSUME TypeOK, StorageInv, status = "running", NEW p, Free(p)
    PROVE  StorageInv'
<1>1. CASE p = NULL
  BY <1>1, NoEffectStorage DEF Free
<1>2. CASE p # NULL /\ FreeAccepts(p)
  <2>1. PICK i \in Slots : /\ hs_find(p, i)
                           /\ hs_allocs' = [hs_allocs EXCEPT ![i] = MarkFreed(hs_allocs[i])]
    BY <1>2 DEF Free
  <2>2. IsLive(i) /\ hs_allocs[i].kind = "heap" /\ hs_allocs[i].ptr = p
    BY <1>2, <2>1, AcceptedEntry
  <2>3. blocks' = [blocks EXCEPT ![hs_allocs[i].ptr] = 0] /\ UNCHANGED status
    BY <1>2, <2>2 DEF Free
  <2>. QED
    BY <2>1, <2>2, <2>3, ReleaseBlock
<1>3. CASE p # NULL /\ ~FreeAccepts(p)
  BY <1>3, NoEffectStorage DEF Free, hs_fail
<1>. QED
  BY <1>1, <1>2, <1>3

\* hs_realloc of a live block.
LEMMA ReallocStorage ==
    ASSUME TypeOK, StorageInv, status = "running", NEW n \in Nat \ {0}, NEW p,
           FreeAccepts(p), NEW i \in Slots, hs_find(p, i), NEW next \in Placements(n, p),
           hs_allocs' = [hs_allocs EXCEPT ![i] = Reallocated(hs_allocs[i], next, n)],
           blocks' = [blocks EXCEPT ![p] = 0, ![next] = n], UNCHANGED status
    PROVE  StorageInv'
<1>. DEFINE e == Reallocated(hs_allocs[i], next, n)
<1>1. IsLive(i) /\ hs_allocs[i].kind = "heap" /\ hs_allocs[i].ptr = p
  BY AcceptedEntry
<1>2. next \in Nat \ {0} /\ Bytes(next, n) \subseteq HeapAddr
  BY AddressAssumption DEF Placements
<1>3. \A j \in Slots \ {i} : IsLive(j) => hs_allocs[j].ptr # p
  <2>. SUFFICES ASSUME NEW j \in Slots \ {i}, IsLive(j) PROVE hs_allocs[j].ptr # p
    OBVIOUS
  <2>1. /\ hs_allocs[j].ptr \in Bytes(hs_allocs[j].ptr, hs_allocs[j].size)
        /\ hs_allocs[i].ptr \in Bytes(hs_allocs[i].ptr, hs_allocs[i].size)
    BY <1>1, BaseInBytes DEF StorageInv, StorageByKind, IsLive, TypeOK, HsAlloc
  <2>. QED
    BY <1>1, <2>1 DEF StorageInv, LiveObjectsDisjoint
<1>4. \A j \in Slots \ {i} : IsLive(j) =>
         Bytes(hs_allocs[j].ptr, hs_allocs[j].size) \cap Bytes(next, n) = {}
  BY <1>3, PlacementsApart
<1>5. e.ptr = next /\ e.size = n /\ e.kind = "heap" /\ e.freed = 0
  BY DEF Reallocated
<1>6. e \in HsAlloc
  BY <1>2, RewriteType DEF TypeOK
<1>. HIDE DEF e
<1>7. Fits(e, i)
  BY <1>2, <1>4, <1>5, <1>6 DEF Fits, NULL
<1>8. /\ hs_allocs' = [hs_allocs EXCEPT ![i] = e]
      /\ blocks' = [blocks EXCEPT ![hs_allocs[i].ptr] = 0, ![e.ptr] = e.size]
  BY <1>1, <1>5 DEF e
<1>. QED
  BY <1>1, <1>5, <1>7, <1>8, MoveBlock

-----------------------------------------------------------------------------
(* The two halves of the inductive step.                                   *)

\* Every call preserves the storage invariant.
LEMMA StorageStep == TypeOK /\ StorageInv /\ [Next]_vars => StorageInv'
<1>. SUFFICES ASSUME TypeOK, StorageInv, [Next]_vars PROVE StorageInv'
  OBVIOUS
<1>1. CASE hs_frame_enter
  BY <1>1, NoEffectStorage DEF hs_frame_enter, hs_fail
<1>2. CASE hs_frame_exit
  <2>1. CASE hs_current_frame = 0
    BY <1>2, <2>1, NoEffectStorage DEF hs_frame_exit, hs_fail
  <2>2. CASE hs_current_frame # 0
    <3>1. \A i \in Slots : \/ hs_allocs'[i] = hs_allocs[i]
                           \/ IsAuto(i) /\ hs_allocs'[i].ptr = NULL
      BY <1>2, <2>2 DEF hs_frame_exit, hs_clear
    <3>. QED
      BY <1>2, <2>2, <3>1, ClearStorage DEF hs_frame_exit
  <2>. QED
    BY <2>1, <2>2
<1>3. CASE hs_scope_enter
  BY <1>3, NoEffectStorage DEF hs_scope_enter, hs_fail
<1>4. ASSUME NEW target, LeaveScopes(target), UNCHANGED blocks
      PROVE  StorageInv'
  <2>1. \A i \in Slots : \/ hs_allocs'[i] = hs_allocs[i]
                         \/ IsAuto(i) /\ hs_allocs'[i].ptr = NULL
    BY <1>4 DEF LeaveScopes, hs_clear
  <2>. QED
    BY <1>4, <2>1, ClearStorage DEF LeaveScopes
<1>5. CASE hs_scope_exit
  BY <1>4, <1>5, NoEffectStorage DEF hs_scope_exit, hs_fail
<1>6. CASE \E target \in 0 .. SCOPE_MAX : hs_scope_exit_to(target)
  BY <1>4, <1>6, NoEffectStorage DEF hs_scope_exit_to, hs_fail
<1>7. CASE \E p \in StackAddr, n \in Sizes \ {0} : hs_register_local(p, n)
  <2>. PICK p \in StackAddr, n \in Sizes \ {0} : hs_register_local(p, n)
    BY <1>7
  <2>0. hs_current_frame \in Nat /\ hs_frame_scopes[hs_current_frame] \in Nat
    BY TableAssumption DEF TypeOK, Frames
  <2>. PICK f \in Nat, s \in Nat : f = hs_current_frame /\ s = hs_frame_scopes[hs_current_frame]
    BY <2>0
  <2>1. p \in Nat \ {0} /\ n \in Nat \ {0}
    BY AddressAssumption
  <2>2. OnlySelf(p, n, "local", f, s) /\ InRegion(p, n, "local", f, s)
    BY DEF hs_register_local, OnStack, OnlySelf, InRegion
  <2>3. CASE f = 0
    BY <2>3, NoEffectStorage DEF hs_register_local, hs_fail
  <2>4. CASE f # 0
    <3>1. hs_register(p, n, "local", f, s) /\ UNCHANGED blocks
      BY <2>4 DEF hs_register_local
    <3>. QED
      BY <2>1, <2>2, <3>1, RegisterAutoStorage
  <2>. QED
    BY <2>3, <2>4
<1>8. CASE \E p \in StackAddr, n \in Sizes, id \in TempIds : hs_register_temporary(p, n, id)
  <2>. PICK p \in StackAddr, n \in Sizes, id \in TempIds : hs_register_temporary(p, n, id)
    BY <1>8
  <2>. DEFINE scope == hs_frame_scopes[hs_current_frame]
              existing == Temporaries(hs_current_frame, scope, id)
              e == [ptr |-> p, size |-> n, frame |-> hs_current_frame,
                    scope |-> scope, registration_id |-> id,
                    kind |-> "temporary", freed |-> 0]
  <2>1. /\ p \in Nat \ {0} /\ n \in Nat /\ id \in Nat /\ hs_current_frame \in Nat
        /\ scope \in Nat
    BY AddressAssumption, TableAssumption DEF TypeOK, Frames
  <2>b. UNCHANGED blocks
    BY DEF hs_register_temporary
  <2>2. /\ Bytes(p, n) \subseteq StackAddr
        /\ \A i \in Slots \ {j \in existing :
                               hs_find_temporary(hs_current_frame, scope, id, j)} :
              IsLive(i) => Bytes(hs_allocs[i].ptr, hs_allocs[i].size) \cap Bytes(p, n) = {}
    BY DEF hs_register_temporary, OnStack
  <2>3. \A i \in existing : /\ i \in Slots /\ IsLive(i) /\ IsAuto(i)
                            /\ hs_allocs[i].kind = "temporary"
    BY DEF Temporaries, IsLive, IsAuto
  <2>4. CASE hs_current_frame = 0
    BY <2>b, <2>4, NoEffectStorage DEF hs_register_temporary, hs_fail
  <2>5. CASE hs_current_frame # 0 /\ n = 0
    <3>1. hs_allocs' = [i \in Slots |->
                    IF hs_find_temporary(hs_current_frame, scope, id, i)
                      THEN hs_clear(hs_allocs[i]) ELSE hs_allocs[i]] /\ UNCHANGED status
      BY <2>5 DEF hs_register_temporary
    <3>2. \A i \in Slots : hs_find_temporary(hs_current_frame, scope, id, i) => i \in existing
      BY DEF hs_find_temporary, IsFirst
    <3>3. \A i \in Slots : \/ hs_allocs'[i] = hs_allocs[i]
                           \/ IsAuto(i) /\ hs_allocs'[i].ptr = NULL
      BY <2>3, <3>1, <3>2 DEF hs_clear
    <3>. QED
      BY <2>b, <3>1, <3>3, ClearStorage
  <2>6. CASE hs_current_frame # 0 /\ n # 0 /\ existing # {}
    <3>1. PICK i \in existing :
             /\ hs_find_temporary(hs_current_frame, scope, id, i)
             /\ hs_allocs' = [hs_allocs EXCEPT ![i] = Moved(hs_allocs[i], p, n)]
             /\ UNCHANGED status
      BY <2>1, <2>6 DEF hs_register_temporary, NULL
    <3>2. \A j \in Slots \ {i} :
             IsLive(j) => Bytes(hs_allocs[j].ptr, hs_allocs[j].size) \cap Bytes(p, n) = {}
      <4>1. \A j \in existing : hs_find_temporary(hs_current_frame, scope, id, j) => j = i
        BY <2>3, <3>1, TableAssumption DEF hs_find_temporary, IsFirst, Slots
      <4>. QED
        BY <2>2, <4>1
    <3>3. /\ i \in Slots /\ hs_allocs[i] \in HsAlloc /\ hs_allocs[i].freed = 0
          /\ hs_allocs[i].kind = "temporary"
      BY <2>3 DEF TypeOK, IsLive
    <3>. DEFINE m == Moved(hs_allocs[i], p, n)
    <3>4. /\ m \in HsAlloc /\ m.ptr = p /\ m.size = n /\ m.freed = 0
          /\ m.kind = "temporary"
      BY <2>1, <3>3, RewriteType DEF Moved
    <3>. HIDE DEF m
    <3>5. Fits(m, i)
      BY <2>1, <2>2, <2>6, <3>2, <3>4 DEF Fits, NULL
    <3>6. hs_allocs' = [hs_allocs EXCEPT ![i] = m] /\ UNCHANGED <<blocks, status>>
      BY <2>b, <3>1 DEF m
    <3>. QED
      BY <3>3, <3>4, <3>5, <3>6, PutAuto
  <2>7. CASE hs_current_frame # 0 /\ n # 0 /\ existing = {}
    <3>1. TakeSlot(e)
      BY <2>1, <2>7 DEF hs_register_temporary, NULL
    <3>2. e \in HsAlloc
      BY <2>1 DEF HsAlloc, Kinds
    <3>3. CASE FreeSlots = {}
      BY <2>b, <3>1, <3>3, NoEffectStorage DEF TakeSlot, hs_fail
    <3>4. CASE FreeSlots # {}
      <4>1. PICK i \in FreeSlots : hs_allocs' = [hs_allocs EXCEPT ![i] = e] /\ UNCHANGED status
        BY <3>1, <3>4 DEF TakeSlot
      <4>2. i \in Slots /\ ~IsLive(i)
        BY DEF FreeSlots, IsLive
      <4>3. Fits(e, i) /\ e.kind # "heap"
        BY <2>1, <2>2, <2>7, <3>2 DEF Fits, NULL
      <4>. HIDE DEF e
      <4>. QED
        BY <2>b, <4>1, <4>2, <4>3, PutAuto
    <3>. QED
      BY <3>3, <3>4
  <2>. QED
    BY <2>4, <2>5, <2>6, <2>7
<1>9. CASE \E o \in StaticObjects : hs_register_static(o[1], o[2])
  <2>. PICK o \in StaticObjects : hs_register_static(o[1], o[2])
    BY <1>9
  <2>1. o[1] \in Nat \ {0} /\ o[2] \in Nat \ {0} /\ o = <<o[1], o[2]>>
    BY AddressAssumption
  <2>2. OnlySelf(o[1], o[2], "static", 0, 0)
    <3>. SUFFICES ASSUME NEW j \in Slots, IsLive(j),
                         Bytes(hs_allocs[j].ptr, hs_allocs[j].size)
                           \cap Bytes(o[1], o[2]) # {}
                  PROVE  j \in Exact(o[1], "static", 0, 0) /\ hs_allocs[j].size = o[2]
      BY DEF OnlySelf
    <3>1. Bytes(o[1], o[2]) \cap (HeapAddr \cup StackAddr) = {}
      <4>1. Bytes(o[1], o[2]) \subseteq StaticAddr
        BY DEF StaticAddr
      <4>. QED
        BY <4>1, LayoutAssumption
    <3>2. hs_allocs[j].kind = "static"
      BY <3>1 DEF StorageInv, StorageByKind, IsLive, TypeOK, HsAlloc, Kinds
    <3>. DEFINE q == <<hs_allocs[j].ptr, hs_allocs[j].size>>
    <3>3. /\ q \in StaticObjects /\ q[1] = hs_allocs[j].ptr /\ q[2] = hs_allocs[j].size
          /\ hs_allocs[j].frame = 0 /\ hs_allocs[j].scope = 0 /\ hs_allocs[j].freed = 0
      BY <3>2 DEF StorageInv, StorageByKind, IsLive
    <3>. HIDE DEF q
    <3>4. q = o
      BY <3>3, LayoutAssumption
    <3>. QED
      BY <3>2, <3>3, <3>4 DEF Exact
  <2>3. InRegion(o[1], o[2], "static", 0, 0)
    BY <2>1 DEF InRegion
  <2>. QED
    BY <2>1, <2>2, <2>3, RegisterAutoStorage DEF hs_register_static
<1>10. CASE \E n \in Sizes : hs_alloc(n)
  <2>. PICK n \in Sizes : hs_alloc(n)
    BY <1>10
  <2>1. CASE n = 0
    BY <2>1, NoEffectStorage DEF hs_alloc
  <2>2. CASE n # 0
    BY <2>2, AllocateStorage, AddressAssumption DEF hs_alloc
  <2>. QED
    BY <2>1, <2>2
<1>11. CASE \E count, n \in Sizes : hs_calloc(count, n)
  <2>. PICK count \in Sizes, n \in Sizes : hs_calloc(count, n)
    BY <1>11
  <2>. DEFINE total == (count * n) % (UINT64_MAX + 1)
  <2>1. total \in Nat
    BY AddressAssumption, TotalType
  <2>2. /\ status = "running"
        /\ \/ hs_fail("calloc size overflow") /\ UNCHANGED blocks
           \/ total = 0 /\ UNCHANGED <<hs_allocs, blocks, status>>
           \/ total # 0 /\ AllocateAndRegister(total)
    BY DEF hs_calloc
  <2>. HIDE DEF total
  <2>. QED
    BY <2>1, <2>2, AllocateStorage, NoEffectStorage DEF hs_fail
<1>12. CASE \E p \in Addr \cup {NULL}, n \in Sizes : hs_realloc(p, n)
  <2>. PICK p \in Addr \cup {NULL}, n \in Sizes : hs_realloc(p, n)
    BY <1>12
  <2>0. n \in Nat /\ status = "running"
    BY AddressAssumption DEF hs_realloc
  <2>1. CASE p = NULL /\ n = 0
    BY <2>1, NoEffectStorage DEF hs_realloc
  <2>2. CASE p = NULL /\ n # 0
    BY <2>0, <2>2, AllocateStorage DEF hs_realloc
  <2>3. CASE p # NULL /\ n = 0
    BY <2>0, <2>3, FreeStorage DEF hs_realloc
  <2>4. CASE p # NULL /\ n # 0 /\ ~FreeAccepts(p)
    BY <2>4, NoEffectStorage DEF hs_realloc, hs_fail
  <2>5. CASE p # NULL /\ n # 0 /\ FreeAccepts(p)
    <3>1. PICK next \in Placements(n, p) \cup {NULL} :
            IF next = NULL
              THEN hs_fail("realloc returned null") /\ UNCHANGED blocks
              ELSE /\ \E i \in Slots :
                         /\ hs_find(p, i)
                         /\ hs_allocs' = [hs_allocs EXCEPT
                                            ![i] = Reallocated(hs_allocs[i], next, n)]
                   /\ blocks' = [blocks EXCEPT ![p] = 0, ![next] = n]
                   /\ UNCHANGED status
      BY <2>5 DEF hs_realloc
    <3>2. CASE next = NULL
      BY <3>1, <3>2, NoEffectStorage DEF hs_fail
    <3>3. CASE next # NULL
      BY <2>0, <2>5, <3>1, <3>3, ReallocStorage
    <3>. QED
      BY <3>2, <3>3
  <2>. QED
    BY <2>1, <2>2, <2>3, <2>4, <2>5
<1>13. CASE \E p \in Addr \cup {NULL} : hs_free(p)
  BY <1>13, FreeStorage DEF hs_free
<1>14. CASE \E p \in Addr \cup {NULL}, n \in Sizes : hs_check(p, n)
  BY <1>14, NoEffectStorage DEF hs_check, hs_fail
<1>15. CASE Exited \/ UNCHANGED vars
  BY <1>15, NoEffectStorage DEF Exited, vars
<1>. QED
  BY <1>1, <1>2, <1>3, <1>5, <1>6, <1>7, <1>8, <1>9, <1>10, <1>11, <1>12,
     <1>13, <1>14, <1>15 DEF Next

\* Storing one entry keeps automatic objects in open scopes when the entry, if
\* automatic, names an open scope itself.
LEMMA PutScopes ==
    ASSUME TypeOK, AutomaticObjectsInOpenScopes, UNCHANGED frameVars,
           NEW i \in Slots, NEW e, hs_allocs' = [hs_allocs EXCEPT ![i] = e],
           e.kind \in {"local", "temporary"} =>
              /\ e.freed = 0
              /\ e.frame \in 1 .. hs_current_frame
              /\ e.scope \in 0 .. hs_frame_scopes[e.frame]
    PROVE  AutomaticObjectsInOpenScopes'
<1>1. /\ hs_allocs'[i] = e
      /\ \A j \in Slots \ {i} : hs_allocs'[j] = hs_allocs[j]
  BY DEF TypeOK
<1>. QED
  BY <1>1 DEF AutomaticObjectsInOpenScopes, IsAuto, frameVars

\* A call that leaves the table and the frames alone.
LEMMA NoEffectScopes ==
    ASSUME AutomaticObjectsInOpenScopes, UNCHANGED hs_allocs, UNCHANGED frameVars
    PROVE  AutomaticObjectsInOpenScopes'
BY DEF AutomaticObjectsInOpenScopes, IsAuto, frameVars

\* Registering an object of the heap, of static storage, or of the current scope.
LEMMA RegisterScopes ==
    ASSUME TypeOK, AutomaticObjectsInOpenScopes, UNCHANGED frameVars,
           NEW p, NEW n, NEW k, NEW f, NEW s, hs_register(p, n, k, f, s),
           k = "local" => /\ f = hs_current_frame /\ f # 0
                          /\ s = hs_frame_scopes[hs_current_frame],
           k # "temporary"
    PROVE  AutomaticObjectsInOpenScopes'
<1>. DEFINE e == [ptr |-> p, size |-> n, frame |-> f, scope |-> s,
                  registration_id |-> 0, kind |-> k, freed |-> 0]
<1>1. \/ UNCHANGED hs_allocs
      \/ \E i \in Slots : hs_allocs' = [hs_allocs EXCEPT ![i] = e]
  BY DEF hs_register, hs_fail, TakeSlot, FreeSlots
<1>2. e.kind \in {"local", "temporary"} =>
         /\ e.freed = 0
         /\ e.frame \in 1 .. hs_current_frame
         /\ e.scope \in 0 .. hs_frame_scopes[e.frame]
  BY TableAssumption DEF TypeOK, Frames
<1>. HIDE DEF e
<1>. QED
  BY <1>1, <1>2, PutScopes, NoEffectScopes

\* Leaving scopes drops exactly the automatic objects whose scope is closed.
LEMMA LeaveScopesScopes ==
    ASSUME TypeOK, AutomaticObjectsInOpenScopes, NEW target \in Nat,
           hs_current_frame # 0, target <= hs_frame_scopes[hs_current_frame],
           LeaveScopes(target)
    PROVE  AutomaticObjectsInOpenScopes'
<1>. SUFFICES ASSUME NEW i \in Slots, IsAuto(i)'
              PROVE  /\ hs_allocs'[i].freed = 0
                     /\ hs_allocs'[i].frame \in 1 .. hs_current_frame'
                     /\ hs_allocs'[i].scope \in 0 .. hs_frame_scopes'[hs_allocs'[i].frame]
  BY DEF AutomaticObjectsInOpenScopes
<1>. DEFINE Out == /\ IsAuto(i)
                   /\ hs_allocs[i].frame = hs_current_frame
                   /\ hs_allocs[i].scope > target
                   /\ hs_allocs[i].scope <= hs_frame_scopes[hs_current_frame]
<1>1. hs_allocs'[i] = IF Out THEN hs_clear(hs_allocs[i]) ELSE hs_allocs[i]
  BY DEF LeaveScopes
<1>2. ~Out
  BY <1>1 DEF IsAuto, hs_clear
<1>3. hs_allocs'[i] = hs_allocs[i] /\ IsAuto(i)
  BY <1>1, <1>2 DEF IsAuto
<1>4. /\ hs_allocs[i].freed = 0
      /\ hs_allocs[i].frame \in 1 .. hs_current_frame
      /\ hs_allocs[i].scope \in 0 .. hs_frame_scopes[hs_allocs[i].frame]
  BY <1>3 DEF AutomaticObjectsInOpenScopes
<1>5. hs_current_frame' = hs_current_frame
  BY DEF LeaveScopes
<1>6. hs_allocs[i].scope \in 0 .. hs_frame_scopes'[hs_allocs[i].frame]
  <2>1. CASE hs_allocs[i].frame = hs_current_frame
    <3>1. hs_frame_scopes'[hs_current_frame] = target
      BY DEF LeaveScopes, TypeOK
    <3>2. hs_allocs[i].scope <= target /\ hs_allocs[i].scope \in Nat
      BY <1>2, <1>3, <1>4, <2>1 DEF TypeOK, HsAlloc
    <3>. QED
      BY <2>1, <3>1, <3>2
  <2>2. CASE hs_allocs[i].frame # hs_current_frame
    <3>1. hs_allocs[i].frame \in Frames
      BY <1>4, TableAssumption DEF TypeOK, Frames
    <3>2. hs_frame_scopes'[hs_allocs[i].frame] = hs_frame_scopes[hs_allocs[i].frame]
      BY <2>2, <3>1 DEF LeaveScopes, TypeOK
    <3>. QED
      BY <1>4, <3>2
  <2>. QED
    BY <2>1, <2>2
<1>. QED
  BY <1>3, <1>4, <1>5, <1>6

\* Every call keeps automatic objects in open scopes.
LEMMA ScopeStep ==
    TypeOK /\ AutomaticObjectsInOpenScopes /\ [Next]_vars => AutomaticObjectsInOpenScopes'
<1>. SUFFICES ASSUME TypeOK, AutomaticObjectsInOpenScopes, [Next]_vars
              PROVE  AutomaticObjectsInOpenScopes'
  OBVIOUS
<1>1. CASE hs_frame_enter
  <2>1. CASE hs_current_frame + 1 >= HS_MAX_FRAMES
    BY <1>1, <2>1, NoEffectScopes DEF hs_frame_enter, hs_fail
  <2>2. CASE ~(hs_current_frame + 1 >= HS_MAX_FRAMES)
    <3>1. /\ UNCHANGED hs_allocs /\ hs_current_frame' = hs_current_frame + 1
          /\ hs_current_frame \in Nat
          /\ \A f \in Frames : f <= hs_current_frame => hs_frame_scopes'[f] = hs_frame_scopes[f]
      BY <1>1, <2>2, TableAssumption DEF hs_frame_enter, TypeOK, Frames
    <3>2. \A i \in Slots : IsAuto(i) => hs_allocs[i].frame \in Frames
                                        /\ hs_allocs[i].frame <= hs_current_frame
      BY TableAssumption DEF AutomaticObjectsInOpenScopes, TypeOK, Frames
    <3>. QED
      BY <3>1, <3>2 DEF AutomaticObjectsInOpenScopes, IsAuto
  <2>. QED
    BY <2>1, <2>2
<1>2. CASE hs_frame_exit
  <2>1. CASE hs_current_frame = 0
    BY <1>2, <2>1, NoEffectScopes DEF hs_frame_exit, hs_fail
  <2>2. CASE hs_current_frame # 0
    <3>1. /\ hs_current_frame \in Nat \ {0} /\ hs_current_frame' = hs_current_frame - 1
          /\ \A f \in Frames : f # hs_current_frame => hs_frame_scopes'[f] = hs_frame_scopes[f]
      BY <1>2, <2>2, TableAssumption DEF hs_frame_exit, TypeOK, Frames
    <3>2. ASSUME NEW i \in Slots, IsAuto(i)'
          PROVE  /\ hs_allocs'[i] = hs_allocs[i] /\ IsAuto(i)
                 /\ hs_allocs[i].frame # hs_current_frame
      BY <1>2, <2>2, <3>2 DEF hs_frame_exit, IsAuto, hs_clear
    <3>3. \A i \in Slots : IsAuto(i) => hs_allocs[i].frame \in Frames
      BY TableAssumption DEF AutomaticObjectsInOpenScopes, TypeOK, Frames
    <3>. QED
      BY <3>1, <3>2, <3>3 DEF AutomaticObjectsInOpenScopes
  <2>. QED
    BY <2>1, <2>2
<1>3. CASE hs_scope_enter
  <2>1. CASE hs_current_frame = 0 \/ hs_frame_scopes[hs_current_frame] = SCOPE_MAX
    BY <1>3, <2>1, NoEffectScopes DEF hs_scope_enter, hs_fail
  <2>2. CASE ~(hs_current_frame = 0 \/ hs_frame_scopes[hs_current_frame] = SCOPE_MAX)
    <3>1. /\ UNCHANGED <<hs_allocs, hs_current_frame>>
          /\ \A f \in Frames : hs_frame_scopes'[f] \in Nat
                               /\ hs_frame_scopes[f] \in Nat
                               /\ hs_frame_scopes[f] <= hs_frame_scopes'[f]
      <4>1. /\ UNCHANGED <<hs_allocs, hs_current_frame>>
            /\ hs_frame_scopes' = [hs_frame_scopes EXCEPT
                  ![hs_current_frame] = hs_frame_scopes[hs_current_frame] + 1]
        BY <1>3, <2>2 DEF hs_scope_enter
      <4>2. \A f \in Frames : hs_frame_scopes[f] \in Nat
        BY TableAssumption DEF TypeOK
      <4>3. \A f \in Frames : hs_frame_scopes'[f] =
               IF f = hs_current_frame THEN hs_frame_scopes[f] + 1 ELSE hs_frame_scopes[f]
        BY <4>1 DEF TypeOK
      <4>. QED
        BY <4>1, <4>2, <4>3
    <3>2. \A i \in Slots : IsAuto(i) => hs_allocs[i].frame \in Frames
                                        /\ hs_allocs[i].scope \in Nat
      BY TableAssumption DEF AutomaticObjectsInOpenScopes, TypeOK, Frames, HsAlloc
    <3>. QED
      BY <3>1, <3>2 DEF AutomaticObjectsInOpenScopes, IsAuto
  <2>. QED
    BY <2>1, <2>2
<1>4. CASE hs_scope_exit
  <2>1. CASE hs_current_frame = 0 \/ hs_frame_scopes[hs_current_frame] = 0
    BY <1>4, <2>1, NoEffectScopes DEF hs_scope_exit, hs_fail
  <2>2. CASE ~(hs_current_frame = 0 \/ hs_frame_scopes[hs_current_frame] = 0)
    <3>1. /\ hs_frame_scopes[hs_current_frame] - 1 \in Nat
          /\ hs_frame_scopes[hs_current_frame] - 1 <= hs_frame_scopes[hs_current_frame]
      BY <2>2 DEF TypeOK
    <3>. PICK target \in Nat : target = hs_frame_scopes[hs_current_frame] - 1
      BY <3>1
    <3>. QED
      BY <1>4, <2>2, <3>1, LeaveScopesScopes DEF hs_scope_exit
  <2>. QED
    BY <2>1, <2>2
<1>5. CASE \E target \in 0 .. SCOPE_MAX : hs_scope_exit_to(target)
  <2>. PICK target \in 0 .. SCOPE_MAX : hs_scope_exit_to(target)
    BY <1>5
  <2>1. CASE hs_current_frame = 0 \/ target > hs_frame_scopes[hs_current_frame]
    BY <2>1, NoEffectScopes DEF hs_scope_exit_to, hs_fail
  <2>2. CASE ~(hs_current_frame = 0 \/ target > hs_frame_scopes[hs_current_frame])
    <3>1. target \in Nat /\ target <= hs_frame_scopes[hs_current_frame]
      BY <2>2 DEF TypeOK
    <3>. QED
      BY <2>2, <3>1, LeaveScopesScopes DEF hs_scope_exit_to
  <2>. QED
    BY <2>1, <2>2
<1>6. CASE \E p \in StackAddr, n \in Sizes \ {0} : hs_register_local(p, n)
  <2>. PICK p \in StackAddr, n \in Sizes \ {0} : hs_register_local(p, n)
    BY <1>6
  <2>. PICK f, s : f = hs_current_frame /\ s = hs_frame_scopes[hs_current_frame]
    OBVIOUS
  <2>1. UNCHANGED frameVars
    BY DEF hs_register_local, frameVars
  <2>2. CASE f = 0
    BY <2>1, <2>2, NoEffectScopes DEF hs_register_local, hs_fail
  <2>3. CASE f # 0
    BY <2>1, <2>3, RegisterScopes DEF hs_register_local
  <2>. QED
    BY <2>2, <2>3
<1>7. CASE \E p \in StackAddr, n \in Sizes, id \in TempIds : hs_register_temporary(p, n, id)
  <2>. PICK p \in StackAddr, n \in Sizes, id \in TempIds : hs_register_temporary(p, n, id)
    BY <1>7
  <2>. DEFINE scope == hs_frame_scopes[hs_current_frame]
              existing == Temporaries(hs_current_frame, scope, id)
              e == [ptr |-> p, size |-> n, frame |-> hs_current_frame,
                    scope |-> scope, registration_id |-> id,
                    kind |-> "temporary", freed |-> 0]
  <2>1. UNCHANGED frameVars
    BY DEF hs_register_temporary, frameVars
  <2>2. \/ UNCHANGED hs_allocs
        \/ hs_allocs' = [i \in Slots |->
                    IF hs_find_temporary(hs_current_frame, scope, id, i)
                      THEN hs_clear(hs_allocs[i]) ELSE hs_allocs[i]]
        \/ \E i \in existing : hs_allocs' = [hs_allocs EXCEPT ![i] = Moved(hs_allocs[i], p, n)]
        \/ hs_current_frame # 0 /\ TakeSlot(e)
    BY DEF hs_register_temporary, hs_fail
  <2>3. CASE UNCHANGED hs_allocs
    BY <2>1, <2>3, NoEffectScopes
  <2>4. CASE hs_allocs' = [i \in Slots |->
                    IF hs_find_temporary(hs_current_frame, scope, id, i)
                      THEN hs_clear(hs_allocs[i]) ELSE hs_allocs[i]]
    <3>1. \A i \in Slots : hs_allocs'[i] = hs_allocs[i] \/ hs_allocs'[i].ptr = NULL
      BY <2>4 DEF hs_clear
    <3>. QED
      BY <2>1, <3>1 DEF AutomaticObjectsInOpenScopes, IsAuto, frameVars
  <2>5. CASE \E i \in existing : hs_allocs' = [hs_allocs EXCEPT ![i] = Moved(hs_allocs[i], p, n)]
    <3>1. PICK i \in existing : hs_allocs' = [hs_allocs EXCEPT ![i] = Moved(hs_allocs[i], p, n)]
      BY <2>5
    <3>2. i \in Slots /\ IsAuto(i)
      BY DEF Temporaries, IsAuto
    <3>. DEFINE m == Moved(hs_allocs[i], p, n)
    <3>3. /\ m.freed = 0
          /\ m.frame \in 1 .. hs_current_frame
          /\ m.scope \in 0 .. hs_frame_scopes[m.frame]
      BY <3>2 DEF Moved, AutomaticObjectsInOpenScopes
    <3>. HIDE DEF m
    <3>4. hs_allocs' = [hs_allocs EXCEPT ![i] = m]
      BY <3>1 DEF m
    <3>. QED
      BY <2>1, <3>2, <3>3, <3>4, PutScopes
  <2>6. CASE hs_current_frame # 0 /\ TakeSlot(e)
    <3>1. \/ UNCHANGED hs_allocs
          \/ \E i \in Slots : hs_allocs' = [hs_allocs EXCEPT ![i] = e]
      BY <2>6 DEF TakeSlot, hs_fail, FreeSlots
    <3>2. /\ e.freed = 0
          /\ e.frame \in 1 .. hs_current_frame
          /\ e.scope \in 0 .. hs_frame_scopes[e.frame]
      BY <2>6, TableAssumption DEF TypeOK, Frames
    <3>. HIDE DEF e
    <3>. QED
      BY <2>1, <3>1, <3>2, PutScopes, NoEffectScopes
  <2>. QED
    BY <2>2, <2>3, <2>4, <2>5, <2>6
<1>8. CASE \E o \in StaticObjects : hs_register_static(o[1], o[2])
  BY <1>8, RegisterScopes DEF hs_register_static, frameVars
<1>9. ASSUME NEW n, AllocateAndRegister(n), UNCHANGED frameVars
      PROVE  AutomaticObjectsInOpenScopes'
  <2>1. \/ UNCHANGED hs_allocs
        \/ \E a : hs_register(a, n, "heap", 0, 0)
    BY <1>9 DEF AllocateAndRegister, hs_fail
  <2>. QED
    BY <1>9, <2>1, NoEffectScopes, RegisterScopes
<1>10. ASSUME NEW p, Free(p), UNCHANGED frameVars
       PROVE  AutomaticObjectsInOpenScopes'
  <2>1. \/ UNCHANGED hs_allocs
        \/ \E i \in Slots : /\ hs_find(p, i) /\ FreeAccepts(p)
                            /\ hs_allocs' = [hs_allocs EXCEPT ![i] = MarkFreed(hs_allocs[i])]
    BY <1>10 DEF Free, hs_fail
  <2>2. CASE UNCHANGED hs_allocs
    BY <1>10, <2>2, NoEffectScopes
  <2>3. ASSUME NEW i \in Slots, hs_find(p, i), FreeAccepts(p),
               hs_allocs' = [hs_allocs EXCEPT ![i] = MarkFreed(hs_allocs[i])]
        PROVE  AutomaticObjectsInOpenScopes'
    <3>. DEFINE m == MarkFreed(hs_allocs[i])
    <3>1. m.kind = "heap"
      BY <2>3, AcceptedEntry DEF MarkFreed
    <3>. HIDE DEF m
    <3>2. hs_allocs' = [hs_allocs EXCEPT ![i] = m]
      BY <2>3 DEF m
    <3>. QED
      BY <1>10, <3>1, <3>2, PutScopes
  <2>. QED
    BY <2>1, <2>2, <2>3
<1>11. CASE \E n \in Sizes : hs_alloc(n)
  BY <1>9, <1>11, NoEffectScopes DEF hs_alloc
<1>12. CASE \E count, n \in Sizes : hs_calloc(count, n)
  <2>. PICK count \in Sizes, n \in Sizes : hs_calloc(count, n)
    BY <1>12
  <2>. DEFINE total == (count * n) % (UINT64_MAX + 1)
  <2>1. /\ UNCHANGED hs_allocs \/ AllocateAndRegister(total)
        /\ UNCHANGED frameVars
    BY DEF hs_calloc, hs_fail
  <2>. HIDE DEF total
  <2>. QED
    BY <1>9, <2>1, NoEffectScopes
<1>13. CASE \E p \in Addr \cup {NULL}, n \in Sizes : hs_realloc(p, n)
  <2>. PICK p \in Addr \cup {NULL}, n \in Sizes : hs_realloc(p, n)
    BY <1>13
  <2>1. UNCHANGED frameVars
    BY DEF hs_realloc
  <2>2. \/ UNCHANGED hs_allocs
        \/ AllocateAndRegister(n)
        \/ Free(p)
        \/ \E next, i : /\ i \in Slots
              /\ hs_allocs' = [hs_allocs EXCEPT ![i] = Reallocated(hs_allocs[i], next, n)]
    BY DEF hs_realloc, hs_fail
  <2>3. ASSUME NEW next, NEW i \in Slots,
               hs_allocs' = [hs_allocs EXCEPT ![i] = Reallocated(hs_allocs[i], next, n)]
        PROVE  AutomaticObjectsInOpenScopes'
    <3>. DEFINE m == Reallocated(hs_allocs[i], next, n)
    <3>1. m.kind = "heap"
      BY DEF Reallocated
    <3>. HIDE DEF m
    <3>2. hs_allocs' = [hs_allocs EXCEPT ![i] = m]
      BY <2>3 DEF m
    <3>. QED
      BY <2>1, <3>1, <3>2, PutScopes
  <2>. QED
    BY <1>9, <1>10, <2>1, <2>2, <2>3, NoEffectScopes
<1>14. CASE \E p \in Addr \cup {NULL} : hs_free(p)
  BY <1>10, <1>14 DEF hs_free
<1>15. CASE \E p \in Addr \cup {NULL}, n \in Sizes : hs_check(p, n)
  BY <1>15, NoEffectScopes DEF hs_check, hs_fail, frameVars
<1>16. CASE Exited \/ UNCHANGED vars
  BY <1>16, NoEffectScopes DEF Exited, vars, frameVars
<1>. QED
  BY <1>1, <1>2, <1>3, <1>4, <1>5, <1>6, <1>7, <1>8, <1>11, <1>12, <1>13,
     <1>14, <1>15, <1>16 DEF Next

-----------------------------------------------------------------------------
(* The theorems.                                                           *)

\* The empty table of a program that starts.
LEMMA InvInit == Init => IInv
<1>. SUFFICES ASSUME Init PROVE IInv
  OBVIOUS
<1>1. \A i \in Slots : hs_allocs[i].ptr = NULL
  BY DEF Init, NoAlloc
<1>2. TypeOK
  BY TableAssumption DEF Init, TypeOK, NoAlloc, HsAlloc, Kinds, NULL, Frames
<1>3. AutomaticObjectsInOpenScopes /\ StorageByKind
  BY <1>1 DEF AutomaticObjectsInOpenScopes, StorageByKind, IsAuto
<1>4. HeapEntriesAreBlocks /\ LiveObjectsDisjoint
  BY <1>1 DEF HeapEntriesAreBlocks, LiveObjectsDisjoint, IsLive, Init
<1>5. BlocksAreRegistered
  BY DEF BlocksAreRegistered, Init
<1>. QED
  BY <1>2, <1>3, <1>4, <1>5 DEF IInv

\* Every call of the runtime keeps the invariant.
LEMMA InvStep == IInv /\ [Next]_vars => IInv'
BY TypeStep, StorageStep, ScopeStep DEF IInv, StorageInv

\* The inductive invariant holds initially and is kept by every call.
THEOREM Invariance == Spec => []IInv
BY InvInit, InvStep, PTL DEF Spec

\* No automatic object outlives its scope or its frame, whatever sequence of
\* frame exits, scope exits and multi-level scope exits the program makes.
THEOREM LifetimesRespected == Spec => []AutomaticObjectsInOpenScopes
<1>1. IInv => AutomaticObjectsInOpenScopes
  BY DEF IInv
<1>. QED
  BY <1>1, Invariance, PTL

\* Live objects are disjoint, and no registration ever conflicts.
THEOREM ObjectsDisjoint == Spec => []LiveObjectsDisjoint
<1>1. IInv => LiveObjectsDisjoint
  BY DEF IInv
<1>. QED
  BY <1>1, Invariance, PTL

\* While the program runs, the registry and the C allocator agree on the live
\* dynamic objects and on their sizes.
THEOREM HeapAgreement == Spec => []HeapMatchesAllocator
<1>1. IInv => HeapMatchesAllocator
  <2>. SUFFICES ASSUME IInv, status = "running"
                PROVE  {<<hs_allocs[i].ptr, hs_allocs[i].size>> :
                          i \in {j \in Slots : IsLive(j) /\ hs_allocs[j].kind = "heap"}}
                       = {<<a, blocks[a]>> : a \in {b \in HeapAddr : blocks[b] # 0}}
    BY DEF HeapMatchesAllocator
  <2>1. ASSUME NEW i \in Slots, IsLive(i), hs_allocs[i].kind = "heap"
        PROVE  \E a \in {b \in HeapAddr : blocks[b] # 0} :
                  <<a, blocks[a]>> = <<hs_allocs[i].ptr, hs_allocs[i].size>>
    <3>1. /\ hs_allocs[i].ptr \in HeapAddr
          /\ blocks[hs_allocs[i].ptr] = hs_allocs[i].size
          /\ hs_allocs[i].size # 0
      BY <2>1 DEF IInv, HeapEntriesAreBlocks, StorageByKind, IsLive
    <3>. QED
      BY <3>1
  <2>2. ASSUME NEW a \in HeapAddr, blocks[a] # 0
        PROVE  \E i \in {j \in Slots : IsLive(j) /\ hs_allocs[j].kind = "heap"} :
                  <<hs_allocs[i].ptr, hs_allocs[i].size>> = <<a, blocks[a]>>
    <3>1. PICK i \in Slots : IsLive(i) /\ hs_allocs[i].kind = "heap" /\ hs_allocs[i].ptr = a
      BY <2>2 DEF IInv, BlocksAreRegistered
    <3>2. blocks[a] = hs_allocs[i].size
      BY <3>1 DEF IInv, HeapEntriesAreBlocks
    <3>. QED
      BY <3>1, <3>2
  <2>. QED
    BY <2>1, <2>2
<1>. QED
  BY <1>1, Invariance, PTL

\* A checked access that the runtime lets through touches only live storage.
THEOREM AccessSound == Spec => []AcceptedAccessIsLive
<1>1. IInv => AcceptedAccessIsLive
  <2>. SUFFICES ASSUME IInv, status = "running", NEW p \in Addr, NEW n \in Sizes,
                       CheckAccepts(p, n)
                PROVE  Bytes(p, n) \subseteq OwnedBytes
    BY DEF AcceptedAccessIsLive
  <2>0. p \in Nat /\ n \in Nat
    <3>1. StaticAddr \subseteq Nat
      BY AddressAssumption DEF StaticAddr, Bytes
    <3>. QED
      BY <3>1, AddressAssumption DEF Addr
  <2>1. CASE n = 0
    <3>1. Bytes(p, n) = {}
      BY <2>0, <2>1 DEF Bytes
    <3>. QED
      BY <3>1
  <2>2. CASE n # 0
    <3>1. PICK i \in Slots : /\ hs_find(p, i)
                             /\ hs_allocs[i].freed = 0
                             /\ n <= hs_allocs[i].size
                             /\ p - hs_allocs[i].ptr <= hs_allocs[i].size - n
      BY <2>2 DEF CheckAccepts
    <3>2. hs_allocs[i] \in HsAlloc /\ IsLive(i) /\ p >= hs_allocs[i].ptr
      BY <3>1 DEF IInv, TypeOK, hs_find, IsFirst, Containing, IsLive
    <3>. DEFINE own == Bytes(hs_allocs[i].ptr, hs_allocs[i].size)
    <3>3. Bytes(p, n) \subseteq own
      BY <2>0, <3>1, <3>2 DEF Bytes, HsAlloc
    <3>4. CASE hs_allocs[i].kind = "heap"
      <4>1. /\ hs_allocs[i].ptr \in HeapAddr
            /\ blocks[hs_allocs[i].ptr] = hs_allocs[i].size
            /\ hs_allocs[i].size # 0
        BY <3>2, <3>4 DEF IInv, HeapEntriesAreBlocks, StorageByKind, IsLive
      <4>2. own \subseteq HeapBytes
        BY <4>1 DEF HeapBytes
      <4>. HIDE DEF own
      <4>. QED
        BY <3>3, <4>2 DEF OwnedBytes
    <3>5. CASE hs_allocs[i].kind = "static"
      <4>. DEFINE q == <<hs_allocs[i].ptr, hs_allocs[i].size>>
      <4>0. q \in StaticObjects /\ own = Bytes(q[1], q[2])
        BY <3>2, <3>5 DEF IInv, StorageByKind, IsLive
      <4>. HIDE DEF q
      <4>1. own \subseteq StaticAddr
        BY <4>0 DEF StaticAddr
      <4>. HIDE DEF own
      <4>. QED
        BY <3>3, <4>1 DEF OwnedBytes
    <3>6. CASE hs_allocs[i].kind \in {"local", "temporary"}
      <4>1. /\ IsAuto(i)
            /\ hs_allocs[i].frame <= hs_current_frame
            /\ hs_allocs[i].scope <= hs_frame_scopes[hs_allocs[i].frame]
        BY <3>2, <3>6 DEF IInv, AutomaticObjectsInOpenScopes, IsAuto, IsLive
      <4>2. own \subseteq OpenScopeBytes
        BY <4>1 DEF OpenScopeBytes
      <4>. HIDE DEF own
      <4>. QED
        BY <3>3, <4>2 DEF OwnedBytes
    <3>. QED
      BY <3>2, <3>4, <3>5, <3>6 DEF HsAlloc, Kinds
  <2>. QED
    BY <2>1, <2>2
<1>. QED
  BY <1>1, Invariance, PTL

\* A lookup (hs_find) of the base of a live automatic or static object finds it:
\* nothing else in the table holds that byte.
LEMMA InvUsable == IInv => AutomaticAndStaticUsable
<1>. SUFFICES ASSUME IInv, NEW i \in Slots, IsLive(i), hs_allocs[i].kind # "heap"
              PROVE  CheckAccepts(hs_allocs[i].ptr, hs_allocs[i].size)
  BY DEF AutomaticAndStaticUsable
<1>. DEFINE p == hs_allocs[i].ptr
<1>0. /\ hs_allocs[i] \in HsAlloc /\ p \in Nat /\ hs_allocs[i].size \in Nat
      /\ hs_allocs[i].size # 0 /\ p # NULL /\ hs_allocs[i].freed = 0
  BY DEF IInv, TypeOK, StorageByKind, IsLive, HsAlloc
<1>1. i \in Containing(p) /\ p \in Bytes(p, hs_allocs[i].size)
  BY <1>0, BaseInBytes DEF Containing
<1>2. ASSUME NEW j \in Containing(p) PROVE j = i
  <2>1. /\ j \in Slots /\ hs_allocs[j] \in HsAlloc /\ hs_allocs[j].ptr # NULL
        /\ p >= hs_allocs[j].ptr /\ p - hs_allocs[j].ptr < hs_allocs[j].size
    BY DEF Containing, IInv, TypeOK
  <2>2. p \in Bytes(hs_allocs[j].ptr, hs_allocs[j].size)
    BY <1>0, <2>1 DEF Bytes, HsAlloc
  <2>3. IsLive(j)
    <3>. SUFFICES ASSUME hs_allocs[j].freed # 0 PROVE FALSE
      BY <2>1 DEF IsLive, HsAlloc
    <3>1. Bytes(hs_allocs[j].ptr, hs_allocs[j].size) \subseteq HeapAddr
      BY <2>1 DEF IInv, StorageByKind, HsAlloc, Kinds
    <3>2. StorageInv /\ hs_allocs[i].kind \in Kinds
      BY <1>0 DEF IInv, StorageInv, HsAlloc
    <3>. QED
      BY <1>1, <2>2, <3>1, <3>2, ApartFromHeap
  <2>. QED
    BY <1>1, <2>1, <2>2, <2>3 DEF IInv, LiveObjectsDisjoint
<1>3. hs_find(p, i)
  BY <1>1, <1>2, TableAssumption DEF hs_find, IsFirst, Slots
<1>. QED
  BY <1>0, <1>3 DEF CheckAccepts

\* Every registered automatic or static object can be accessed in full: no
\* stale entry hides it, because only dynamic objects leave one and the heap is
\* apart from other storage.
THEOREM AutomaticUsable == Spec => []AutomaticAndStaticUsable
BY InvUsable, Invariance, PTL


-----------------------------------------------------------------------------
(* The registry implements CheckedMemory: with the mapping of              *)
(* ObjectRegistry each call of the runtime is one step of the abstract     *)
(* memory, or changes nothing it can see.  First, sequences given by their *)
(* length and elements.                                                    *)

\* A sequence with one element more.
LEMMA AppendIs ==
    ASSUME NEW S, NEW s \in Seq(S), NEW t \in Seq(S), NEW e \in S,
           Len(t) = Len(s) + 1, \A i \in 1 .. Len(s) : t[i] = s[i], t[Len(s) + 1] = e
    PROVE  t = Append(s, e)
OBVIOUS

\* The first k elements.
LEMMA FrontIs ==
    ASSUME NEW S, NEW s \in Seq(S), NEW t \in Seq(S),
           Len(t) <= Len(s), \A i \in 1 .. Len(t) : t[i] = s[i]
    PROVE  t = SubSeq(s, 1, Len(t))
OBVIOUS

\* A change of the last element.
LEMMA LastChanged ==
    ASSUME NEW S, NEW s \in Seq(S), NEW t \in Seq(S), NEW e, s # << >>,
           Len(t) = Len(s), \A i \in 1 .. (Len(s) - 1) : t[i] = s[i], t[Len(s)] = e
    PROVE  t = [s EXCEPT ![Len(s)] = e]
OBVIOUS

-----------------------------------------------------------------------------
(* The call stack of the mapping.                                          *)

Cells == SUBSET (Nat \X Nat)

\* One sequence of scopes for each active frame, one set for each open scope.
StackShape ==
    /\ FrameStack \in Seq(Seq(Cells))
    /\ Len(FrameStack) = hs_current_frame
    /\ \A f \in 1 .. hs_current_frame :
          /\ FrameStack[f] \in Seq(Cells)
          /\ Len(FrameStack[f]) = hs_frame_scopes[f] + 1
          /\ \A s \in 1 .. (hs_frame_scopes[f] + 1) : FrameStack[f][s] = ScopeObjects(f, s)
    /\ \A f, s : ScopeObjects(f, s) \in Cells

\* The mapped call stack has the shape of the registry's frames and scopes.
LEMMA StackShaped == TypeOK => StackShape
<1>. SUFFICES ASSUME TypeOK PROVE StackShape
  OBVIOUS
<1>1. ASSUME NEW f, NEW s PROVE ScopeObjects(f, s) \in Cells
  BY DEF ScopeObjects, Objects, ObjectAt, Cells, TypeOK, HsAlloc
<1>2. hs_current_frame \in Nat /\ 1 .. hs_current_frame \subseteq Frames
  BY TableAssumption DEF TypeOK, Frames
<1>3. \A f \in 1 .. hs_current_frame : hs_frame_scopes[f] \in Nat
  BY <1>2, TableAssumption DEF TypeOK
<1>4. \A f \in 1 .. hs_current_frame :
         FrameStack[f] = [s \in 1 .. (hs_frame_scopes[f] + 1) |-> ScopeObjects(f, s)]
  BY DEF FrameStack
<1>5. \A f \in 1 .. hs_current_frame :
         /\ FrameStack[f] \in Seq(Cells)
         /\ Len(FrameStack[f]) = hs_frame_scopes[f] + 1
         /\ \A s \in 1 .. (hs_frame_scopes[f] + 1) : FrameStack[f][s] = ScopeObjects(f, s)
  <2>. SUFFICES ASSUME NEW f \in 1 .. hs_current_frame
                PROVE  /\ FrameStack[f] \in Seq(Cells)
                       /\ Len(FrameStack[f]) = hs_frame_scopes[f] + 1
                       /\ \A s \in 1 .. (hs_frame_scopes[f] + 1) : FrameStack[f][s] = ScopeObjects(f, s)
    OBVIOUS
  <2>. DEFINE n == hs_frame_scopes[f] + 1
  <2>1. n \in Nat
    BY <1>3
  <2>2. FrameStack[f] = [s \in 1 .. n |-> ScopeObjects(f, s)]
    BY <1>4
  <2>. HIDE DEF n
  <2>3. FrameStack[f] \in Seq(Cells) /\ Len(FrameStack[f]) = n
    BY <1>1, <2>1, <2>2
  <2>4. \A s \in 1 .. n : FrameStack[f][s] = ScopeObjects(f, s)
    BY <2>2
  <2>. QED
    BY <2>3, <2>4 DEF n
<1>6. FrameStack \in Seq(Seq(Cells)) /\ Len(FrameStack) = hs_current_frame
  <2>1. DOMAIN FrameStack = 1 .. hs_current_frame
    BY DEF FrameStack
  <2>2. FrameStack = [f \in 1 .. hs_current_frame |-> FrameStack[f]]
    BY DEF FrameStack
  <2>. QED
    BY <1>2, <1>5, <2>1, <2>2
<1>. QED
  BY <1>1, <1>5, <1>6 DEF StackShape

\* The same of the state after a step.
LEMMA StackShapedNext == TypeOK' => StackShape'
BY StackShaped, PTL

\* What is live in the mapped memory is live in the table.
LEMMA LiveIsRegistered ==
    ASSUME TypeOK, AutomaticObjectsInOpenScopes, NEW x \in Memory!Live
    PROVE  \E j \in Slots : IsLive(j) /\ x = ObjectAt(j)
<1>1. CASE x \in HeapObjects \cup RegisteredStatics
  BY <1>1 DEF HeapObjects, RegisteredStatics, Objects
<1>2. CASE x \in Memory!Autos
  <2>1. PICK f \in DOMAIN FrameStack : x \in Memory!InScopes(FrameStack[f])
    BY <1>2 DEF Memory!Autos
  <2>2. PICK s \in DOMAIN FrameStack[f] : x \in FrameStack[f][s]
    BY <2>1 DEF Memory!InScopes
  <2>3. f \in 1 .. hs_current_frame /\ s \in 1 .. (hs_frame_scopes[f] + 1)
    BY DEF FrameStack
  <2>4. x \in ScopeObjects(f, s)
    BY <2>2, <2>3, StackShaped DEF StackShape
  <2>5. PICK j \in Slots : IsAuto(j) /\ x = ObjectAt(j)
    BY <2>4 DEF ScopeObjects, Objects, InScope
  <2>. QED
    BY <2>5 DEF AutomaticObjectsInOpenScopes, IsLive, IsAuto
<1>. QED
  BY <1>1, <1>2 DEF Memory!Live

\* Live entries are different objects.
LEMMA LiveObjectsDiffer ==
    ASSUME TypeOK, StorageInv, NEW i \in Slots, NEW j \in Slots, i # j, IsLive(i), IsLive(j)
    PROVE  ObjectAt(i) # ObjectAt(j)
<1>1. /\ hs_allocs[i].ptr \in Nat /\ hs_allocs[i].size \in Nat
      /\ hs_allocs[i].size # 0
  BY DEF TypeOK, HsAlloc, StorageInv, StorageByKind, IsLive
<1>2. hs_allocs[i].ptr \in Bytes(hs_allocs[i].ptr, hs_allocs[i].size)
  BY <1>1, BaseInBytes
<1>3. Bytes(hs_allocs[i].ptr, hs_allocs[i].size) \cap Bytes(hs_allocs[j].ptr, hs_allocs[j].size) = {}
  BY DEF StorageInv, LiveObjectsDisjoint
<1>. QED
  BY <1>2, <1>3 DEF ObjectAt

\* Storage apart from every live entry but one is apart from every other object
\* of the mapped memory.
LEMMA ApartFromLive ==
    ASSUME TypeOK, AutomaticObjectsInOpenScopes, NEW p, NEW n, NEW gone,
           \A j \in Slots : IsLive(j) /\ ObjectAt(j) \notin gone =>
               Bytes(hs_allocs[j].ptr, hs_allocs[j].size) \cap Bytes(p, n) = {}
    PROVE  Memory!Disjoint(<<p, n>>, Memory!Live \ gone)
<1>. SUFFICES ASSUME NEW x \in Memory!Live \ gone
              PROVE  Memory!Bytes(<<p, n>>) \cap Memory!Bytes(x) = {}
  BY DEF Memory!Disjoint
<1>1. PICK j \in Slots : IsLive(j) /\ x = ObjectAt(j)
  BY LiveIsRegistered
<1>2. Memory!Bytes(x) = Bytes(hs_allocs[j].ptr, hs_allocs[j].size)
  BY <1>1 DEF Memory!Bytes, Bytes, ObjectAt
<1>3. Memory!Bytes(<<p, n>>) = Bytes(p, n)
  BY DEF Memory!Bytes, Bytes
<1>. QED
  BY <1>1, <1>2, <1>3

-----------------------------------------------------------------------------
(* Steps that change no object.                                            *)

\* The mapped memory is made of the table and the frames.
LEMMA SameMemory ==
    ASSUME UNCHANGED hs_allocs, UNCHANGED frameVars
    PROVE  UNCHANGED <<FrameStack, HeapObjects, RegisteredStatics>>
BY DEF frameVars, FrameStack, ScopeObjects, InScope, HeapObjects, RegisteredStatics, Objects,
       ObjectAt, IsAuto, IsLive

\* A call that does nothing to them is a stutter, or the end of the program.
LEMMA QuietRefines ==
    ASSUME status = "running", UNCHANGED hs_allocs, UNCHANGED frameVars
    PROVE  [Memory!Next]_(Memory!vars)
<1>1. UNCHANGED <<FrameStack, HeapObjects, RegisteredStatics>>
  BY SameMemory
<1>2. CASE status' = status
  <2>1. Stopped' = Stopped
    BY <1>2 DEF Stopped
  <2>. QED
    BY <1>1, <2>1 DEF Memory!vars
<1>3. CASE status' # status
  <2>1. ~Stopped /\ Stopped' = TRUE
    BY <1>3 DEF Stopped
  <2>. QED
    BY <1>1, <2>1 DEF Memory!Next, Memory!Stop
<1>. QED
  BY <1>2, <1>3

\* Clearing automatic entries changes neither dynamic nor static objects.
LEMMA ClearedKeep ==
    ASSUME \A i \in Slots : \/ hs_allocs'[i] = hs_allocs[i]
                            \/ IsAuto(i) /\ hs_allocs'[i].ptr = NULL
    PROVE  UNCHANGED <<HeapObjects, RegisteredStatics>>
<1>1. \A i \in Slots :
         /\ IsLive(i)' /\ hs_allocs'[i].kind = "heap" <=> IsLive(i) /\ hs_allocs[i].kind = "heap"
         /\ IsLive(i)' /\ hs_allocs'[i].kind = "static" <=> IsLive(i) /\ hs_allocs[i].kind = "static"
         /\ hs_allocs[i].kind \in {"heap", "static"} /\ IsLive(i) => ObjectAt(i)' = ObjectAt(i)
  BY DEF IsLive, IsAuto, ObjectAt
<1>2. HeapObjects' = HeapObjects
  BY <1>1 DEF HeapObjects, Objects
<1>3. RegisteredStatics' = RegisteredStatics
  BY <1>1 DEF RegisteredStatics, Objects
<1>. QED
  BY <1>2, <1>3

-----------------------------------------------------------------------------
(* Steps that store one entry.                                             *)

If(b, x) == IF b THEN {x} ELSE {}

\* A new entry changes its own slot and no other.
LEMMA OtherSlots ==
    ASSUME TypeOK, NEW i \in Slots, NEW e, hs_allocs' = [hs_allocs EXCEPT ![i] = e]
    PROVE  /\ hs_allocs'[i] = e
           /\ ObjectAt(i)' = <<e.ptr, e.size>>
           /\ IsLive(i)' <=> e.ptr # NULL /\ e.freed = 0
           /\ \A j \in Slots \ {i} :
                 /\ hs_allocs'[j] = hs_allocs[j]
                 /\ ObjectAt(j)' = ObjectAt(j)
                 /\ IsLive(j)' <=> IsLive(j)
                 /\ \A f, s : InScope(j, f, s)' <=> InScope(j, f, s)
<1>1. hs_allocs'[i] = e /\ \A j \in Slots \ {i} : hs_allocs'[j] = hs_allocs[j]
  BY DEF TypeOK
<1>. QED
  BY <1>1 DEF ObjectAt, IsLive, InScope, IsAuto

\* The dynamic objects after a new entry.
LEMMA PutHeap ==
    ASSUME TypeOK, StorageInv, NEW i \in Slots, NEW e, hs_allocs' = [hs_allocs EXCEPT ![i] = e]
    PROVE  HeapObjects' = (HeapObjects \ If(IsLive(i) /\ hs_allocs[i].kind = "heap", ObjectAt(i)))
                            \cup If(e.ptr # NULL /\ e.freed = 0 /\ e.kind = "heap", <<e.ptr, e.size>>)
<1>1. \A j \in Slots \ {i} : IsLive(i) /\ IsLive(j) => ObjectAt(j) # ObjectAt(i)
  BY LiveObjectsDiffer
<1>2. /\ ObjectAt(i)' = <<e.ptr, e.size>>
      /\ hs_allocs'[i].kind = e.kind
      /\ IsLive(i)' <=> e.ptr # NULL /\ e.freed = 0
  BY OtherSlots
<1>3. \A j \in Slots \ {i} : /\ ObjectAt(j)' = ObjectAt(j)
                             /\ hs_allocs'[j].kind = hs_allocs[j].kind
                             /\ IsLive(j)' <=> IsLive(j)
  BY OtherSlots
<1>. QED
  BY <1>1, <1>2, <1>3 DEF HeapObjects, Objects, If

\* The static objects after a new entry.
LEMMA PutStatics ==
    ASSUME TypeOK, StorageInv, NEW i \in Slots, NEW e, hs_allocs' = [hs_allocs EXCEPT ![i] = e]
    PROVE  RegisteredStatics' =
               (RegisteredStatics \ If(IsLive(i) /\ hs_allocs[i].kind = "static", ObjectAt(i)))
                 \cup If(e.ptr # NULL /\ e.freed = 0 /\ e.kind = "static", <<e.ptr, e.size>>)
<1>1. \A j \in Slots \ {i} : IsLive(i) /\ IsLive(j) => ObjectAt(j) # ObjectAt(i)
  BY LiveObjectsDiffer
<1>2. /\ ObjectAt(i)' = <<e.ptr, e.size>>
      /\ hs_allocs'[i].kind = e.kind
      /\ IsLive(i)' <=> e.ptr # NULL /\ e.freed = 0
  BY OtherSlots
<1>3. \A j \in Slots \ {i} : /\ ObjectAt(j)' = ObjectAt(j)
                             /\ hs_allocs'[j].kind = hs_allocs[j].kind
                             /\ IsLive(j)' <=> IsLive(j)
  BY OtherSlots
<1>. QED
  BY <1>1, <1>2, <1>3 DEF RegisteredStatics, Objects, If

\* The automatic objects of a scope after a new entry.
LEMMA PutScope ==
    ASSUME TypeOK, StorageInv, AutomaticObjectsInOpenScopes,
           NEW i \in Slots, NEW e, hs_allocs' = [hs_allocs EXCEPT ![i] = e], NEW f, NEW s
    PROVE  ScopeObjects(f, s)' =
               (ScopeObjects(f, s) \ If(InScope(i, f, s), ObjectAt(i)))
                 \cup If(/\ e.ptr # NULL /\ e.kind \in {"local", "temporary"}
                         /\ e.frame = f /\ e.scope = s - 1, <<e.ptr, e.size>>)
<1>1. \A j \in Slots : InScope(j, f, s) => IsLive(j)
  BY DEF InScope, AutomaticObjectsInOpenScopes, IsLive, IsAuto
<1>2. \A j \in Slots \ {i} : InScope(i, f, s) /\ InScope(j, f, s) => ObjectAt(j) # ObjectAt(i)
  BY <1>1, LiveObjectsDiffer
<1>3. InScope(i, f, s)' <=> /\ e.ptr # NULL /\ e.kind \in {"local", "temporary"}
                            /\ e.frame = f /\ e.scope = s - 1
  BY OtherSlots DEF InScope, IsAuto
<1>4. /\ ObjectAt(i)' = <<e.ptr, e.size>>
      /\ \A j \in Slots \ {i} : ObjectAt(j)' = ObjectAt(j) /\ (InScope(j, f, s)' <=> InScope(j, f, s))
  BY OtherSlots
<1>. QED
  BY <1>2, <1>3, <1>4 DEF ScopeObjects, Objects, If

-----------------------------------------------------------------------------
(* Steps that change the current function.                                 *)

\* The function that runs and its innermost scope.
LEMMA TopIs ==
    ASSUME TypeOK, hs_current_frame # 0
    PROVE  /\ FrameStack # << >> /\ FrameStack \in Seq(Seq(Cells))
           /\ Len(FrameStack) = hs_current_frame
           /\ Memory!Top = FrameStack[hs_current_frame]
           /\ Memory!Top \in Seq(Cells) /\ Memory!Top # << >>
           /\ Len(Memory!Top) = hs_frame_scopes[hs_current_frame] + 1
           /\ \A s \in 1 .. (hs_frame_scopes[hs_current_frame] + 1) :
                 Memory!Top[s] = ScopeObjects(hs_current_frame, s)
<1>. PICK n, d : n = hs_current_frame /\ d = hs_frame_scopes[hs_current_frame]
  OBVIOUS
<1>1. n \in Nat /\ n \in 1 .. n /\ d \in Nat
  BY TableAssumption DEF TypeOK, Frames
<1>2. /\ FrameStack \in Seq(Seq(Cells)) /\ Len(FrameStack) = n
      /\ Len(FrameStack[n]) = d + 1
      /\ \A s \in 1 .. (d + 1) : FrameStack[n][s] = ScopeObjects(n, s)
  BY <1>1, StackShaped DEF StackShape
<1>3. Memory!Top = FrameStack[n] /\ FrameStack[n] \in Seq(Cells)
  BY <1>1, <1>2 DEF Memory!Top
<1>. QED
  BY <1>1, <1>2, <1>3

\* A function whose scopes and their objects a step leaves alone.
LEMMA FrameKept ==
    ASSUME TypeOK, TypeOK', NEW f, f \in 1 .. hs_current_frame, f \in 1 .. hs_current_frame',
           hs_frame_scopes'[f] = hs_frame_scopes[f],
           \A s \in Nat : ScopeObjects(f, s)' = ScopeObjects(f, s)
    PROVE  FrameStack'[f] = FrameStack[f]
<1>0. hs_current_frame \in Nat
  BY TableAssumption DEF TypeOK, Frames
<1>1. /\ FrameStack[f] \in Seq(Cells)
      /\ Len(FrameStack[f]) = hs_frame_scopes[f] + 1
      /\ \A s \in 1 .. (hs_frame_scopes[f] + 1) : FrameStack[f][s] = ScopeObjects(f, s)
  BY <1>0, StackShaped DEF StackShape
<1>2. /\ FrameStack'[f] \in Seq(Cells)
      /\ Len(FrameStack'[f]) = hs_frame_scopes[f] + 1
      /\ \A s \in 1 .. (hs_frame_scopes[f] + 1) : FrameStack'[f][s] = ScopeObjects(f, s)'
  <2>1. StackShape' /\ hs_current_frame' \in Nat
    BY StackShapedNext, TableAssumption DEF TypeOK, Frames
  <2>2. /\ FrameStack'[f] \in Seq(Cells)
        /\ Len(FrameStack'[f]) = hs_frame_scopes'[f] + 1
        /\ \A s \in 1 .. (hs_frame_scopes'[f] + 1) : FrameStack'[f][s] = ScopeObjects(f, s)'
    BY ONLY <2>1, f \in 1 .. hs_current_frame' DEF StackShape
  <2>. QED
    BY <2>2
<1>3. \A s \in 1 .. (hs_frame_scopes[f] + 1) : FrameStack'[f][s] = FrameStack[f][s]
  BY <1>1, <1>2
<1>. QED
  BY <1>1, <1>2, <1>3

\* A step that leaves the functions below alone changes the current one only.
LEMMA OnlyTop ==
    ASSUME TypeOK, TypeOK', hs_current_frame # 0, hs_current_frame' = hs_current_frame,
           \A f \in 1 .. (hs_current_frame - 1) :
               /\ hs_frame_scopes'[f] = hs_frame_scopes[f]
               /\ \A s \in Nat : ScopeObjects(f, s)' = ScopeObjects(f, s)
    PROVE  /\ FrameStack' = Memory!SetTop(FrameStack'[hs_current_frame])
           /\ FrameStack'[hs_current_frame] \in Seq(Cells)
           /\ Len(FrameStack'[hs_current_frame]) = hs_frame_scopes'[hs_current_frame] + 1
           /\ \A s \in 1 .. (hs_frame_scopes'[hs_current_frame] + 1) :
                 FrameStack'[hs_current_frame][s] = ScopeObjects(hs_current_frame, s)'
<1>. PICK n : n = hs_current_frame
  OBVIOUS
<1>1. n \in Nat /\ n \in 1 .. n
  BY TableAssumption DEF TypeOK, Frames
<1>2. /\ FrameStack \in Seq(Seq(Cells)) /\ Len(FrameStack) = n
      /\ \A f \in 1 .. n :
            /\ Len(FrameStack[f]) = hs_frame_scopes[f] + 1
            /\ \A s \in 1 .. (hs_frame_scopes[f] + 1) : FrameStack[f][s] = ScopeObjects(f, s)
  BY StackShaped DEF StackShape
<1>3. /\ FrameStack' \in Seq(Seq(Cells)) /\ Len(FrameStack') = n
      /\ \A f \in 1 .. n :
            /\ Len(FrameStack'[f]) = hs_frame_scopes'[f] + 1
            /\ \A s \in 1 .. (hs_frame_scopes'[f] + 1) : FrameStack'[f][s] = ScopeObjects(f, s)'
  BY StackShapedNext DEF StackShape
<1>4. \A f \in 1 .. n : FrameStack[f] \in Seq(Cells) /\ FrameStack'[f] \in Seq(Cells)
  BY <1>1, <1>2, <1>3
<1>5. ASSUME NEW f \in 1 .. (n - 1) PROVE FrameStack'[f] = FrameStack[f]
  <2>1. f \in 1 .. n
    BY <1>1
  <2>. QED
    BY <2>1, FrameKept
<1>6. FrameStack' = [FrameStack EXCEPT ![Len(FrameStack)] = FrameStack'[n]]
  BY <1>1, <1>2, <1>3, <1>5, LastChanged
<1>. QED
  BY <1>1, <1>3, <1>4, <1>6 DEF Memory!SetTop

\* A change of the innermost scope.
LEMMA InnermostChanged ==
    ASSUME TypeOK, TypeOK', UNCHANGED frameVars, hs_current_frame # 0, NEW objects,
           NEW n, NEW d, n = hs_current_frame, d = hs_frame_scopes[hs_current_frame] + 1,
           ScopeObjects(n, d)' = objects,
           \A f : \A s \in Nat : f # n \/ s # d => ScopeObjects(f, s)' = ScopeObjects(f, s)
    PROVE  /\ FrameStack # << >>
           /\ Memory!Top[Len(Memory!Top)] = ScopeObjects(n, d)
           /\ FrameStack' = Memory!InnermostScope(objects)
<1>1. n \in Nat /\ d \in Nat \ {0}
  BY TableAssumption DEF TypeOK, Frames
<1>2. /\ FrameStack # << >> /\ Memory!Top \in Seq(Cells) /\ Memory!Top # << >>
      /\ Len(Memory!Top) = d /\ \A s \in 1 .. d : Memory!Top[s] = ScopeObjects(n, s)
  BY TopIs
<1>3. UNCHANGED <<hs_current_frame, hs_frame_scopes>>
  BY DEF frameVars
<1>4. /\ FrameStack' = Memory!SetTop(FrameStack'[n])
      /\ FrameStack'[n] \in Seq(Cells) /\ Len(FrameStack'[n]) = d
      /\ \A s \in 1 .. d : FrameStack'[n][s] = ScopeObjects(n, s)'
  BY <1>1, <1>3, OnlyTop
<1>5. FrameStack'[n] = [Memory!Top EXCEPT ![Len(Memory!Top)] = objects]
  <2>1. \A s \in 1 .. (d - 1) : FrameStack'[n][s] = Memory!Top[s]
    BY <1>1, <1>2, <1>4
  <2>2. FrameStack'[n][d] = objects
    BY <1>1, <1>4
  <2>. PICK t, u : t = FrameStack'[n] /\ u = Memory!Top
    OBVIOUS
  <2>3. /\ t \in Seq(Cells) /\ u \in Seq(Cells) /\ u # << >> /\ Len(t) = Len(u)
        /\ \A s \in 1 .. (Len(u) - 1) : t[s] = u[s]
        /\ t[Len(u)] = objects
    BY <1>2, <1>4, <2>1, <2>2
  <2>4. t = [u EXCEPT ![Len(u)] = objects]
    BY ONLY <2>3, LastChanged
  <2>. QED
    BY <2>4
<1>. QED
  BY <1>1, <1>2, <1>4, <1>5 DEF Memory!InnermostScope

-----------------------------------------------------------------------------
(* Frames.                                                                 *)

\* hs_frame_enter opens a function with one empty scope: no object of an earlier
\* call with the same frame number is left in the table.
LEMMA FrameEnterRefines ==
    ASSUME TypeOK, TypeOK', AutomaticObjectsInOpenScopes, hs_frame_enter
    PROVE  [Memory!Next]_(Memory!vars)
<1>1. CASE hs_current_frame + 1 >= HS_MAX_FRAMES
  BY <1>1, QuietRefines DEF hs_frame_enter, hs_fail
<1>2. CASE ~(hs_current_frame + 1 >= HS_MAX_FRAMES)
  <2>. PICK n : n = hs_current_frame
    OBVIOUS
  <2>1. /\ n \in Nat /\ UNCHANGED <<hs_allocs, status>> /\ status = "running"
        /\ hs_current_frame' = n + 1 /\ hs_frame_scopes'[n + 1] = 0
        /\ \A f \in 1 .. n : hs_frame_scopes'[f] = hs_frame_scopes[f]
    <3>1. n \in Nat /\ n + 1 \in Frames /\ 1 .. n \subseteq Frames
      BY <1>2, TableAssumption DEF TypeOK, Frames
    <3>. QED
      BY <1>2, <3>1 DEF hs_frame_enter, TypeOK
  <2>2. /\ \A f, s : ScopeObjects(f, s)' = ScopeObjects(f, s)
        /\ UNCHANGED <<HeapObjects, RegisteredStatics, Stopped>>
    BY <2>1 DEF ScopeObjects, InScope, IsAuto, IsLive, Objects, ObjectAt, HeapObjects,
                RegisteredStatics, Stopped
  <2>3. \A f \in 1 .. n : FrameStack'[f] = FrameStack[f]
    <3>. SUFFICES ASSUME NEW f \in 1 .. n PROVE FrameStack'[f] = FrameStack[f]
      OBVIOUS
    <3>1. f \in 1 .. hs_current_frame /\ f \in 1 .. hs_current_frame'
      BY <2>1
    <3>. QED
      BY <2>1, <2>2, <3>1, FrameKept
  <2>4. ScopeObjects(n + 1, 1) = {}
    <3>1. \A i \in Slots : ~InScope(i, n + 1, 1)
      BY <2>1 DEF InScope, AutomaticObjectsInOpenScopes
    <3>. QED
      BY <3>1 DEF ScopeObjects, Objects
  <2>5. /\ FrameStack' \in Seq(Seq(Cells)) /\ Len(FrameStack') = n + 1
        /\ Len(FrameStack'[n + 1]) = 1 /\ FrameStack'[n + 1][1] = {}
        /\ FrameStack'[n + 1] \in Seq(Cells)
    <3>1. StackShape'
      BY StackShapedNext
    <3>2. n + 1 \in 1 .. hs_current_frame' /\ 1 \in 1 .. (hs_frame_scopes'[n + 1] + 1)
      BY <2>1
    <3>3. /\ FrameStack'[n + 1] \in Seq(Cells)
          /\ Len(FrameStack'[n + 1]) = hs_frame_scopes'[n + 1] + 1
          /\ FrameStack'[n + 1][1] = ScopeObjects(n + 1, 1)'
          /\ FrameStack' \in Seq(Seq(Cells)) /\ Len(FrameStack') = hs_current_frame'
      BY ONLY <3>1, <3>2 DEF StackShape
    <3>. QED
      BY <2>1, <2>2, <2>4, <3>3
  <2>6. FrameStack \in Seq(Seq(Cells)) /\ Len(FrameStack) = n
    BY StackShaped DEF StackShape
  <2>7. FrameStack'[n + 1] = <<{}>>
    BY <2>5
  <2>8. FrameStack' = Append(FrameStack, <<{}>>)
    <3>. PICK t, u : t = FrameStack' /\ u = FrameStack
      OBVIOUS
    <3>1. /\ u \in Seq(Seq(Cells)) /\ t \in Seq(Seq(Cells)) /\ <<{}>> \in Seq(Cells)
          /\ Len(t) = Len(u) + 1 /\ \A i \in 1 .. Len(u) : t[i] = u[i]
          /\ t[Len(u) + 1] = <<{}>>
      BY <2>1, <2>3, <2>5, <2>6, <2>7
    <3>2. t = Append(u, <<{}>>)
      BY ONLY <3>1, AppendIs
    <3>. QED
      BY <3>2
  <2>. QED
    BY <2>1, <2>2, <2>8 DEF Memory!Next, Memory!EnterFrame, Stopped
<1>. QED
  BY <1>1, <1>2

\* hs_frame_exit drops the function and its automatic objects, nothing else.
LEMMA FrameExitRefines ==
    ASSUME TypeOK, TypeOK', hs_frame_exit
    PROVE  [Memory!Next]_(Memory!vars)
<1>1. CASE hs_current_frame = 0
  BY <1>1, QuietRefines DEF hs_frame_exit, hs_fail
<1>2. CASE hs_current_frame # 0
  <2>. PICK n : n = hs_current_frame
    OBVIOUS
  <2>1. /\ n \in Nat \ {0} /\ UNCHANGED status /\ status = "running"
        /\ hs_current_frame' = n - 1
        /\ \A f \in 1 .. (n - 1) : hs_frame_scopes'[f] = hs_frame_scopes[f]
    <3>1. n \in Nat /\ n \in Frames /\ 1 .. (n - 1) \subseteq Frames
      BY <1>2, TableAssumption DEF TypeOK, Frames
    <3>. QED
      BY <1>2, <3>1 DEF hs_frame_exit, TypeOK
  <2>2. \A i \in Slots : \/ hs_allocs'[i] = hs_allocs[i] /\ ~(IsAuto(i) /\ hs_allocs[i].frame = n)
                         \/ /\ IsAuto(i) /\ hs_allocs[i].frame = n
                            /\ hs_allocs'[i].ptr = NULL
    BY <1>2 DEF hs_frame_exit, hs_clear
  <2>3. UNCHANGED <<HeapObjects, RegisteredStatics, Stopped>>
    <3>1. UNCHANGED <<HeapObjects, RegisteredStatics>>
      BY <2>2, ClearedKeep
    <3>. QED
      BY <2>1, <3>1 DEF Stopped
  <2>4. ASSUME NEW f \in 1 .. (n - 1) PROVE FrameStack'[f] = FrameStack[f]
    <3>1. f \in 1 .. hs_current_frame /\ f \in 1 .. hs_current_frame' /\ f # n
      BY <2>1
    <3>2. ASSUME NEW s PROVE ScopeObjects(f, s)' = ScopeObjects(f, s)
      <4>1. \A i \in Slots : /\ InScope(i, f, s)' <=> InScope(i, f, s)
                             /\ InScope(i, f, s) => ObjectAt(i)' = ObjectAt(i)
        BY <2>2, <3>1 DEF InScope, IsAuto, ObjectAt
      <4>. QED
        BY <4>1 DEF ScopeObjects, Objects
    <3>. QED
      BY <2>1, <3>1, <3>2, FrameKept
  <2>5. FrameStack' \in Seq(Seq(Cells)) /\ Len(FrameStack') = n - 1
    <3>1. StackShape'
      BY StackShapedNext
    <3>. QED
      BY <2>1, <3>1 DEF StackShape
  <2>6. FrameStack \in Seq(Seq(Cells)) /\ Len(FrameStack) = n
    BY StackShaped DEF StackShape
  <2>7. FrameStack' = SubSeq(FrameStack, 1, Len(FrameStack) - 1)
    <3>. PICK t, u : t = FrameStack' /\ u = FrameStack
      OBVIOUS
    <3>1. /\ u \in Seq(Seq(Cells)) /\ t \in Seq(Seq(Cells))
          /\ Len(t) <= Len(u) /\ \A i \in 1 .. Len(t) : t[i] = u[i]
      BY <2>1, <2>4, <2>5, <2>6
    <3>2. t = SubSeq(u, 1, Len(t))
      BY ONLY <3>1, FrontIs
    <3>. QED
      BY <2>5, <2>6, <3>2
  <2>8. FrameStack # << >>
    BY <2>1, <2>6
  <2>. QED
    BY <2>1, <2>3, <2>7, <2>8 DEF Memory!Next, Memory!ExitFrame, Stopped
<1>. QED
  BY <1>1, <1>2

-----------------------------------------------------------------------------
(* Scopes.                                                                 *)

\* hs_scope_enter opens an empty scope in the current function.
LEMMA ScopeEnterRefines ==
    ASSUME TypeOK, TypeOK', AutomaticObjectsInOpenScopes, hs_scope_enter
    PROVE  [Memory!Next]_(Memory!vars)
<1>. PICK n, d : n = hs_current_frame /\ d = hs_frame_scopes[hs_current_frame]
  OBVIOUS
<1>1. CASE n = 0 \/ d = SCOPE_MAX
  BY <1>1, QuietRefines DEF hs_scope_enter, hs_fail
<1>2. CASE n # 0 /\ d # SCOPE_MAX
  <2>1. /\ n \in Nat \ {0} /\ d \in Nat /\ UNCHANGED <<hs_allocs, status, hs_current_frame>>
        /\ status = "running" /\ hs_frame_scopes'[n] = d + 1
        /\ \A f \in 1 .. (n - 1) : hs_frame_scopes'[f] = hs_frame_scopes[f]
    <3>1. n \in Nat /\ n \in Frames /\ 1 .. (n - 1) \subseteq Frames /\ d \in Nat
      BY <1>2, TableAssumption DEF TypeOK, Frames
    <3>2. hs_frame_scopes' = [hs_frame_scopes EXCEPT ![n] = d + 1]
      BY <1>2 DEF hs_scope_enter
    <3>3. hs_frame_scopes'[n] = d + 1
          /\ \A f \in 1 .. (n - 1) : hs_frame_scopes'[f] = hs_frame_scopes[f]
      BY <3>1, <3>2 DEF TypeOK
    <3>. QED
      BY <1>2, <3>1, <3>3 DEF hs_scope_enter
  <2>2. /\ \A f, s : ScopeObjects(f, s)' = ScopeObjects(f, s)
        /\ UNCHANGED <<HeapObjects, RegisteredStatics, Stopped>>
    BY <2>1 DEF ScopeObjects, InScope, IsAuto, IsLive, Objects, ObjectAt, HeapObjects,
                RegisteredStatics, Stopped
  <2>3. ScopeObjects(n, d + 2) = {}
    <3>1. \A i \in Slots : ~InScope(i, n, d + 2)
      <4>. SUFFICES ASSUME NEW i \in Slots, InScope(i, n, d + 2) PROVE FALSE
        OBVIOUS
      <4>1. hs_allocs[i].frame = n /\ hs_allocs[i].scope = d + 1
        BY <2>1 DEF InScope
      <4>2. hs_allocs[i].scope \in 0 .. hs_frame_scopes[hs_allocs[i].frame]
        BY DEF InScope, AutomaticObjectsInOpenScopes
      <4>. QED
        BY <2>1, <4>1, <4>2
    <3>. QED
      BY <3>1 DEF ScopeObjects, Objects
  <2>4. /\ FrameStack # << >> /\ Memory!Top \in Seq(Cells) /\ Len(Memory!Top) = d + 1
        /\ \A s \in 1 .. (d + 1) : Memory!Top[s] = ScopeObjects(n, s)
    BY <1>2, TopIs
  <2>5. /\ FrameStack' = Memory!SetTop(FrameStack'[n])
        /\ FrameStack'[n] \in Seq(Cells) /\ Len(FrameStack'[n]) = d + 2
        /\ \A s \in 1 .. (d + 2) : FrameStack'[n][s] = ScopeObjects(n, s)'
    <3>1. /\ FrameStack' = Memory!SetTop(FrameStack'[n])
          /\ FrameStack'[n] \in Seq(Cells) /\ Len(FrameStack'[n]) = hs_frame_scopes'[n] + 1
          /\ \A s \in 1 .. (hs_frame_scopes'[n] + 1) : FrameStack'[n][s] = ScopeObjects(n, s)'
      BY <2>1, <2>2, OnlyTop
    <3>2. hs_frame_scopes'[n] + 1 = d + 2
      BY <2>1
    <3>. QED
      BY <3>1, <3>2
  <2>6. FrameStack'[n] = Append(Memory!Top, {})
    <3>. PICK t, u : t = FrameStack'[n] /\ u = Memory!Top
      OBVIOUS
    <3>1. /\ u \in Seq(Cells) /\ t \in Seq(Cells) /\ {} \in Cells
          /\ Len(t) = Len(u) + 1 /\ \A i \in 1 .. Len(u) : t[i] = u[i]
      BY <2>1, <2>2, <2>4, <2>5 DEF Cells
    <3>2. t[Len(u) + 1] = {}
      <4>1. Len(u) + 1 = d + 2 /\ d + 2 \in 1 .. (d + 2)
        BY <2>1, <2>4
      <4>2. FrameStack'[n][d + 2] = ScopeObjects(n, d + 2)
        BY <2>2, <2>5, <4>1
      <4>. QED
        BY <2>3, <4>1, <4>2
    <3>3. t = Append(u, {})
      BY ONLY <3>1, <3>2, AppendIs
    <3>. QED
      BY <3>3
  <2>. QED
    BY <2>1, <2>2, <2>4, <2>5, <2>6 DEF Memory!Next, Memory!EnterScope, Stopped
<1>. QED
  BY <1>1, <1>2

\* A scope exit, of one level or of several, drops exactly the scopes it leaves.
LEMMA LeaveScopesRefines ==
    ASSUME TypeOK, TypeOK', status = "running", hs_current_frame # 0,
           NEW target \in Nat, target <= hs_frame_scopes[hs_current_frame],
           LeaveScopes(target)
    PROVE  [Memory!Next]_(Memory!vars)
<1>. PICK n, d : n = hs_current_frame /\ d = hs_frame_scopes[hs_current_frame]
  OBVIOUS
<1>1. /\ n \in Nat \ {0} /\ d \in Nat /\ UNCHANGED <<status, hs_current_frame>>
      /\ hs_frame_scopes'[n] = target
      /\ \A f \in 1 .. (n - 1) : hs_frame_scopes'[f] = hs_frame_scopes[f]
  <2>1. n \in Nat /\ n \in Frames /\ 1 .. (n - 1) \subseteq Frames /\ d \in Nat
    BY TableAssumption DEF TypeOK, Frames
  <2>. QED
    BY <2>1 DEF LeaveScopes, TypeOK
<1>2. \A i \in Slots :
         \/ hs_allocs'[i] = hs_allocs[i]
         \/ /\ IsAuto(i) /\ hs_allocs[i].frame = n /\ hs_allocs[i].scope > target
            /\ hs_allocs'[i].ptr = NULL
  BY DEF LeaveScopes, hs_clear
<1>3. UNCHANGED <<HeapObjects, RegisteredStatics, Stopped>>
  <2>1. UNCHANGED <<HeapObjects, RegisteredStatics>>
    BY <1>2, ClearedKeep
  <2>. QED
    BY <1>1, <2>1 DEF Stopped
<1>4. ASSUME NEW f, NEW s, f # n \/ s \in 1 .. (target + 1)
      PROVE  ScopeObjects(f, s)' = ScopeObjects(f, s)
  <2>1. \A i \in Slots : /\ InScope(i, f, s)' <=> InScope(i, f, s)
                         /\ InScope(i, f, s) => ObjectAt(i)' = ObjectAt(i)
    BY <1>2, <1>4 DEF InScope, IsAuto, ObjectAt
  <2>. QED
    BY <2>1 DEF ScopeObjects, Objects
<1>5. /\ FrameStack # << >> /\ Memory!Top \in Seq(Cells) /\ Len(Memory!Top) = d + 1
      /\ \A s \in 1 .. (d + 1) : Memory!Top[s] = ScopeObjects(n, s)
  BY TopIs
<1>6. /\ FrameStack' = Memory!SetTop(FrameStack'[n])
      /\ FrameStack'[n] \in Seq(Cells) /\ Len(FrameStack'[n]) = target + 1
      /\ \A s \in 1 .. (target + 1) : FrameStack'[n][s] = ScopeObjects(n, s)'
  <2>1. \A f \in 1 .. (n - 1) : \A s : ScopeObjects(f, s)' = ScopeObjects(f, s)
    BY <1>1, <1>4
  <2>. QED
    BY <1>1, <2>1, OnlyTop
<1>7. FrameStack'[n] = SubSeq(Memory!Top, 1, target + 1) /\ target + 1 \in 1 .. Len(Memory!Top)
  <2>. PICK t, u : t = FrameStack'[n] /\ u = Memory!Top
    OBVIOUS
  <2>1. /\ u \in Seq(Cells) /\ t \in Seq(Cells) /\ Len(t) <= Len(u)
        /\ Len(t) = target + 1 /\ target + 1 \in 1 .. Len(u)
    BY <1>1, <1>5, <1>6
  <2>2. ASSUME NEW i \in 1 .. Len(t) PROVE t[i] = u[i]
    <3>1. i \in 1 .. (target + 1) /\ i \in 1 .. (d + 1)
      BY <1>1, <1>6
    <3>2. ScopeObjects(n, i)' = ScopeObjects(n, i)
      BY <1>4, <3>1
    <3>. QED
      BY <1>5, <1>6, <3>1, <3>2
  <2>3. t = SubSeq(u, 1, Len(t))
    BY ONLY <2>1, <2>2, FrontIs
  <2>. QED
    BY <2>1, <2>3
<1>. QED
  BY <1>1, <1>3, <1>5, <1>6, <1>7 DEF Memory!Next, Memory!ExitScopes, Stopped

-----------------------------------------------------------------------------
(* Automatic objects.                                                      *)

\* The automatic objects of the table are live.
LEMMA InScopeIsLive ==
    ASSUME AutomaticObjectsInOpenScopes, NEW i \in Slots, NEW f, NEW s, InScope(i, f, s)
    PROVE  IsLive(i) /\ hs_allocs[i].kind \in {"local", "temporary"}
BY DEF InScope, AutomaticObjectsInOpenScopes, IsLive, IsAuto

\* An automatic object registered in the innermost scope, in a slot that is
\* free or holds the previous evaluation of the same temporary.
LEMMA DeclareRefines ==
    ASSUME TypeOK, TypeOK', StorageInv, AutomaticObjectsInOpenScopes,
           status = "running", UNCHANGED status, UNCHANGED frameVars, hs_current_frame # 0,
           NEW i \in Slots, NEW e, hs_allocs' = [hs_allocs EXCEPT ![i] = e],
           e.ptr # NULL, e.freed = 0, e.kind \in {"local", "temporary"},
           e.frame = hs_current_frame, e.scope = hs_frame_scopes[hs_current_frame],
           <<e.ptr, e.size>> \in Addr \X (1 .. UINT64_MAX),
           ~IsLive(i) \/ InScope(i, hs_current_frame, hs_frame_scopes[hs_current_frame] + 1),
           \A j \in Slots \ {i} : IsLive(j) =>
               Bytes(hs_allocs[j].ptr, hs_allocs[j].size) \cap Bytes(e.ptr, e.size) = {}
    PROVE  [Memory!Next]_(Memory!vars)
<1>. PICK n, d : n = hs_current_frame /\ d = hs_frame_scopes[hs_current_frame] + 1
  OBVIOUS
<1>. DEFINE gone == If(InScope(i, n, d), ObjectAt(i))
            o == <<e.ptr, e.size>>
<1>0. n \in Nat /\ hs_frame_scopes[hs_current_frame] \in Nat
  BY ONLY TypeOK, TableAssumption, n = hs_current_frame DEF TypeOK, Frames
<1>1. d \in Nat /\ e.frame = n /\ e.scope = d - 1
  BY <1>0
<1>2. ScopeObjects(n, d)' = (ScopeObjects(n, d) \ gone) \cup {o}
  <2>1. ScopeObjects(n, d)' =
           (ScopeObjects(n, d) \ If(InScope(i, n, d), ObjectAt(i)))
             \cup If(/\ e.ptr # NULL /\ e.kind \in {"local", "temporary"}
                     /\ e.frame = n /\ e.scope = d - 1, <<e.ptr, e.size>>)
    BY ONLY TypeOK, StorageInv, AutomaticObjectsInOpenScopes, i \in Slots,
            hs_allocs' = [hs_allocs EXCEPT ![i] = e], PutScope
  <2>2. If(/\ e.ptr # NULL /\ e.kind \in {"local", "temporary"}
           /\ e.frame = n /\ e.scope = d - 1, <<e.ptr, e.size>>) = {o}
    BY <1>1 DEF If
  <2>. QED
    BY <2>1, <2>2
<1>3. ASSUME NEW f, NEW s \in Nat, f # n \/ s # d
      PROVE  ScopeObjects(f, s)' = ScopeObjects(f, s)
  <2>1. ~(e.frame = f /\ e.scope = s - 1)
    BY <1>1, <1>3
  <2>2. ~InScope(i, f, s)
    <3>1. CASE ~IsLive(i)
      BY <3>1, InScopeIsLive
    <3>2. CASE InScope(i, n, d)
      BY <1>1, <1>3, <3>2 DEF InScope
    <3>. QED
      BY <3>1, <3>2
  <2>3. ScopeObjects(f, s)' =
           (ScopeObjects(f, s) \ If(InScope(i, f, s), ObjectAt(i)))
             \cup If(/\ e.ptr # NULL /\ e.kind \in {"local", "temporary"}
                     /\ e.frame = f /\ e.scope = s - 1, <<e.ptr, e.size>>)
    BY ONLY TypeOK, StorageInv, AutomaticObjectsInOpenScopes, i \in Slots,
            hs_allocs' = [hs_allocs EXCEPT ![i] = e], PutScope
  <2>. QED
    BY <2>1, <2>2, <2>3 DEF If
<1>4. HeapObjects' = HeapObjects /\ RegisteredStatics' = RegisteredStatics
  <2>1. ~(IsLive(i) /\ hs_allocs[i].kind \in {"heap", "static"})
    BY InScopeIsLive
  <2>2. HeapObjects' = HeapObjects
    BY <2>1, PutHeap DEF If
  <2>3. RegisteredStatics' = RegisteredStatics
    BY <2>1, PutStatics DEF If
  <2>. QED
    BY <2>2, <2>3
<1>5. /\ FrameStack # << >> /\ Memory!Top[Len(Memory!Top)] = ScopeObjects(n, d)
      /\ FrameStack' = Memory!InnermostScope((ScopeObjects(n, d) \ gone) \cup {o})
  <2>. PICK objects : objects = (ScopeObjects(n, d) \ gone) \cup {o}
    OBVIOUS
  <2>1. \A f : \A s \in Nat : f # n \/ s # d => ScopeObjects(f, s)' = ScopeObjects(f, s)
    BY <1>3
  <2>2. ScopeObjects(n, d)' = objects
    BY <1>2
  <2>3. /\ FrameStack # << >> /\ Memory!Top[Len(Memory!Top)] = ScopeObjects(n, d)
        /\ FrameStack' = Memory!InnermostScope(objects)
    BY ONLY TypeOK, TypeOK', UNCHANGED frameVars, hs_current_frame # 0,
            n = hs_current_frame, d = hs_frame_scopes[hs_current_frame] + 1,
            <2>1, <2>2, InnermostChanged
  <2>. QED
    BY ONLY <2>3, objects = (ScopeObjects(n, d) \ gone) \cup {o}
<1>6. gone \subseteq ScopeObjects(n, d) /\ \A x, y \in gone : x = y
  BY DEF ScopeObjects, Objects, If
<1>7. Memory!Disjoint(o, Memory!Live \ gone)
  <2>1. \A j \in Slots : IsLive(j) /\ ObjectAt(j) \notin gone =>
           Bytes(hs_allocs[j].ptr, hs_allocs[j].size) \cap Bytes(e.ptr, e.size) = {}
    BY DEF If
  <2>. HIDE DEF gone
  <2>. QED
    BY <2>1, ApartFromLive
<1>8. Stopped' = Stopped /\ ~Stopped
  BY DEF Stopped
<1>. HIDE DEF gone, o
<1>9. o \in Addr \X (1 .. UINT64_MAX)
  BY DEF o
<1>10. Memory!Declare
  <2>1. gone \in SUBSET (Memory!Top[Len(Memory!Top)])
    BY <1>5, <1>6
  <2>2. FrameStack' = Memory!InnermostScope((Memory!Top[Len(Memory!Top)] \ gone) \cup {o})
    BY ONLY <1>5
  <2>3. \E g \in SUBSET (Memory!Top[Len(Memory!Top)]), x \in Addr \X (1 .. UINT64_MAX) :
           /\ \A y, z \in g : y = z
           /\ Memory!Disjoint(x, Memory!Live \ g)
           /\ FrameStack' = Memory!InnermostScope((Memory!Top[Len(Memory!Top)] \ g) \cup {x})
    BY ONLY <1>6, <1>7, <1>9, <2>1, <2>2
  <2>4. FrameStack # << >> /\ UNCHANGED <<HeapObjects, RegisteredStatics, Stopped>>
    BY <1>4, <1>5, <1>8
  <2>. QED
    BY ONLY <2>3, <2>4, Zenon DEF Memory!Declare
<1>. QED
  BY <1>8, <1>10 DEF Memory!Next

\* Sizes and addresses the program presents make objects of the abstract memory.
LEMMA StackObject ==
    ASSUME NEW p \in StackAddr, NEW n \in Sizes, n # 0
    PROVE  <<p, n>> \in Addr \X (1 .. UINT64_MAX)
BY AddressAssumption, SizeAssumption, TableAssumption DEF Addr

\* hs_register_local declares an object, finds it registered, or stops.
LEMMA RegisterLocalRefines ==
    ASSUME TypeOK, TypeOK', StorageInv, AutomaticObjectsInOpenScopes,
           NEW p \in StackAddr, NEW m \in Sizes \ {0}, hs_register_local(p, m)
    PROVE  [Memory!Next]_(Memory!vars)
<1>. PICK f, s : f = hs_current_frame /\ s = hs_frame_scopes[hs_current_frame]
  OBVIOUS
<1>1. status = "running" /\ UNCHANGED frameVars
  BY DEF hs_register_local, frameVars
<1>2. CASE f = 0
  BY <1>1, <1>2, QuietRefines DEF hs_register_local, hs_fail
<1>3. CASE f # 0
  <2>. DEFINE e == [ptr |-> p, size |-> m, frame |-> f, scope |-> s,
                    registration_id |-> 0, kind |-> "local", freed |-> 0]
  <2>1. p \in Nat \ {0} /\ m \in Nat \ {0}
    BY AddressAssumption
  <2>2. OnlySelf(p, m, "local", f, s) /\ hs_register(p, m, "local", f, s)
    BY <1>3 DEF hs_register_local, OnStack, OnlySelf
  <2>3. \/ UNCHANGED hs_allocs
        \/ /\ \E i \in FreeSlots : hs_allocs' = [hs_allocs EXCEPT ![i] = e]
           /\ UNCHANGED status
           /\ \A j \in Slots :
                 IsLive(j) => Bytes(hs_allocs[j].ptr, hs_allocs[j].size)
                                \cap Bytes(p, m) = {}
    BY ONLY TypeOK, StorageInv, <2>1, <2>2, RegisterCases
  <2>4. CASE UNCHANGED hs_allocs
    BY <1>1, <2>4, QuietRefines
  <2>5. ASSUME NEW i \in FreeSlots, hs_allocs' = [hs_allocs EXCEPT ![i] = e], UNCHANGED status,
               \A j \in Slots :
                 IsLive(j) => Bytes(hs_allocs[j].ptr, hs_allocs[j].size)
                                \cap Bytes(p, m) = {}
        PROVE  [Memory!Next]_(Memory!vars)
    <3>1. i \in Slots /\ ~IsLive(i)
      BY DEF FreeSlots, IsLive
    <3>2. /\ e.ptr = p /\ e.size = m /\ e.freed = 0 /\ e.kind = "local" /\ e.frame = f
          /\ e.scope = s /\ p # NULL
      BY <2>1 DEF NULL
    <3>3. <<p, m>> \in Addr \X (1 .. UINT64_MAX)
      BY StackObject
    <3>. HIDE DEF e
    <3>. QED
      BY <1>1, <1>3, <2>5, <3>1, <3>2, <3>3, DeclareRefines
  <2>. QED
    BY <2>3, <2>4, <2>5
<1>. QED
  BY <1>2, <1>3

\* Clearing the entry of a temporary removes it from the innermost scope.
LEMMA DiscardRefines ==
    ASSUME TypeOK, TypeOK', StorageInv, AutomaticObjectsInOpenScopes,
           status = "running", UNCHANGED status, UNCHANGED frameVars, hs_current_frame # 0,
           NEW i \in Slots, NEW e, hs_allocs' = [hs_allocs EXCEPT ![i] = e], e.ptr = NULL,
           InScope(i, hs_current_frame, hs_frame_scopes[hs_current_frame] + 1)
    PROVE  [Memory!Next]_(Memory!vars)
<1>. PICK n, d : n = hs_current_frame /\ d = hs_frame_scopes[hs_current_frame] + 1
  OBVIOUS
<1>0. n \in Nat /\ hs_frame_scopes[hs_current_frame] \in Nat
  BY ONLY TypeOK, TableAssumption, n = hs_current_frame DEF TypeOK, Frames
<1>1. d \in Nat /\ InScope(i, n, d)
  BY <1>0
<1>2. ASSUME NEW f, NEW s
      PROVE  ScopeObjects(f, s)' = ScopeObjects(f, s) \ If(InScope(i, f, s), ObjectAt(i))
  <2>1. ScopeObjects(f, s)' =
           (ScopeObjects(f, s) \ If(InScope(i, f, s), ObjectAt(i)))
             \cup If(/\ e.ptr # NULL /\ e.kind \in {"local", "temporary"}
                     /\ e.frame = f /\ e.scope = s - 1, <<e.ptr, e.size>>)
    BY ONLY TypeOK, StorageInv, AutomaticObjectsInOpenScopes, i \in Slots,
            hs_allocs' = [hs_allocs EXCEPT ![i] = e], PutScope
  <2>. QED
    BY <2>1 DEF If
<1>3. ScopeObjects(n, d)' = ScopeObjects(n, d) \ {ObjectAt(i)}
  BY <1>1, <1>2 DEF If
<1>4. ASSUME NEW f, NEW s \in Nat, f # n \/ s # d
      PROVE  ScopeObjects(f, s)' = ScopeObjects(f, s)
  <2>1. ~InScope(i, f, s)
    BY <1>1, <1>4 DEF InScope, TypeOK, HsAlloc
  <2>. QED
    BY <1>2, <2>1 DEF If
<1>5. HeapObjects' = HeapObjects /\ RegisteredStatics' = RegisteredStatics
  <2>1. ~(IsLive(i) /\ hs_allocs[i].kind \in {"heap", "static"})
    BY InScopeIsLive
  <2>2. HeapObjects' = HeapObjects
    BY <2>1, PutHeap DEF If
  <2>3. RegisteredStatics' = RegisteredStatics
    BY <2>1, PutStatics DEF If
  <2>. QED
    BY <2>2, <2>3
<1>6. /\ FrameStack # << >> /\ Memory!Top[Len(Memory!Top)] = ScopeObjects(n, d)
      /\ FrameStack' = Memory!InnermostScope(ScopeObjects(n, d) \ {ObjectAt(i)})
  <2>. PICK objects : objects = ScopeObjects(n, d) \ {ObjectAt(i)}
    OBVIOUS
  <2>1. \A f : \A s \in Nat : f # n \/ s # d => ScopeObjects(f, s)' = ScopeObjects(f, s)
    BY <1>4
  <2>2. ScopeObjects(n, d)' = objects
    BY <1>3
  <2>3. /\ FrameStack # << >> /\ Memory!Top[Len(Memory!Top)] = ScopeObjects(n, d)
        /\ FrameStack' = Memory!InnermostScope(objects)
    BY ONLY TypeOK, TypeOK', UNCHANGED frameVars, hs_current_frame # 0,
            n = hs_current_frame, d = hs_frame_scopes[hs_current_frame] + 1,
            <2>1, <2>2, InnermostChanged
  <2>. QED
    BY ONLY <2>3, objects = ScopeObjects(n, d) \ {ObjectAt(i)}
<1>7. ObjectAt(i) \in ScopeObjects(n, d)
  BY <1>1 DEF ScopeObjects, Objects
<1>8. Stopped' = Stopped /\ ~Stopped
  BY DEF Stopped
<1>9. Memory!Discard
  <2>1. \E x \in Memory!Top[Len(Memory!Top)] :
           FrameStack' = Memory!InnermostScope(Memory!Top[Len(Memory!Top)] \ {x})
    BY ONLY <1>6, <1>7
  <2>2. FrameStack # << >> /\ UNCHANGED <<HeapObjects, RegisteredStatics, Stopped>>
    BY <1>5, <1>6, <1>8
  <2>. QED
    BY ONLY <2>1, <2>2, Zenon DEF Memory!Discard
<1>. QED
  BY <1>8, <1>9 DEF Memory!Next

\* hs_register_temporary declares a temporary, replaces or discards its previous
\* evaluation, or stops.
LEMMA RegisterTemporaryRefines ==
    ASSUME TypeOK, TypeOK', StorageInv, AutomaticObjectsInOpenScopes,
           NEW p \in StackAddr, NEW m \in Sizes, NEW id \in TempIds,
           hs_register_temporary(p, m, id)
    PROVE  [Memory!Next]_(Memory!vars)
<1>. PICK f, s : f = hs_current_frame /\ s = hs_frame_scopes[hs_current_frame]
  OBVIOUS
<1>. DEFINE existing == Temporaries(f, s, id)
            new == [ptr |-> p, size |-> m, frame |-> f, scope |-> s,
                    registration_id |-> id, kind |-> "temporary", freed |-> 0]
<1>1. status = "running" /\ UNCHANGED frameVars
  BY DEF hs_register_temporary, frameVars
<1>2. p \in Nat \ {0} /\ m \in Nat /\ f \in Nat /\ s \in Nat
  BY ONLY AddressAssumption, TableAssumption, TypeOK, p \in StackAddr, m \in Sizes,
          f = hs_current_frame, s = hs_frame_scopes[hs_current_frame] DEF TypeOK, Frames
<1>3. \A i \in existing : /\ i \in Slots /\ hs_allocs[i].kind = "temporary"
                          /\ hs_allocs[i].frame = f /\ hs_allocs[i].scope = s
                          /\ hs_allocs[i].freed = 0 /\ InScope(i, f, s + 1)
  BY <1>2 DEF Temporaries, InScope, IsAuto
<1>4. \A i \in Slots \ {j \in existing : hs_find_temporary(f, s, id, j)} :
         IsLive(i) => Bytes(hs_allocs[i].ptr, hs_allocs[i].size) \cap Bytes(p, m) = {}
  BY DEF hs_register_temporary, OnStack
<1>5. \A i, j \in Slots :
         hs_find_temporary(f, s, id, i) /\ hs_find_temporary(f, s, id, j) => i = j
  BY TableAssumption DEF hs_find_temporary, IsFirst, Slots
<1>6. CASE f = 0
  BY <1>1, <1>6, QuietRefines DEF hs_register_temporary, hs_fail
<1>7. CASE f # 0 /\ m = 0
  <2>1. UNCHANGED status /\ hs_allocs' = [i \in Slots |->
               IF hs_find_temporary(f, s, id, i) THEN hs_clear(hs_allocs[i]) ELSE hs_allocs[i]]
    BY <1>7 DEF hs_register_temporary
  <2>2. CASE \A i \in Slots : ~hs_find_temporary(f, s, id, i)
    <3>1. hs_allocs' = hs_allocs
      <4>1. hs_allocs' = [i \in Slots |-> hs_allocs[i]]
        BY <2>1, <2>2
      <4>. QED
        BY <4>1 DEF TypeOK
    <3>. QED
      BY <1>1, <3>1, QuietRefines
  <2>3. ASSUME NEW i \in Slots, hs_find_temporary(f, s, id, i)
        PROVE  [Memory!Next]_(Memory!vars)
    <3>. PICK e : e = hs_clear(hs_allocs[i])
      OBVIOUS
    <3>1. hs_allocs' = [hs_allocs EXCEPT ![i] = e]
      <4>1. \A j \in Slots : hs_find_temporary(f, s, id, j) <=> j = i
        BY <1>5, <2>3
      <4>2. hs_allocs' = [j \in Slots |-> IF j = i THEN e ELSE hs_allocs[j]]
        BY <2>1, <4>1
      <4>. QED
        BY <4>2 DEF TypeOK
    <3>2. e.ptr = NULL
      BY DEF hs_clear
    <3>3. InScope(i, f, s + 1)
      BY <1>3, <2>3 DEF hs_find_temporary, IsFirst
    <3>4. UNCHANGED status
      BY <2>1
    <3>. QED
      BY <1>1, <1>7, <3>1, <3>2, <3>3, <3>4, DiscardRefines
  <2>. QED
    BY <2>2, <2>3
<1>8. CASE f # 0 /\ m # 0 /\ existing # {}
  <2>1. PICK i \in existing :
           /\ hs_find_temporary(f, s, id, i)
           /\ hs_allocs' = [hs_allocs EXCEPT ![i] = Moved(hs_allocs[i], p, m)]
           /\ UNCHANGED status
    BY <1>2, <1>8 DEF hs_register_temporary, NULL
  <2>. PICK e : e = Moved(hs_allocs[i], p, m)
    OBVIOUS
  <2>2. hs_allocs' = [hs_allocs EXCEPT ![i] = e] /\ UNCHANGED status /\ i \in Slots
    BY <1>3, <2>1
  <2>3. /\ e.ptr = p /\ e.size = m /\ e.freed = 0 /\ e.kind = "temporary" /\ e.frame = f
        /\ e.scope = s /\ p # NULL
    BY <1>2, <1>3 DEF NULL, Moved
  <2>4. <<p, m>> \in Addr \X (1 .. UINT64_MAX)
    BY <1>8, StackObject
  <2>5. InScope(i, f, s + 1)
    BY <1>3
  <2>6. \A j \in Slots \ {i} :
           IsLive(j) => Bytes(hs_allocs[j].ptr, hs_allocs[j].size) \cap Bytes(p, m) = {}
    BY <1>3, <1>4, <1>5, <2>1
  <2>. QED
    BY <1>1, <1>8, <2>2, <2>3, <2>4, <2>5, <2>6, DeclareRefines
<1>9. CASE f # 0 /\ m # 0 /\ existing = {}
  <2>1. TakeSlot(new)
    BY <1>2, <1>9 DEF hs_register_temporary, NULL
  <2>. PICK e : e = new
    OBVIOUS
  <2>2. \/ UNCHANGED hs_allocs
        \/ \E i \in FreeSlots : hs_allocs' = [hs_allocs EXCEPT ![i] = e] /\ UNCHANGED status
    BY <2>1 DEF TakeSlot, hs_fail
  <2>3. CASE UNCHANGED hs_allocs
    BY <1>1, <2>3, QuietRefines
  <2>4. ASSUME NEW i \in FreeSlots, hs_allocs' = [hs_allocs EXCEPT ![i] = e], UNCHANGED status
        PROVE  [Memory!Next]_(Memory!vars)
    <3>1. i \in Slots /\ ~IsLive(i)
      BY DEF FreeSlots, IsLive
    <3>2. /\ e.ptr = p /\ e.size = m /\ e.freed = 0 /\ e.kind = "temporary" /\ e.frame = f
          /\ e.scope = s /\ p # NULL
      BY <1>2 DEF NULL
    <3>3. <<p, m>> \in Addr \X (1 .. UINT64_MAX)
      BY <1>9, StackObject
    <3>4. \A j \in Slots \ {i} :
             IsLive(j) => Bytes(hs_allocs[j].ptr, hs_allocs[j].size) \cap Bytes(p, m) = {}
      BY <1>4, <1>9
    <3>. QED
      BY <1>1, <1>9, <2>4, <3>1, <3>2, <3>3, <3>4, DeclareRefines
  <2>. QED
    BY <2>2, <2>3, <2>4
<1>. QED
  BY <1>6, <1>7, <1>8, <1>9

-----------------------------------------------------------------------------
(* Static and dynamic objects.                                             *)

\* Storing a static or dynamic entry in a slot without an automatic object
\* leaves every scope as it is.
LEMMA StackKept ==
    ASSUME TypeOK, StorageInv, AutomaticObjectsInOpenScopes, UNCHANGED frameVars,
           NEW i \in Slots, NEW e, hs_allocs' = [hs_allocs EXCEPT ![i] = e],
           e.kind \in {"heap", "static"}, ~IsAuto(i)
    PROVE  FrameStack' = FrameStack
<1>1. ASSUME NEW f, NEW s PROVE ScopeObjects(f, s)' = ScopeObjects(f, s)
  <2>1. ScopeObjects(f, s)' =
           (ScopeObjects(f, s) \ If(InScope(i, f, s), ObjectAt(i)))
             \cup If(/\ e.ptr # NULL /\ e.kind \in {"local", "temporary"}
                     /\ e.frame = f /\ e.scope = s - 1, <<e.ptr, e.size>>)
    BY PutScope
  <2>2. ~InScope(i, f, s) /\ ~(e.kind \in {"local", "temporary"})
    BY DEF InScope
  <2>. QED
    BY <2>1, <2>2 DEF If
<1>. QED
  BY <1>1 DEF FrameStack, frameVars

\* A slot that is not live holds no automatic object.
LEMMA FreeSlotNotAuto ==
    ASSUME AutomaticObjectsInOpenScopes, NEW i \in Slots, ~IsLive(i)
    PROVE  ~IsAuto(i)
BY DEF AutomaticObjectsInOpenScopes, IsLive, IsAuto

\* A static object shares bytes with no live object but itself.
LEMMA StaticOnlySelf ==
    ASSUME TypeOK, StorageInv, NEW p, NEW m, <<p, m>> \in StaticObjects
    PROVE  OnlySelf(p, m, "static", 0, 0)
<1>. SUFFICES ASSUME NEW j \in Slots, IsLive(j),
                     Bytes(hs_allocs[j].ptr, hs_allocs[j].size) \cap Bytes(p, m) # {}
              PROVE  j \in Exact(p, "static", 0, 0) /\ hs_allocs[j].size = m
  BY DEF OnlySelf
<1>. DEFINE o == <<p, m>>
            q == <<hs_allocs[j].ptr, hs_allocs[j].size>>
<1>1. Bytes(p, m) \cap (HeapAddr \cup StackAddr) = {}
  <2>1. o \in StaticObjects /\ o[1] = p /\ o[2] = m
    OBVIOUS
  <2>. HIDE DEF o
  <2>2. Bytes(p, m) \subseteq StaticAddr
    BY <2>1 DEF StaticAddr
  <2>. QED
    BY <2>2, LayoutAssumption
<1>2. hs_allocs[j].kind = "static"
  BY <1>1 DEF StorageInv, StorageByKind, IsLive, TypeOK, HsAlloc, Kinds
<1>3. /\ q \in StaticObjects /\ q[1] = hs_allocs[j].ptr /\ q[2] = hs_allocs[j].size
      /\ hs_allocs[j].frame = 0 /\ hs_allocs[j].scope = 0 /\ hs_allocs[j].freed = 0
  BY <1>2 DEF StorageInv, StorageByKind, IsLive
<1>4. o \in StaticObjects /\ o[1] = p /\ o[2] = m
  OBVIOUS
<1>. HIDE DEF o, q
<1>5. q = o
  BY <1>3, <1>4, LayoutAssumption
<1>. QED
  BY <1>2, <1>3, <1>4, <1>5 DEF Exact

\* hs_register_static registers a static object, finds it registered, or stops.
LEMMA RegisterStaticRefines ==
    ASSUME TypeOK, StorageInv, AutomaticObjectsInOpenScopes,
           NEW x \in StaticObjects, hs_register_static(x[1], x[2])
    PROVE  [Memory!Next]_(Memory!vars)
<1>. PICK p, m : p = x[1] /\ m = x[2]
  OBVIOUS
<1>1. /\ p \in Nat \ {0} /\ m \in Nat \ {0} /\ <<p, m>> \in StaticObjects
      /\ status = "running" /\ UNCHANGED frameVars /\ hs_register(p, m, "static", 0, 0)
  BY AddressAssumption DEF hs_register_static, frameVars
<1>2. OnlySelf(p, m, "static", 0, 0)
  BY <1>1, StaticOnlySelf
<1>. DEFINE new == [ptr |-> p, size |-> m, frame |-> 0, scope |-> 0,
                    registration_id |-> 0, kind |-> "static", freed |-> 0]
<1>3. \/ UNCHANGED hs_allocs
      \/ /\ \E i \in FreeSlots : hs_allocs' = [hs_allocs EXCEPT ![i] = new]
         /\ UNCHANGED status
         /\ \A j \in Slots :
               IsLive(j) => Bytes(hs_allocs[j].ptr, hs_allocs[j].size)
                              \cap Bytes(p, m) = {}
  BY ONLY TypeOK, StorageInv, <1>1, <1>2, RegisterCases
<1>4. CASE UNCHANGED hs_allocs
  BY <1>1, <1>4, QuietRefines
<1>5. ASSUME NEW i \in FreeSlots, hs_allocs' = [hs_allocs EXCEPT ![i] = new], UNCHANGED status,
             \A j \in Slots :
               IsLive(j) => Bytes(hs_allocs[j].ptr, hs_allocs[j].size)
                              \cap Bytes(p, m) = {}
      PROVE  [Memory!Next]_(Memory!vars)
  <2>. PICK e : e = new
    OBVIOUS
  <2>1. i \in Slots /\ ~IsLive(i) /\ hs_allocs' = [hs_allocs EXCEPT ![i] = e]
    BY <1>5 DEF FreeSlots, IsLive
  <2>2. /\ e.ptr = p /\ e.size = m /\ e.freed = 0 /\ e.kind = "static" /\ p # NULL
    BY <1>1 DEF NULL
  <2>3. HeapObjects' = HeapObjects /\ RegisteredStatics' = RegisteredStatics \cup {<<p, m>>}
    <3>1. HeapObjects' = (HeapObjects \ If(IsLive(i) /\ hs_allocs[i].kind = "heap", ObjectAt(i)))
                  \cup If(e.ptr # NULL /\ e.freed = 0 /\ e.kind = "heap", <<e.ptr, e.size>>)
      BY <2>1, PutHeap
    <3>2. RegisteredStatics' =
             (RegisteredStatics \ If(IsLive(i) /\ hs_allocs[i].kind = "static", ObjectAt(i)))
               \cup If(e.ptr # NULL /\ e.freed = 0 /\ e.kind = "static", <<e.ptr, e.size>>)
      BY <2>1, PutStatics
    <3>. QED
      BY <2>1, <2>2, <3>1, <3>2 DEF If
  <2>4. FrameStack' = FrameStack
    BY <1>1, <2>1, <2>2, StackKept, FreeSlotNotAuto
  <2>5. Memory!Disjoint(<<p, m>>, Memory!Live)
    BY <1>5, ApartFromLive
  <2>6. <<p, m>> \in Addr \X (1 .. UINT64_MAX)
    <3>1. m <= UINT64_MAX /\ p \in Bytes(p, m)
      BY <1>1, SizeAssumption, BaseInBytes
    <3>2. p \in StaticAddr
      BY <3>1 DEF StaticAddr
    <3>. QED
      BY <1>1, <3>1, <3>2, TableAssumption DEF Addr
  <2>7. Stopped' = Stopped /\ ~Stopped
    BY <1>1, <1>5 DEF Stopped
  <2>8. Memory!DeclareStatic
    BY <2>3, <2>4, <2>5, <2>6, <2>7 DEF Memory!DeclareStatic
  <2>. QED
    BY <2>7, <2>8 DEF Memory!Next
<1>. QED
  BY <1>3, <1>4, <1>5

\* hs_alloc, hs_calloc and hs_realloc(NULL, n) allocate a block or stop.
LEMMA AllocateRefines ==
    ASSUME TypeOK, StorageInv, AutomaticObjectsInOpenScopes, status = "running",
           NEW m \in 1 .. UINT64_MAX, AllocateAndRegister(m), UNCHANGED frameVars
    PROVE  [Memory!Next]_(Memory!vars)
<1>0. m \in Nat \ {0}
  BY TableAssumption
<1>1. PICK a \in Placements(m, NULL) \cup {NULL} :
          IF a = NULL
            THEN hs_fail("allocation returned null") /\ UNCHANGED blocks
            ELSE blocks' = [blocks EXCEPT ![a] = m] /\ hs_register(a, m, "heap", 0, 0)
  BY DEF AllocateAndRegister
<1>2. CASE a = NULL
  BY <1>1, <1>2, QuietRefines DEF hs_fail
<1>3. CASE a # NULL
  <2>. DEFINE new == [ptr |-> a, size |-> m, frame |-> 0, scope |-> 0,
                      registration_id |-> 0, kind |-> "heap", freed |-> 0]
  <2>1. /\ a \in Placements(m, NULL) /\ a \in Nat \ {0} /\ a \in HeapAddr
        /\ hs_register(a, m, "heap", 0, 0)
    BY <1>1, <1>3, AddressAssumption DEF Placements, NULL
  <2>2. \A j \in Slots : IsLive(j) =>
           Bytes(hs_allocs[j].ptr, hs_allocs[j].size) \cap Bytes(a, m) = {}
    BY <1>0, <2>1, PlacementsApart DEF IsLive
  <2>3. \/ UNCHANGED hs_allocs
        \/ /\ \E i \in FreeSlots : hs_allocs' = [hs_allocs EXCEPT ![i] = new]
           /\ UNCHANGED status
    <3>1. OnlySelf(a, m, "heap", 0, 0)
      BY <2>2 DEF OnlySelf
    <3>. QED
      BY ONLY TypeOK, StorageInv, <1>0, <2>1, <3>1, RegisterCases
  <2>4. CASE UNCHANGED hs_allocs
    BY <2>4, QuietRefines
  <2>5. ASSUME NEW i \in FreeSlots, hs_allocs' = [hs_allocs EXCEPT ![i] = new], UNCHANGED status
        PROVE  [Memory!Next]_(Memory!vars)
    <3>. PICK e : e = new
      OBVIOUS
    <3>1. i \in Slots /\ ~IsLive(i) /\ hs_allocs' = [hs_allocs EXCEPT ![i] = e]
      BY <2>5 DEF FreeSlots, IsLive
    <3>2. /\ e.ptr = a /\ e.size = m /\ e.freed = 0 /\ e.kind = "heap" /\ a # NULL
      BY <1>3
    <3>3. HeapObjects' = HeapObjects \cup {<<a, m>>} /\ RegisteredStatics' = RegisteredStatics
      <4>1. HeapObjects' = (HeapObjects \ If(IsLive(i) /\ hs_allocs[i].kind = "heap", ObjectAt(i)))
                  \cup If(e.ptr # NULL /\ e.freed = 0 /\ e.kind = "heap", <<e.ptr, e.size>>)
        BY <3>1, PutHeap
      <4>2. RegisteredStatics' =
             (RegisteredStatics \ If(IsLive(i) /\ hs_allocs[i].kind = "static", ObjectAt(i)))
               \cup If(e.ptr # NULL /\ e.freed = 0 /\ e.kind = "static", <<e.ptr, e.size>>)
        BY <3>1, PutStatics
      <4>. QED
        BY <3>1, <3>2, <4>1, <4>2 DEF If
    <3>4. FrameStack' = FrameStack
      BY <3>1, <3>2, StackKept, FreeSlotNotAuto
    <3>5. Memory!Disjoint(<<a, m>>, Memory!Live)
      BY <2>2, ApartFromLive
    <3>6. <<a, m>> \in Addr \X (1 .. UINT64_MAX)
      BY <2>1 DEF Addr
    <3>7. Stopped' = Stopped /\ ~Stopped
      BY <2>5 DEF Stopped
    <3>8. Memory!Allocate
      BY <3>3, <3>4, <3>5, <3>6, <3>7 DEF Memory!Allocate
    <3>. QED
      BY <3>7, <3>8 DEF Memory!Next
  <2>. QED
    BY <2>3, <2>4, <2>5
<1>. QED
  BY <1>2, <1>3

\* hs_free releases one block, does nothing to NULL, or stops.
LEMMA FreeRefines ==
    ASSUME TypeOK, StorageInv, AutomaticObjectsInOpenScopes, status = "running",
           NEW p, Free(p), UNCHANGED frameVars
    PROVE  [Memory!Next]_(Memory!vars)
<1>1. CASE p = NULL \/ ~FreeAccepts(p)
  BY <1>1, QuietRefines DEF Free, hs_fail
<1>2. CASE p # NULL /\ FreeAccepts(p)
  <2>1. PICK i \in Slots : /\ hs_find(p, i)
                           /\ hs_allocs' = [hs_allocs EXCEPT ![i] = MarkFreed(hs_allocs[i])]
    BY <1>2 DEF Free
  <2>. PICK e : e = MarkFreed(hs_allocs[i])
    OBVIOUS
  <2>2. IsLive(i) /\ hs_allocs[i].kind = "heap" /\ ~IsAuto(i)
    BY <1>2, <2>1, AcceptedEntry DEF IsAuto
  <2>3. hs_allocs' = [hs_allocs EXCEPT ![i] = e] /\ e.freed = 1 /\ e.kind = "heap"
    BY <2>1, <2>2 DEF MarkFreed
  <2>4. HeapObjects' = HeapObjects \ {ObjectAt(i)} /\ RegisteredStatics' = RegisteredStatics
    <3>1. HeapObjects' = (HeapObjects \ If(IsLive(i) /\ hs_allocs[i].kind = "heap", ObjectAt(i)))
                  \cup If(e.ptr # NULL /\ e.freed = 0 /\ e.kind = "heap", <<e.ptr, e.size>>)
      BY <2>3, PutHeap
    <3>2. RegisteredStatics' =
             (RegisteredStatics \ If(IsLive(i) /\ hs_allocs[i].kind = "static", ObjectAt(i)))
               \cup If(e.ptr # NULL /\ e.freed = 0 /\ e.kind = "static", <<e.ptr, e.size>>)
      BY <2>3, PutStatics
    <3>. QED
      BY <2>2, <2>3, <3>1, <3>2 DEF If
  <2>5. FrameStack' = FrameStack
    BY <2>2, <2>3, StackKept
  <2>6. ObjectAt(i) \in HeapObjects
    BY <2>2 DEF HeapObjects, Objects
  <2>7. Stopped' = Stopped /\ ~Stopped
    BY <1>2 DEF Stopped, Free
  <2>8. Memory!Release
    BY <2>4, <2>5, <2>6, <2>7 DEF Memory!Release
  <2>. QED
    BY <2>7, <2>8 DEF Memory!Next
<1>. QED
  BY <1>1, <1>2

\* hs_realloc of a live block replaces it by one that may overlap its old place
\* and nothing else.
LEMMA ResizeRefines ==
    ASSUME TypeOK, StorageInv, AutomaticObjectsInOpenScopes, status = "running",
           UNCHANGED status, UNCHANGED frameVars, NEW m \in 1 .. UINT64_MAX, NEW p,
           FreeAccepts(p), NEW i \in Slots, hs_find(p, i), NEW next \in Placements(m, p),
           hs_allocs' = [hs_allocs EXCEPT ![i] = Reallocated(hs_allocs[i], next, m)]
    PROVE  [Memory!Next]_(Memory!vars)
<1>. PICK e : e = Reallocated(hs_allocs[i], next, m)
  OBVIOUS
<1>1. IsLive(i) /\ hs_allocs[i].kind = "heap" /\ hs_allocs[i].ptr = p /\ ~IsAuto(i)
  BY AcceptedEntry DEF IsAuto
<1>2. /\ hs_allocs' = [hs_allocs EXCEPT ![i] = e] /\ e.ptr = next /\ e.size = m
      /\ e.freed = 0 /\ e.kind = "heap"
  BY DEF Reallocated
<1>3. m \in Nat /\ next \in HeapAddr /\ next # NULL
  BY AddressAssumption, TableAssumption DEF Placements, NULL
<1>4. HeapObjects' = (HeapObjects \ {ObjectAt(i)}) \cup {<<next, m>>}
      /\ RegisteredStatics' = RegisteredStatics
  <2>1. HeapObjects' = (HeapObjects \ If(IsLive(i) /\ hs_allocs[i].kind = "heap", ObjectAt(i)))
                \cup If(e.ptr # NULL /\ e.freed = 0 /\ e.kind = "heap", <<e.ptr, e.size>>)
    BY <1>2, PutHeap
  <2>2. RegisteredStatics' =
           (RegisteredStatics \ If(IsLive(i) /\ hs_allocs[i].kind = "static", ObjectAt(i)))
             \cup If(e.ptr # NULL /\ e.freed = 0 /\ e.kind = "static", <<e.ptr, e.size>>)
    BY <1>2, PutStatics
  <2>. QED
    BY <1>1, <1>2, <1>3, <2>1, <2>2 DEF If
<1>5. FrameStack' = FrameStack
  BY <1>1, <1>2, StackKept
<1>6. ObjectAt(i) \in HeapObjects
  BY <1>1 DEF HeapObjects, Objects
<1>7. Memory!Disjoint(<<next, m>>, Memory!Live \ {ObjectAt(i)})
  <2>1. ASSUME NEW j \in Slots, IsLive(j), ObjectAt(j) \notin {ObjectAt(i)}
        PROVE  Bytes(hs_allocs[j].ptr, hs_allocs[j].size) \cap Bytes(next, m) = {}
    <3>1. j # i
      BY <2>1
    <3>2. /\ hs_allocs[j].ptr \in Bytes(hs_allocs[j].ptr, hs_allocs[j].size)
          /\ hs_allocs[i].ptr \in Bytes(hs_allocs[i].ptr, hs_allocs[i].size)
      BY <1>1, <2>1, BaseInBytes DEF StorageInv, StorageByKind, IsLive, TypeOK, HsAlloc
    <3>3. hs_allocs[j].ptr # p
      BY <1>1, <2>1, <3>1, <3>2 DEF StorageInv, LiveObjectsDisjoint
    <3>. QED
      BY <1>3, <2>1, <3>3, PlacementsApart
  <2>. QED
    BY <2>1, ApartFromLive
<1>8. <<next, m>> \in Addr \X (1 .. UINT64_MAX)
  BY <1>3 DEF Addr
<1>9. Stopped' = Stopped /\ ~Stopped
  BY DEF Stopped
<1>10. Memory!Resize
  BY <1>4, <1>5, <1>6, <1>7, <1>8, <1>9 DEF Memory!Resize
<1>. QED
  BY <1>9, <1>10 DEF Memory!Next

-----------------------------------------------------------------------------
(* The refinement.                                                         *)

\* The registry starts as the empty memory.
LEMMA InitRefines == Init => Memory!Init
<1>. SUFFICES ASSUME Init PROVE Memory!Init
  OBVIOUS
<1>1. \A i \in Slots : ~IsLive(i)
  BY DEF Init, NoAlloc, IsLive
<1>2. HeapObjects = {} /\ RegisteredStatics = {}
  BY <1>1 DEF HeapObjects, RegisteredStatics, Objects
<1>3. FrameStack = << >>
  <2>1. TypeOK
    BY TableAssumption DEF Init, TypeOK, NoAlloc, HsAlloc, Kinds, NULL, Frames
  <2>2. FrameStack \in Seq(Seq(Cells)) /\ Len(FrameStack) = 0
    BY <2>1, StackShaped DEF StackShape, Init
  <2>. QED
    BY <2>2
<1>4. Stopped = FALSE
  BY DEF Stopped, Init
<1>. QED
  BY <1>2, <1>3, <1>4 DEF Memory!Init

\* Every call of the runtime is a step of the abstract memory or a stutter.
LEMMA StepRefines == IInv /\ TypeOK' /\ [Next]_vars => [Memory!Next]_(Memory!vars)
<1>. SUFFICES ASSUME IInv, TypeOK', [Next]_vars PROVE [Memory!Next]_(Memory!vars)
  OBVIOUS
<1>0. TypeOK /\ StorageInv /\ AutomaticObjectsInOpenScopes
  BY DEF IInv, StorageInv
<1>s. ASSUME NEW m \in Sizes, m # 0 PROVE m \in 1 .. UINT64_MAX
  BY <1>s, AddressAssumption, SizeAssumption, TableAssumption
<1>1. CASE hs_frame_enter
  BY <1>0, <1>1, FrameEnterRefines
<1>2. CASE hs_frame_exit
  BY <1>0, <1>2, FrameExitRefines
<1>3. CASE hs_scope_enter
  BY <1>0, <1>3, ScopeEnterRefines
<1>4. CASE hs_scope_exit
  <2>1. CASE hs_current_frame = 0 \/ hs_frame_scopes[hs_current_frame] = 0
    BY <1>4, <2>1, QuietRefines DEF hs_scope_exit, hs_fail
  <2>2. CASE ~(hs_current_frame = 0 \/ hs_frame_scopes[hs_current_frame] = 0)
    <3>. PICK target : target = hs_frame_scopes[hs_current_frame] - 1
      OBVIOUS
    <3>1. target \in Nat /\ target <= hs_frame_scopes[hs_current_frame]
      BY ONLY <1>0, <2>2, TableAssumption, target = hs_frame_scopes[hs_current_frame] - 1
         DEF TypeOK
    <3>2. LeaveScopes(target) /\ status = "running"
      BY <1>4, <2>2 DEF hs_scope_exit
    <3>. QED
      BY <1>0, <2>2, <3>1, <3>2, LeaveScopesRefines
  <2>. QED
    BY <2>1, <2>2
<1>5. CASE \E target \in 0 .. SCOPE_MAX : hs_scope_exit_to(target)
  <2>. PICK target \in 0 .. SCOPE_MAX : hs_scope_exit_to(target)
    BY <1>5
  <2>1. CASE hs_current_frame = 0 \/ target > hs_frame_scopes[hs_current_frame]
    BY <2>1, QuietRefines DEF hs_scope_exit_to, hs_fail
  <2>2. CASE ~(hs_current_frame = 0 \/ target > hs_frame_scopes[hs_current_frame])
    <3>1. target \in Nat /\ target <= hs_frame_scopes[hs_current_frame]
      BY ONLY <1>0, <2>2, TableAssumption, target \in 0 .. SCOPE_MAX DEF TypeOK
    <3>2. LeaveScopes(target) /\ status = "running"
      BY <2>2 DEF hs_scope_exit_to
    <3>. QED
      BY <1>0, <2>2, <3>1, <3>2, LeaveScopesRefines
  <2>. QED
    BY <2>1, <2>2
<1>6. CASE \E p \in StackAddr, n \in Sizes \ {0} : hs_register_local(p, n)
  BY <1>0, <1>6, RegisterLocalRefines
<1>7. CASE \E p \in StackAddr, n \in Sizes, id \in TempIds : hs_register_temporary(p, n, id)
  BY <1>0, <1>7, RegisterTemporaryRefines
<1>8. CASE \E o \in StaticObjects : hs_register_static(o[1], o[2])
  BY <1>0, <1>8, RegisterStaticRefines
<1>9. CASE \E n \in Sizes : hs_alloc(n)
  <2>. PICK n \in Sizes : hs_alloc(n)
    BY <1>9
  <2>1. CASE n = 0
    BY <2>1, QuietRefines DEF hs_alloc
  <2>2. CASE n # 0
    BY <1>0, <1>s, <2>2, AllocateRefines DEF hs_alloc
  <2>. QED
    BY <2>1, <2>2
<1>10. CASE \E count, n \in Sizes : hs_calloc(count, n)
  <2>. PICK count \in Sizes, n \in Sizes : hs_calloc(count, n)
    BY <1>10
  <2>. PICK total : total = (count * n) % (UINT64_MAX + 1)
    OBVIOUS
  <2>1. /\ status = "running" /\ UNCHANGED frameVars
        /\ \/ UNCHANGED hs_allocs
           \/ total # 0 /\ AllocateAndRegister(total)
    BY DEF hs_calloc, hs_fail
  <2>2. total \in 0 .. UINT64_MAX
    <3>. PICK product : product = count * n
      OBVIOUS
    <3>1. product \in Nat /\ UINT64_MAX + 1 \in Nat \ {0}
      BY AddressAssumption, TableAssumption
    <3>2. product % (UINT64_MAX + 1) \in 0 .. UINT64_MAX
      BY ONLY <3>1, TableAssumption
    <3>. QED
      BY <3>2
  <2>3. CASE UNCHANGED hs_allocs
    BY <2>1, <2>3, QuietRefines
  <2>4. CASE total # 0 /\ AllocateAndRegister(total)
    <3>1. total \in 1 .. UINT64_MAX
      BY ONLY <2>2, <2>4, TableAssumption
    <3>. QED
      BY <1>0, <2>1, <2>4, <3>1, AllocateRefines
  <2>. QED
    BY <2>1, <2>3, <2>4
<1>11. CASE \E p \in Addr \cup {NULL}, n \in Sizes : hs_realloc(p, n)
  <2>. PICK p \in Addr \cup {NULL}, n \in Sizes : hs_realloc(p, n)
    BY <1>11
  <2>0. status = "running" /\ UNCHANGED frameVars
    BY DEF hs_realloc
  <2>1. CASE n = 0 /\ p = NULL
    BY <2>0, <2>1, QuietRefines DEF hs_realloc
  <2>2. CASE n # 0 /\ p = NULL
    BY <1>0, <1>s, <2>0, <2>2, AllocateRefines DEF hs_realloc
  <2>3. CASE n = 0 /\ p # NULL
    BY <1>0, <2>0, <2>3, FreeRefines DEF hs_realloc
  <2>4. CASE n # 0 /\ p # NULL /\ ~FreeAccepts(p)
    BY <2>0, <2>4, QuietRefines DEF hs_realloc, hs_fail
  <2>5. CASE n # 0 /\ p # NULL /\ FreeAccepts(p)
    <3>1. PICK next \in Placements(n, p) \cup {NULL} :
            IF next = NULL
              THEN hs_fail("realloc returned null") /\ UNCHANGED blocks
              ELSE /\ \E i \in Slots :
                         /\ hs_find(p, i)
                         /\ hs_allocs' = [hs_allocs EXCEPT
                                            ![i] = Reallocated(hs_allocs[i], next, n)]
                   /\ blocks' = [blocks EXCEPT ![p] = 0, ![next] = n]
                   /\ UNCHANGED status
      BY <2>5 DEF hs_realloc
    <3>2. CASE next = NULL
      BY <2>0, <3>1, <3>2, QuietRefines DEF hs_fail
    <3>3. CASE next # NULL
      <4>1. PICK i \in Slots : /\ hs_find(p, i)
                               /\ hs_allocs' = [hs_allocs EXCEPT
                                                  ![i] = Reallocated(hs_allocs[i], next, n)]
        BY <3>1, <3>3
      <4>2. UNCHANGED status /\ next \in Placements(n, p) /\ n \in 1 .. UINT64_MAX
        BY <1>s, <2>5, <3>1, <3>3
      <4>. QED
        BY <1>0, <2>0, <2>5, <4>1, <4>2, ResizeRefines
    <3>. QED
      BY <3>2, <3>3
  <2>. QED
    BY <2>1, <2>2, <2>3, <2>4, <2>5
<1>12. CASE \E p \in Addr \cup {NULL} : hs_free(p)
  BY <1>0, <1>12, FreeRefines DEF hs_free
<1>13. CASE \E p \in Addr \cup {NULL}, n \in Sizes : hs_check(p, n)
  BY <1>13, QuietRefines DEF hs_check, hs_fail, frameVars
<1>14. CASE Exited \/ UNCHANGED vars
  <2>1. UNCHANGED <<hs_allocs, hs_current_frame, hs_frame_scopes, status>>
    BY <1>14 DEF Exited, vars
  <2>2. UNCHANGED <<FrameStack, HeapObjects, RegisteredStatics>>
    BY <2>1, SameMemory DEF frameVars
  <2>3. UNCHANGED Stopped
    BY <2>1 DEF Stopped
  <2>. QED
    BY <2>2, <2>3 DEF Memory!vars
<1>. QED
  BY <1>1, <1>2, <1>3, <1>4, <1>5, <1>6, <1>7, <1>8, <1>9, <1>10, <1>11,
     <1>12, <1>13, <1>14 DEF Next

\* The registry implements the checked memory: whatever calls generated code
\* makes, in whatever order, what the table says of frames, scopes, dynamic and
\* static objects evolves as CheckedMemory allows.
THEOREM RegistryImplements == Spec => ImplementsCheckedMemory
<1>1. IInv => TypeOK
  BY DEF IInv
<1>2. Spec => []IInv
  BY Invariance
<1>. QED
  BY <1>1, <1>2, InitRefines, StepRefines, PTL DEF Spec, ImplementsCheckedMemory, Memory!Spec
=============================================================================
