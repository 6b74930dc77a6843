--------------------------- MODULE ObjectRegistry ---------------------------
(***************************************************************************)
(* The object registry of the checked-mode runtime                         *)
(* (runtime/hitsimple_runtime.c): a fixed table of the storage objects     *)
(* that checked code may touch, the stack of runtime frames with a scope   *)
(* depth each, and the calls that generated code makes into it.  hs_fail   *)
(* ends the process, so a failed call leaves `status` at its message and   *)
(* no further call happens.                                                *)
(*                                                                         *)
(* Addresses are natural numbers and NULL is 0.  The C allocator and the   *)
(* stack layout the compiler chose are outside the runtime: any address    *)
(* they may legally produce is produced.                                   *)
(***************************************************************************)
EXTENDS Integers, Sequences

CONSTANTS
    HS_MAX_OBJECTS,   \* slots of the table
    HS_MAX_FRAMES,    \* frames, the unused frame 0 included
    SCOPE_MAX,        \* the largest scope depth (UINT64_MAX)
    UINT64_MAX,       \* the largest size
    HeapAddr,         \* addresses the C allocator manages
    StackAddr,        \* addresses of automatic storage
    StaticObjects,    \* <<address, size>> of the static objects of the program
    Sizes,            \* sizes and counts the program passes
    TempIds           \* registration ids the compiler gave to temporaries

NULL == 0

Bytes(p, n) == p .. (p + n - 1)

StaticAddr == UNION {Bytes(o[1], o[2]) : o \in StaticObjects}

Addr == HeapAddr \cup StackAddr \cup StaticAddr

ASSUME TableAssumption ==
    /\ HS_MAX_OBJECTS \in Nat
    /\ HS_MAX_FRAMES \in Nat \ {0}
    /\ SCOPE_MAX \in Nat
    /\ UINT64_MAX \in Nat

ASSUME AddressAssumption ==
    /\ HeapAddr \subseteq Nat \ {0}
    /\ StackAddr \subseteq Nat \ {0}
    /\ StaticObjects \subseteq (Nat \ {0}) \X (Nat \ {0})
    /\ Sizes \subseteq Nat
    /\ TempIds \subseteq Nat

\* Sizes are of type uint64_t.
ASSUME SizeAssumption ==
    /\ \A n \in Sizes : n <= UINT64_MAX
    /\ \A o \in StaticObjects : o[2] <= UINT64_MAX

\* Static objects are laid out apart from each other, the heap and the stack.
ASSUME LayoutAssumption ==
    /\ HeapAddr \cap StackAddr = {}
    /\ StaticAddr \cap (HeapAddr \cup StackAddr) = {}
    /\ \A o, q \in StaticObjects :
          Bytes(o[1], o[2]) \cap Bytes(q[1], q[2]) # {} => o = q

VARIABLES
    hs_allocs,         \* the table
    hs_current_frame,
    hs_frame_scopes,   \* scope depth of each frame
    blocks,            \* the C allocator: size of the live block at an address, or 0
    status             \* "running", or the message the runtime stopped with

vars == <<hs_allocs, hs_current_frame, hs_frame_scopes, blocks, status>>
frameVars == <<hs_current_frame, hs_frame_scopes>>

Slots == 1 .. HS_MAX_OBJECTS
Frames == 0 .. (HS_MAX_FRAMES - 1)
Kinds == {"heap", "static", "local", "temporary"}

\* What hs_fail reports before it exits.
Messages ==
    {"object registry is full",
     "invalid object registration",
     "conflicting object registration",
     "runtime frame depth overflow",
     "runtime frame underflow",
     "scope entered outside a runtime frame",
     "runtime scope depth overflow",
     "runtime scope underflow",
     "invalid runtime scope exit",
     "local object registered outside a runtime frame",
     "temporary object registered outside a runtime frame",
     "allocation returned null",
     "calloc size overflow",
     "double free",
     "invalid free",
     "invalid realloc",
     "realloc returned null",
     "null address",
     "invalid checked access"}

HsAlloc ==
    [ptr : Nat, size : Nat, frame : Nat, scope : Nat, registration_id : Nat,
     kind : Kinds, freed : {0, 1}]

NoAlloc ==
    [ptr |-> NULL, size |-> 0, frame |-> 0, scope |-> 0, registration_id |-> 0,
     kind |-> "heap", freed |-> 0]

Init ==
    /\ hs_allocs = [i \in Slots |-> NoAlloc]
    /\ hs_current_frame = 0
    /\ hs_frame_scopes = [f \in Frames |-> 0]
    /\ blocks = [a \in HeapAddr |-> 0]
    /\ status = "running"

-----------------------------------------------------------------------------
(* Lookups.  Each scans the table from its first slot.                     *)

IsFirst(i, slots) == i \in slots /\ \A j \in slots : i <= j

Containing(p) ==
    {i \in Slots : /\ hs_allocs[i].ptr # NULL
                   /\ p >= hs_allocs[i].ptr
                   /\ p - hs_allocs[i].ptr < hs_allocs[i].size}

hs_find(p, i) == IsFirst(i, Containing(p))

\* Mutant: in a full table the last entry is overwritten.
FreeSlots_LastWhenFull ==
    LET free == {i \in Slots : hs_allocs[i].ptr = NULL \/ hs_allocs[i].freed = 1}
    IN  IF free = {} THEN {HS_MAX_OBJECTS} ELSE free

FreeSlots == {i \in Slots : hs_allocs[i].ptr = NULL \/ hs_allocs[i].freed = 1}

hs_slot(i) == IsFirst(i, FreeSlots)

Exact(p, k, f, s) ==
    {i \in Slots : /\ hs_allocs[i].ptr = p
                   /\ hs_allocs[i].kind = k
                   /\ hs_allocs[i].frame = f
                   /\ hs_allocs[i].scope = s
                   /\ hs_allocs[i].freed = 0}

hs_find_exact(p, k, f, s, i) == IsFirst(i, Exact(p, k, f, s))

Temporaries(f, s, id) ==
    {i \in Slots : /\ hs_allocs[i].ptr # NULL
                   /\ hs_allocs[i].kind = "temporary"
                   /\ hs_allocs[i].frame = f
                   /\ hs_allocs[i].scope = s
                   /\ hs_allocs[i].registration_id = id
                   /\ hs_allocs[i].freed = 0}

hs_find_temporary(f, s, id, i) == IsFirst(i, Temporaries(f, s, id))

IsLive(i) == hs_allocs[i].ptr # NULL /\ hs_allocs[i].freed = 0

IsAuto(i) == hs_allocs[i].ptr # NULL /\ hs_allocs[i].kind \in {"local", "temporary"}

\* hs_clear keeps the kind of the object the slot held.
hs_clear(e) ==
    [ptr |-> NULL, size |-> 0, frame |-> 0, scope |-> 0, registration_id |-> 0,
     kind |-> e.kind, freed |-> 0]

\* The entry of a temporary evaluated again, of a block that was resized, and
\* of a block that was released.
Moved(e, p, n) ==
    [ptr |-> p, size |-> n, frame |-> e.frame, scope |-> e.scope,
     registration_id |-> e.registration_id, kind |-> e.kind, freed |-> e.freed]

\* Mutants: hs_realloc forgets to record the new address, or the new size.
Reallocated_KeepsStaleAddress(e, p, n) ==
    [ptr |-> e.ptr, size |-> n, frame |-> 0, scope |-> e.scope,
     registration_id |-> e.registration_id, kind |-> "heap", freed |-> 0]

Reallocated_KeepsStaleSize(e, p, n) ==
    [ptr |-> p, size |-> e.size, frame |-> 0, scope |-> e.scope,
     registration_id |-> e.registration_id, kind |-> "heap", freed |-> 0]

Reallocated(e, p, n) ==
    [ptr |-> p, size |-> n, frame |-> 0, scope |-> e.scope,
     registration_id |-> e.registration_id, kind |-> "heap", freed |-> 0]

\* Mutant: hs_free releases the block and leaves its entry live.
MarkFreed_LeavesLive(e) == e

MarkFreed(e) ==
    [ptr |-> e.ptr, size |-> e.size, frame |-> e.frame, scope |-> e.scope,
     registration_id |-> e.registration_id, kind |-> e.kind, freed |-> 1]

-----------------------------------------------------------------------------
(* hs_fail and registration.                                               *)

hs_fail(message) == status' = message /\ UNCHANGED hs_allocs

TakeSlot(e) ==
    IF FreeSlots = {}
      THEN hs_fail("object registry is full")
      ELSE /\ \E i \in FreeSlots :
                 hs_slot(i) /\ hs_allocs' = [hs_allocs EXCEPT ![i] = e]
           /\ UNCHANGED status

hs_register(p, n, k, f, s) ==
    IF p = NULL \/ n = 0
      THEN hs_fail("invalid object registration")
    ELSE IF \E i \in Exact(p, k, f, s) :
               hs_find_exact(p, k, f, s, i) /\ hs_allocs[i].size # n
      THEN hs_fail("conflicting object registration")
    ELSE IF Exact(p, k, f, s) # {}
      THEN UNCHANGED <<hs_allocs, status>>
    ELSE TakeSlot([ptr |-> p, size |-> n, frame |-> f, scope |-> s,
                   registration_id |-> 0, kind |-> k, freed |-> 0])

-----------------------------------------------------------------------------
(* Frames and scopes.                                                      *)

hs_frame_enter ==
    /\ status = "running"
    /\ IF hs_current_frame + 1 >= HS_MAX_FRAMES
         THEN hs_fail("runtime frame depth overflow") /\ UNCHANGED frameVars
         ELSE /\ hs_current_frame' = hs_current_frame + 1
              /\ hs_frame_scopes' = [hs_frame_scopes EXCEPT ![hs_current_frame + 1] = 0]
              /\ UNCHANGED <<hs_allocs, status>>
    /\ UNCHANGED blocks

\* Mutants: hs_frame_exit clears every entry, or only the locals.
hs_frame_exit_ForgetsTemporaries ==
    /\ status = "running"
    /\ IF hs_current_frame = 0
         THEN hs_fail("runtime frame underflow") /\ UNCHANGED frameVars
         ELSE /\ hs_allocs' = [i \in Slots |->
                    IF hs_allocs[i].kind = "local" /\ hs_allocs[i].frame = hs_current_frame
                      THEN hs_clear(hs_allocs[i]) ELSE hs_allocs[i]]
              /\ hs_frame_scopes' = [hs_frame_scopes EXCEPT ![hs_current_frame] = 0]
              /\ hs_current_frame' = hs_current_frame - 1
              /\ UNCHANGED status
    /\ UNCHANGED blocks

hs_frame_exit ==
    /\ status = "running"
    /\ IF hs_current_frame = 0
         THEN hs_fail("runtime frame underflow") /\ UNCHANGED frameVars
         ELSE /\ hs_allocs' = [i \in Slots |->
                    IF IsAuto(i) /\ hs_allocs[i].frame = hs_current_frame
                      THEN hs_clear(hs_allocs[i]) ELSE hs_allocs[i]]
              /\ hs_frame_scopes' = [hs_frame_scopes EXCEPT ![hs_current_frame] = 0]
              /\ hs_current_frame' = hs_current_frame - 1
              /\ UNCHANGED status
    /\ UNCHANGED blocks

\* Mutant: the depth is incremented without the overflow check.
hs_scope_enter_Unchecked ==
    /\ status = "running"
    /\ hs_current_frame # 0
    /\ hs_frame_scopes' = [hs_frame_scopes EXCEPT ![hs_current_frame] = @ + 1]
    /\ UNCHANGED <<hs_allocs, hs_current_frame, blocks, status>>

hs_scope_enter ==
    /\ status = "running"
    /\ IF hs_current_frame = 0
         THEN hs_fail("scope entered outside a runtime frame") /\ UNCHANGED frameVars
       ELSE IF hs_frame_scopes[hs_current_frame] = SCOPE_MAX
         THEN hs_fail("runtime scope depth overflow") /\ UNCHANGED frameVars
       ELSE /\ hs_frame_scopes' = [hs_frame_scopes EXCEPT ![hs_current_frame] = @ + 1]
            /\ UNCHANGED <<hs_allocs, hs_current_frame, status>>
    /\ UNCHANGED blocks

\* Mutant: a multi-level exit clears the innermost scope only.
LeaveScopes_InnermostOnly(target) ==
    /\ hs_allocs' = [i \in Slots |->
          IF /\ IsAuto(i)
             /\ hs_allocs[i].frame = hs_current_frame
             /\ hs_allocs[i].scope > target
             /\ hs_allocs[i].scope = hs_frame_scopes[hs_current_frame]
            THEN hs_clear(hs_allocs[i]) ELSE hs_allocs[i]]
    /\ hs_frame_scopes' = [hs_frame_scopes EXCEPT ![hs_current_frame] = target]
    /\ UNCHANGED <<hs_current_frame, status>>

\* The automatic objects of the current frame in scopes target + 1 and deeper
\* are dropped, and the depth becomes target.
LeaveScopes(target) ==
    /\ hs_allocs' = [i \in Slots |->
          IF /\ IsAuto(i)
             /\ hs_allocs[i].frame = hs_current_frame
             /\ hs_allocs[i].scope > target
             /\ hs_allocs[i].scope <= hs_frame_scopes[hs_current_frame]
            THEN hs_clear(hs_allocs[i]) ELSE hs_allocs[i]]
    /\ hs_frame_scopes' = [hs_frame_scopes EXCEPT ![hs_current_frame] = target]
    /\ UNCHANGED <<hs_current_frame, status>>

hs_scope_exit ==
    /\ status = "running"
    /\ IF hs_current_frame = 0 \/ hs_frame_scopes[hs_current_frame] = 0
         THEN hs_fail("runtime scope underflow") /\ UNCHANGED frameVars
         ELSE LeaveScopes(hs_frame_scopes[hs_current_frame] - 1)
    /\ UNCHANGED blocks

hs_scope_exit_to(target) ==
    /\ status = "running"
    /\ IF hs_current_frame = 0 \/ target > hs_frame_scopes[hs_current_frame]
         THEN hs_fail("invalid runtime scope exit") /\ UNCHANGED frameVars
         ELSE LeaveScopes(target)
    /\ UNCHANGED blocks

-----------------------------------------------------------------------------
(* Registration of automatic and static objects.                           *)

\* External: the storage of an automatic object overlaps no other registered
\* object; only executing the same declaration again (`same`) presents storage
\* that is registered already.
OnStack(p, n, same) ==
    /\ Bytes(p, n) \subseteq StackAddr
    /\ \A i \in Slots \ same :
          IsLive(i) => Bytes(hs_allocs[i].ptr, hs_allocs[i].size) \cap Bytes(p, n) = {}

hs_register_local(p, n) ==
    /\ status = "running"
    /\ OnStack(p, n, {i \in Exact(p, "local", hs_current_frame,
                                  hs_frame_scopes[hs_current_frame]) :
                        hs_allocs[i].size = n})
    /\ IF hs_current_frame = 0
         THEN hs_fail("local object registered outside a runtime frame")
         ELSE hs_register(p, n, "local", hs_current_frame,
                          hs_frame_scopes[hs_current_frame])
    /\ UNCHANGED <<hs_current_frame, hs_frame_scopes, blocks>>

hs_register_temporary(p, n, id) ==
    LET scope == hs_frame_scopes[hs_current_frame]
        existing == Temporaries(hs_current_frame, scope, id)
    IN
    /\ status = "running"
    /\ OnStack(p, n, {i \in existing : hs_find_temporary(hs_current_frame, scope, id, i)})
    /\ IF hs_current_frame = 0
         THEN hs_fail("temporary object registered outside a runtime frame")
       ELSE IF n = 0
         THEN /\ hs_allocs' = [i \in Slots |->
                    IF hs_find_temporary(hs_current_frame, scope, id, i)
                      THEN hs_clear(hs_allocs[i]) ELSE hs_allocs[i]]
              /\ UNCHANGED status
       ELSE IF p = NULL
         THEN hs_fail("invalid object registration")
       ELSE IF existing # {}
         THEN /\ \E i \in existing :
                    /\ hs_find_temporary(hs_current_frame, scope, id, i)
                    /\ hs_allocs' = [hs_allocs EXCEPT ![i] = Moved(hs_allocs[i], p, n)]
              /\ UNCHANGED status
       ELSE TakeSlot([ptr |-> p, size |-> n, frame |-> hs_current_frame,
                      scope |-> scope, registration_id |-> id,
                      kind |-> "temporary", freed |-> 0])
    /\ UNCHANGED <<hs_current_frame, hs_frame_scopes, blocks>>

hs_register_static(p, n) ==
    /\ status = "running"
    /\ hs_register(p, n, "static", 0, 0)
    /\ UNCHANGED <<hs_current_frame, hs_frame_scopes, blocks>>

-----------------------------------------------------------------------------
(* Dynamic storage.                                                        *)

\* External: the addresses at which the C allocator may place n bytes when
\* the block at `moved` (NULL for none) is the one being resized.
Placements(n, moved) ==
    {a \in HeapAddr :
        /\ Bytes(a, n) \subseteq HeapAddr
        /\ \A b \in HeapAddr \ {moved} :
              blocks[b] # 0 => Bytes(b, blocks[b]) \cap Bytes(a, n) = {}}

\* malloc and calloc differ only in the bytes the block holds.
AllocateAndRegister(n) ==
    \E a \in Placements(n, NULL) \cup {NULL} :
       IF a = NULL
         THEN hs_fail("allocation returned null") /\ UNCHANGED blocks
         ELSE blocks' = [blocks EXCEPT ![a] = n] /\ hs_register(a, n, "heap", 0, 0)

hs_alloc(n) ==
    /\ status = "running"
    /\ IF n = 0
         THEN UNCHANGED <<hs_allocs, blocks, status>>
         ELSE AllocateAndRegister(n)
    /\ UNCHANGED frameVars

hs_calloc(count, n) ==
    LET total == (count * n) % (UINT64_MAX + 1) IN
    /\ status = "running"
    /\ IF count # 0 /\ n > UINT64_MAX \div count
         THEN hs_fail("calloc size overflow") /\ UNCHANGED blocks
       ELSE IF total = 0
         THEN UNCHANGED <<hs_allocs, blocks, status>>
       ELSE AllocateAndRegister(total)
    /\ UNCHANGED frameVars

FreeAccepts(p) ==
    \E i \in Slots : /\ hs_find(p, i)
                     /\ hs_allocs[i].ptr = p
                     /\ hs_allocs[i].kind = "heap"
                     /\ hs_allocs[i].freed = 0

Free(p) ==
    IF p = NULL
      THEN UNCHANGED <<hs_allocs, blocks, status>>
    ELSE IF FreeAccepts(p)
      THEN /\ \E i \in Slots :
                 /\ hs_find(p, i)
                 /\ hs_allocs' = [hs_allocs EXCEPT ![i] = MarkFreed(hs_allocs[i])]
           /\ blocks' = [blocks EXCEPT ![p] = 0]
           /\ UNCHANGED status
    ELSE /\ IF \E i \in Slots : /\ hs_find(p, i)
                                /\ hs_allocs[i].ptr = p
                                /\ hs_allocs[i].kind = "heap"
              THEN hs_fail("double free") ELSE hs_fail("invalid free")
         /\ UNCHANGED blocks

hs_free(p) == status = "running" /\ Free(p) /\ UNCHANGED frameVars

hs_realloc(p, n) ==
    /\ status = "running"
    /\ IF p = NULL
         THEN IF n = 0 THEN UNCHANGED <<hs_allocs, blocks, status>>
                       ELSE AllocateAndRegister(n)
       ELSE IF n = 0
         THEN Free(p)
       ELSE IF ~FreeAccepts(p)
         THEN hs_fail("invalid realloc") /\ UNCHANGED blocks
       ELSE \E next \in Placements(n, p) \cup {NULL} :
              IF next = NULL
                THEN hs_fail("realloc returned null") /\ UNCHANGED blocks
                ELSE /\ \E i \in Slots :
                           /\ hs_find(p, i)
                           /\ hs_allocs' = [hs_allocs EXCEPT
                                                ![i] = Reallocated(hs_allocs[i], next, n)]
                     /\ blocks' = [blocks EXCEPT ![p] = 0, ![next] = n]
                     /\ UNCHANGED status
    /\ UNCHANGED frameVars

-----------------------------------------------------------------------------
(* Checked accesses.                                                       *)

\* Mutants: the freed entry is not rejected; the last byte is out of bounds.
CheckAccepts_IgnoresFreed(p, n) ==
    \/ n = 0
    \/ /\ p # NULL
       /\ \E i \in Slots : /\ hs_find(p, i)
                           /\ n <= hs_allocs[i].size
                           /\ p - hs_allocs[i].ptr <= hs_allocs[i].size - n

CheckAccepts_OffByOne(p, n) ==
    \/ n = 0
    \/ /\ p # NULL
       /\ \E i \in Slots : /\ hs_find(p, i)
                           /\ hs_allocs[i].freed = 0
                           /\ n <= hs_allocs[i].size
                           /\ p - hs_allocs[i].ptr < hs_allocs[i].size - n

CheckAccepts(p, n) ==
    \/ n = 0
    \/ /\ p # NULL
       /\ \E i \in Slots : /\ hs_find(p, i)
                           /\ hs_allocs[i].freed = 0
                           /\ n <= hs_allocs[i].size
                           /\ p - hs_allocs[i].ptr <= hs_allocs[i].size - n

hs_check(p, n) ==
    /\ status = "running"
    /\ IF CheckAccepts(p, n)
         THEN UNCHANGED <<hs_allocs, status>>
         ELSE hs_fail(IF p = NULL THEN "null address" ELSE "invalid checked access")
    /\ UNCHANGED <<hs_current_frame, hs_frame_scopes, blocks>>

\* The process has ended with exit code HS_RUNTIME_ERROR.
Exited == status # "running" /\ UNCHANGED vars

Next ==
    \/ hs_frame_enter
    \/ hs_frame_exit
    \/ hs_scope_enter
    \/ hs_scope_exit
    \/ \E target \in 0 .. SCOPE_MAX : hs_scope_exit_to(target)
    \/ \E p \in StackAddr, n \in Sizes \ {0} : hs_register_local(p, n)
    \/ \E p \in StackAddr, n \in Sizes, id \in TempIds : hs_register_temporary(p, n, id)
    \/ \E o \in StaticObjects : hs_register_static(o[1], o[2])
    \/ \E n \in Sizes : hs_alloc(n)
    \/ \E count, n \in Sizes : hs_calloc(count, n)
    \/ \E p \in Addr \cup {NULL}, n \in Sizes : hs_realloc(p, n)
    \/ \E p \in Addr \cup {NULL} : hs_free(p)
    \/ \E p \in Addr \cup {NULL}, n \in Sizes : hs_check(p, n)
    \/ Exited

Spec == Init /\ [][Next]_vars

-----------------------------------------------------------------------------
(* Properties.                                                             *)

\* Type invariant: every slot holds a well-formed entry, every frame has a
\* scope depth in range, and the allocator's blocks have sizes.
TypeOK ==
    /\ hs_allocs \in [Slots -> HsAlloc]
    /\ hs_current_frame \in Frames
    /\ hs_frame_scopes \in [Frames -> 0 .. SCOPE_MAX]
    /\ blocks \in [HeapAddr -> Nat]
    /\ status \in Messages \cup {"running"}

\* No automatic object outlives its scope: after any sequence of scope exits,
\* multi-level exits (hs_scope_exit_to) and frame exits, every local or
\* temporary still in the table belongs to a frame that is active and to a
\* scope of it that is open.  Frame numbers are reused by later calls, so one
\* entry left behind would make another function's dead storage accessible.
AutomaticObjectsInOpenScopes ==
    \A i \in Slots : IsAuto(i) =>
        /\ hs_allocs[i].freed = 0
        /\ hs_allocs[i].frame \in 1 .. hs_current_frame
        /\ hs_allocs[i].scope \in 0 .. hs_frame_scopes[hs_allocs[i].frame]

\* While the program runs, the heap entries hs_free has not marked are exactly
\* the blocks the C allocator considers live, with the sizes it was asked for:
\* the registry neither forgets a block, nor keeps one that is gone, nor
\* disagrees about its extent after hs_realloc or hs_calloc.
HeapMatchesAllocator ==
    status = "running" =>
        {<<hs_allocs[i].ptr, hs_allocs[i].size>> :
            i \in {j \in Slots : IsLive(j) /\ hs_allocs[j].kind = "heap"}}
        = {<<a, blocks[a]>> : a \in {b \in HeapAddr : blocks[b] # 0}}

\* Two live entries never share a byte, so hs_find has at most one live
\* candidate, and no declaration meets "conflicting object registration".
LiveObjectsDisjoint ==
    /\ \A i, j \in Slots :
          i # j /\ IsLive(i) /\ IsLive(j) =>
             Bytes(hs_allocs[i].ptr, hs_allocs[i].size)
               \cap Bytes(hs_allocs[j].ptr, hs_allocs[j].size) = {}
    /\ status # "conflicting object registration"

\* Each kind of object lives in its own region, and only dynamic objects are
\* ever marked freed; their stale entries stay inside the heap.
StorageByKind ==
    \A i \in Slots : hs_allocs[i].ptr # NULL =>
        LET e == hs_allocs[i] IN
        /\ e.size # 0
        /\ e.kind = "heap" => Bytes(e.ptr, e.size) \subseteq HeapAddr
        /\ e.kind = "static" => /\ <<e.ptr, e.size>> \in StaticObjects
                                /\ e.frame = 0 /\ e.scope = 0 /\ e.freed = 0
        /\ e.kind \in {"local", "temporary"} =>
              Bytes(e.ptr, e.size) \subseteq StackAddr /\ e.freed = 0

\* The two directions of HeapMatchesAllocator, slot by slot.
HeapEntriesAreBlocks ==
    status = "running" =>
        \A i \in Slots : IsLive(i) /\ hs_allocs[i].kind = "heap" =>
            hs_allocs[i].ptr \in HeapAddr /\ blocks[hs_allocs[i].ptr] = hs_allocs[i].size

BlocksAreRegistered ==
    status = "running" =>
        \A a \in HeapAddr : blocks[a] # 0 =>
            \E i \in Slots : /\ IsLive(i)
                             /\ hs_allocs[i].kind = "heap"
                             /\ hs_allocs[i].ptr = a

\* The inductive invariant behind the proofs: the region of each kind makes
\* lookups unambiguous, which the allocator's bookkeeping and the disjointness
\* of live objects both rest on.
IInv ==
    /\ TypeOK
    /\ AutomaticObjectsInOpenScopes
    /\ StorageByKind
    /\ HeapEntriesAreBlocks
    /\ BlocksAreRegistered
    /\ LiveObjectsDisjoint

\* The storage the program owns, by the allocator's and the scopes' account.
HeapBytes == UNION {Bytes(a, blocks[a]) : a \in {b \in HeapAddr : blocks[b] # 0}}

OpenScopeBytes ==
    UNION {Bytes(hs_allocs[i].ptr, hs_allocs[i].size) :
             i \in {j \in Slots : /\ IsAuto(j)
                                  /\ hs_allocs[j].frame <= hs_current_frame
                                  /\ hs_allocs[j].scope
                                       <= hs_frame_scopes[hs_allocs[j].frame]}}

OwnedBytes == HeapBytes \cup StaticAddr \cup OpenScopeBytes

\* A checked load or store that the runtime lets through touches only storage
\* that is live: never a released block, the old place of a reallocated one,
\* or the storage of a scope that has ended.
AcceptedAccessIsLive ==
    status = "running" =>
        \A p \in Addr, n \in Sizes : CheckAccepts(p, n) => Bytes(p, n) \subseteq OwnedBytes

\* Every registered automatic or static object can be accessed to its last
\* byte: stale entries that hs_free leaves in the table never hide one.
AutomaticAndStaticUsable ==
    \A i \in Slots :
        IsLive(i) /\ hs_allocs[i].kind # "heap" =>
            CheckAccepts(hs_allocs[i].ptr, hs_allocs[i].size)

\* Standard.md:394: "An explicit `free(ptr)` always releases a dynamic object
\* according to the supplied address value", which may be one "returned by
\* `alloc()`, `calloc()`, or a successful `realloc()`".  Every live dynamic
\* object can be released through its base address and accessed in full.
LiveDynamicObjectsUsable ==
    status = "running" =>
        \A a \in HeapAddr : blocks[a] # 0 => FreeAccepts(a) /\ CheckAccepts(a, blocks[a])

-----------------------------------------------------------------------------
(* The registry implements CheckedMemory.                                  *)

ObjectAt(i) == <<hs_allocs[i].ptr, hs_allocs[i].size>>
Objects(slots) == {ObjectAt(i) : i \in slots}

\* The automatic objects of scope s - 1 of frame f; the call stack made of them.
InScope(i, f, s) == IsAuto(i) /\ hs_allocs[i].frame = f /\ hs_allocs[i].scope = s - 1
ScopeObjects(f, s) == Objects({i \in Slots : InScope(i, f, s)})
FrameStack ==
    [f \in 1 .. hs_current_frame |-> [s \in 1 .. (hs_frame_scopes[f] + 1) |-> ScopeObjects(f, s)]]

HeapObjects == Objects({i \in Slots : IsLive(i) /\ hs_allocs[i].kind = "heap"})
RegisteredStatics == Objects({i \in Slots : IsLive(i) /\ hs_allocs[i].kind = "static"})
Stopped == status # "running"

Memory == INSTANCE CheckedMemory WITH
    Object  <- Addr \X (1 .. UINT64_MAX),
    frames  <- FrameStack,
    heap    <- HeapObjects,
    statics <- RegisteredStatics,
    stopped <- Stopped

\* Every call of the runtime is a step of CheckedMemory (or changes nothing it
\* can see): storage handed out is disjoint from everything live, a scope exit
\* removes exactly the objects of the scopes left, a release exactly one block.
ImplementsCheckedMemory == Memory!Spec
=============================================================================
