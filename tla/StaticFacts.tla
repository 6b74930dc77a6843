------------------------------ MODULE StaticFacts ------------------------------
(***************************************************************************)
(* The facts of the static safety analyzer (src/src/safety): what it       *)
(* believes, at one point of a function, of the bytes each definition      *)
(* holds and of the place each name locates, and the operations that       *)
(* change those beliefs.  Every definition is WordBytes long, the width of *)
(* a pointer.                                                              *)
(*                                                                         *)
(* A fact of a std::unordered_map<..., std::optional<...>> is absent (no   *)
(* entry), unknown (an entry holding nullopt) or known.  integerValues and *)
(* unsignedIntegerValues are one map here: the modelled literals are not   *)
(* negative, so the two always agree.                                      *)
(***************************************************************************)
EXTENDS Integers, FiniteSets, TLC

CONSTANTS Names,      \* binding names, unique in the translation unit
          Globals,    \* the ones with static storage
          WordBytes   \* byte length of a definition and of a pointer

ASSUME NamesAssumption == Globals \subseteq Names
ASSUME WordAssumption == WordBytes \in Nat \ {0}

Absent == [k |-> "absent"]
Unknown == [k |-> "unknown"]
Known(v) == [k |-> "known", v |-> v]

(* std::optional read through find(): an absent entry reads as nullopt. *)
Found(entry) == IF entry = Absent THEN Unknown ELSE entry
IsKnown(entry) == entry.k = "known"

(* Whose bytes a StaticAddressRange is about: a definition, or the object
   an allocation made ("dynamic:" + id). *)
Binding(n) == [kind |-> "binding", name |-> n, id |-> 0]
Dynamic(id) == [kind |-> "dynamic", name |-> "", id |-> id]

(* The optional range of an address fact is a sequence of length 0 or 1. *)
RangeAt(of, lower, offset, upper) ==
    <<[of |-> of, lower |-> lower, offset |-> offset, upper |-> upper]>>
NoRange == <<>>

AddressFact(origin, id, base, range) ==
    [origin |-> origin, id |-> id, base |-> base, range |-> range]
NullFact == AddressFact("null", 0, FALSE, NoRange)

(* resetStaticSafetyState: no fact of any name, no object allocated. *)
NoFacts == [val |-> [n \in Names |-> Absent],
            addr |-> [n \in Names |-> Absent],
            bind |-> [n \in Names |-> Absent],
            term |-> [n \in Names |-> Absent],
            dyn |-> [id \in {} |-> "live"],
            next |-> 0]

(* restoreStaticSafetyState: identities already given out are not reused. *)
Restored(now, saved) ==
    [saved EXCEPT !.next = IF now.next > saved.next THEN now.next ELSE saved.next]

(***************************************************************************)
(* mergedStaticSafetyStates, the join of two control-flow edges.           *)
(***************************************************************************)
RetainCommonFacts(left, right) ==
    [n \in Names |-> IF IsKnown(left[n]) /\ left[n] = right[n]
                     THEN left[n] ELSE Absent]

MergedBindings(left, right) ==
    [n \in Names |-> IF left[n] = right[n] THEN left[n] ELSE Unknown]

MergedObjects(left, right) ==
    [id \in DOMAIN left \cap DOMAIN right |->
        IF left[id] = right[id] THEN left[id] ELSE "unknown"]

MergedStates(left, right) ==
    [val |-> RetainCommonFacts(left.val, right.val),
     addr |-> RetainCommonFacts(left.addr, right.addr),
     bind |-> MergedBindings(left.bind, right.bind),
     term |-> RetainCommonFacts(left.term, right.term),
     dyn |-> MergedObjects(left.dyn, right.dyn),
     next |-> IF left.next > right.next THEN left.next ELSE right.next]

(***************************************************************************)
(* Forgetting.                                                             *)
(***************************************************************************)
Put(map, n, entry) == (n :> entry) @@ map

InvalidateBinding(f, n) ==
    [f EXCEPT !.val = Put(@, n, Unknown), !.addr = Put(@, n, Unknown),
              !.term = Put(@, n, Unknown)]

Expired(entry, names) ==
    IF /\ IsKnown(entry)
       /\ entry.v.range # NoRange
       /\ entry.v.range[1].of \in {Binding(n) : n \in names}
    THEN Known([entry.v EXCEPT !.origin = "expired", !.base = FALSE])
    ELSE entry

(* expireStaticLocalBindings: the definitions of a scope that is left.  Their
   own facts go; an address of one of them becomes an expired one. *)
ExpireLocals(f, names) ==
    LET Left(map) == [n \in Names |-> IF n \in names THEN Absent ELSE map[n]]
        Turned(map) == [n \in Names |-> Expired(map[n], names)]
    IN  [f EXCEPT !.val = Left(@), !.term = Left(@),
                  !.addr = Left(Turned(@)), !.bind = Left(Turned(@))]

Forget(map) == [n \in Names |-> IF map[n] = Absent THEN Absent ELSE Unknown]

(* invalidateStaticFactsOverlapping: a write of some bytes at a range.  Without
   a range it may have hit any definition; it never moves a name. *)
InvalidateOverlapping(f, range) ==
    CASE range = NoRange ->
            [f EXCEPT !.val = Forget(@), !.addr = Forget(@), !.term = Forget(@)]
      [] range # NoRange /\ range[1].of.kind = "binding" ->
            InvalidateBinding(f, range[1].of.name)
      [] OTHER -> f

(* invalidateStaticGlobalFacts, after a call of a function of the program: the
   definitions with static storage, and what a rebound one locates. *)
ReboundTargets(f) ==
    {f.bind[g] : g \in {h \in Globals : f.bind[h] # Absent}}
\* Mutant: what a rebound global locates keeps its facts.
InvalidateGlobals_Alone(f, rebound) ==
    LET Lost(map) == [n \in Names |-> IF n \in Globals THEN Unknown ELSE map[n]]
    IN  [f EXCEPT !.val = Lost(@), !.addr = Lost(@), !.term = Lost(@),
                  !.bind = [n \in Names |->
                      IF n \in Globals \cap rebound THEN Unknown ELSE f.bind[n]]]

InvalidateGlobals(f, rebound) ==
    LET unknownTarget == \E b \in ReboundTargets(f) :
                            ~IsKnown(b) \/ b.v.range = NoRange
        everything == IF unknownTarget THEN Names ELSE {}
        targets == {n \in Names : \E b \in ReboundTargets(f) :
                        /\ IsKnown(b)
                        /\ b.v.range # NoRange
                        /\ b.v.range[1].of = Binding(n)}
        Lost(map) == [n \in Names |->
                        CASE n \in Globals \cup targets -> Unknown
                          [] n \in everything -> Forget(map)[n]
                          [] OTHER -> map[n]]
    IN  [f EXCEPT !.val = Lost(@), !.addr = Lost(@), !.term = Lost(@),
                  !.bind = [n \in Names |->
                      IF n \in Globals \cap rebound THEN Unknown ELSE f.bind[n]]]

(***************************************************************************)
(* What a name locates, and whose content an access reads.                 *)
(***************************************************************************)
(* staticBindingAddressFact at an offset into the name's bytes.  A name that
   was never rebound locates its own definition; null plus an offset is not a
   proven null. *)
BindingAddressFact(f, n, offset, length) ==
    LET bound == f.bind[n]
        shifted == [bound.v EXCEPT !.base = FALSE,
                        !.range = IF @ = NoRange THEN NoRange
                                  ELSE <<[@[1] EXCEPT !.offset = @ + offset]>>]
    IN  CASE bound = Absent ->
                Known(AddressFact("object", 0, offset = 0,
                        RangeAt(Binding(n), offset, offset, offset + length)))
          [] IsKnown(bound) /\ offset # 0 ->
                IF bound.v.origin = "null" THEN Unknown ELSE Known(shifted)
          [] OTHER -> bound

RangeOf(fact) == IF IsKnown(fact) THEN fact.v.range ELSE NoRange

(* staticContentKey: the definition whose whole content the range covers. *)
ContentKey(range, length) ==
    IF /\ range # NoRange
       /\ range[1].offset = 0
       /\ range[1].of.kind = "binding"
       /\ length = WordBytes
       /\ length <= range[1].upper
    THEN {range[1].of.name} ELSE {}

Looked(map, keys) ==
    IF keys = {} THEN Unknown ELSE Found(map[CHOOSE n \in keys : TRUE])

(* AddressOfExpr: the view of the name bounds the address it yields. *)
NarrowedFact(fact, length) ==
    IF IsKnown(fact) /\ fact.v.range # NoRange /\ fact.v.range[1].offset >= 0
    THEN LET r == fact.v.range[1]
         IN  Known([fact.v EXCEPT !.range = RangeAt(r.of,
                 IF r.lower > r.offset THEN r.lower ELSE r.offset,
                 r.offset,
                 IF r.upper < r.offset + length THEN r.upper
                                                ELSE r.offset + length)])
    ELSE fact

(* Address arithmetic by a known number of bytes. *)
OffsetFact(fact, k) ==
    IF ~IsKnown(fact) THEN Unknown
    ELSE Known([fact.v EXCEPT !.base = FALSE,
                  !.range = IF @ = NoRange THEN NoRange
                            ELSE <<[@[1] EXCEPT !.offset = @ + k]>>])

(***************************************************************************)
(* The checks: what a fact says is certainly wrong with a use of it.       *)
(***************************************************************************)
OutOfBounds(range, length) ==
    /\ range # NoRange
    /\ \/ range[1].offset < range[1].lower
       \/ range[1].offset < 0
       \/ range[1].offset > range[1].upper
       \/ length > range[1].upper - range[1].offset

(* validateStaticAddressAccess: after the end of the scope, after free. *)
LifetimeOver(f, fact) ==
    /\ IsKnown(fact)
    /\ \/ fact.v.origin = "expired"
       \/ /\ fact.v.origin = "dynamic"
          /\ fact.v.id \in DOMAIN f.dyn
          /\ f.dyn[fact.v.id] = "freed"

(* validateStaticMemoryAccess of length bytes. *)
BadAccess(f, fact, length) ==
    /\ IsKnown(fact)
    /\ length # 0
    /\ \/ fact.v.origin = "null"
       \/ LifetimeOver(f, fact)
       \/ OutOfBounds(fact.v.range, length)

\* Mutant: releasing null is rejected.
BadRelease_OfNull(f, fact) ==
    /\ IsKnown(fact)
    /\ \/ fact.v.origin # "dynamic"
       \/ ~fact.v.base
       \/ fact.v.id \notin DOMAIN f.dyn
       \/ f.dyn[fact.v.id] = "freed"

(* validateStaticDynamicBase of the argument of free and realloc. *)
BadRelease(f, fact) ==
    /\ IsKnown(fact)
    /\ fact.v.origin # "null"
    /\ \/ fact.v.origin # "dynamic"
       \/ ~fact.v.base
       \/ fact.v.id \notin DOMAIN f.dyn
       \/ f.dyn[fact.v.id] = "freed"

(***************************************************************************)
(* The lifetime of the objects the program allocates.                      *)
(***************************************************************************)
(* recordDynamicObject: a new identity, live, and the fact of its address. *)
AllocatedFact(f, extent) ==
    Known(AddressFact("dynamic", f.next, TRUE,
                      RangeAt(Dynamic(f.next), 0, 0, extent)))
Allocated(f) ==
    [f EXCEPT !.dyn = Put(@, f.next, "live"), !.next = @ + 1]

(* releaseStaticDynamicObject, of a base address of a live object only. *)
Released(f, fact) ==
    IF /\ IsKnown(fact)
       /\ fact.v.origin = "dynamic" /\ fact.v.base
       /\ fact.v.id \in DOMAIN f.dyn /\ f.dyn[fact.v.id] = "live"
    THEN [f EXCEPT !.dyn = Put(@, fact.v.id, "freed")]
    ELSE f

(* Mutant: realloc is taken to give a new object. *)
Reallocated_Anew(f, fact, extent) == Allocated(Released(f, fact))

(* realloc: of no bytes it releases; otherwise it may have failed and left the
   object as it was. *)
Reallocated(f, fact, extent) ==
    IF extent = 0 THEN Released(f, fact)
    ELSE IF /\ IsKnown(fact) /\ fact.v.origin = "dynamic"
            /\ fact.v.id \in DOMAIN f.dyn
         THEN [f EXCEPT !.dyn = Put(@, fact.v.id, "unknown")]
         ELSE f

(* prepareStaticNamedStore: the definition a store through a name may record
   facts of, and the facts left after the store. *)
StoreFact(f, n, offset, length) == BindingAddressFact(f, n, offset, length)
StoreKey(f, n, offset, length) ==
    ContentKey(RangeOf(StoreFact(f, n, offset, length)), length)
NamedStore(f, n, offset, length) ==
    InvalidateOverlapping(f, RangeOf(StoreFact(f, n, offset, length)))

(* The facts recorded of the bytes just stored. *)
Recorded(f, keys, val, addr, term) ==
    [f EXCEPT !.val = [n \in Names |-> IF n \in keys THEN val ELSE f.val[n]],
              !.addr = [n \in Names |-> IF n \in keys THEN addr ELSE f.addr[n]],
              !.term = [n \in Names |-> IF n \in keys THEN term ELSE f.term[n]]]

(* LocalMemory: the execution of an automatic declaration. *)
Declared(f, n) == InvalidateBinding([f EXCEPT !.bind = Put(@, n, Absent)], n)
=============================================================================
