------------------------------ MODULE CAbiCalls ------------------------------
(***************************************************************************)
(* A call across the C ABI (codegen/LLVMCodegenCAbi.cpp and the places     *)
(* that use it): how a signature becomes an LLVM function type, which      *)
(* bytes the emitted call passes in which LLVM argument, how the emitted   *)
(* function puts its parameters together again, and the way back of the    *)
(* result.  LLVM assigns registers to LLVM arguments; the other side of    *)
(* the call may be C code, which follows the System V ABI for x86-64.      *)
(*                                                                         *)
(* A byte is a tag <<i, o>>: byte o of parameter i.  A parameter's bytes   *)
(* lie in eightbyte slots: general registers, SSE registers or the stack.  *)
(***************************************************************************)
EXTENDS Integers, Sequences, FiniteSets, TLC
LOCAL INSTANCE SequencesExt

CONSTANT Signatures     \* the signatures called, see Init

VARIABLES
    source,     \* the declared signature, with the languages of the two sides
    phase,      \* how far the call is
    declared,   \* the LLVM declaration and the plans kept with it
    frame,      \* registers and stack at the call: <<slot, byte, tag>>
    received,   \* the callee's parameters
    answer,     \* registers and return storage after the callee
    result      \* the value the caller sees

vars == <<source, phase, declared, frame, received, answer, result>>

Undefined == <<0, 0>>
ResultTag == 100                       \* the callee returns bytes <<ResultTag, o>>
AddressOf(i) == [o \in 0..7 |-> <<200 + i, o>>]     \* the address of a copy of parameter i
ReturnStorage == 0                     \* AddressOf(0): the return storage

Indices(s) == [k \in 1..Len(s) |-> k]

-----------------------------------------------------------------------------
(* hir::AbiType                                                            *)

AbiType(kind, n, align, fields, offsets) ==
    [kind |-> kind, byteLength |-> n, alignment |-> align, elementCount |-> 1,
     fields |-> fields, offsets |-> offsets]
Scalar(kind, n) == AbiType(kind, n, n, <<>>, <<>>)
NoAbiType == Scalar("None", 0)
IsAggregate(t) == t.kind = "Aggregate"
isIndirectCAbiAggregate(t) == IsAggregate(t) /\ t.byteLength > 16

\* The C type of a core template with its length, for extern "C".
CTemplates ==
    [bool |-> Scalar("Integer", 1), i8 |-> Scalar("Integer", 1), u8 |-> Scalar("Integer", 1),
     i16 |-> Scalar("Integer", 2), u16 |-> Scalar("Integer", 2), i32 |-> Scalar("Integer", 4),
     u32 |-> Scalar("Integer", 4), i64 |-> Scalar("Integer", 8), u64 |-> Scalar("Integer", 8),
     f32 |-> Scalar("Floating", 4), f64 |-> Scalar("Floating", 8), addr |-> Scalar("Pointer", 8),
     cstr |-> Scalar("Pointer", 8), handle |-> Scalar("Pointer", 8)]
cAbiTypeFor(v) ==
    IF v.template \in DOMAIN CTemplates /\ CTemplates[v.template].byteLength = v.byteLength
    THEN CTemplates[v.template] ELSE NoAbiType

\* A C unit's signature comes with its ABI types; an extern "C" one is made.
SignatureTypes(views) == [k \in DOMAIN views |-> cAbiTypeFor(views[k])]
makeCAbiSignature(s) ==
    LET ps == IF s.lang = "core" THEN SignatureTypes(s.params) ELSE s.params
        rs == IF s.lang = "core" THEN SignatureTypes(s.returns) ELSE s.returns
    IN  [ok |-> Len(rs) <= 1 /\ \A k \in DOMAIN ps : ps[k] # NoAbiType
                             /\ \A r \in DOMAIN rs : rs[r] # NoAbiType,
         params |-> ps, returns |-> rs]

-----------------------------------------------------------------------------
(* abiTypeFor: LLVM lays the fields out again and must find C's offsets.   *)

RoundUp(n, a) == ((n + a - 1) \div a) * a

RECURSIVE abiTypeFor(_)
abiTypeFor(t) ==
    LET After(at, f) == RoundUp(at, f.alignment) + f.byteLength * f.elementCount
        end(k) == FoldLeft(After, 0, SubSeq(t.fields, 1, k))
        align == CHOOSE a \in {t.fields[k].alignment : k \in DOMAIN t.fields} :
                     \A k \in DOMAIN t.fields : t.fields[k].alignment <= a
    IN  /\ t.elementCount # 0
        /\ CASE t.kind = "Integer" -> t.byteLength # 0
             [] t.kind = "Floating" -> t.byteLength \in {2, 4, 8, 16}
             [] t.kind = "Pointer" -> t.byteLength = 8
             [] OTHER ->
                  /\ t.byteLength # 0 /\ t.alignment # 0
                  /\ t.fields # <<>> /\ Len(t.fields) = Len(t.offsets)
                  /\ \A k \in DOMAIN t.fields :
                        /\ abiTypeFor(t.fields[k])
                        /\ t.offsets[k] + t.fields[k].byteLength * t.fields[k].elementCount <= t.byteLength
                        /\ t.offsets[k] = RoundUp(end(k - 1), t.fields[k].alignment)
                  /\ t.alignment = align /\ t.byteLength = RoundUp(end(Len(t.fields)), align)

-----------------------------------------------------------------------------
(* Classification of a struct of at most 16 bytes.                         *)

\* A plausible slip: a mixed eightbyte has the class of its first field.
mergeClass_First(left, right) == IF left = "None" THEN right ELSE left
mergeClass(left, right) ==
    CASE left = "None" -> right
      [] right = "None" \/ left = right -> left
      [] "Memory" \in {left, right} -> "Memory"
      [] OTHER -> "Integer"

NewClassification(n) ==
    [ok |-> TRUE, classes |-> [e \in 0..1 |-> "None"], leaves |-> <<>>, byteLength |-> n]

\* `pending' holds the values still to be classified, with their offsets: an array
\* stands for its elements, a struct for its fields, in their order.
Pending(t, offset) == [type |-> t, offset |-> offset]
RECURSIVE classifyCAbiValue(_, _)
classifyCAbiValue(pending, c) ==
    LET t == pending[1].type
        offset == pending[1].offset
        elements == [k \in 1..t.elementCount |->
                        Pending([t EXCEPT !.elementCount = 1], offset + (k - 1) * t.byteLength)]
        fields == [k \in DOMAIN t.fields |-> Pending(t.fields[k], offset + t.offsets[k])]
        touched == (offset \div 8)..((offset + t.byteLength - 1) \div 8)
        class == IF t.kind = "Floating" THEN "Sse" ELSE "Integer"
        merged == [c EXCEPT !.classes = [e \in 0..1 |-> IF e \in touched THEN mergeClass(@[e], class) ELSE @[e]],
                            !.leaves = Append(@, [kind |-> t.kind, offset |-> offset, n |-> t.byteLength])]
        invalid ==
            IF t.elementCount # 1 THEN t.elementCount = 0 \/ t.byteLength = 0
            ELSE \/ t.byteLength = 0 \/ t.alignment = 0 \/ offset % t.alignment # 0
                 \/ offset + t.byteLength > c.byteLength
                 \/ IsAggregate(t) /\ (t.fields = <<>> \/ Len(t.fields) # Len(t.offsets)
                                        \/ \E k \in DOMAIN t.offsets : t.offsets[k] > t.byteLength)
                 \/ ~IsAggregate(t) /\ \E e \in touched : e > 1
    IN  IF pending = <<>> THEN c
        ELSE IF invalid THEN [c EXCEPT !.ok = FALSE]
        ELSE IF t.elementCount # 1 THEN classifyCAbiValue(elements \o Tail(pending), c)
        ELSE IF IsAggregate(t) THEN classifyCAbiValue(fields \o Tail(pending), c)
        ELSE classifyCAbiValue(Tail(pending), merged)

\* LLVM types of arguments: an integer or a float of n bytes, a pointer, a vector
\* of floats.
IntType(n) == [t |-> "int", n |-> n]
PtrType == [t |-> "ptr", n |-> 8]
FloatType(n) == [t |-> "float", n |-> n]
VectorType(n) == [t |-> "vector", n |-> n]
NoType == [t |-> "none", n |-> 0]

integerPieceType(c, offset, n) ==
    LET Overlaps(leaf) == leaf.offset + leaf.n > offset /\ leaf.offset < offset + n
        leaves == SelectSeq(c.leaves, Overlaps)
        single == Len(leaves) = 1 /\ leaves[1].offset = offset
    IN  CASE \E k \in DOMAIN leaves : leaves[k].offset < offset \/ leaves[k].offset + leaves[k].n > offset + n -> NoType
          [] single /\ leaves[1].kind = "Integer" -> IntType(leaves[1].n)
          [] single /\ leaves[1].kind = "Pointer" /\ leaves[1].n = 8 -> PtrType
          [] leaves = <<>> -> NoType
          [] OTHER -> IntType(n)

\* A plausible slip: padding behind the floats is refused.
ssePieceType_Full(c, offset, n) ==
    LET leaves == SelectSeq(c.leaves, LAMBDA leaf : leaf.offset >= offset /\ leaf.offset + leaf.n <= offset + n)
    IN  IF leaves = <<>> \/ Len(leaves) * leaves[1].n # n THEN NoType
        ELSE IF Len(leaves) = 1 THEN FloatType(n) ELSE VectorType(n)
\* The floats of the piece lie side by side from its first byte on.
ssePieceType(c, offset, n) ==
    LET Within(leaf) == leaf.kind = "Floating" /\ leaf.offset >= offset /\ leaf.offset + leaf.n <= offset + n
        leaves == SortSeq(SelectSeq(c.leaves, Within), LAMBDA a, b : a.offset < b.offset)
        size == leaves[1].n
    IN  IF \/ leaves = <<>>
           \/ \E k \in DOMAIN leaves : leaves[k].n # size \/ leaves[k].offset # offset + (k - 1) * size
           \/ size \notin {4, 8}
        THEN NoType
        ELSE IF Len(leaves) = 1 THEN FloatType(size) ELSE VectorType(size * Len(leaves))

pieceType(c, offset, n) ==
    CASE c.classes[offset \div 8] = "Integer" -> integerPieceType(c, offset, n)
      [] c.classes[offset \div 8] = "Sse" -> ssePieceType(c, offset, n)
      [] OTHER -> NoType

\* One piece for each eightbyte.
cAbiDirectPlanFor(t) ==
    LET c == classifyCAbiValue(<<Pending(t, 0)>>, NewClassification(t.byteLength))
        pieces == [k \in 1..((t.byteLength + 7) \div 8) |->
                     LET offset == (k - 1) * 8
                     IN  [type |-> pieceType(c, offset, IF t.byteLength - offset < 8 THEN t.byteLength - offset ELSE 8),
                          offset |-> offset]]
    IN  IF /\ IsAggregate(t) /\ t.byteLength \in 1..16 /\ t.elementCount = 1
           /\ abiTypeFor(t) /\ c.ok /\ \A k \in DOMAIN pieces : pieces[k].type # NoType
        THEN pieces ELSE <<>>

-----------------------------------------------------------------------------
(* Moving a struct between its storage and its pieces.                     *)

PieceFits(t, piece) == piece.offset + piece.type.n <= t.byteLength
packCAbiDirectValue(t, storage, pieces) ==
    [k \in DOMAIN pieces |-> [o \in 0..(pieces[k].type.n - 1) |-> storage[pieces[k].offset + o]]]
unpackCAbiDirectValue(t, values, pieces) ==
    [o \in 0..(t.byteLength - 1) |->
        LET holds == {k \in DOMAIN pieces : o - pieces[k].offset \in 0..(pieces[k].type.n - 1)}
        IN  IF holds = {} THEN Undefined
            ELSE LET k == CHOOSE k \in holds : TRUE IN values[k][o - pieces[k].offset]]

-----------------------------------------------------------------------------
(* Declarations: the plans and the function type.                          *)

NoPlan == [used |-> FALSE, return |-> FALSE, params |-> <<>>]
cAbiMemoryPlanFor(s) ==
    LET return == Len(s.returns) = 1 /\ isIndirectCAbiAggregate(s.returns[1])
        params == [k \in DOMAIN s.params |-> isIndirectCAbiAggregate(s.params[k])]
    IN  IF return \/ \E k \in DOMAIN params : params[k]
        THEN [used |-> TRUE, return |-> return, params |-> params] ELSE NoPlan

\* What the code remembers is the type of each struct passed in pieces; it plans the
\* pieces again wherever it needs them.  They are kept here; <<>> for another value.
DirectPieces(t) ==
    IF IsAggregate(t) /\ ~isIndirectCAbiAggregate(t) THEN cAbiDirectPlanFor(t) ELSE <<>>
rememberCAbiDirectAggregatePlans(s) ==
    [params |-> [k \in DOMAIN s.params |-> DirectPieces(s.params[k])],
     return |-> IF Len(s.returns) = 1 THEN DirectPieces(s.returns[1]) ELSE <<>>]

ScalarType(t) ==
    CASE t.kind = "Integer" -> IntType(t.byteLength)
      [] t.kind = "Floating" -> FloatType(t.byteLength)
      [] OTHER -> PtrType
Types(pieces) == [k \in DOMAIN pieces |-> pieces[k].type]

\* The LLVM types a value is passed as; none when there is no way to pass it.
PhysicalTypes(t) ==
    CASE IsAggregate(t) -> Types(cAbiDirectPlanFor(t))
      [] abiTypeFor(t) -> <<ScalarType(t)>>
      [] OTHER -> <<>>

\* `declare' calls it for extern functions and for functions alike.
cAbiFunctionType(s, plan) ==
    LET parts == [k \in DOMAIN s.params |-> IF plan.used /\ plan.params[k] THEN <<PtrType>>
                                            ELSE PhysicalTypes(s.params[k])]
        void == s.returns = <<>> \/ (plan.used /\ plan.return)
        returned == IF void THEN <<>> ELSE PhysicalTypes(s.returns[1])
    IN  [ok |-> /\ Len(s.returns) <= 1 /\ \A k \in DOMAIN parts : parts[k] # <<>>
                /\ void \/ returned # <<>>,
         params |-> (IF plan.used /\ plan.return THEN <<PtrType>> ELSE <<>>) \o FlattenSeq(parts),
         result |-> returned]

\* sret and byval on the LLVM arguments of the function, counted again from the
\* plans.
\* A plausible slip: a struct in two registers counts as one argument.
PieceCount_One(direct, k) == 1
PieceCount(direct, k) == IF direct.params[k] # <<>> THEN Len(direct.params[k]) ELSE 1
argumentIndex(plan, direct, k) ==
    LET Add(n, j) == n + PieceCount(direct, j)
    IN  FoldLeft(Add, IF plan.return THEN 1 ELSE 0, [j \in 1..(k - 1) |-> j])
Attribute(a, n) == [a |-> a, n |-> n]
applyCAbiMemoryAttributes(s, plan, direct, count) ==
    [p \in 1..count |->
        LET here == {k \in DOMAIN plan.params : plan.params[k] /\ argumentIndex(plan, direct, k) = p - 1}
        IN  CASE plan.return /\ p = 1 -> Attribute("sret", 0)
              [] here # {} -> Attribute("byval", s.params[CHOOSE k \in here : TRUE].byteLength)
              [] OTHER -> Attribute("none", 0)]

declare(s) ==
    LET plan == cAbiMemoryPlanFor(s)
        type == cAbiFunctionType(s, plan)
        direct == rememberCAbiDirectAggregatePlans(s)
    IN  [ok |-> type.ok, sig |-> s, plan |-> plan, direct |-> direct, type |-> type,
         attributes |-> applyCAbiMemoryAttributes(s, plan, direct, Len(type.params))]

NotDeclared == <<>>

hasCAbiAggregateByValue(s) ==
    \E t \in Range(s.params) \cup Range(s.returns) : IsAggregate(t)
validateCAbiAggregateByValue(s, target) == target = "x86_64 SysV ELF" \/ ~hasCAbiAggregateByValue(s)

-----------------------------------------------------------------------------
(* The emitted call: the LLVM arguments, checked against the function type *)
(* as they are pushed.                                                     *)

\* The leaves of a value, and the value whose bytes carry the tag i; padding is
\* undefined.
RECURSIVE Leaves(_, _)
Leaves(t, offset) ==
    UNION {LET at == offset + e * t.byteLength
           IN  IF IsAggregate(t) THEN UNION {Leaves(t.fields[k], at + t.offsets[k]) : k \in DOMAIN t.fields}
               ELSE {[kind |-> t.kind, offset |-> at, n |-> t.byteLength]}
           : e \in 0..(t.elementCount - 1)}
DataBytes(t) == UNION {leaf.offset..(leaf.offset + leaf.n - 1) : leaf \in Leaves(t, 0)}
ValueOf(i, t) == [o \in 0..(t.byteLength - 1) |-> IF o \in DataBytes(t) THEN <<i, o>> ELSE Undefined]

Argument(type, bytes, pointee) == [type |-> type, bytes |-> bytes, pointee |-> pointee]
PushReturnStorage(d) ==
    IF d.plan.used /\ d.plan.return THEN <<Argument(PtrType, AddressOf(ReturnStorage), <<>>)>> ELSE <<>>

\* What one call argument pushes.
Pushed(d, k) ==
    LET t == d.sig.params[k]
        value == ValueOf(k, t)
        pieces == d.direct.params[k]
        values == packCAbiDirectValue(t, value, pieces)
    IN  CASE d.plan.used /\ d.plan.params[k] -> <<Argument(PtrType, AddressOf(k), value)>>
          [] pieces # <<>> -> [p \in DOMAIN pieces |-> Argument(pieces[p].type, values[p], <<>>)]
          [] OTHER -> <<Argument(ScalarType(t), value, <<>>)>>

\* A direct struct must find its pieces' types at its place of the function type,
\* and the arguments must use up the function's.
emitArguments(d) ==
    LET Push(acc, k) ==
            LET more == Pushed(d, k)
                at == Len(acc.args)
            IN  [args |-> acc.args \o more,
                 ok |-> /\ acc.ok /\ at + Len(more) <= Len(d.type.params)
                        /\ d.direct.params[k] # <<>> =>
                             /\ \A p \in Range(d.direct.params[k]) : PieceFits(d.sig.params[k], p)
                             /\ \A p \in DOMAIN more : d.type.params[at + p] = more[p].type]
        all == FoldLeft(Push, [args |-> PushReturnStorage(d), ok |-> TRUE], Indices(d.sig.params))
    IN  [all EXCEPT !.ok = @ /\ Len(all.args) = Len(d.type.params)]

-----------------------------------------------------------------------------
(* LLVM's registers for the arguments of a call, and C's.                  *)

GeneralRegisters == 6
SseRegisters == 8
Slot(area, k) == <<area, k>>
StackSlots(from, n) == [j \in 1..((n + 7) \div 8) |-> Slot("stack", from + j)]
Free == [g |-> 0, x |-> 0, s |-> 0, slots |-> <<>>]
TakeGeneral(f) == [f EXCEPT !.g = @ + 1, !.slots = Append(@, <<Slot("general", f.g + 1)>>)]
TakeSse(f) == [f EXCEPT !.x = @ + 1, !.slots = Append(@, <<Slot("sse", f.x + 1)>>)]
TakeStack(f, from, n) ==
    [f EXCEPT !.s = from + (n + 7) \div 8, !.slots = Append(@, StackSlots(from, n))]

\* A vector that finds no register takes sixteen aligned bytes.
LlvmAssign(f, type, attribute) ==
    CASE attribute.a = "byval" -> TakeStack(f, f.s, attribute.n)
      [] type.t \in {"int", "ptr"} /\ f.g < GeneralRegisters -> TakeGeneral(f)
      [] type.t \in {"float", "vector"} /\ f.x < SseRegisters -> TakeSse(f)
      [] type.t = "vector" -> TakeStack(f, RoundUp(f.s, 2), 16)
      [] OTHER -> TakeStack(f, f.s, 8)
LlvmSlots(types, attributes) ==
    LET Assign(f, p) == LlvmAssign(f, types[p], attributes[p])
    IN  FoldLeft(Assign, Free, Indices(types)).slots

\* The System V classes of a value: an eightbyte with an integer or a pointer in it
\* is INTEGER, one with floats only SSE; more than two eightbytes go to memory.
Classes(t) ==
    [e \in 1..((t.byteLength + 7) \div 8) |->
        IF \E leaf \in Leaves(t, 0) : /\ leaf.kind # "Floating"
                                      /\ leaf.offset < 8 * e /\ leaf.offset + leaf.n > 8 * (e - 1)
        THEN "general" ELSE "sse"]
Wanted(t, area) == Cardinality({e \in DOMAIN Classes(t) : Classes(t)[e] = area})
InRegisters(f, t) ==
    /\ t.byteLength <= 16
    /\ f.g + Wanted(t, "general") <= GeneralRegisters /\ f.x + Wanted(t, "sse") <= SseRegisters
\* The registers of a value, after `used' ones of each kind.
RegistersOf(t, used, names) ==
    [e \in DOMAIN Classes(t) |->
        Slot(names[Classes(t)[e]],
             used[Classes(t)[e]] + Cardinality({d \in 1..e : Classes(t)[d] = Classes(t)[e]}))]
ArgumentRegisters == [general |-> "general", sse |-> "sse"]
ResultRegisters == [general |-> "rax", sse |-> "xmm0"]
SysVAssign(f, t) ==
    IF InRegisters(f, t)
    THEN [f EXCEPT !.g = @ + Wanted(t, "general"), !.x = @ + Wanted(t, "sse"),
                   !.slots = Append(@, RegistersOf(t, [general |-> f.g, sse |-> f.x], ArgumentRegisters))]
    ELSE TakeStack(f, f.s, t.byteLength)
ReturnsInMemory(s) == s.returns # <<>> /\ s.returns[1].byteLength > 16
SysVSlots(s) == FoldLeft(SysVAssign, [Free EXCEPT !.g = IF ReturnsInMemory(s) THEN 1 ELSE 0], s.params).slots

\* Some struct of at most 16 bytes finds too few registers left.
Exhausted(s) ==
    \E k \in DOMAIN s.params : /\ IsAggregate(s.params[k]) /\ s.params[k].byteLength <= 16
                               /\ \E slot \in Range(SysVSlots(s)[k]) : slot[1] = "stack"

\* Writing bytes to slots and reading them.
Written(slots, bytes) == {<<slots[o \div 8 + 1], o % 8, bytes[o]>> : o \in DOMAIN bytes}
ReadByte(state, slot, o) ==
    LET hits == {e \in state : e[1] = slot /\ e[2] = o}
    IN  IF hits = {} THEN Undefined ELSE (CHOOSE e \in hits : TRUE)[3]
ReadBytes(state, slots, n) == [o \in 0..(n - 1) |-> ReadByte(state, slots[o \div 8 + 1], o % 8)]

\* The attributes of the call, counted a third time.
callAttributes(d) == applyCAbiMemoryAttributes(d.sig, d.plan, d.direct, Len(d.type.params))

\* A copy goes to the stack when the LLVM argument is byval, its address otherwise.
LlvmCall(d, args) ==
    LET attributes == callAttributes(d)
        slots == LlvmSlots([p \in DOMAIN args |-> args[p].type], attributes)
    IN  UNION {Written(slots[p], IF attributes[p].a = "byval" THEN args[p].pointee ELSE args[p].bytes)
               : p \in DOMAIN args}

-----------------------------------------------------------------------------
(* The emitted function: its LLVM arguments become its parameters.         *)

LlvmArguments(d, state) ==
    LET slots == LlvmSlots(d.type.params, d.attributes)
    IN  [p \in DOMAIN d.type.params |->
            ReadBytes(state, slots[p], IF d.attributes[p].a = "byval" THEN d.attributes[p].n
                                       ELSE d.type.params[p].n)]
\* What a pointer points to: the caller's copy of a parameter.
Pointee(s, bytes) ==
    LET of == {k \in DOMAIN s.params : bytes = AddressOf(k)}
    IN  IF of = {} THEN <<>> ELSE ValueOf(CHOOSE k \in of : TRUE, s.params[CHOOSE k \in of : TRUE])

\* The next parameter takes one LLVM argument, or the pieces of its struct.
NextParameter(d, args, acc, k) ==
    LET t == d.sig.params[k]
        pieces == d.direct.params[k]
        taken == IF pieces # <<>> THEN Len(pieces) ELSE 1
        types == SubSeq(d.type.params, acc.at + 1, acc.at + taken)
        value == CASE d.plan.used /\ d.plan.params[k] ->
                        IF d.attributes[acc.at + 1].a = "byval" THEN args[acc.at + 1]
                        ELSE Pointee(d.sig, args[acc.at + 1])
                   [] pieces # <<>> ->
                        unpackCAbiDirectValue(t, SubSeq(args, acc.at + 1, acc.at + taken), pieces)
                   [] OTHER -> args[acc.at + 1]
        fits == /\ acc.at + taken <= Len(args)
                /\ pieces # <<>> => types = Types(pieces) /\ \A p \in Range(pieces) : PieceFits(t, p)
    IN  IF acc.ok /\ fits
        THEN [acc EXCEPT !.at = @ + taken, !.values = Append(@, value)]
        ELSE [acc EXCEPT !.ok = FALSE]
emitParameters(d, state) ==
    LET args == LlvmArguments(d, state)
        first == IF d.plan.used /\ d.plan.return THEN 1 ELSE 0
        Take(acc, k) == NextParameter(d, args, acc, k)
        all == FoldLeft(Take, [ok |-> TRUE, at |-> first, values |-> <<>>], Indices(d.sig.params))
    IN  [all EXCEPT !.ok = @ /\ all.at = Len(args)]

-----------------------------------------------------------------------------
(* Results.                                                                *)

NoAnswer == [registers |-> {}, storage |-> <<>>]
LlvmResultSlots(types) ==
    [p \in DOMAIN types |->
        LET bank(q) == IF types[q].t \in {"int", "ptr"} THEN "rax" ELSE "xmm0"
        IN  <<Slot(bank(p), Cardinality({q \in 1..p : bank(q) = bank(p)}))>>]
ResultType(s) == s.returns[1]
ResultValue(s) == ValueOf(ResultTag, ResultType(s))
\* A store through the address the callee was given.
StoredAt(address, value) ==
    [NoAnswer EXCEPT !.storage = IF address = AddressOf(ReturnStorage) THEN value ELSE <<>>]
ResultPieces(d) ==
    IF d.direct.return # <<>> THEN d.direct.return
    ELSE <<[type |-> ScalarType(ResultType(d.sig)), offset |-> 0]>>

\* Packing and unpacking refuse a piece that reaches past the struct.
ResultFits(d) == d.direct.return # <<>> => \A p \in Range(ResultPieces(d)) : PieceFits(ResultType(d.sig), p)

\* hir::Return, in a function with this declaration.
emitReturn(d, state) ==
    CASE d.plan.used /\ d.plan.return -> StoredAt(LlvmArguments(d, state)[1], ResultValue(d.sig))
      [] d.sig.returns = <<>> -> NoAnswer
      [] OTHER ->
           LET slots == LlvmResultSlots(d.type.result)
               values == packCAbiDirectValue(ResultType(d.sig), ResultValue(d.sig), ResultPieces(d))
           IN  [NoAnswer EXCEPT !.registers = UNION {Written(slots[p], values[p]) : p \in DOMAIN values}]

\* A plausible slip: only the first piece is stored.
emitResult_FirstPiece(d, a) ==
    IF (d.plan.used /\ d.plan.return) \/ d.sig.returns = <<>> THEN a.storage
    ELSE LET value == ReadBytes(a.registers, LlvmResultSlots(d.type.result)[1], d.type.result[1].n)
         IN  unpackCAbiDirectValue(ResultType(d.sig), <<value>>, SubSeq(ResultPieces(d), 1, 1))
\* The caller's end.
emitResult(d, a) ==
    CASE d.plan.used /\ d.plan.return -> a.storage
      [] d.sig.returns = <<>> -> <<>>
      [] OTHER ->
           LET slots == LlvmResultSlots(d.type.result)
               values == [p \in DOMAIN slots |-> ReadBytes(a.registers, slots[p], d.type.result[p].n)]
           IN  unpackCAbiDirectValue(ResultType(d.sig), values, ResultPieces(d))

-----------------------------------------------------------------------------
(* The call, step by step.  source.caller and source.callee are "hs", code *)
(* that hsc emitted, or "c".                                               *)

Init ==
    /\ source \in Signatures
    /\ phase = "source" /\ declared = NotDeclared
    /\ frame = {} /\ received = <<>> /\ answer = NoAnswer /\ result = <<>>

Compile ==
    /\ phase = "source"
    /\ LET s == makeCAbiSignature(source)
           d == declare(s)
       IN  IF s.ok /\ validateCAbiAggregateByValue(s, source.target) /\ d.ok
           THEN phase' = "declared" /\ declared' = d
           ELSE phase' = "diagnosed" /\ UNCHANGED declared
    /\ UNCHANGED <<source, frame, received, answer, result>>

EmittedCall ==
    /\ phase = "declared" /\ source.caller = "hs"
    /\ LET call == emitArguments(declared)
       IN  IF call.ok THEN phase' = "called" /\ frame' = LlvmCall(declared, call.args)
           ELSE phase' = "diagnosed" /\ UNCHANGED frame
    /\ UNCHANGED <<source, declared, received, answer, result>>

CCall ==
    /\ phase = "declared" /\ source.caller = "c"
    /\ phase' = "called"
    /\ LET s == declared.sig
           sret == IF ReturnsInMemory(s) THEN Written(<<Slot("general", 1)>>, AddressOf(ReturnStorage)) ELSE {}
       IN  frame' = sret \cup UNION {Written(SysVSlots(s)[k], ValueOf(k, s.params[k])) : k \in DOMAIN s.params}
    /\ UNCHANGED <<source, declared, received, answer, result>>

EmittedFunction ==
    /\ phase = "called" /\ source.callee = "hs"
    /\ LET entry == emitParameters(declared, frame)
       IN  IF entry.ok THEN phase' = "running" /\ received' = entry.values
           ELSE phase' = "diagnosed" /\ UNCHANGED received
    /\ UNCHANGED <<source, declared, frame, answer, result>>

CFunction ==
    /\ phase = "called" /\ source.callee = "c"
    /\ phase' = "running"
    /\ LET s == declared.sig
       IN  received' = [k \in DOMAIN s.params |-> ReadBytes(frame, SysVSlots(s)[k], s.params[k].byteLength)]
    /\ UNCHANGED <<source, declared, frame, answer, result>>

EmittedReturn ==
    /\ phase = "running" /\ source.callee = "hs"
    /\ IF ResultFits(declared) THEN phase' = "returned" /\ answer' = emitReturn(declared, frame)
       ELSE phase' = "diagnosed" /\ UNCHANGED answer
    /\ UNCHANGED <<source, declared, frame, received, result>>

CReturn ==
    /\ phase = "running" /\ source.callee = "c"
    /\ phase' = "returned"
    /\ LET s == declared.sig
           registers == RegistersOf(ResultType(s), [general |-> 0, sse |-> 0], ResultRegisters)
       IN  answer' = CASE s.returns = <<>> -> NoAnswer
                       [] ReturnsInMemory(s) ->
                            StoredAt(ReadBytes(frame, <<Slot("general", 1)>>, 8), ResultValue(s))
                       [] OTHER -> [NoAnswer EXCEPT !.registers = Written(registers, ResultValue(s))]
    /\ UNCHANGED <<source, declared, frame, received, result>>

EmittedResult ==
    /\ phase = "returned" /\ source.caller = "hs"
    /\ IF ResultFits(declared) THEN phase' = "done" /\ result' = emitResult(declared, answer)
       ELSE phase' = "diagnosed" /\ UNCHANGED result
    /\ UNCHANGED <<source, declared, frame, received, answer>>

CResult ==
    /\ phase = "returned" /\ source.caller = "c"
    /\ phase' = "done"
    /\ LET s == declared.sig
           registers == RegistersOf(ResultType(s), [general |-> 0, sse |-> 0], ResultRegisters)
       IN  result' = CASE s.returns = <<>> -> <<>>
                       [] ReturnsInMemory(s) -> answer.storage
                       [] OTHER -> ReadBytes(answer.registers, registers, ResultType(s).byteLength)
    /\ UNCHANGED <<source, declared, frame, received, answer>>

Next == \/ Compile \/ EmittedCall \/ CCall \/ EmittedFunction \/ CFunction
        \/ EmittedReturn \/ CReturn \/ EmittedResult \/ CResult

-----------------------------------------------------------------------------
(* Properties.                                                             *)

Intact(i, t, value) ==
    \A o \in DataBytes(t) : o \in DOMAIN value /\ value[o] = <<i, o>>

AllArrive == \A k \in DOMAIN declared.sig.params : Intact(k, declared.sig.params[k], received[k])

\* Every field of every argument reaches the parameter it was passed for, on both
\* sides of a call between hsc's code and C, for structs in registers and in memory,
\* with scalars before, between and behind them.  Between hsc's code and C a struct
\* for which the registers run out is left out: its pieces are assigned one by one,
\* C passes it whole, in memory (LLVMCodegenCAbi.cpp,
\* emit(Function) in LLVMCodegenFunctions.cpp).
ArgumentsArrive ==
    phase \in {"running", "returned", "done"} =>
        \/ "c" \in {source.caller, source.callee} /\ Exhausted(declared.sig)
        \/ AllArrive

\* The same for every struct: it is in registers as a whole or in memory as a whole,
\* as in C (cAbiFunctionType, where each piece is a parameter of its own).
StructsUndivided == phase \in {"running", "returned", "done"} => AllArrive

\* The caller sees every field of the result, returned in registers or through
\* the storage whose address is the hidden first argument.
ResultArrives ==
    phase = "done" /\ declared.sig.returns # <<>> => Intact(ResultTag, ResultType(declared.sig), result)

\* The only signatures refused are those with a core view that is no C type and
\* those with a struct by value on another target: no layout of C structs, and
\* none of the checks between plan, function type and arguments, stops a build.
NothingElseRefused ==
    phase = "diagnosed" =>
        \/ ~makeCAbiSignature(source).ok
        \/ source.target # "x86_64 SysV ELF" /\ hasCAbiAggregateByValue(makeCAbiSignature(source))

CallsFollowSysV == ArgumentsArrive /\ ResultArrives /\ NothingElseRefused

=============================================================================
