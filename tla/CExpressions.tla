---------------------------- MODULE CExpressions ----------------------------
(***************************************************************************)
(* Integer and pointer expressions of the C compatibility subset: the C    *)
(* expression is lowered to core syntax (CCompatLoweringOperators.cpp,     *)
(* CCompatLoweringExpressions.cpp), which IntegerExpressions analyzes and  *)
(* emits, and the value stored is compared with the value C gives it.      *)
(*                                                                         *)
(* An int has four bytes, a long and a pointer eight, of BitsPerByte bits  *)
(* each.                                                                   *)
(***************************************************************************)
EXTENDS IntegerExpressions

-----------------------------------------------------------------------------
(* C types and syntax.                                                     *)

integerType(n, signed) == [k |-> "int", n |-> n, signed |-> signed, to |-> <<>>]
makePointer(t) == [k |-> "ptr", n |-> PointerLength, signed |-> FALSE, to |-> <<t>>]
structType(size) == [k |-> "struct", n |-> size, signed |-> FALSE, to |-> <<>>]
IsInteger(t) == t.k = "int"
IsPointer(t) == t.k = "ptr"
pointee(t) == t.to[1]

CVar(t, b) == [k |-> "var", t |-> t, b |-> b]
\* An array of `count` elements of type t that lies at address b.
CArray(t, count, b) == [k |-> "array", t |-> t, count |-> count, b |-> b]
\* u: a u suffix, l: an l suffix, dec: a decimal constant.
CLit(v, u, l, dec) == [k |-> "lit", v |-> v, u |-> u, l |-> l, dec |-> dec]
CChar(v) == [k |-> "char", v |-> v]
CUn(op, a) == [k |-> "un", op |-> op, a |-> a]
CBin(op, a, b) == [k |-> "bin", op |-> op, a |-> a, b |-> b]
CCond(c, a, b) == [k |-> "cond", c |-> c, a |-> a, b |-> b]
CCast(t, a) == [k |-> "cast", t |-> t, a |-> a]
CSizeof(size) == [k |-> "sizeof", size |-> size]
CIndex(a, i) == [k |-> "index", a |-> a, i |-> i]
\* p->m, for the member m of type t at `offset`; an array of t when isArray.
CArrow(a, offset, t, isArray) ==
    [k |-> "arrow", a |-> a, offset |-> offset, t |-> t, isArray |-> isArray]

-----------------------------------------------------------------------------
(* Integer constants: the count of a shift is evaluated during lowering.   *)

NoConstant == [k |-> "none"]
IsConstant(c) == c.k = "constant"
Constant(b, n, signed) == [k |-> "constant", b |-> b, n |-> n, signed |-> signed]
\* The bits are masked; a negative value is not extended to a wider type.
convertConstantInteger(c, n, signed) == Constant(Wrap(c.b, n), n, signed)
signedConstantValue(c) == SignedOf(Wrap(c.b, c.n), c.n)
promoteConstantInteger(c) ==
    IF c.n >= 4 THEN c
    ELSE Constant(Wrap(IF c.signed THEN signedConstantValue(c) ELSE c.b, 4), 4, TRUE)
Truth(c) == Wrap(c.b, c.n) # 0
ConstantBool(p) == Constant(IF p THEN 1 ELSE 0, 1, FALSE)

\* A count must be in range and a signed left operand nonnegative for <<.
evaluateShift(op, w, signed, l, r) ==
    LET a == convertConstantInteger(l, w, signed)
        c == promoteConstantInteger(r)
        count == Wrap(c.b, c.n)
    IN  IF (c.signed /\ signedConstantValue(c) < 0) \/ count >= BitCount(w) THEN NoConstant
        ELSE IF op = ">>"
        THEN Constant(Wrap(ReadAs(a.b, w, ~signed) \div 2 ^ count, w), w, signed)
        ELSE IF signed /\ (SignedOf(a.b, w) < 0
                           \/ SignedOf(a.b, w) > (Size(8) \div 2 - 1) \div 2 ^ count)
        THEN NoConstant
        ELSE Constant(ShlBits(a.b, count, w), w, signed)

\* Signed operations that overflow, and divisions by zero, are no constants.
ExactConstant(v, w, signed) ==
    IF signed /\ v \notin -(Size(w) \div 2)..(Size(w) \div 2 - 1) THEN NoConstant
    ELSE Constant(Wrap(v, w), w, signed)
ConstantOperation(op, x, y, w, signed) ==
    CASE op = "&" -> ReadAs(Wrap(x, w) & Wrap(y, w), w, ~signed)
      [] op = "|" -> ReadAs(Wrap(x, w) | Wrap(y, w), w, ~signed)
      [] op = "^" -> ReadAs(Wrap(x, w) ^^ Wrap(y, w), w, ~signed)
      [] op = "+" -> x + y
      [] op = "-" -> x - y
      [] op = "*" -> IF signed THEN x * y ELSE MulBits(x, y, w)
      [] op = "/" -> TruncDiv(x, y)
      [] op = "%" -> TruncRem(x, y)
ConstantOf(op, x, y, w, signed) ==
    IF op \in Comparisons THEN ConstantBool(Compare(op, x, y))
    ELSE IF op \in {"/", "%"} /\ y = 0 THEN NoConstant
    ELSE IF op = "%" /\ signed /\ x = -(Size(w) \div 2) /\ y = -1 THEN NoConstant
    ELSE ExactConstant(ConstantOperation(op, x, y, w, signed), w, signed)
evaluateTypedIntegerBinary(op, w, signed, l, r) ==
    IF op \in {"<<", ">>"} THEN evaluateShift(op, w, signed, l, r)
    ELSE ConstantOf(op, ReadAs(Wrap(l.b, w), w, ~signed), ReadAs(Wrap(r.b, w), w, ~signed),
                    w, signed)

evaluateUnary(op, c) ==
    LET p == promoteConstantInteger(c)
    IN  CASE op = "!" -> ConstantBool(~Truth(c))
          [] op = "~" -> Constant(Wrap(-p.b - 1, p.n), p.n, p.signed)
          [] op = "-" -> IF p.signed /\ signedConstantValue(p) = -(Size(8) \div 2) THEN NoConstant
                         ELSE Constant(Wrap(-p.b, p.n), p.n, p.signed)

\* The constant of an expression whose operands are the constants l and r.
ConvertedConstant(e, c) ==
    IF IsConstant(c) THEN convertConstantInteger(c, e.n, e.k = "cast" /\ e.signed) ELSE c
UnaryConstant(op, c) == IF IsConstant(c) THEN evaluateUnary(op, c) ELSE c
LogicalConstant(op, l, r) ==
    IF ~IsConstant(l) THEN l
    ELSE IF Truth(l) = (op = "||") THEN ConstantBool(Truth(l))
    ELSE IF IsConstant(r) THEN ConstantBool(Truth(r)) ELSE r
BinaryConstant(e, l, r) ==
    IF e.op \in Logical THEN LogicalConstant(e.op, l, r)
    ELSE IF e.mark = "" \/ ~IsConstant(l) \/ ~IsConstant(r) THEN NoConstant
    ELSE evaluateTypedIntegerBinary(e.op, e.w, e.mark = "d", l, r)
TernaryConstant(c, a, b) ==
    IF ~IsConstant(c) THEN c ELSE IF Truth(c) THEN a ELSE b

RECURSIVE evaluateIntegerConstant(_)
evaluateIntegerConstant(e) ==
    CASE e.k = "lit" ->
             Constant(e.v, IF e.v >= Size(4) \div 2 THEN 8 ELSE 4, e.v < Size(8) \div 2)
      [] e.k \in {"uns", "cast"} -> ConvertedConstant(e, evaluateIntegerConstant(e.a))
      [] e.k = "un" -> UnaryConstant(e.op, evaluateIntegerConstant(e.a))
      [] e.k = "bin" ->
             BinaryConstant(e, evaluateIntegerConstant(e.a), evaluateIntegerConstant(e.b))
      [] e.k = "tern" ->
             TernaryConstant(evaluateIntegerConstant(e.c), evaluateIntegerConstant(e.a),
                             evaluateIntegerConstant(e.b))
      [] e.k \notin {"lit", "uns", "cast", "un", "bin", "tern"} -> NoConstant

\* A constant count that is negative or not below the width is diagnosed.
CountOutside(v, width) ==
    \/ v.signed /\ signedConstantValue(v) < 0
    \/ v.b >= BitCount(width)
CountRefused(c, countType, width) ==
    /\ IsConstant(c)
    /\ CountOutside(convertConstantInteger(promoteConstantInteger(c), countType.n,
                                           countType.signed), width)
constantShiftRefused(e, countType, width) ==
    CountRefused(evaluateIntegerConstant(e), countType, width)

-----------------------------------------------------------------------------
(* Lowering: a core expression e with its C type t; arr marks an array     *)
(* object, byAddress one that is reached through its address.              *)

Lowered(e, t) == [k |-> "lowered", e |-> e, t |-> t, arr |-> FALSE, byAddress |-> FALSE]

\* Mutant: an unsigned type narrower than int stays unsigned.
promoteInteger_KeepsSign(t) == IF t.n < 4 THEN integerType(4, t.signed) ELSE t
promoteInteger(t) == IF t.n < 4 THEN integerType(4, TRUE) ELSE t
PromotedCommon(p, q) ==
    IF p.signed = q.signed THEN IF p.n >= q.n THEN p ELSE q
    ELSE IF p.signed THEN IF q.n >= p.n THEN q ELSE p
    ELSE IF p.n >= q.n THEN p ELSE q
usualIntegerType(s, t) == PromotedCommon(promoteInteger(s), promoteInteger(t))

cIntegerOperator(t, op, a, b) == TypedBin(op, t.n, IF t.signed THEN "d" ELSE "u", a, b)
pointerOperator(op, a, b) == TypedBin(op, PointerLength, "d", a, b)
scaledIndex(i, size) == pointerOperator("*", i, Lit(size))

preserveUnsigned(e, t) ==
    IF IsInteger(t) /\ ~t.signed /\ e.k # "uns" THEN Uns(t.n, e) ELSE e

\* Mutant: a decimal constant without suffix is an int.
parseCIntegerLiteral_IntOnly(e) ==
    IF ~e.u /\ ~e.l /\ e.dec /\ e.v >= Size(4) \div 2 THEN Refused
    ELSE integerType(IF e.l THEN 8 ELSE 4, ~e.u)
parseCIntegerLiteral(e) ==
    LET fits(n) == e.v < Size(n)
        fitsSigned(n) == e.v < Size(n) \div 2
    IN  CASE e.u /\ e.l -> integerType(8, FALSE)
          [] e.l /\ ~e.u -> IF fitsSigned(8) \/ ~e.dec THEN integerType(8, fitsSigned(8))
                            ELSE Refused
          [] e.u /\ ~e.l -> integerType(IF fits(4) THEN 4 ELSE 8, FALSE)
          [] ~e.u /\ ~e.l ->
                 IF fitsSigned(4) THEN integerType(4, TRUE)
                 ELSE IF ~e.dec /\ fits(4) THEN integerType(4, FALSE)
                 ELSE IF fitsSigned(8) THEN integerType(8, TRUE)
                 ELSE IF ~e.dec THEN integerType(8, FALSE) ELSE Refused

decayArray(x) ==
    IF IsRefused(x) \/ ~x.arr THEN x
    ELSE Lowered(IF x.byAddress THEN x.e ELSE AddrOf(x.e), makePointer(x.t))

LiteralAs(v, t) ==
    IF t.k = "refused" THEN Refused
    ELSE Lowered(IF t.signed THEN Lit(v) ELSE Uns(t.n, Lit(v)), t)
lowerLiteral(e) == LiteralAs(e.v, parseCIntegerLiteral(e))

RECURSIVE lowerExpr(_)
\* lowerExpr after which an array is a pointer.
lowerValue(e) == decayArray(lowerExpr(e))

\* Assignable, or the operand of &: an object that is not an array, an element,
\* what a pointer points to, a member.
lowerLvalue(e) ==
    IF \/ e.k \in {"var", "index", "arrow"}
       \/ e.k = "un" /\ e.op = "*"
    THEN lowerExpr(e) ELSE Refused

\* * dereferences, & takes the address of an lvalue, ! is 0 or 1, - and ~ keep
\* the operand's bytes under the promoted type.
SignChanged(op, x, t) ==
    Lowered(preserveUnsigned(Un(op, preserveUnsigned(x.e, x.t)), t), t)
UnaryOf(op, x) ==
    IF IsRefused(x) THEN x
    ELSE CASE op = "*" -> IF ~IsPointer(x.t) THEN Refused
                          ELSE Lowered(Deref(pointee(x.t).n, x.e), pointee(x.t))
           [] op = "&" -> IF x.arr THEN Refused
                          ELSE Lowered(AddrOf(x.e), makePointer(x.t))
           [] op = "!" -> IF ~IsInteger(x.t) /\ ~IsPointer(x.t) THEN Refused
                          ELSE Lowered(Un("!", x.e), integerType(1, FALSE))
           [] op \in {"-", "~"} -> IF ~IsInteger(x.t) THEN Refused
                                   ELSE SignChanged(op, x, promoteInteger(x.t))
lowerUnary(e) ==
    UnaryOf(e.op, IF e.op = "&" THEN lowerLvalue(e.a) ELSE lowerValue(e.a))

\* An array object is sliced; an address is offset and dereferenced.
ElementOf(base, offset, t) ==
    IF base.arr /\ ~base.byAddress
    THEN Lowered(Slice(base.e, offset, t.n), t)
    ELSE Lowered(Deref(t.n, pointerOperator("+", base.e, offset)), t)
IndexAs(base, i, t) ==
    ElementOf(base, scaledIndex(preserveUnsigned(i.e, i.t), t.n), t)
IndexOf(base, i) ==
    IF IsRefused(base) \/ IsRefused(i) THEN Refused
    ELSE IF ~IsInteger(i.t) \/ (~base.arr /\ ~IsPointer(base.t)) THEN Refused
    ELSE IndexAs(base, i, IF base.arr THEN base.t ELSE pointee(base.t))
lowerIndex(e) == IndexOf(lowerExpr(e.a), lowerValue(e.i))

PointerPlus(op, p, i) ==
    IF ~IsInteger(i.t) THEN Refused
    ELSE Lowered(pointerOperator(op, p.e,
                     scaledIndex(preserveUnsigned(i.e, i.t), pointee(p.t).n)), p.t)
PointersApart(l, r) ==
    IF pointee(l.t) # pointee(r.t) THEN Refused
    ELSE Lowered(pointerOperator("/", pointerOperator("-", l.e, r.e), Lit(pointee(l.t).n)),
                 integerType(8, TRUE))
lowerPointerBinary(op, l, r) ==
    IF op = "-" /\ IsPointer(l.t) /\ IsPointer(r.t) THEN PointersApart(l, r)
    ELSE IF op = "+" \/ (op = "-" /\ IsPointer(l.t) /\ IsInteger(r.t))
    THEN PointerPlus(op, IF IsPointer(l.t) THEN l ELSE r, IF IsPointer(l.t) THEN r ELSE l)
    ELSE IF op \in Comparisons \cup Logical
    THEN Lowered(Bin(op, l.e, r.e), integerType(1, FALSE))
    ELSE Refused

\* a op b in the type t, whose value is unsigned again when t is.
TypedOperation(op, a, b, t) == Lowered(preserveUnsigned(cIntegerOperator(t, op, a, b), t), t)
lowerShift(op, l, r, a, b) ==
    IF constantShiftRefused(r.e, promoteInteger(r.t), promoteInteger(l.t).n) THEN Refused
    ELSE TypedOperation(op, a, b, promoteInteger(l.t))
lowerIntegerBinary(op, l, r, a, b, t) ==
    IF op \in {"<<", ">>"} THEN lowerShift(op, l, r, a, b)
    ELSE IF op \in Logical THEN Lowered(Bin(op, a, b), integerType(1, FALSE))
    ELSE IF op \in Comparisons
    THEN Lowered(cIntegerOperator(t, op, a, b), integerType(1, FALSE))
    ELSE TypedOperation(op, a, b, t)
BinaryOf(op, l, r) ==
    IF IsRefused(l) \/ IsRefused(r) THEN Refused
    ELSE IF IsPointer(l.t) \/ IsPointer(r.t) THEN lowerPointerBinary(op, l, r)
    ELSE IF ~IsInteger(l.t) \/ ~IsInteger(r.t) THEN Refused
    ELSE lowerIntegerBinary(op, l, r, preserveUnsigned(l.e, l.t), preserveUnsigned(r.e, r.t),
                            usualIntegerType(l.t, r.t))
lowerBinary(e) == BinaryOf(e.op, lowerValue(e.a), lowerValue(e.b))

ConditionalOf(c, a, b) ==
    IF IsRefused(c) \/ IsRefused(a) \/ IsRefused(b) THEN Refused
    ELSE IF a.t # b.t THEN Refused
    ELSE Lowered(Tern(c.e, a.e, b.e), a.t)
lowerConditional(e) == ConditionalOf(lowerExpr(e.c), lowerValue(e.a), lowerValue(e.b))

\* A cast to a pointer keeps the core value.
CastTo(t, x) ==
    IF IsRefused(x) \/ t.k = "struct" THEN Refused
    ELSE IF ~IsInteger(x.t) /\ ~(IsPointer(x.t) /\ (IsPointer(t) \/ t = x.t)) THEN Refused
    ELSE IF IsPointer(t) \/ t = x.t THEN Lowered(x.e, t)
    ELSE Lowered(IntCast(t.n, t.signed, preserveUnsigned(x.e, x.t)), t)
lowerCast(e) == CastTo(e.t, lowerValue(e.a))

\* The member's address is the pointer's plus the offset, if that is not 0.
MemberAt(e, address) ==
    IF e.isArray
    THEN [k |-> "lowered", e |-> address, t |-> e.t, arr |-> TRUE, byAddress |-> TRUE]
    ELSE Lowered(Deref(e.t.n, address), e.t)
MemberOf(e, base) ==
    IF IsRefused(base) THEN base
    ELSE IF ~IsPointer(base.t) THEN Refused
    ELSE IF pointee(base.t).k # "struct" THEN Refused
    ELSE MemberAt(e, IF e.offset = 0 THEN base.e
                     ELSE pointerOperator("+", base.e, Lit(e.offset)))
lowerMember(e) == MemberOf(e, lowerValue(e.a))

Template(t) == IF IsPointer(t) THEN "addr" ELSE IF t.signed THEN "i" ELSE "u"
lowerExpr(e) ==
    CASE e.k = "var"    -> Lowered(Var(e.t.n, Template(e.t), e.b), e.t)
      [] e.k = "array"  -> [k |-> "lowered", e |-> Obj(e.b, e.count * e.t.n), t |-> e.t,
                            arr |-> TRUE, byAddress |-> FALSE]
      [] e.k = "lit"    -> lowerLiteral(e)
      [] e.k = "char"   -> Lowered(CharLit(e.v), integerType(1, FALSE))
      [] e.k = "un"     -> lowerUnary(e)
      [] e.k = "bin"    -> lowerBinary(e)
      [] e.k = "cond"   -> lowerConditional(e)
      [] e.k = "cast"   -> lowerCast(e)
      [] e.k = "sizeof" -> Lowered(Lit(e.size), integerType(PointerLength, FALSE))
      [] e.k = "index"  -> lowerIndex(e)
      [] e.k = "arrow"  -> lowerMember(e)

-----------------------------------------------------------------------------
(* Assignment of a C expression to an object x of type t that holds b.     *)

Assignment(op, t, b, e) == [op |-> op, t |-> t, b |-> b, e |-> e]

IsShift(op) == op \in {"<<", ">>"}
\* The operation's type, and its refusal when the count is a bad constant.
CompoundAs(s, x, t) ==
    IF IsShift(s.op) /\ constantShiftRefused(x.e, promoteInteger(x.t), t.n) THEN Refused
    ELSE [k |-> "compound", e |-> preserveUnsigned(x.e, x.t), t |-> t]
AssignedTo(s, x) ==
    IF IsRefused(x) THEN x
    ELSE IF s.op = "="
    THEN IF s.t = x.t \/ (IsInteger(s.t) /\ IsInteger(x.t)) \/ (IsPointer(s.t) /\ IsInteger(x.t))
         THEN [k |-> "plain", e |-> preserveUnsigned(x.e, x.t)] ELSE Refused
    ELSE IF ~IsInteger(s.t) \/ ~IsInteger(x.t) THEN Refused
    ELSE CompoundAs(s, x, IF IsShift(s.op) THEN promoteInteger(s.t)
                          ELSE usualIntegerType(s.t, x.t))
lowerAssignment(s) == AssignedTo(s, lowerValue(s.e))

\* x %Nd op= value: the operation on x, as unsigned when the target is, in N bytes.
CompoundOf(s, lowered, x, h) ==
    IF IsRefused(h) THEN h
    ELSE IF s.op \in {"/", "%"} /\ lowered.e = Lit(0) THEN Refused
    ELSE [k |-> "bin", op |-> s.op, mark |-> IF lowered.t.signed THEN "d" ELSE "u",
          a |-> IF s.t.signed THEN x
                ELSE [k |-> "uns", a |-> x, r |-> unsignedIntegerResult(s.t.n)],
          b |-> h, offset |-> FALSE,
          r |-> IF s.t.signed THEN signedIntegerResult(lowered.t.n)
                ELSE unsignedIntegerResult(lowered.t.n)]
AnalyzeCompound(s, lowered) ==
    CompoundOf(s, lowered, Analyze(Var(s.t.n, Template(s.t), s.b), TRUE),
               Analyze(lowered.e, TRUE))

CompileLowered(s, x) ==
    IF IsRefused(x) THEN x
    ELSE IF x.k = "plain" THEN AnalyzeAssigned(x.e, s.t.n, Template(s.t), TRUE)
    ELSE AnalyzeCompound(s, x)
Compile(s) == CompileLowered(s, lowerAssignment(s))

-----------------------------------------------------------------------------
(* The value C gives an expression: a number v of type t.  o is "value",   *)
(* "undefined" (a zero divisor, a negative shift count, an index outside   *)
(* its array) or "free" (other undefined behaviour of C).                  *)

CStd(v, t) == [o |-> "value", v |-> v, t |-> t]
NoC(o) == [o |-> o, v |-> 0, t |-> integerType(4, TRUE)]
CInt == integerType(4, TRUE)
Convert(v, t) == ReadAs(Wrap(v, t.n), t.n, IsInteger(t) /\ ~t.signed)
\* The first type of C's list for the constant that holds its value.
CLiteralType(e) ==
    LET types == IF e.u THEN <<integerType(4, FALSE), integerType(8, FALSE)>>
                 ELSE IF e.dec THEN <<CInt, integerType(8, TRUE)>>
                 ELSE <<CInt, integerType(4, FALSE), integerType(8, TRUE), integerType(8, FALSE)>>
        fit(i) == Convert(e.v, types[i]) = e.v /\ (e.l => types[i].n = 8)
    IN  types[CHOOSE i \in DOMAIN types : fit(i) /\ \A j \in 1..(i - 1) : ~fit(j)]
\* C's integer promotion and usual arithmetic conversions.
CPromoted(t) == IF t.n < 4 THEN CInt ELSE t
CPromotedCommon(p, q) ==
    IF p = q THEN p
    ELSE IF p.n # q.n THEN IF p.n > q.n THEN p ELSE q
    ELSE integerType(p.n, FALSE)
CCommon(s, t) == CPromotedCommon(CPromoted(s), CPromoted(t))

CExact(v, t) ==
    IF Convert(v, t) = v \/ ~t.signed THEN CStd(Convert(v, t), t) ELSE NoC("free")
COperation(op, a, y, b, t, width) ==
    IF op \in {"/", "%"} /\ b = 0 THEN NoC("undefined")
    ELSE IF IsShift(op) /\ y < 0 THEN NoC("undefined")
    ELSE IF IsShift(op) /\ (y >= width \/ (op = "<<" /\ a < 0)) THEN NoC("free")
    ELSE CASE op = "<<" -> IF t.signed THEN CExact(a * 2 ^ y, t)
                           ELSE CStd(ShlBits(Wrap(a, t.n), y, t.n), t)
           [] op = "*"  -> IF t.signed THEN CExact(a * b, t)
                           ELSE CStd(MulBits(Wrap(a, t.n), Wrap(b, t.n), t.n), t)
           [] op = ">>" -> CStd(a \div 2 ^ y, t)
           [] op \in {"+", "-", "/", "%"} -> CExact(StdOperation(op, a, b, t.n), t)
           [] op \in {"&", "|", "^"} -> CStd(Convert(StdOperation(op, a, b, t.n), t), t)
CArithmetic(op, x, y, t, width) == COperation(op, Convert(x, t), y, Convert(y, t), t, width)
\* A shift has the left operand's promoted type, the others the common type.
CShift(op, x, y, t) == CArithmetic(op, x, y, t, BitCount(t.n))
CTypedBinary(op, x, y, s, t) ==
    IF IsShift(op) THEN CShift(op, x, y, CPromoted(s))
    ELSE CArithmetic(op, x, y, CCommon(s, t), 0)

CTruth(p) == CStd(IF p THEN 1 ELSE 0, CInt)
\* Memory reached at an address: the bits of the address itself.
CLoad(address, t) == CStd(Convert(Memory(Wrap(address, PointerLength), t.n), t), t)

RECURSIVE CMeaning(_)
CComparison(op, x, y, t) == CTruth(Compare(op, Convert(x.v, t), Convert(y.v, t)))
CScaled(op, p, i, size) ==
    CStd(Convert(IF op = "+" THEN p.v + i.v * size ELSE p.v - i.v * size, p.t), p.t)
CPointerBinary(op, x, y) ==
    IF op \in Comparisons THEN CTruth(Compare(op, x.v, y.v))
    ELSE IF IsPointer(x.t) /\ IsPointer(y.t)
    THEN CStd(TruncDiv(x.v - y.v, pointee(x.t).n), integerType(8, TRUE))
    ELSE IF IsPointer(x.t) THEN CScaled(op, x, y, pointee(x.t).n)
    ELSE CScaled(op, y, x, pointee(y.t).n)
CBinary(op, x, y) ==
    IF x.o # "value" THEN x
    ELSE IF op \in Logical /\ (x.v # 0) = (op = "||") THEN CTruth(x.v # 0)
    ELSE IF y.o # "value" THEN y
    ELSE IF op \in Logical THEN CTruth(y.v # 0)
    ELSE IF IsPointer(x.t) \/ IsPointer(y.t) THEN CPointerBinary(op, x, y)
    ELSE IF op \in Comparisons THEN CComparison(op, x, y, CCommon(x.t, y.t))
    ELSE CTypedBinary(op, x.v, y.v, x.t, y.t)
CUnaryOf(op, a, t) ==
    IF a.o # "value" THEN a
    ELSE IF op = "!" THEN CTruth(a.v = 0)
    ELSE IF op = "~" THEN CStd(Convert(-a.v - 1, t), t)
    ELSE CArithmetic("-", 0, a.v, t, 0)
CConverted(a, t) == IF a.o # "value" THEN a ELSE CStd(Convert(a.v, t), t)
CConditionalOf(c, a, b) ==
    IF c.o # "value" THEN c
    ELSE CConverted(IF c.v # 0 THEN a ELSE b,
                    IF IsPointer(a.t) THEN a.t ELSE CCommon(a.t, b.t))
CMemberOf(p, e) == IF p.o # "value" THEN p ELSE CStd(p.v + e.offset, makePointer(e.t))
CElementOf(e, base, i) ==
    IF e.a.k = "array" /\ i.o = "value" /\ i.v \notin 0..(e.a.count - 1)
    THEN NoC("undefined") ELSE CBinary("+", base, i)
CReached(e, a) ==
    IF a.o # "value" \/ (e.k = "arrow" /\ e.isArray) THEN a ELSE CLoad(a.v, pointee(a.t))

\* The address of an lvalue, or the first address of an array.
CAddress(e) ==
    CASE e.k = "array" -> CStd(e.b, makePointer(e.t))
      [] e.k = "un"    -> CMeaning(e.a)
      [] e.k = "index" -> CElementOf(e, CMeaning(e.a), CMeaning(e.i))
      [] e.k = "arrow" -> CMemberOf(CMeaning(e.a), e)

CMeaning(e) ==
    CASE e.k = "var"    -> CStd(Convert(e.b, e.t), e.t)
      [] e.k = "lit"    -> CStd(e.v, CLiteralType(e))
      [] e.k = "char"   -> CStd(e.v, CInt)
      [] e.k = "sizeof" -> CStd(e.size, integerType(8, FALSE))
      [] e.k = "array"  -> CAddress(e)
      [] e.k \in {"index", "arrow"} \/ (e.k = "un" /\ e.op = "*") -> CReached(e, CAddress(e))
      [] e.k = "un" /\ e.op = "&" -> CAddress(e.a)
      [] e.k = "un" /\ e.op \notin {"*", "&"} ->
             CUnaryOf(e.op, CMeaning(e.a), CPromoted(CMeaning(e.a).t))
      [] e.k = "bin"    -> CBinary(e.op, CMeaning(e.a), CMeaning(e.b))
      [] e.k = "cond"   -> CConditionalOf(CMeaning(e.c), CMeaning(e.a), CMeaning(e.b))
      [] e.k = "cast"   -> CConverted(CMeaning(e.a), e.t)

\* The value left in the object the assignment names.
CStoredBy(s, y) ==
    IF y.o # "value" \/ s.op = "=" THEN y
    ELSE CTypedBinary(s.op, Convert(s.b, s.t), y.v, s.t, y.t)
CStored(s) == CStoredBy(s, CMeaning(s.e))

-----------------------------------------------------------------------------
(* The compiler and the program.                                           *)

CONSTANT Assignments   \* the C assignments compiled and executed

CInit ==
    /\ source \in Assignments
    /\ target = [n |-> source.t.n, t |-> Template(source.t)]
    /\ stage = "source"
    /\ hir = Refused
    /\ outcome = Nothing

CDiagnose ==
    /\ stage = "source"
    /\ IsRefused(Compile(source))
    /\ stage' = "diagnosed"
    /\ UNCHANGED <<source, target, hir, outcome>>

CLower ==
    /\ stage = "source"
    /\ ~IsRefused(Compile(source))
    /\ hir' = Compile(source)
    /\ stage' = "hir"
    /\ UNCHANGED <<source, target, outcome>>

CNext == CDiagnose \/ CLower \/ Execute
CSpec == CInit /\ [][CNext]_vars

\* The bits stored are those of C's value, wherever C defines one: promotions,
\* the usual conversions, mixed signedness and scaled addresses survive the
\* lowering to core operators whose own rules differ.
CValue ==
    stage = "done" =>
        LET s == CStored(source)
        IN  s.o = "value" => outcome = Value(Wrap(s.v, target.n))

\* An expression whose value C defines is accepted.
CAccepted == stage = "diagnosed" => CStored(source).o # "value"

\* A zero divisor, a negative shift count or an index outside its array is
\* reported, during compilation or by the checked code.
CReports ==
    stage = "done" /\ Checked /\ CStored(source).o = "undefined" => outcome = Outcome("trap")
=============================================================================
