------------------------- MODULE IntegerExpressions -------------------------
(***************************************************************************)
(* Integer, Boolean and address expressions of the core language: what the *)
(* semantic analyzer makes of an expression (SemaExpressions.cpp,          *)
(* SemaOperators.cpp) and the value the emitted code computes              *)
(* (LLVMCodegenExpressions.cpp).                                           *)
(*                                                                         *)
(* A View is at most eight bytes; a byte has BitsPerByte bits, so that     *)
(* every boundary of every width is within TLC's reach.  Values are bit    *)
(* patterns (naturals) and are read as signed or unsigned only where the   *)
(* code does so.  A variable node carries the bits its storage holds; a    *)
(* cell of memory holds the low bits of its own address, so that a load    *)
(* tells which address it was made from.                                   *)
(***************************************************************************)
EXTENDS Integers, Sequences, FiniteSets, Bitwise

CONSTANTS BitsPerByte, Checked

ASSUME BitsAssumption == BitsPerByte \in 1..2 /\ Checked \in BOOLEAN

Lengths == {1, 2, 4, 8}
PointerLength == 8

BitCount(n) == BitsPerByte * n
Size(n) == 2 ^ BitCount(n)
Wrap(v, n) == v % Size(n)
SignedOf(b, n) == IF b >= Size(n) \div 2 THEN b - Size(n) ELSE b
\* The bits of an n-byte pattern in an m-byte register: truncated, or extended
\* with zeros or with the sign.
Extend(b, n, m, zero) == Wrap(IF zero THEN b ELSE SignedOf(b, n), m)
ReadAs(b, n, zero) == IF zero THEN b ELSE SignedOf(b, n)

\* C's and LLVM's division: towards zero, the remainder has the dividend's sign.
Abs(x) == IF x < 0 THEN -x ELSE x
TruncDiv(x, y) == LET q == Abs(x) \div Abs(y)
                  IN  IF (x < 0) = (y < 0) THEN q ELSE -q
TruncRem(x, y) == x - y * TruncDiv(x, y)
\* Products of signed representatives stay within TLC's integers.
MulBits(a, b, n) == Wrap(SignedOf(a, n) * SignedOf(b, n), n)
ShlBits(a, b, n) == (a % 2 ^ (BitCount(n) - b)) * 2 ^ b
RECURSIVE PowBits(_, _, _)
PowBits(a, e, n) == IF e = 0 THEN Wrap(1, n) ELSE MulBits(PowBits(a, e - 1, n), a, n)

Comparisons == {"==", "!=", "<", "<=", ">", ">="}
Logical == {"&&", "||"}
Arithmetic == {"+", "-", "*", "/", "%", "**", "<<", ">>", "&", "|", "^"}

Compare(op, x, y) ==
    CASE op = "==" -> x = y [] op = "!=" -> x # y
      [] op = "<"  -> x < y [] op = "<=" -> x <= y
      [] op = ">"  -> x > y [] op = ">=" -> x >= y

-----------------------------------------------------------------------------
(* Syntax.  Tmpl is the template a variable carries, "" for none.  An       *)
(* operator written %Nd or %Nu has w = N and mark "d" or "u"; %d and %u     *)
(* without N have w = 0; a plain operator has mark "".                      *)

Var(n, tmpl, b) == [k |-> "var", n |-> n, tmpl |-> tmpl, b |-> b]
Lit(v) == [k |-> "lit", v |-> v]
CharLit(v) == [k |-> "char", v |-> v]
Un(op, a) == [k |-> "un", op |-> op, a |-> a]
Bin(op, a, b) == [k |-> "bin", op |-> op, mark |-> "", w |-> 0, a |-> a, b |-> b]
TypedBin(op, w, mark, a, b) ==
    [k |-> "bin", op |-> op, mark |-> mark, w |-> w, a |-> a, b |-> b]
Tern(c, a, b) == [k |-> "tern", c |-> c, a |-> a, b |-> b]
\* n = 0: the postfix `?` of the core language.
Uns(n, a) == [k |-> "uns", n |-> n, a |-> a]
IntCast(n, signed, a) == [k |-> "cast", n |-> n, signed |-> signed, a |-> a]
Deref(n, a) == [k |-> "deref", n |-> n, a |-> a]
\* The object of `size` bytes that lies at address b.
Obj(b, size) == [k |-> "obj", b |-> b, size |-> size]
AddrOf(a) == [k |-> "addr", a |-> a]
\* base[start : + len]
Slice(base, start, len) == [k |-> "slice", base |-> base, start |-> start, len |-> len]

-----------------------------------------------------------------------------
(* Views: category, integer interpretation, static length, template.       *)

View(cat, int, n, tmpl) == [k |-> "view", cat |-> cat, int |-> int, n |-> n, tmpl |-> tmpl]
signedIntegerResult(n) == View("untemplated", "signed", n, "")
unsignedIntegerResult(n) == View("untemplated", "unsigned", n, "")
booleanResult == View("bool", "none", 1, "bool")
fixedResult(tmpl, n) ==
    CASE tmpl = "i"    -> View("signed", "signed", n, tmpl)
      [] tmpl = "u"    -> View("unsigned", "unsigned", n, tmpl)
      [] tmpl = "addr" -> View("addr", "none", n, tmpl)
      [] tmpl = ""     -> signedIntegerResult(n)

isIntegerNumeric(r) == r.cat \in {"signed", "unsigned", "untemplated"}
isIntegerExpression(r) == isIntegerNumeric(r) \/ r.cat \in {"bool", "addr"}
isUnsignedExpression(r) == r.cat = "unsigned" \/ r.int = "unsigned"
sourceUsesZeroExtension(r) == isUnsignedExpression(r) \/ r.cat = "bool"
\* A template is its letter and its width: i32 and i64 differ.
SameTemplate(r, q) == r.tmpl = q.tmpl /\ (r.tmpl \in {"i", "u"} => r.n = q.n)

Refused == [k |-> "refused"]
IsRefused(h) == h.k = "refused"

\* A nonnegative literal takes the smallest signed width that holds it.
inferIntegerLiteralByteLength(v) ==
    CHOOSE n \in Lengths :
        /\ v < Size(n) \div 2 \/ n = 8
        /\ \A m \in Lengths : m < n => v >= Size(m) \div 2

literalView(v) ==
    IF v >= Size(8) \div 2 THEN unsignedIntegerResult(8)
    ELSE signedIntegerResult(inferIntegerLiteralByteLength(v))

HirLit(v, r) == [k |-> "lit", v |-> v, r |-> r]
BoolTest(h) == [k |-> "test", a |-> h, r |-> booleanResult]

-----------------------------------------------------------------------------
(* Constant folding.  -1 stands for "no value".                            *)

foldIntegerOperation(op, l, r, n) ==
    LET a == Wrap(l, n)
        b == Wrap(r, n)
    IN  CASE op = "+" -> Wrap(a + b, n)
          [] op = "-" -> Wrap(a - b, n)
          [] op = "*" -> MulBits(a, b, n)
          [] op = "/" -> IF b = 0 THEN -1 ELSE a \div b
          [] op = "%" -> IF b = 0 THEN -1 ELSE a % b
          [] op = "**" -> PowBits(a, b, n)
          [] op = "<<" -> IF b >= BitCount(n) THEN -1 ELSE ShlBits(a, b, n)
          [] op = ">>" -> IF b >= BitCount(n) THEN -1 ELSE a \div 2 ^ b
          [] op = "&" -> a & b
          [] op = "|" -> a | b
          [] op = "^" -> a ^^ b

\* The comparison of two literals: 64-bit, signed unless one of them is unsigned.
foldComparison(op, l, r) ==
    LET zero == isUnsignedExpression(l.r) \/ isUnsignedExpression(r.r)
    IN  IF op \in {"==", "!="} THEN Compare(op, l.v, r.v)
        ELSE Compare(op, ReadAs(l.v, 8, zero), ReadAs(r.v, 8, zero))

\* `(&x)? + n` and `(&x)? - n` are address offsets.
isAddressOffset(op, l, r) ==
    /\ op \in {"+", "-"}
    /\ isIntegerNumeric(r.r)
    /\ l.k = "uns" /\ l.a.k = "addr"

\* The View of a binary operation, from the first candidate that applies, or
\* Refused: a typed operator, two untemplated integers, a standard integer
\* template with itself or with an untemplated integer, two bools, an address.

\* Mutant: the N of %Nd is not used.
typedIntegerComputationLength_Operands(e, l, r) == IF l.r.n >= r.r.n THEN l.r.n ELSE r.r.n
typedIntegerComputationLength(e, l, r) ==
    IF e.w # 0 THEN e.w ELSE IF l.r.n >= r.r.n THEN l.r.n ELSE r.r.n

typedResult(e, l, r, compat) ==
    LET n == typedIntegerComputationLength(e, l, r)
        ints == isIntegerNumeric(l.r) /\ isIntegerNumeric(r.r)
        pointer == /\ compat
                   /\ \/ l.r.cat = "addr" /\ isIntegerNumeric(r.r)
                      \/ r.r.cat = "addr" /\ isIntegerNumeric(l.r)
    IN  IF ~(ints \/ pointer) THEN Refused
        ELSE IF e.op \in Comparisons THEN booleanResult
        ELSE IF e.mark = "u" THEN unsignedIntegerResult(n)
        ELSE signedIntegerResult(n)

untypedResult(op, l, r) ==
    LET std(x) == x.tmpl \in {"i", "u"}
        longest == IF l.n >= r.n THEN l.n ELSE r.n
        selected == IF std(l) THEN l ELSE r
        other == IF std(l) THEN r ELSE l
        view(v) == IF op \in Comparisons THEN booleanResult ELSE v
    IN  IF l.tmpl = "" /\ r.tmpl = "" /\ isIntegerNumeric(l) /\ isIntegerNumeric(r)
        THEN view(IF isUnsignedExpression(l) \/ isUnsignedExpression(r)
                  THEN unsignedIntegerResult(longest) ELSE signedIntegerResult(longest))
        ELSE IF std(l) \/ std(r)
        THEN IF other.tmpl = "" \/ SameTemplate(other, selected)
             THEN view(fixedResult(selected.tmpl, selected.n)) ELSE Refused
        ELSE IF l.cat = "bool" \/ r.cat = "bool"
        THEN IF l.cat = r.cat /\ op \in {"==", "!="} THEN view(booleanResult) ELSE Refused
        ELSE \* an address with an address or with an untemplated integer
             IF op \in {"==", "!="} THEN view(booleanResult) ELSE Refused

\* && and || test their operands.
logicalNode(op, l, r) ==
    [k |-> "logic", op |-> op, a |-> BoolTest(l), b |-> BoolTest(r), r |-> booleanResult]

\* An operation on two literals is a literal of the bits it computes.
foldLiterals(op, l, r, v) ==
    LET folded == foldIntegerOperation(op, l.v, r.v, v.n)
    IN  IF op \in Comparisons
        THEN HirLit(IF foldComparison(op, l, r) THEN 1 ELSE 0, booleanResult)
        ELSE IF folded = -1 THEN Refused ELSE HirLit(folded, v)

RECURSIVE Analyze(_, _)
AnalyzeBinary(e, compat) ==
    LET l == Analyze(e.a, compat)
        r == Analyze(e.b, compat)
        v == IF e.mark = "" THEN untypedResult(e.op, l.r, r.r) ELSE typedResult(e, l, r, compat)
        offset == isAddressOffset(e.op, l, r)
        node(x, y) == [k |-> "bin", op |-> e.op, mark |-> e.mark, a |-> x, b |-> y, r |-> v,
                       offset |-> offset]
        bools == e.mark = "" /\ l.r.cat = "bool" /\ r.r.cat = "bool"
        negative == [k |-> "un", op |-> "-", a |-> r, r |-> signedIntegerResult(8)]
    IN  IF IsRefused(l) \/ IsRefused(r) THEN Refused
        ELSE IF e.op \in Logical THEN logicalNode(e.op, l, r)
        ELSE IF e.op \in {"/", "%"} /\ e.b = Lit(0) THEN Refused
        ELSE IF IsRefused(v) THEN Refused
        ELSE IF bools THEN node(BoolTest(l), BoolTest(r))
        ELSE IF l.k = "lit" /\ r.k = "lit" THEN foldLiterals(e.op, l, r, v)
        ELSE node(l, IF offset /\ e.op = "-" THEN negative ELSE r)

\* Unary minus and complement keep the operand's length and template; a negated
\* literal is signed.
AnalyzeUnary(e, compat) ==
    LET a == Analyze(e.a, compat)
        zero == isUnsignedExpression(a.r) /\ ~(e.op = "-" /\ e.a.k = "lit")
    IN  IF e.op \notin {"!", "~", "-"} \/ IsRefused(a) THEN Refused
        ELSE IF e.op = "!" THEN [k |-> "un", op |-> "!", a |-> BoolTest(a), r |-> booleanResult]
        ELSE IF ~isIntegerNumeric(a.r) THEN Refused
        ELSE [k |-> "un", op |-> e.op, a |-> a,
              r |-> IF a.r.tmpl # "" THEN fixedResult(a.r.tmpl, a.r.n)
                    ELSE IF zero THEN unsignedIntegerResult(a.r.n)
                    ELSE signedIntegerResult(a.r.n)]

AnalyzeTernary(e, compat) ==
    LET c == Analyze(e.c, compat)
        a == Analyze(e.a, compat)
        b == Analyze(e.b, compat)
    IN  IF IsRefused(c) \/ IsRefused(a) \/ IsRefused(b) THEN Refused
        ELSE IF a.r # b.r THEN Refused
        ELSE [k |-> "tern", c |-> BoolTest(c), a |-> a, b |-> b, r |-> a.r]

\* A compatibility marker (n # 0) on a literal fixes its width, leaves a bool
\* alone and otherwise changes the width; postfix `?` keeps the bytes.
AnalyzeUnsigned(e, compat) ==
    LET a == Analyze(e.a, compat)
    IN  IF e.n # 0 /\ e.a.k = "lit"
        THEN IF e.a.v >= Size(e.n) THEN Refused
             ELSE [k |-> "uns", a |-> HirLit(e.a.v, signedIntegerResult(e.n)),
                   r |-> unsignedIntegerResult(e.n)]
        ELSE IF IsRefused(a) THEN Refused
        ELSE IF compat /\ e.n # 0 /\ a.r.cat = "bool" THEN a
        ELSE IF e.n # 0 /\ a.r.n # e.n
        THEN [k |-> "cast", signed |-> FALSE, a |-> a, r |-> unsignedIntegerResult(e.n)]
        ELSE [k |-> "uns", a |-> a, r |-> unsignedIntegerResult(a.r.n)]

AnalyzeCast(e, compat) ==
    LET a == Analyze(e.a, compat)
    IN  IF e.n \notin Lengths \/ IsRefused(a) THEN Refused
        ELSE IF ~isIntegerNumeric(a.r) THEN Refused
        ELSE [k |-> "cast", signed |-> e.signed, a |-> a,
              r |-> fixedResult(IF e.signed THEN "i" ELSE "u", e.n)]

\* base[start : + len] is a load through an offset of base's address that
\* carries the lengths the checked code compares.
lowerSlice(e, compat) ==
    LET start == Analyze(e.start, compat)
    IN  IF e.len = 0 \/ IsRefused(start) THEN Refused
        ELSE IF ~isIntegerExpression(start.r) THEN Refused
        ELSE [k |-> "deref", n |-> e.len, r |-> fixedResult("", e.len),
              a |-> [k |-> "offset", a |-> [k |-> "addr", b |-> e.base.b, r |-> fixedResult("addr", 8)],
                     b |-> start, size |-> e.base.size, len |-> e.len,
                     r |-> fixedResult("addr", 8)]]

AnalyzeDeref(e, compat) ==
    LET a == Analyze(e.a, compat)
    IN  IF IsRefused(a) THEN Refused
        ELSE IF ~isIntegerExpression(a.r) \/ (a.k = "lit" /\ a.v = 0) THEN Refused
        ELSE [k |-> "deref", n |-> e.n, a |-> a, r |-> fixedResult("", e.n)]

\* The address of an object, of a slice or of what a dereference reads.
AnalyzeAddressOf(e, compat) ==
    CASE e.a.k = "obj"   -> [k |-> "addr", b |-> e.a.b, r |-> fixedResult("addr", 8)]
      [] e.a.k = "slice" -> LET h == lowerSlice(e.a, compat)
                            IN  IF IsRefused(h) THEN h ELSE h.a
      [] e.a.k = "deref" -> Analyze(e.a.a, compat)

Analyze(e, compat) ==
    CASE e.k = "lit"   -> HirLit(e.v, literalView(e.v))
      [] e.k = "char"  -> [k |-> "char", v |-> e.v, r |-> unsignedIntegerResult(1)]
      [] e.k = "var"   -> [k |-> "var", b |-> e.b, n |-> e.n, r |-> fixedResult(e.tmpl, e.n)]
      [] e.k = "bin"   -> AnalyzeBinary(e, compat)
      [] e.k = "un"    -> AnalyzeUnary(e, compat)
      [] e.k = "tern"  -> AnalyzeTernary(e, compat)
      [] e.k = "uns"   -> AnalyzeUnsigned(e, compat)
      [] e.k = "cast"  -> AnalyzeCast(e, compat)
      [] e.k = "deref" -> AnalyzeDeref(e, compat)
      [] e.k = "slice" -> lowerSlice(e, compat)
      [] e.k = "addr"  -> AnalyzeAddressOf(e, compat)

\* Assigned to a destination of n bytes with template tmpl: a literal must fit,
\* an integer template refuses an address, and a value of another length is cast
\* to the destination's.
AnalyzeAssigned(e, n, tmpl, compat) ==
    LET h == Analyze(e, compat)
    IN  IF IsRefused(h) THEN h
        ELSE IF e.k = "lit" /\ e.v >= (IF tmpl = "u" THEN Size(n) ELSE Size(n) \div 2) THEN Refused
        ELSE IF tmpl \in {"i", "u"} /\ h.r.cat = "addr" THEN Refused
        ELSE IF h.r.n = n THEN h
        ELSE [k |-> "cast", signed |-> TRUE, a |-> h, r |-> signedIntegerResult(n)]

-----------------------------------------------------------------------------
(* Emitted code.  An outcome is a value of the bits asked for, a runtime    *)
(* error of the checked code, undefined behaviour, or a module the verifier *)
(* rejects.                                                                 *)

Value(b) == [o |-> "value", b |-> b]
Outcome(o) == [o |-> o, b |-> 0]
IsValue(x) == x.o = "value"
\* The first of two evaluated operands that has no value.
Failed(x, y) == IF IsValue(x) THEN y ELSE x
Memory(address, n) == Wrap(address, n)

emitOperation(op, l, r, n, zero) ==
    LET x == SignedOf(l, n)
        y == SignedOf(r, n)
        min == -(Size(n) \div 2)
    IN  CASE op = "+" -> Value(Wrap(l + r, n))
          [] op = "-" -> Value(Wrap(l - r, n))
          [] op = "*" -> Value(MulBits(l, r, n))
          \* The exponent is compared as the operation reads it.
          [] op = "**" -> Value(PowBits(l, IF zero THEN r ELSE IF y > 0 THEN y ELSE 0, n))
          [] op = "/" -> IF r = 0 THEN Outcome("undefined")
                         ELSE IF zero THEN Value(l \div r)
                         ELSE IF x = min /\ y = -1 THEN Value(l)
                         ELSE Value(Wrap(TruncDiv(x, y), n))
          [] op = "%" -> IF r = 0 THEN Outcome("undefined")
                         ELSE IF zero THEN Value(l % r)
                         ELSE IF x = min /\ y = -1 THEN Value(0)
                         ELSE Value(Wrap(TruncRem(x, y), n))
          [] op = "<<" -> IF r >= BitCount(n) THEN Outcome("undefined")
                          ELSE Value(ShlBits(l, r, n))
          [] op = ">>" -> IF r >= BitCount(n) THEN Outcome("undefined")
                          ELSE IF zero THEN Value(l \div 2 ^ r)
                          ELSE Value(Wrap(x \div 2 ^ r, n))
          [] op = "&" -> Value(l & r)
          [] op = "|" -> Value(l | r)
          [] op = "^" -> Value(l ^^ r)
          [] op \in Comparisons ->
                 Value(IF Compare(op, ReadAs(l, n, zero), ReadAs(r, n, zero)) THEN 1 ELSE 0)

\* Mutant: the sign of the count is tested only for shifts to the left.
checkFails_RightShift(op, r, n, rightUnsigned) ==
    /\ Checked
    /\ \/ op \in {"/", "%"} /\ r = 0
       \/ op \in {"<<", "**"} /\ ~rightUnsigned /\ SignedOf(r, n) < 0
\* The checks of the checked code: a zero divisor, a negative shift count or
\* exponent.
checkFails(op, r, n, rightUnsigned) ==
    /\ Checked
    /\ \/ op \in {"/", "%"} /\ r = 0
       \/ op \in {"<<", ">>", "**"} /\ ~rightUnsigned /\ SignedOf(r, n) < 0

RECURSIVE EmitInteger(_, _, _)
\* Mutant: the condition is not normalized to 0 or 1.
emitConditionValue_Raw(h) == EmitInteger(h.a, h.a.r.n, sourceUsesZeroExtension(h.a.r))
\* A condition is its operand's own bytes compared with zero.
emitConditionValue(h) ==
    LET x == EmitInteger(h.a, h.a.r.n, sourceUsesZeroExtension(h.a.r))
    IN  IF IsValue(x) THEN Value(IF x.b # 0 THEN 1 ELSE 0) ELSE x

\* The right operand of && and || is evaluated only when the left one does not
\* decide.
emitLogical(h) ==
    LET l == emitConditionValue(h.a)
    IN  IF ~IsValue(l) THEN l
        ELSE IF l.b = (IF h.op = "&&" THEN 0 ELSE 1) THEN l
        ELSE emitConditionValue(h.b)

\* Mutant: only the left operand's mark counts.
unsignedOperation_Left(h) == h.mark = "u" \/ (h.mark = "" /\ isUnsignedExpression(h.a.r))
unsignedOperation(h) ==
    h.mark = "u" \/ (h.mark = "" /\ (isUnsignedExpression(h.a.r) \/ isUnsignedExpression(h.b.r)))

emitBinary(h, m) ==
    LET comparison == h.op \in Comparisons
        n == IF ~comparison THEN h.r.n ELSE IF h.a.r.n >= h.b.r.n THEN h.a.r.n ELSE h.b.r.n
        zero == unsignedOperation(h)
        l == EmitInteger(h.a, n, isUnsignedExpression(h.a.r))
        r == EmitInteger(h.b, n, isUnsignedExpression(h.b.r))
        x == emitOperation(h.op, l.b, r.b, n, zero)
    IN  IF ~IsValue(l) \/ ~IsValue(r) THEN Failed(l, r)
        ELSE IF checkFails(h.op, r.b, n, isUnsignedExpression(h.b.r)) THEN Outcome("trap")
        ELSE IF ~IsValue(x) \/ comparison THEN x
        ELSE Value(Extend(x.b, n, m, zero))

\* The branches have the ternary's length, the merge has the length asked for.
emitTernary(h, m, zero) ==
    LET c == emitConditionValue(h.c)
    IN  IF ~IsValue(c) THEN c
        ELSE IF m # h.r.n THEN Outcome("broken")
        ELSE EmitInteger(IF c.b = 1 THEN h.a ELSE h.b, h.r.n, zero)

\* base + offset; a View offset is read as signed and, in checked code, must
\* leave len bytes inside the base View.
emitViewOffset(h) ==
    LET o == EmitInteger(h.b, h.b.r.n, sourceUsesZeroExtension(h.b.r))
        i == SignedOf(o.b, h.b.r.n)
    IN  IF ~IsValue(o) THEN o
        ELSE IF Checked /\ ~(h.len <= h.size /\ i \in 0..(h.size - h.len)) THEN Outcome("trap")
        ELSE Value(Wrap(h.a.b + i, PointerLength))

emitPointerValue(h) ==
    IF h.k = "offset" THEN emitViewOffset(h)
    ELSE IF h.k = "bin" /\ h.offset
    THEN LET o == EmitInteger(h.b, PointerLength, sourceUsesZeroExtension(h.b.r))
         IN  IF IsValue(o) THEN Value(Wrap(h.a.a.b + o.b, PointerLength)) ELSE o
    ELSE EmitInteger(h, PointerLength, sourceUsesZeroExtension(h.r))

\* The bits of a variable; the address of one.
emitVariable(h, m, zero) == Value(Extend(h.b, h.n, m, zero))
emitAddressOf(h, m) == Value(Wrap(h.b, m))
\* The value x of n bytes as one of m.
Widened(x, n, m, zero) == IF IsValue(x) THEN Value(Extend(x.b, n, m, zero)) ELSE x
\* The bytes a pointer reaches.
emitDeref(p, h, m, zero) ==
    IF IsValue(p) THEN Value(Extend(Memory(p.b, h.n), h.n, m, zero)) ELSE p
emitUnary(x, h) ==
    IF ~IsValue(x) THEN x
    ELSE Value(Wrap(IF h.op = "-" THEN -x.b ELSE -x.b - 1, h.r.n))
emitNot(x) == IF IsValue(x) THEN Value(1 - x.b) ELSE x
\* To the cast's length with the operand's sign, to m bytes with the cast's.
emitCast(x, h, m) ==
    IF ~IsValue(x) THEN x
    ELSE Value(Extend(Extend(x.b, h.a.r.n, h.r.n, isUnsignedExpression(h.a.r)),
                      h.r.n, m, ~h.signed))
emitOffsetAddress(p, m) == IF IsValue(p) THEN Value(Wrap(p.b, m)) ELSE p

\* emitIntegerValue: the m-byte integer of h, extended with zeros when `zero`.
EmitInteger(h, m, zero) ==
    CASE h.k = "test"   -> emitConditionValue(h)
      [] h.k = "logic"  -> emitLogical(h)
      [] h.k = "lit"    -> Value(Extend(h.v, h.r.n, m, zero))
      [] h.k = "char"   -> Value(h.v)
      [] h.k = "var"    -> emitVariable(h, m, zero)
      [] h.k = "addr"   -> emitAddressOf(h, m)
      [] h.k = "uns"    -> Widened(EmitInteger(h.a, h.a.r.n, sourceUsesZeroExtension(h.a.r)),
                                   h.r.n, m, zero)
      [] h.k = "offset" -> emitOffsetAddress(emitViewOffset(h), m)
      [] h.k = "deref"  -> emitDeref(emitPointerValue(h.a), h, m, zero)
      [] h.k = "bin"    -> emitBinary(h, m)
      [] h.k = "un" /\ h.op = "!" -> emitNot(emitConditionValue(h.a))
      [] h.k = "un" /\ h.op # "!" ->
             Widened(emitUnary(EmitInteger(h.a, h.r.n, zero), h), h.r.n, m, zero)
      [] h.k = "tern"   -> emitTernary(h, m, zero)
      [] h.k = "cast"   ->
             emitCast(EmitInteger(h.a, h.a.r.n, isUnsignedExpression(h.a.r)), h, m)

-----------------------------------------------------------------------------
(* The Standard's value of an expression (Sections 8.3, 8.4, 8.8, 4 and    *)
(* 11): [o, b, n, u, t] with the bits b of n bytes, the interpretation and *)
(* the template; o is "value", "undefined" (a zero divisor, a negative     *)
(* shift count or exponent, an index outside its View) or "free" (the      *)
(* Standard sets no value).                                                *)

Std(b, n, u, t) == [o |-> "value", b |-> b, n |-> n, u |-> u, t |-> t]
NoStd(o) == [o |-> o, b |-> 0, n |-> 1, u |-> FALSE, t |-> ""]
StdBool(x) == Std(IF x THEN 1 ELSE 0, 1, TRUE, "bool")
Number(x) == ReadAs(x.b, x.n, x.u)

\* The operation on numbers, for operands of c bytes read as the operation does.
StdOperation(op, x, y, c) ==
    CASE op = "+" -> x + y
      [] op = "-" -> x - y
      [] op = "*" -> MulBits(Wrap(x, c), Wrap(y, c), c)
      [] op = "/" -> TruncDiv(x, y)
      [] op = "%" -> TruncRem(x, y)
      [] op = "**" -> PowBits(Wrap(x, c), y, c)
      [] op = "<<" -> ShlBits(Wrap(x, c), y, c)
      [] op = ">>" -> x \div 2 ^ y
      [] op = "&" -> Wrap(x, c) & Wrap(y, c)
      [] op = "|" -> Wrap(x, c) | Wrap(y, c)
      [] op = "^" -> Wrap(x, c) ^^ Wrap(y, c)

StdBinary(e, l, r) ==
    LET c == IF e.w # 0 THEN e.w
             ELSE IF e.mark = "" /\ l.t \in {"i", "u"} THEN l.n
             ELSE IF e.mark = "" /\ r.t \in {"i", "u"} THEN r.n
             ELSE IF l.n >= r.n THEN l.n ELSE r.n
        u == IF e.mark # "" THEN e.mark = "u"
             ELSE IF l.t \in {"i", "u"} THEN l.u
             ELSE IF r.t \in {"i", "u"} THEN r.u
             ELSE l.u \/ r.u
        x == ReadAs(Wrap(Number(l), c), c, u)
        y == ReadAs(Wrap(Number(r), c), c, u)
        t == IF e.mark # "" THEN "" ELSE IF l.t \in {"i", "u"} THEN l.t ELSE r.t
        counts == e.op \in {"<<", ">>", "**"}
        \* The portable core has same-template operations only.
        mixed(p, q) == p.t \in {"i", "u"} /\ (q.n > p.n \/ q.u # p.u)
    IN  IF l.o # "value" THEN l
        ELSE IF r.o # "value" THEN r
        ELSE IF e.mark = "" /\ (mixed(l, r) \/ mixed(r, l)) THEN NoStd("free")
        ELSE IF e.op \in Comparisons THEN StdBool(Compare(e.op, x, y))
        ELSE IF e.op \in {"/", "%"} /\ y = 0 THEN NoStd("undefined")
        ELSE IF counts /\ SignedOf(Wrap(Number(r), c), c) < 0 /\ ~r.u THEN NoStd("undefined")
        ELSE IF counts /\ (y < 0 \/ (e.op # "**" /\ y >= BitCount(c))) THEN NoStd("free")
        ELSE Std(Wrap(StdOperation(e.op, x, y, c), c), c, u, t)

RECURSIVE Standard(_)
Standard(e) ==
    CASE e.k = "lit"   -> Std(e.v, literalView(e.v).n, isUnsignedExpression(literalView(e.v)), "")
      [] e.k = "char"  -> Std(e.v, 1, TRUE, "")
      [] e.k = "var"   -> Std(e.b, e.n, e.tmpl = "u", e.tmpl)
      [] e.k = "bin" /\ e.op \in Logical ->
             LET l == Standard(e.a)
                 r == Standard(e.b)
             IN  IF l.o # "value" THEN l
                 ELSE IF (l.b # 0) = (e.op = "||") THEN StdBool(l.b # 0)
                 ELSE IF r.o # "value" THEN r ELSE StdBool(r.b # 0)
      [] e.k = "bin" /\ e.op \notin Logical -> StdBinary(e, Standard(e.a), Standard(e.b))
      [] e.k = "un"    ->
             LET a == Standard(e.a)
             IN  IF a.o # "value" THEN a
                 ELSE IF e.op = "!" THEN StdBool(a.b = 0)
                 ELSE Std(Wrap(IF e.op = "-" THEN -a.b ELSE Size(a.n) - 1 - a.b, a.n), a.n,
                          a.u /\ ~(e.op = "-" /\ e.a.k = "lit"), a.t)
      [] e.k = "tern"  ->
             LET c == Standard(e.c)
             IN  IF c.o # "value" THEN c ELSE Standard(IF c.b # 0 THEN e.a ELSE e.b)
      [] e.k = "uns"   -> LET a == Standard(e.a)
                          IN  IF a.o # "value" THEN a ELSE Std(a.b, a.n, TRUE, "")
      [] e.k = "cast"  ->
             LET a == Standard(e.a)
             IN  IF a.o # "value" THEN a
                 ELSE Std(Wrap(Number(a), e.n), e.n, ~e.signed, IF e.signed THEN "i" ELSE "u")
      [] e.k = "addr"  -> Std(e.a.b, 8, FALSE, "addr")
      [] e.k = "slice" ->
             LET i == Standard(e.start)
                 at == SignedOf(i.b, i.n)
             IN  IF i.o # "value" THEN i
                 ELSE IF at < 0 \/ at + e.len > e.base.size THEN NoStd("undefined")
                 ELSE Std(Memory(e.base.b + at, e.len), e.len, FALSE, "")
      [] e.k = "deref" ->
             LET a == Standard(e.a)
             IN  IF a.o # "value" THEN a
                 ELSE Std(Memory(Wrap(Number(a), 8), e.n), e.n, FALSE, "")

-----------------------------------------------------------------------------
(* The compiler and the program: an expression of Programs, assigned to a  *)
(* destination of Targets, is analyzed, emitted and executed.              *)

CONSTANTS Programs, Targets

VARIABLES source, target, stage, hir, outcome
vars == <<source, target, stage, hir, outcome>>

Nothing == [o |-> "none", b |-> 0]
Init ==
    /\ source \in Programs
    /\ target \in Targets
    /\ stage = "source"
    /\ hir = Refused
    /\ outcome = Nothing

Diagnose ==
    /\ stage = "source"
    /\ IsRefused(AnalyzeAssigned(source, target.n, target.t, FALSE))
    /\ stage' = "diagnosed"
    /\ UNCHANGED <<source, target, hir, outcome>>

Lower ==
    /\ stage = "source"
    /\ ~IsRefused(AnalyzeAssigned(source, target.n, target.t, FALSE))
    /\ hir' = AnalyzeAssigned(source, target.n, target.t, FALSE)
    /\ stage' = "hir"
    /\ UNCHANGED <<source, target, outcome>>

Execute ==
    /\ stage = "hir"
    /\ outcome' = EmitInteger(hir, target.n, sourceUsesZeroExtension(hir.r))
    /\ stage' = "done"
    /\ UNCHANGED <<source, target, hir>>

Next == Diagnose \/ Lower \/ Execute
Spec == Init /\ [][Next]_vars

\* Types: an executed program has a value of the destination's width or one of
\* the outcomes that are not values.
TypeOK ==
    /\ stage \in {"source", "diagnosed", "hir", "done"}
    /\ IsRefused(hir) <=> stage \in {"source", "diagnosed"}
    /\ stage = "done" => /\ outcome.o \in {"value", "trap", "undefined", "broken"}
                         /\ outcome.b \in 0..(Size(target.n) - 1)
    /\ stage # "done" => outcome = Nothing

\* Where the Standard gives the expression a value, the executed code stores
\* that value, extended or truncated to the destination: through every width
\* and sign conversion of nested operands, MIN / -1, short circuits and offsets
\* read as signed; it reports no error and its module is accepted.
StandardValue ==
    stage = "done" =>
        LET s == Standard(source)
        IN  s.o = "value" => outcome = Value(Wrap(Number(s), target.n))

\* In checked code a condition that Section 8.4 or the index rules leave
\* undefined is reported, at compile time or by a runtime error, and never
\* yields a value - unless a short circuit skips it.
CheckedReports ==
    stage = "done" /\ Checked /\ Standard(source).o = "undefined" => outcome = Outcome("trap")

\* The View the analyzer gives an expression has the Standard's length and
\* interpretation, so that every enclosing operation computes in that width.
StandardView ==
    stage # "source" =>
        LET h == Analyze(source, FALSE)
            s == Standard(source)
        IN  ~IsRefused(h) /\ s.o = "value" =>
                h.r.n = s.n /\ sourceUsesZeroExtension(h.r) = s.u
=============================================================================
