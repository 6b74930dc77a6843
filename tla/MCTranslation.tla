---------------------------- MODULE MCTranslation ----------------------------
(***************************************************************************)
(* The translation of programs in one run.  `part' says which component    *)
(* works, the others are idle:                                             *)
(*   "core"   integer expressions of the core language, from the source    *)
(*            to the executed code (IntegerExpressions);                   *)
(*   "c"      C assignments, lowered to the core (CExpressions);           *)
(*   "decl"   the declarations of one or two C units (CDeclarations);      *)
(*   "abi"    calls between emitted code and C (CAbiCalls).                *)
(* Bytes have two bits: a View of 8 bytes has 16, a C int 8.               *)
(***************************************************************************)
EXTENDS CExpressions

CONSTANTS Parts, Jobs, PointerBytes, Signatures

\* k is named first, for TLC: it compares the fields of two records in the order
\* in which their names first occur, and only nodes of the same kind compare.
ASSUME PartsAssumption == \A k \in Parts : k \in {"core", "c", "decl", "abi"}

VARIABLES part, job, jobUnit, pass, place, lowerer, unitHir, compiled, built,
          signature, phase, declared, frame, received, answer, result

declVars == <<job, jobUnit, pass, place, lowerer, unitHir, compiled, built>>
callVars == <<signature, phase, declared, frame, received, answer, result>>
mcVars == <<part, vars, declVars, callVars>>

Declarations == INSTANCE CDeclarations
    WITH u <- jobUnit, i <- place, w <- lowerer, hir <- unitHir, outcome <- built
Calls == INSTANCE CAbiCalls WITH source <- signature

-----------------------------------------------------------------------------
(* Core expressions.                                                       *)

\* The boundaries of each width: 0, 1, the largest, the smallest, -1.
Corners(n) == {0, 1, Size(n) \div 2 - 1, Size(n) \div 2, Size(n) - 1}
Untemplated == {Var(n, "", b) : n \in {1, 2}, b \in Corners(1)} \cup
               {Var(2, "", b) : b \in Corners(2)}
Templated == {Var(2, t, b) : t \in {"i", "u"}, b \in Corners(2)}
Marked == {Uns(0, v) : v \in Untemplated}
Small == {Lit(v) : v \in {1, 2, 8}} \cup {CharLit(3)}
Operands == Untemplated \cup Marked \cup Small

\* One operator over every pair of operands.
Flat ==
    {Bin(op, a, b) : op \in Arithmetic \cup Comparisons, a \in Operands \ Small, b \in Operands} \cup
    {Bin(op, a, b) : op \in {"/", "%", ">>", "<", "**"}, a \in Templated,
                     b \in Templated \cup {Lit(1), Lit(2), Un("-", Lit(1))}} \cup
    {TypedBin(op, w, m, a, b) : op \in {"+", "/", ">>", "*"}, w \in {0, 1, 4}, m \in {"d", "u"},
                                a \in Untemplated, b \in Untemplated \cup Marked} \cup
    {Un(op, a) : op \in {"!", "~", "-"}, a \in Operands \cup Templated}

\* An operator over the results of operators, conditions, casts and indices.
Inner == {Bin(op, Var(1, "", 3), Var(2, "", 9)) : op \in {"+", "/", "<"}} \cup
         {Bin("-", Uns(0, Var(1, "", 1)), Var(1, "", 3)), Un("-", Var(1, "", 2)),
          Un("~", Uns(0, Var(2, "", 7))), Uns(0, Bin("*", Var(1, "", 2), Var(1, "", 3))),
          IntCast(1, TRUE, Var(2, "", 14)), IntCast(4, FALSE, Var(1, "", 3)),
          TypedBin("-", 1, "u", Var(2, "", 5), Var(1, "", 3))}
Zero == Var(1, "", 0)
Divides == Bin("/", Var(1, "", 1), Zero)
Nested ==
    {Bin(op, a, b) : op \in {"+", "/", ">>", "<", "=="}, a \in Inner, b \in Inner} \cup
    {Bin(op, a, b) : op \in Logical, a \in {Zero, Var(2, "", 8)} \cup Inner, b \in {Divides, Zero} \cup Inner} \cup
    {Tern(a, Var(1, "", 2), b) : a \in {Zero, Var(1, "", 2)} \cup Inner, b \in {Var(1, "", 1), Divides}}
Bytes4 == Obj(20, 4)
CorePlaces ==
    {Slice(Bytes4, i, len) : i \in Untemplated \cup Marked \cup Inner \cup {Lit(1)}, len \in {1, 2, 4, 8}} \cup
    {Deref(n, Bin(op, Uns(0, AddrOf(Bytes4)), i)) : n \in {1, 2}, op \in {"+", "-"},
                                                  i \in Untemplated \cup {Lit(1)}} \cup
    {Deref(2, AddrOf(Bytes4)), Bin("+", Uns(0, AddrOf(Bytes4)), Var(1, "", 3))}

Target(n, t) == [n |-> n, t |-> t]
CoreTargets == {Target(n, "") : n \in Lengths} \cup {Target(4, "i"), Target(2, "u")}
CorePrograms == Flat \cup Nested \cup CorePlaces

\* Operations on results of folded literal operations.
FoldedPrograms == {Bin(op, Bin("-", Lit(1), Lit(3)), Lit(2)) : op \in {"/", "<", ">>"}}
\* The address offset (&x)? - n observed as an integer.
OffsetPrograms == {Bin("-", Uns(0, AddrOf(Bytes4)), Var(1, "", 1))}
\* A conditional expression as the operand of a wider operation.
TernaryPrograms == {Bin("+", Var(2, "", 5), Tern(Var(1, "", 1), Lit(1), Lit(0)))}

-----------------------------------------------------------------------------
(* C assignments.                                                          *)

I32 == integerType(4, TRUE)
UInt == integerType(4, FALSE)
Long == integerType(8, TRUE)
ULong == integerType(8, FALSE)
Short == integerType(2, TRUE)
UShort == integerType(2, FALSE)
UChar == integerType(1, FALSE)

CCorners(t) == {0, 1, Size(t.n) \div 2 - 1, Size(t.n) \div 2, Size(t.n) - 1}
Wide == UNION {{CVar(t, b) : b \in CCorners(t)} : t \in {I32, UInt}} \cup
        {CVar(Long, 3), CVar(Long, Size(8) - 2), CVar(ULong, Size(8) - 2)}
Narrow == UNION {{CVar(t, b) : b \in CCorners(t)} : t \in {Short, UShort}} \cup {CVar(UChar, 3)}
Literals == {CLit(0, FALSE, FALSE, TRUE), CLit(2, FALSE, FALSE, TRUE), CLit(200, FALSE, FALSE, TRUE),
             CLit(200, FALSE, FALSE, FALSE), CLit(1, TRUE, FALSE, TRUE), CLit(5, FALSE, TRUE, TRUE),
             CChar(3), CSizeof(2), CUn("-", CLit(1, FALSE, FALSE, TRUE)),
             CUn("~", CLit(1, FALSE, FALSE, TRUE))}
COps == {"+", "-", "*", "/", "%", "<<", ">>", "&", "|", "^"}

Store(t, e) == Assignment("=", t, 0, e)
\* Arithmetic on every pair of operands; comparisons with an operand of at least
\* int's width; unary operators on operands of at least int's width.
Arith == {Store(t, CBin(op, a, b)) : t \in {Long}, op \in COps, a \in Wide \cup Narrow,
                                     b \in Wide \cup Narrow \cup Literals}
Compares == {Store(I32, CBin(op, a, b)) : op \in Comparisons, a \in Wide,
                 b \in Wide \cup Narrow \cup (Literals \ {CLit(5, FALSE, TRUE, TRUE)})}
Others == {Store(t, CUn(op, a)) : t \in {I32, ULong}, op \in {"-", "~", "!"}, a \in Wide} \cup
          {Store(t, a) : t \in {Short, UChar, UInt, Long}, a \in Wide \cup Narrow} \cup
          {Store(Long, CCast(t, a)) : t \in {Short, UChar, UInt, I32, ULong}, a \in Wide \cup Narrow} \cup
          {Store(UInt, CBin(op, a, b)) : op \in Logical, a \in Narrow,
               b \in {CBin("/", CVar(I32, 1), CVar(I32, 0)), CVar(I32, 4)}} \cup
          {Assignment(op, t, b, e) : op \in COps, t \in {Short, UChar, UInt}, b \in {1, 3},
               e \in Wide \cup Literals}
Sums == {CBin("+", CVar(UShort, 15), CVar(Short, 8)), CBin("-", CVar(UInt, 0), CVar(I32, 1)),
         CBin("*", CVar(UShort, 15), CVar(UShort, 15)), CBin("<<", CVar(UChar, 3), CVar(UChar, 2)),
         CCast(Short, CVar(I32, 200)), CBin("%", CVar(Long, Size(8) - 5), CVar(Short, 3))}
Deep == {Store(t, CBin(op, a, b)) : t \in {I32, ULong}, op \in COps \cup {"<", "=="}, a \in Sums, b \in Sums} \cup
        {Store(Long, CCond(CBin("<", CVar(I32, 1), a), b, b)) : a \in Sums, b \in Sums}

Table == CArray(Short, 4, 40)
Pair == CVar(makePointer(structType(8)), 90)
Pointers == {CVar(makePointer(Short), 50), CVar(makePointer(I32), 60), Table,
             CUn("&", CIndex(Table, CLit(1, FALSE, FALSE, TRUE))),
             CCast(makePointer(UInt), CVar(makePointer(Short), 50))}
Indices == {CVar(I32, b) : b \in {0, 1, 3, 4, 255}} \cup {CVar(UChar, 3), CLit(1, FALSE, FALSE, TRUE)}
Places == {CIndex(p, i) : p \in Pointers, i \in Indices} \cup
          {CUn("*", CBin(op, p, i)) : op \in {"+", "-"}, p \in Pointers, i \in Indices} \cup
          {CUn("*", CBin("+", i, p)) : p \in Pointers, i \in Indices} \cup
          {CArrow(Pair, o, t, FALSE) : o \in {0, 4}, t \in {Short, UShort}} \cup
          {CIndex(CArrow(Pair, 2, Short, TRUE), i) : i \in Indices}
Reads == {Store(Long, e) : e \in Places} \cup
         {Store(Long, CBin("+", e, CVar(I32, 7))) : e \in Places} \cup
         {Store(I32, CBin(op, p, q)) : op \in {"==", "!="} \cup Logical,
              p \in Pointers, q \in Pointers} \cup
         {Store(I32, CUn("!", p)) : p \in Pointers}

CPrograms == Arith \cup Compares \cup Others \cup Deep \cup Reads

\* A comparison of an operand narrower than int with a short literal.
NarrowCompare == {Store(I32, CBin(">", CVar(UShort, 15), CLit(2, FALSE, FALSE, TRUE)))}
\* The difference of two pointers into one array.
PointerDifference == {Store(Long, CBin("-", CVar(makePointer(Short), 52), CVar(makePointer(Short), 50)))}

-----------------------------------------------------------------------------
(* Declarations.                                                           *)

Ty(base) == [base |-> base, name |-> ""]
Tag(n) == [base |-> "struct", name |-> n]
Alias(n) == [base |-> "alias", name |-> n]
Declared(t, ptr, arr) == [type |-> t, declarator |-> [ptr |-> ptr, arr |-> arr]]
Plain(t) == Declared(t, 0, 0)

StructOf(n, fields) == [k |-> "struct", name |-> n, fields |-> fields]
Typedef(n, o) == [k |-> "typedef", name |-> n, type |-> o.type, declarator |-> o.declarator]
Object(n, o, storage, init) ==
    [k |-> "var", name |-> n, type |-> o.type, declarator |-> o.declarator,
     storage |-> storage, init |-> init]
Func(n, o, params, storage, def) ==
    [k |-> "func", name |-> n, type |-> o.type, declarator |-> o.declarator,
     params |-> params, storage |-> storage, def |-> def]

IntT == Plain(Ty("int"))
S == StructOf("S", <<Plain(Ty("char")), IntT>>)
SWide == StructOf("S", <<Plain(Ty("char")), Plain(Ty("long"))>>)
StructPool ==
    {S, StructOf("R", <<Plain(Ty("short")), Plain(Tag("S")), Declared(Ty("char"), 0, 3)>>),
     StructOf("N", <<Declared(Tag("N"), 1, 0), Plain(Ty("char")), Plain(Tag("N"))>>),
     StructOf("L", <<Declared(Tag("L"), 1, 0), Plain(Ty("char"))>>),
     Typedef("T", Plain(Tag("S"))), Typedef("A", Declared(Ty("int"), 0, 2)),
     StructOf("Q", <<Plain(Ty("char")), Plain(Alias("A")), Plain(Alias("T"))>>),
     Object("y", Declared(Alias("T"), 0, 2), "none", FALSE), Object("y", Plain(Alias("A")), "static", FALSE)}
FunctionPool ==
    {Func("f", IntT, <<IntT>>, st, def) : st \in {"none", "static"}, def \in BOOLEAN}
    \cup {Func("f", Plain(Tag("S")), <<Declared(Tag("S"), 1, 0)>>, "none", def) : def \in BOOLEAN}
    \cup {S}
ObjectPool ==
    {Object("x", IntT, "static", TRUE), Object("x", IntT, "extern", FALSE), Object("x", IntT, "extern", TRUE),
     Object("S", IntT, "none", FALSE), Object("y", Plain(Tag("S")), "none", TRUE),
     Object("y", Declared(Ty("char"), 0, 3), "none", FALSE), Object("y", Plain(Ty("void")), "none", FALSE),
     Typedef("P", Declared(Tag("S"), 1, 0)), Typedef("T", Plain(Ty("uint"))),
     Func("g", Plain(Alias("P")), <<Plain(Alias("P")), Declared(Ty("long"), 0, 2)>>, "none", TRUE),
     Func("g", Plain(Alias("T")), <<Plain(Alias("T"))>>, "none", FALSE),
     Func("g", Plain(Alias("A")), <<>>, "none", TRUE),
     Func("main", Plain(Ty("void")), <<>>, "none", TRUE),
     Func("main", IntT, <<>>, "none", TRUE)}

UnitsOf(pool, n) == UNION {[1..m -> pool] : m \in 1..n}

(* The C parser takes a name for a type only after its typedef. *)
UsesOf(d) ==
    LET objs == IF d.k = "struct" THEN {d.fields[p] : p \in DOMAIN d.fields}
                ELSE {d} \cup (IF d.k = "func" THEN {d.params[p] : p \in DOMAIN d.params} ELSE {})
    IN  {o.type.name : o \in {x \in objs : x.type.base = "alias"}}
Parses(ds) == \A p \in DOMAIN ds : \A n \in UsesOf(ds[p]) :
                \E q \in 1..(p - 1) : ds[q].k = "typedef" /\ ds[q].name = n

Single == {<<ds>> : ds \in {x \in UnitsOf(StructPool, 4) \cup UnitsOf(FunctionPool, 4)
                                   \cup UnitsOf(StructPool \cup ObjectPool, 2) : Parses(x)}}

(* Two units that share names. *)
Shared ==
    {<<Object("x", IntT, st, FALSE)>> : st \in {"none", "static", "extern"}}
    \cup {<<Object("x", Plain(Ty("uint")), "extern", FALSE)>>, <<Func("x", IntT, <<>>, "none", TRUE)>>}
    \cup {<<s, Object("y", Plain(Tag("S")), st, FALSE)>> :
             s \in {S, SWide}, st \in {"none", "extern"}}
    \cup {<<s, Func("f", IntT, <<Plain(Tag("S"))>>, "none", def)>> :
             s \in {S, SWide}, def \in BOOLEAN}
    \cup {<<Typedef("T", Plain(Ty("int"))), Object("x", Plain(Alias("T")), "extern", FALSE)>>}

MixedUnit ==
    <<S, Typedef("T", Plain(Tag("S"))),
      Func("f", IntT, <<Declared(Tag("S"), 1, 0)>>, "none", FALSE),
      Func("f", IntT, <<Declared(Alias("T"), 1, 0)>>, "none", TRUE)>>

Units == Single \cup {<<a, b>> : a, b \in Shared}
MixedUnits == {<<MixedUnit>>}

-----------------------------------------------------------------------------
(* Calls across the C ABI.                                                 *)

AbiRecord(kind, n, align, fields, offsets) ==
    [kind |-> kind, byteLength |-> n, alignment |-> align, elementCount |-> 1,
     fields |-> fields, offsets |-> offsets]
AbiScalar(kind, n) == AbiRecord(kind, n, n, <<>>, <<>>)
C1 == AbiScalar("Integer", 1)
C4 == AbiScalar("Integer", 4)
C8 == AbiScalar("Integer", 8)
CP == AbiScalar("Pointer", 8)
F4 == AbiScalar("Floating", 4)
F8 == AbiScalar("Floating", 8)
AbiArray(t, count) == [t EXCEPT !.elementCount = count]
MaxOf(ns) == CHOOSE n \in ns : \A m \in ns : m <= n

\* A struct with C's natural layout (LayoutMatchesC of CDeclarations).
Up(n, a) == ((n + a - 1) \div a) * a
AbiStruct(fields) ==
    LET at[k \in 1..(Len(fields) + 1)] ==
            IF k = 1 THEN 0
            ELSE at[k - 1] + fields[k - 1].byteLength * fields[k - 1].elementCount
                 + (IF k > Len(fields) THEN 0
                    ELSE LET end == at[k - 1] + fields[k - 1].byteLength * fields[k - 1].elementCount
                         IN  Up(end, fields[k].alignment) - end)
        align == MaxOf({fields[k].alignment : k \in DOMAIN fields})
    IN  AbiRecord("Aggregate", Up(at[Len(fields) + 1], align), align, fields,
                  [k \in DOMAIN fields |-> at[k]])

Call(lang, params, returns, sides) ==
    [lang |-> lang, params |-> params, returns |-> returns, target |-> "x86_64 SysV ELF",
     caller |-> sides[1], callee |-> sides[2]]
Sides == {<<"hs", "c">>, <<"c", "hs">>, <<"hs", "hs">>}

FieldTypes == {C1, C4, C8, CP, F4, F8, AbiArray(C1, 3), AbiArray(F4, 2), AbiStruct(<<F4, C1>>),
               AbiArray(AbiStruct(<<F4>>), 3)}
Structs == {AbiStruct(f) : f \in UNION {[1..n -> FieldTypes] : n \in 1..2}} \cup
           {AbiStruct(f) : f \in [1..3 -> {C1, C4, C8, F4, F8}]}
\* A struct through a call and back.
Passed == {Call("c", <<s>>, <<s>>, sides) : s \in {x \in Structs : x.byteLength <= 24}, sides \in Sides}

\* Scalars and structs side by side; both register files at their ends.
Two == AbiStruct(<<C8, C4>>)
Mixed == AbiStruct(<<F8, C8>>)
Floats == AbiStruct(<<AbiArray(F4, 3)>>)
Large == AbiStruct(<<C8, F8, C1>>)
ParameterTypes == {C4, F8, Two, Mixed, Floats, Large}
Mixtures == {Call("c", ps, rs, sides) : ps \in UNION {[1..n -> ParameterTypes] : n \in 2..3},
                 rs \in {<<>>, <<Large>>, <<Mixed>>}, sides \in Sides}
Repeated(t, n) == [k \in 1..n |-> t]
Full == {Call("c", Repeated(t, n) \o <<s, u>>, rs, sides) :
            t \in {C8, F8}, n \in 5..8, s \in ParameterTypes, u \in {C1, F4, Large},
            rs \in {<<>>, <<Large>>}, sides \in Sides}

CoreView(t, n) == [template |-> t, byteLength |-> n]
Core == {Call("core", <<CoreView(t, n), CoreView("f64", 8)>>, rs, sides) :
            t \in {"bool", "i16", "u32", "i64", "f32", "addr", "cstr", "f16", "bytes"}, n \in {1, 2, 4, 8},
            rs \in {<<>>, <<CoreView("f32", 4)>>, <<CoreView("handle", 8)>>, <<CoreView("i8", 1), CoreView("i8", 1)>>},
            sides \in Sides}
Foreign == {[Call("c", <<t>>, rs, sides) EXCEPT !.target = "other"] :
               t \in {C4, F8, Two, Large}, rs \in {<<>>, <<C4>>, <<Mixed>>}, sides \in Sides}
\* The registers run out inside the last struct.
SplitSignatures == {Call("c", Repeated(C8, 5) \o <<Two>>, <<>>, sides) : sides \in Sides}
CallSignatures == Passed \cup Mixtures \cup Full \cup Core \cup Foreign

-----------------------------------------------------------------------------
(* The sum of the components.                                              *)

ExpressionIdle ==
    /\ source = <<>> /\ target = Target(1, "") /\ stage = "source" /\ hir = Refused
    /\ outcome = Nothing

DeclarationIdle ==
    /\ job = <<>> /\ jobUnit = 0 /\ pass = "names" /\ place = 0 /\ compiled = <<>>
    /\ lowerer = Declarations!NewLowerer /\ unitHir = Declarations!NoHir /\ built = "none"

CallIdle ==
    /\ signature = <<>> /\ phase = "source" /\ declared = <<>> /\ frame = {}
    /\ received = <<>> /\ answer = <<>> /\ result = <<>>

TranslationInit ==
    /\ part \in Parts
    /\ CASE part = "core" -> Init [] part = "c" -> CInit [] OTHER -> ExpressionIdle
    /\ IF part = "decl" THEN Declarations!Init ELSE DeclarationIdle
    /\ IF part = "abi" THEN Calls!Init ELSE CallIdle

CoreStep == part = "core" /\ Next /\ UNCHANGED <<part, declVars, callVars>>
CStep == part = "c" /\ CNext /\ UNCHANGED <<part, declVars, callVars>>
DeclarationStep == part = "decl" /\ Declarations!Next /\ UNCHANGED <<part, vars, callVars>>
CallStep == part = "abi" /\ Calls!Next /\ UNCHANGED <<part, vars, declVars>>

\* The program has run, or the compiler has refused it or built it.
Finished ==
    /\ stage \in {"diagnosed", "done"} \/ built # "none" \/ phase \in {"diagnosed", "done"}
    /\ UNCHANGED mcVars

TranslationNext == CoreStep \/ CStep \/ DeclarationStep \/ CallStep \/ Finished

TranslationSpec == TranslationInit /\ [][TranslationNext]_mcVars

-----------------------------------------------------------------------------
(* Properties of the parts.                                                *)

\* Where the Standard gives a core expression a value, the executed code stores
\* it; the analyzer's View has the Standard's length and interpretation; and
\* checked code reports what the Standard leaves undefined (SemaExpressions.cpp,
\* LLVMCodegenExpressions.cpp).
CoreAsStandard == TypeOK /\ (part = "core" => StandardValue /\ StandardView /\ CheckedReports)

\* A C assignment whose value C defines is accepted, by the importer and by
\* sema, and stores the bits of that value; checked code reports zero divisors,
\* negative shift counts and indices outside of their array
\* (CCompatLoweringOperators.cpp).
AssignmentsAsC == part = "c" => CValue /\ CAccepted /\ CReports

\* hsc --c-compat builds exactly the jobs whose units are well formed and agree
\* on their externals.  A unit that importer and analysis accepted takes its
\* metadata, a void main apart; structs have C's natural layout in the core
\* template too; the linkage of functions and objects is C's; and between two
\* declarations nothing is half resolved (CCompatLowering.cpp).  A call between
\* emitted code and C delivers every field of its arguments and of its result
\* (LLVMCodegenCAbi.cpp).
DeclarationsAndCallsAsC ==
    /\ part = "decl" => /\ Declarations!TypeOK
                        /\ Declarations!AcceptedExactly
                        /\ Declarations!MetadataApplies
    /\ Declarations!LayoutMatchesC /\ Declarations!LinkageIsC
    /\ part = "abi" => Calls!CallsFollowSysV
=============================================================================
