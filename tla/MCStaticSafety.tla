---------------------------- MODULE MCStaticSafety ----------------------------
(* Translation units for StaticSafety: every main made of a few statements of an
   alphabet, between a common beginning and end. *)
EXTENDS StaticSafety

CONSTANTS g, x, y, ptr, tmp, par   \* binding names

Lit(v) == [op |-> "lit", v |-> v]
Var(n) == [op |-> "var", n |-> n]
Addr(n) == [op |-> "addr", n |-> n]
Input == [op |-> "input"]
None == [op |-> "none"]
Deref(e) == [op |-> "deref", a |-> e]
Plus(e, k) == [op |-> "add", a |-> e, k |-> k]
Div(r) == [op |-> "div", l |-> Lit(8), r |-> r]
Alloc(k) == [op |-> "alloc", k |-> k]
Realloc(e, k) == [op |-> "realloc", p |-> e, k |-> k]
Asg(n, e) == [op |-> "asg", n |-> n, e |-> e]
And(l, r) == [op |-> "and", l |-> l, r |-> r]
Or(l, r) == [op |-> "or", l |-> l, r |-> r]
CondE(c, t, e) == [op |-> "cond", c |-> c, t |-> t, e |-> e]

Decl(n) == [op |-> "decl", n |-> n]
Store(n, e) == [op |-> "store", n |-> n, at |-> 0, e |-> e]
StoreHigh(n, e) == [op |-> "store", n |-> n, at |-> Half, e |-> e]
TextTo(n, t) == [op |-> "text", n |-> n, t |-> t]
PtrStore(a, e) == [op |-> "ptrstore", a |-> a, e |-> e]
Rebind(n, e) == [op |-> "rebind", n |-> n, e |-> e]
Puts(n) == [op |-> "puts", n |-> n]
Memset(a, k) == [op |-> "memset", a |-> a, k |-> k]
FreeOf(e) == [op |-> "free", e |-> e]
Call(e) == [op |-> "call", e |-> e]
IfElse(c, t, e) == [op |-> "if", c |-> c, t |-> t, e |-> e]
WhileLoop(c, b) == [op |-> "while", c |-> c, b |-> b]
ForLoop(i, c, q, b) == [op |-> "for", init |-> i, c |-> c, post |-> q, b |-> b]
Goto(l) == [op |-> "goto", l |-> l]
Label(l, s) == [op |-> "label", l |-> l, s |-> s]
Break == [op |-> "break"]
Continue == [op |-> "continue"]
Return(e) == [op |-> "return", e |-> e]
Throw == [op |-> "throw"]
TryBlock(t, e) == [op |-> "try", t |-> t, e |-> e]
Unit(init, main, helper) == [init |-> init, main |-> main, helper |-> helper]

(* Main is a beginning, three statements of an alphabet, and uses of what they
   left. *)
Mains(alphabet, begin, end) ==
    {begin \o <<a, b, c>> \o end : a \in alphabet, b \in alphabet, c \in alphabet}

Begin == <<Decl(x), Decl(ptr), Store(x, Lit(1)), Store(ptr, Addr(x))>>
Uses == <<IfElse(Input, <<Store(x, Div(Var(x)))>>, <<Store(x, Deref(Var(ptr)))>>)>>

PointerStatements == {
    Store(x, Lit(0)), Store(ptr, Alloc(8)), Store(ptr, Lit(0)),
    FreeOf(Var(ptr)), PtrStore(Var(ptr), Lit(1)), Rebind(x, Addr(g)),
    Rebind(x, Var(ptr)), StoreHigh(x, Lit(0)),
    Store(ptr, Plus(Var(ptr), Half)), Store(ptr, Realloc(Var(ptr), 0)),
    IfElse(Input, <<Store(x, Lit(0))>>, <<Store(ptr, Addr(g))>>),
    IfElse(Input, <<Decl(y), Store(y, Lit(0)), Store(ptr, Addr(y))>>, <<>>)}
PointerUnits == {Unit(<<>>, m, <<>>) : m \in Mains(PointerStatements, Begin, Uses)}

(* Control flow without labels.  Where a loop changes a name whose value is known
   when it is entered, the loop itself does not depend on it, and no break leaves a
   for; no throw leaves a try that has changed a name. *)
FlowStatements == {
    Store(x, Lit(0)), Store(g, Lit(0)), Store(ptr, Addr(g)),
    TextTo(x, FALSE), TextTo(x, TRUE), Puts(x), Memset(Var(ptr), 4), Memset(Var(ptr), 0),
    IfElse(Var(x), <<Store(ptr, Lit(0))>>, <<Return(Div(Var(x)))>>),
    Call(None), Call(Var(ptr)), Rebind(g, Addr(x)),
    Store(tmp, And(Input, Asg(x, Lit(0)))), Store(tmp, Or(Var(x), Div(Lit(0)))),
    Store(tmp, CondE(Input, Asg(g, Lit(0)), Div(Var(g)))),
    WhileLoop(Input, <<Store(x, Lit(2)), IfElse(Input, <<Store(ptr, Addr(g)), Break>>,
                                                  <<Continue>>)>>),
    WhileLoop(Input, <<IfElse(Input, <<Store(ptr, Lit(0)), Continue>>, <<Store(tmp, Lit(1))>>)>>),
    ForLoop(Store(tmp, Input), Input, Store(x, Lit(2)),
            <<Store(tmp, Lit(0)), IfElse(Input, <<Continue>>, <<Store(ptr, Addr(g))>>)>>),
    TryBlock(<<IfElse(Input, <<Throw>>, <<>>), Store(x, Lit(0))>>, <<Store(x, Lit(2))>>)}
Writes == <<IfElse(Input, <<Store(g, Lit(2))>>, <<PtrStore(Var(par), Lit(2))>>)>>
FlowUnits ==
    {Unit(<<>>, m, Writes) : m \in Mains(FlowStatements, Begin \o <<Decl(tmp)>>, Uses)}

StructuredUnits == PointerUnits \cup FlowUnits

(* Labels: statements before, at and after a label that forward and backward
   gotos reach, out of nested blocks too. *)
LabelStatements == {
    Store(x, Lit(0)), Store(ptr, Addr(g)), TextTo(x, TRUE), Rebind(x, Addr(g)),
    Call(Var(ptr)), FreeOf(Var(ptr)), Store(ptr, Lit(0)),
    IfElse(Input, <<Decl(y), Store(ptr, Addr(y)), Goto("L")>>, <<>>),
    IfElse(Lit(1), <<Decl(y), Store(ptr, Addr(y)), Goto("L")>>, <<>>),
    IfElse(Var(x), <<Store(ptr, Lit(0))>>, <<>>),
    WhileLoop(Input, <<IfElse(Input, <<Goto("L")>>, <<Break>>)>>),
    TryBlock(<<IfElse(Input, <<Throw>>, <<Goto("L")>>)>>, <<Store(x, Lit(2))>>)}
LabelUnits ==
    {Unit(<<>>, Begin \o <<a, b, Label("L", c)>> \o Uses
                 \o <<IfElse(Input, <<Goto("L")>>, <<>>)>>, Writes)
        : a \in LabelStatements, b \in LabelStatements, c \in LabelStatements}

(* Objects allocated, resized and released before, at and after a label that only
   forward gotos reach: it is visited again when a goto brings other facts. *)
HeapStatements == {Store(ptr, Alloc(8)), Store(ptr, Realloc(Var(ptr), 8)), FreeOf(Var(ptr))}
MayLeave == {
    Store(ptr, Lit(0)), IfElse(Input, <<Store(ptr, Alloc(8))>>, <<>>),
    IfElse(Input, <<Goto("L")>>, <<>>), IfElse(Input, <<Store(ptr, Alloc(8)), Goto("L")>>, <<>>),
    IfElse(Input, <<FreeOf(Var(ptr)), Goto("L")>>, <<>>)}
ForwardUnits ==
    {Unit(<<>>, Begin \o <<Store(ptr, Alloc(8)), a, b, Label("L", c), d>> \o Uses, Writes)
        : a \in HeapStatements \cup MayLeave, b \in HeapStatements \cup MayLeave,
          c \in HeapStatements, d \in HeapStatements}

(* Released and resized, but not allocated, behind a label that a goto reaches again. *)
Releases == {
    Store(ptr, Realloc(Var(ptr), 8)), Store(ptr, Realloc(Var(ptr), 0)), FreeOf(Var(ptr)),
    Store(ptr, Lit(0)), IfElse(Input, <<FreeOf(Var(ptr)), Store(ptr, Lit(0))>>, <<>>)}
ReleaseUnits ==
    {Unit(<<>>, Begin \o <<Store(ptr, Alloc(8)), a, Label("L", b), c>> \o Uses
                 \o <<IfElse(Input, <<Goto("L")>>, <<>>)>>, Writes)
        : a \in HeapStatements \cup MayLeave, b \in Releases, c \in Releases}

AllUnits == StructuredUnits \cup LabelUnits \cup ForwardUnits \cup ReleaseUnits

(* while (1) { if (x) break; x = 1 } leaves x = 1 behind. *)
WhileUnits == {Unit(<<>>, <<Decl(x), Store(x, Lit(0)),
    WhileLoop(Lit(1), <<IfElse(Var(x), <<Break>>, <<>>), Store(x, Lit(1))>>),
    Store(x, Div(Var(x)))>>, <<>>)}

(* for (; 1;) { x = 1; break } leaves x = 1 behind. *)
ForUnits == {Unit(<<>>, <<Decl(x), Decl(tmp), Store(x, Lit(0)),
    ForLoop(Store(tmp, Lit(0)), Lit(1), Store(tmp, Lit(0)), <<Store(x, Lit(1)), Break>>),
    Store(x, Div(Var(x)))>>, <<>>)}

(* The throw comes after x = 1. *)
CatchUnits == {Unit(<<>>, <<Decl(x), Store(x, Lit(0)),
    TryBlock(<<Store(x, Lit(1)), Throw>>, <<Store(x, Div(Var(x)))>>)>>, <<>>)}

(* The callee writes x through the address that a global holds. *)
AliasUnits == {Unit(<<>>, <<Decl(x), Store(x, Lit(0)), Store(g, Addr(x)), Call(None),
    Store(x, Div(Var(x)))>>, <<PtrStore(Var(g), Lit(1))>>)}

(* helper runs after main has changed the global. *)
GlobalUnits == {Unit(<<Store(g, Lit(0))>>, <<Store(g, Lit(1)), Call(None)>>,
    <<Store(g, Div(Var(g)))>>)}

(* L: p = alloc(8); if (c) goto L *)
AllocUnits == {Unit(<<>>, <<Decl(ptr), Label("L", Store(ptr, Alloc(8))),
    IfElse(Input, <<Goto("L")>>, <<>>)>>, <<>>)}
=============================================================================
