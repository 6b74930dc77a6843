----------------------------- MODULE StaticSafety -----------------------------
(***************************************************************************)
(* The static safety analyzer (src/src/safety/StaticSafetyValidation.cpp)  *)
(* beside the programs it judges.  The analysis of a translation unit is   *)
(* the operator Analysis; the machine below it executes the unit, one      *)
(* statement a step, so that what the analyzer believed on entry to a      *)
(* statement can be compared with every memory that reaches it.            *)
(*                                                                         *)
(* A unit is a record of three blocks: the global initializer, main, and a *)
(* function `helper' that main may call.  A block is a sequence of         *)
(* statements; a statement or expression is a record with an op.           *)
(***************************************************************************)
EXTENDS StaticFacts, Sequences

LOCAL INSTANCE Functions

CONSTANTS Units,      \* the translation units analyzed and executed
          Fuel,       \* bound on the statement visits of one analysis
          MaxHeap,    \* bound on the objects an execution allocates
          Parameter,  \* the parameter of helper
          Choices     \* outcomes of what the analyzer cannot know

VARIABLES unit, an,         \* the unit and the result of its analysis
          ctl, mem, status, \* the execution: frames, memory, how it stands
          passed            \* <<path, expression>> evaluated without an error

vars == <<unit, an, ctl, mem, status, passed>>

Half == WordBytes \div 2

(***************************************************************************)
(* Expressions: the value, truth and address the analyzer derives.         *)
(***************************************************************************)
RECURSIVE AddressOf(_, _)
(* The definition whose content a name or a dereference reads. *)
KeyRead(f, e) ==
    ContentKey(RangeOf(IF e.op = "var" THEN BindingAddressFact(f, e.n, 0, WordBytes)
                       ELSE AddressOf(f, e.a)), WordBytes)

(* staticSignedInteger / staticUnsignedInteger. *)
Value(f, e) ==
    CASE e.op = "lit" -> Known(e.v)
      [] e.op \in {"var", "deref"} -> Looked(f.val, KeyRead(f, e))
      [] OTHER -> Unknown

(* staticBooleanValue: {} when the analyzer cannot tell. *)
Decided(v) == IF IsKnown(v) THEN {v.v # 0} ELSE {}
Truth(f, e) == Decided(Value(f, e))

(* staticAddressFact. *)
AddressOf(f, e) ==
    CASE e.op = "addr" ->
            NarrowedFact(BindingAddressFact(f, e.n, 0, WordBytes), WordBytes)
      [] e.op \in {"var", "deref"} -> Looked(f.addr, KeyRead(f, e))
      [] e.op = "add" -> OffsetFact(AddressOf(f, e.a), e.k)
      [] OTHER -> IF Value(f, e) = Known(0) THEN Known(NullFact) ELSE Unknown

(***************************************************************************)
(* validateSafety of an expression.  A world w is what the analyzer holds: *)
(* its facts f, its diagnostics, the stacks of goto and loop contexts, the *)
(* facts with which each statement was last visited (at), whether control  *)
(* falls out of the last statement (falls) and the visits it has left.     *)
(***************************************************************************)
Diagnose(w, site, bad) ==
    IF bad THEN [w EXCEPT !.diags = @ \cup {site}] ELSE w

(* recordStaticAddressAssignment: the address fact of a value that is stored
   or bound, and the facts after it. *)
AssignedFact(f, e) ==
    CASE e.op = "alloc" -> AllocatedFact(f, e.k)
      [] e.op = "realloc" -> Unknown
      [] OTHER -> AddressOf(f, e)
AssignedFacts(f, e) ==
    CASE e.op = "alloc" -> Allocated(f)
      [] e.op = "realloc" -> Reallocated(f, AddressOf(f, e.p), e.k)
      [] OTHER -> f

(* A store of length bytes of a name: the check, and the facts recorded. *)
StoreAs(w, path, n, offset, length, val, fact) ==
    [Diagnose(w, <<path, [op |-> "store", n |-> n]>>,
              BadAccess(w.f, StoreFact(w.f, n, offset, length), length))
        EXCEPT !.f = Recorded(NamedStore(@, n, offset, length),
                              StoreKey(@, n, offset, length), val, fact, Unknown)]

(* IntegerStore, its value analyzed: less than a pointer's bytes of an address
   are not an address. *)
Kept(fact, length) ==
    IF length < WordBytes /\ IsKnown(fact) /\ fact.v.origin # "null" THEN Unknown ELSE fact
IntegerStore(w, path, n, offset, length, e) ==
    StoreAs([w EXCEPT !.f = AssignedFacts(@, e)], path, n, offset, length,
            Value(w.f, e), Kept(AssignedFact(w.f, e), length))

RECURSIVE Check(_, _, _)

(* The right operand of && and ||, unless the left one, analyzed with the truth t,
   decides: after it the facts of both ways are joined. *)
JoinRight(w, right, t, e) ==
    IF t = {e.op = "and"} THEN right
    ELSE [right EXCEPT !.f = Restored(@, MergedStates(w.f, @))]
RightOperand(w, t, path, e) ==
    IF t = {e.op = "or"} THEN w ELSE JoinRight(w, Check(w, path, e.r), t, e)
AfterLeft(w, path, e) == RightOperand(w, Truth(w.f, e.l), path, e)

(* The selected expression, or both and the join. *)
SelectedLast(yes, no) == [no EXCEPT !.f = Restored(@, MergedStates(yes.f, @))]
SelectedBoth(w, yes, path, e) ==
    SelectedLast(yes, Check([yes EXCEPT !.f = Restored(@, w.f)], path, e.e))
Selected(w, t, path, e) ==
    CASE t = {TRUE} -> Check(w, path, e.t)
      [] t = {FALSE} -> Check(w, path, e.e)
      [] OTHER -> SelectedBoth(w, Check(w, path, e.t), path, e)
AfterCondition(w, path, e) == Selected(w, Truth(w.f, e.c), path, e)

(* realloc: its pointer must be null or the base of a live object. *)
JudgeRealloc(w, path, e) == Diagnose(w, <<path, e>>, BadRelease(w.f, AddressOf(w.f, e.p)))

Check(w, path, e) ==
    LET Site == <<path, e>> IN
    CASE e.op \in {"none", "lit", "addr", "input", "alloc"} -> w
      [] e.op = "var" ->
            Diagnose(w, Site, BadAccess(w.f, BindingAddressFact(w.f, e.n, 0, WordBytes),
                                        WordBytes))
      [] e.op = "deref" ->
            Check(Diagnose(w, Site, BadAccess(w.f, AddressOf(w.f, e.a), WordBytes)),
                  path, e.a)
      [] e.op = "add" -> Check(w, path, e.a)
      [] e.op = "div" ->
            Check(Check(Diagnose(w, Site, Value(w.f, e.r) = Known(0)), path, e.l),
                  path, e.r)
      [] e.op = "realloc" -> JudgeRealloc(Check(w, path, e.p), path, e)
      [] e.op = "asg" ->
            Check(IntegerStore(Check(w, path, e.e), path, e.n, 0, WordBytes, e.e),
                  path, [op |-> "var", n |-> e.n])
      [] e.op \in {"and", "or"} -> AfterLeft(Check(w, path, e.l), path, e)
      [] e.op = "cond" -> AfterCondition(Check(w, path, e.c), path, e)

(***************************************************************************)
(* validateSafety of statements and blocks.                                *)
(***************************************************************************)
Rebound(u) == {n \in Names : \E b \in {u.init, u.main, u.helper} :
                  \E i \in DOMAIN b : b[i].op = "rebind" /\ b[i].n = n}

SetFacts(w, f) == [w EXCEPT !.f = Restored(w.f, f)]
NotFalling(w) == [w EXCEPT !.falls = FALSE]
Falling(w) == [w EXCEPT !.falls = TRUE]

(* exitStaticScopes: the facts on leaving every block above a depth. *)
RECURSIVE ExitScopes(_, _, _)
ExitScopes(w, depth, f) ==
    IF Len(w.scopes) <= depth THEN f
    ELSE ExitScopes([w EXCEPT !.scopes = SubSeq(@, 1, Len(@) - 1)], depth,
                    ExpireLocals(f, w.scopes[Len(w.scopes)].locals))

(* The merge of facts into an optional entry state. *)
Joined(entry, f) == IF entry = <<>> THEN <<f>> ELSE <<MergedStates(entry[1], f)>>

\* Mutant: queued again even when the edge changed nothing.
Enqueue_Always(w, depth, index, f, front) ==
    LET joined == Joined(w.scopes[depth].entry[index], f)
    IN  [w EXCEPT !.scopes[depth].entry[index] = joined,
                  !.scopes[depth].work = IF front THEN <<index>> \o @
                                         ELSE Append(@, index)]

(* enqueue, of the statement at an index of the block of a scope. *)
Enqueue(w, depth, index, f, front) ==
    LET entry == w.scopes[depth].entry[index]
        joined == Joined(entry, f)
    IN  IF entry # <<>> /\ joined = entry THEN w
        ELSE [w EXCEPT !.scopes[depth].entry[index] = joined,
                       !.scopes[depth].work =
                           IF front THEN <<index>> \o @ ELSE Append(@, index)]

\* Mutant: the scopes the goto leaves keep their facts.
EnqueueGoto_InScope(w, label) ==
    LET depths == {d \in DOMAIN w.scopes : label \in DOMAIN w.scopes[d].labels}
        d == CHOOSE x \in depths : \A y \in depths : y <= x
    IN  IF depths = {} THEN w
        ELSE Enqueue(w, d, w.scopes[d].labels[label], w.f, FALSE)

(* enqueueStaticGoto: the innermost open block that has the label. *)
EnqueueGoto(w, label) ==
    LET depths == {d \in DOMAIN w.scopes : label \in DOMAIN w.scopes[d].labels}
        d == CHOOSE x \in depths : \A y \in depths : y <= x
    IN  IF depths = {} THEN w
        ELSE Enqueue(w, d, w.scopes[d].labels[label], ExitScopes(w, d, w.f), FALSE)

(* Break and Continue: the facts on the way out join those of the loop. *)
LeaveLoop(w, which) ==
    IF w.loops = <<>> THEN w
    ELSE LET l == Len(w.loops)
             f == ExitScopes(w, w.loops[l].depth, w.f)
         IN  [w EXCEPT !.loops[l] = [@ EXCEPT ![which] = Joined(@, f)]]

(* The two sides of a branch, the right one analyzed last, and the join. *)
JoinSides(left, right) ==
    CASE left.falls /\ right.falls ->
            Falling(SetFacts(right, MergedStates(left.f, right.f)))
      [] left.falls /\ ~right.falls -> Falling(SetFacts(right, left.f))
      [] ~left.falls /\ right.falls -> right
      [] OTHER -> right

RECURSIVE Stmt(_, _, _), BlockSafety(_, _, _), InOrder(_, _, _, _), Iterate(_, _, _, _)

(* A block without labels: its statements in order. *)
InOrder(w, path, block, i) ==
    IF i > Len(block) \/ ~w.falls THEN w
    ELSE InOrder(Stmt(w, Append(path, i), block[i]), path, block, i + 1)

(* A block with labels: one entry state per statement, revisited until no edge
   changes one.  leaving is the optional state on falling out of the block.
   Visited goes on after the visit of the statement at i. *)
Visited(w, i, path, block, leaving) ==
    CASE ~w.falls -> Iterate(w, path, block, leaving)
      [] w.falls /\ i < Len(block) ->
            Iterate(Enqueue(w, Len(w.scopes), i + 1, w.f, TRUE), path, block, leaving)
      [] OTHER -> Iterate(w, path, block, Joined(leaving, w.f))

(* The first statement of the work list is taken off it, with its entry state. *)
Taken(w, d) ==
    Falling(SetFacts([w EXCEPT !.scopes[d].work = Tail(@)],
                     w.scopes[d].entry[Head(w.scopes[d].work)][1]))

Iterate(w, path, block, leaving) ==
    LET d == Len(w.scopes)
        work == w.scopes[d].work
    IN  CASE work # <<>> /\ w.fuel # 0 ->
                Visited(Stmt(Taken(w, d), Append(path, Head(work)), block[Head(work)]),
                        Head(work), path, block, leaving)
          [] (work = <<>> \/ w.fuel = 0) /\ leaving = <<>> -> NotFalling(w)
          [] OTHER -> Falling(SetFacts(w, leaving[1]))

LabelsOf(block) == {i \in DOMAIN block : block[i].op = "label"}
LocalsOf(block) == {block[i].n : i \in {j \in DOMAIN block : block[j].op = "decl"}}

OpenScope(w, block) ==
    Falling([w EXCEPT !.scopes = Append(@,
        [locals |-> LocalsOf(block),
         labels |-> [l \in {block[i].l : i \in LabelsOf(block)} |->
                        CHOOSE i \in LabelsOf(block) : block[i].l = l],
         entry |-> [i \in DOMAIN block |-> <<>>],
         work |-> <<>>])])
CloseScope(w, block) ==
    [w EXCEPT !.scopes = SubSeq(@, 1, Len(@) - 1),
              !.f = IF w.falls THEN ExpireLocals(@, LocalsOf(block)) ELSE @]
Statements(w, path, block) ==
    IF LabelsOf(block) = {} THEN InOrder(w, path, block, 1)
    ELSE Iterate(Enqueue(w, Len(w.scopes), 1, w.f, FALSE), path, block, <<>>)

BlockSafety(w, path, block) ==
    CloseScope(Statements(OpenScope(w, block), path, block), block)

(* StringStore and ViewCopyStore: bytes with or without a zero among them. *)
TextStore(w, path, n, terminated) ==
    [Diagnose(w, <<path, [op |-> "store", n |-> n]>>,
              BadAccess(w.f, StoreFact(w.f, n, 0, WordBytes), WordBytes))
        EXCEPT !.f = Recorded(NamedStore(@, n, 0, WordBytes), StoreKey(@, n, 0, WordBytes),
                              Unknown, Unknown, Known(terminated))]

PointerStore(w, path, a, e) ==
    [Check(Check(Diagnose(w, <<path, [op |-> "deref", a |-> a]>>,
                          BadAccess(w.f, AddressOf(w.f, a), WordBytes)), path, a), path, e)
        EXCEPT !.f = InvalidateOverlapping(@, RangeOf(AddressOf(@, a)))]

(* BindingRebind moves the name; no bytes are read or written. *)
Moved(w, n, e) ==
    [w EXCEPT !.f = [AssignedFacts(@, e) EXCEPT !.bind = Put(@, n, AssignedFact(w.f, e))]]
BindingRebind(w, path, n, e) == Moved(Check(w, path, e), n, e)

(* validateStaticCStringRead: a scan reads one byte at least. *)
CStringRead(w, path, n) ==
    LET fact == BindingAddressFact(w.f, n, 0, WordBytes)
        ended == Looked(w.f.term, ContentKey(RangeOf(fact), WordBytes))
    IN  Diagnose(w, <<path, [op |-> "puts", n |-> n]>>,
                 BadAccess(w.f, fact, 1) \/ ended = Known(FALSE))

(* validateStaticMemoryOperands of memset, and the bytes it overwrites. *)
Overwritten(w, path, a, k, fact) ==
    [Diagnose(w, <<path, [op |-> "memset", a |-> a]>>, BadAccess(w.f, fact, k))
        EXCEPT !.f = IF k = 0 THEN @ ELSE InvalidateOverlapping(@, RangeOf(fact))]
JudgeMemset(w, path, a, k) == Overwritten(w, path, a, k, AddressOf(w.f, a))
MemoryOperands(w, path, a, k) == JudgeMemset(Check(w, path, a), path, a, k)

(* Call of free: the argument is captured before it is judged and released. *)
JudgeFree(w, path, e, f, fact) ==
    [Diagnose(w, <<path, [op |-> "free", a |-> e]>>, BadRelease(f, fact))
        EXCEPT !.f = Released(f, fact)]
Capture(w, path, e) == JudgeFree(w, path, e, AssignedFacts(w.f, e), AssignedFact(w.f, e))
FreeCall(w, path, e) == Capture(Check(w, path, e), path, e)

(* Call of a function of the program, with no argument or an address. *)
Called(w, e, f) ==
    [w EXCEPT !.f = IF e.op = "none" THEN f
                    ELSE InvalidateOverlapping(f, RangeOf(AssignedFact(w.f, e)))]
CallOf(w, e) == Called(w, e, InvalidateGlobals(AssignedFacts(w.f, e), w.rebound))
UserCall(w, path, e) == CallOf(Check(w, path, e), e)

(* The statement kinds without control flow. *)
Simple(w, path, s) ==
    CASE s.op = "decl" -> [w EXCEPT !.f = Declared(@, s.n)]
      [] s.op = "store" ->
            IntegerStore(Check(w, path, s.e), path, s.n, s.at, WordBytes - s.at, s.e)
      [] s.op = "text" -> TextStore(w, path, s.n, s.t)
      [] s.op = "ptrstore" -> PointerStore(w, path, s.a, s.e)
      [] s.op = "rebind" -> BindingRebind(w, path, s.n, s.e)
      [] s.op = "puts" -> CStringRead(w, path, s.n)
      [] s.op = "memset" -> MemoryOperands(w, path, s.a, s.k)
      [] s.op = "free" -> FreeCall(w, path, s.e)
      [] s.op = "call" -> UserCall(w, path, s.e)
      [] OTHER -> w

(* The branches of an if, its condition analyzed with the truth t. *)
BothBranches(w, yes, path, s) ==
    JoinSides(yes, BlockSafety(SetFacts(yes, w.f), Append(path, 2), s.e))
Branches(w, t, path, s) ==
    CASE t = {TRUE} -> BlockSafety(w, Append(path, 1), s.t)
      [] t = {FALSE} -> BlockSafety(w, Append(path, 2), s.e)
      [] OTHER -> BothBranches(w, BlockSafety(w, Append(path, 1), s.t), path, s)
IfFrom(w, path, s) == Branches(w, Truth(w.f, s.c), path, s)
If(w, path, s) == IfFrom(Check(w, path, s.c), path, s)

(* Mutant: the way back to the top of a while is forgotten. *)
AfterLoop_WithoutWayBack(w, body, mayExit) ==
    LET left == body.loops[Len(body.loops)]
        exit0 == IF mayExit THEN <<w.f>> ELSE <<>>
    IN  IF left.brk = <<>> THEN exit0 ELSE Joined(exit0, left.brk[1])

(* The facts after a while: those before it if its condition may be false, those
   of each break, and the join of the former with each way back to the top. *)
AfterLoop(w, body, mayExit) ==
    LET left == body.loops[Len(body.loops)]
        again == IF body.falls THEN Joined(left.cont, body.f) ELSE left.cont
        exit0 == IF mayExit THEN <<w.f>> ELSE <<>>
        exit1 == IF left.brk = <<>> THEN exit0 ELSE Joined(exit0, left.brk[1])
    IN  IF mayExit /\ again # <<>> THEN Joined(exit1, MergedStates(w.f, again[1])) ELSE exit1

LeaveWhile(w, body, exit) ==
    Falling(SetFacts([body EXCEPT !.loops = SubSeq(@, 1, Len(@) - 1)],
                     IF exit = <<>> THEN w.f ELSE exit[1]))
WhileBody(w, body, t) == LeaveWhile(w, body, AfterLoop(w, body, t # {TRUE}))

(* While: the body is analyzed once, from the facts before the loop. *)
Loop(w) == [depth |-> Len(w.scopes), brk |-> <<>>, cont |-> <<>>]
WhileFrom(w, t, path, s) ==
    IF t = {FALSE} THEN Falling(w)
    ELSE WhileBody(w, BlockSafety([w EXCEPT !.loops = Append(@, Loop(w))],
                                  Append(path, 1), s.b), t)
WhileTested(w, path, s) == WhileFrom(w, Truth(w.f, s.c), path, s)
While(w, path, s) == WhileTested(Check(w, path, s.c), path, s)

(* For: no loop context of its own; a break or continue in it belongs to the
   enclosing while, if there is one. *)
ForPost(body, path, s) == IF body.falls THEN Simple(body, path, s.post) ELSE body
(* Mutant: after a for, the facts are those before it. *)
LeaveFor_AsBefore(w, post) == Falling(SetFacts(post, w.f))

LeaveFor(w, post) ==
    IF post.falls THEN SetFacts(post, MergedStates(w.f, post.f))
    ELSE Falling(SetFacts(post, w.f))
ForFrom(w, path, s) ==
    IF Truth(w.f, s.c) = {FALSE} THEN Falling(w)
    ELSE LeaveFor(w, ForPost(BlockSafety(w, Append(path, 1), s.b), path, s))
For(w, path, s) == ForFrom(Check(Simple(w, path, s.init), path, s.c), path, s)

Catch(w, try, path, s) ==
    JoinSides(try, BlockSafety(SetFacts(try, w.f), Append(path, 2), s.e))
TryCatch(w, path, s) == Catch(w, BlockSafety(w, Append(path, 1), s.t), path, s)

Visit(w, path, s) ==
    CASE s.op = "if" -> If(w, path, s)
      [] s.op = "while" -> While(w, path, s)
      [] s.op = "for" -> For(w, path, s)
      [] s.op = "try" -> TryCatch(w, path, s)
      [] s.op = "label" -> Stmt(w, Append(path, 1), s.s)
      [] s.op = "goto" -> NotFalling(EnqueueGoto(w, s.l))
      [] s.op = "break" -> NotFalling(LeaveLoop(w, "brk"))
      [] s.op = "continue" -> NotFalling(LeaveLoop(w, "cont"))
      [] s.op = "return" -> NotFalling(Check(w, path, s.e))
      [] s.op = "throw" -> NotFalling(w)
      [] OTHER -> Simple(w, path, s)

(* The facts with which a statement is visited are noted. *)
Stmt(w, path, s) ==
    IF w.fuel = 0 THEN NotFalling(w)
    ELSE Visit([w EXCEPT !.fuel = @ - 1, !.at = (path :> w.f) @@ @], path, s)

(* validateSafety of the unit: the initializer, then each function from the
   facts the initializer left. *)
EmptyWorld(u) == [f |-> NoFacts, diags |-> {}, scopes |-> <<>>, loops |-> <<>>,
                  at |-> [p \in {} |-> NoFacts], falls |-> TRUE, fuel |-> Fuel,
                  rebound |-> Rebound(u)]
FunctionSafety(w, baseline, fn, body) ==
    LET f == Restored(w.f, baseline)
        entry == [f EXCEPT !.bind = [n \in Names |->
                     IF n \in Globals \cap w.rebound THEN Unknown ELSE f.bind[n]]]
    IN  BlockSafety([w EXCEPT !.f = entry], <<fn>>, body)
Functions(w, u) == FunctionSafety(FunctionSafety(w, w.f, 2, u.main), w.f, 3, u.helper)
Judgement(w) == [at |-> w.at, diags |-> w.diags, ended |-> w.fuel > 0]
Analysis(u) == Judgement(Functions(BlockSafety(EmptyWorld(u), <<1>>, u.init), u))

(***************************************************************************)
(* The execution.  A value is an integer, the address of a byte of an      *)
(* object, a text with or without a terminating byte, or bytes nobody      *)
(* tells apart.  An address is stale once the lifetime it was taken in is  *)
(* over; failed says that an allocation has returned null.                 *)
(***************************************************************************)
Number(v) == [k |-> "int", v |-> v]
Text(t) == [k |-> "text", t |-> t]
Junk == [k |-> "junk"]
AddressValue(of) == [k |-> "addr", of |-> of, stale |-> FALSE, off |-> 0]
Own(n) == AddressValue(Binding(n))

ObjectSize(m, of) == IF of.kind = "binding" THEN WordBytes ELSE m.heap[of.id].size
ObjectLive(m, v) ==
    IF v.of.kind = "binding" THEN v.of.name \in m.live /\ ~v.stale
    ELSE m.heap[v.of.id].live
Accessible(m, v, length) ==
    /\ v.k = "addr"
    /\ ObjectLive(m, v)
    /\ v.off >= 0 /\ v.off + length <= ObjectSize(m, v.of)
Content(m, v) ==
    CASE v.off # 0 -> Junk
      [] v.off = 0 /\ v.of.kind = "binding" -> m.cell[v.of.name]
      [] OTHER -> m.heap[v.of.id].cell
(* length bytes at v become those of val. *)
Written(m, v, length, val) ==
    LET new == IF v.off = 0 /\ length = WordBytes THEN val ELSE Junk
    IN  IF v.of.kind = "binding" THEN [m EXCEPT !.cell[v.of.name] = new]
        ELSE [m EXCEPT !.heap[v.of.id].cell = new]
Shifted(v, k) == IF v.k = "addr" THEN [v EXCEPT !.off = @ + k]
                 ELSE IF v.k = "int" THEN Number(v.v + k) ELSE Junk
IsTrue(v, c) == v # Number(0) /\ (v.k = "junk" => c # 0)

Releasable(m, v) ==
    \/ v = Number(0)
    \/ v.k = "addr" /\ v.of.kind = "dynamic" /\ v.off = 0 /\ m.heap[v.of.id].live
Free(m, v) == IF v.k = "addr" THEN [m EXCEPT !.heap[v.of.id].live = FALSE] ELSE m
MayAllocate(m, c) == c # 0 /\ Len(m.heap) < MaxHeap
NewObject(m, k) ==
    [m EXCEPT !.heap = Append(@, [size |-> k, live |-> TRUE, cell |-> Junk])]
NewAddress(m) == AddressValue(Dynamic(Len(m.heap) + 1))

Outcome(ok, m, v, seen) == [ok |-> ok, m |-> m, v |-> v, seen |-> seen]
Failed(m, seen) == Outcome(FALSE, m, Junk, seen)

(* The evaluation of an expression; seen collects the ones that ended well. *)
RECURSIVE Eval(_, _, _)
Eval(m, e, c) ==
    CASE e.op = "none" -> Outcome(TRUE, m, Number(0), {})
      [] e.op = "lit" -> Outcome(TRUE, m, Number(e.v), {})
      [] e.op = "input" -> Outcome(TRUE, m, Number(c % 2), {})
      [] e.op = "addr" -> Outcome(TRUE, m, m.loc[e.n], {})
      [] e.op = "var" ->
            IF Accessible(m, m.loc[e.n], WordBytes)
            THEN Outcome(TRUE, m, Content(m, m.loc[e.n]), {e}) ELSE Failed(m, {})
      [] e.op = "deref" ->
            LET a == Eval(m, e.a, c)
            IN  IF a.ok /\ Accessible(a.m, a.v, WordBytes)
                THEN Outcome(TRUE, a.m, Content(a.m, a.v), a.seen \cup {e})
                ELSE Failed(a.m, a.seen)
      [] e.op = "add" ->
            LET a == Eval(m, e.a, c) IN [a EXCEPT !.v = Shifted(@, e.k)]
      [] e.op = "div" ->
            LET l == Eval(m, e.l, c)
                r == Eval(l.m, e.r, c)
            IN  IF l.ok /\ r.ok /\ IsTrue(r.v, c)
                THEN Outcome(TRUE, r.m, Junk, l.seen \cup r.seen \cup {e})
                ELSE Failed(l.m, l.seen)
      [] e.op = "alloc" ->
            IF MayAllocate(m, c) THEN Outcome(TRUE, NewObject(m, e.k), NewAddress(m), {})
            ELSE Outcome(TRUE, [m EXCEPT !.failed = TRUE], Number(0), {})
      [] e.op = "realloc" ->
            LET p == Eval(m, e.p, c)
                freed == Free(p.m, p.v)
                seen == p.seen \cup {e}
                moves == e.k # 0 /\ MayAllocate(p.m, c)
                refused == e.k # 0 /\ ~MayAllocate(p.m, c)
            IN  IF ~(p.ok /\ Releasable(p.m, p.v)) THEN Failed(p.m, p.seen)
                ELSE Outcome(TRUE,
                             IF refused THEN p.m
                             ELSE IF moves THEN NewObject(freed, e.k) ELSE freed,
                             IF moves THEN NewAddress(freed) ELSE Number(0), seen)
      [] e.op = "asg" ->
            LET r == Eval(m, e.e, c)
                ok == r.ok /\ Accessible(r.m, r.m.loc[e.n], WordBytes)
            IN  IF ok THEN Outcome(TRUE, Written(r.m, r.m.loc[e.n], WordBytes, r.v), r.v,
                                   r.seen \cup {[op |-> "store", n |-> e.n],
                                                [op |-> "var", n |-> e.n]})
                ELSE Failed(r.m, r.seen)
      [] e.op \in {"and", "or"} ->
            LET l == Eval(m, e.l, c)
                r == Eval(l.m, e.r, c)
            IN  IF l.ok /\ IsTrue(l.v, c) = (e.op = "and")
                THEN [r EXCEPT !.seen = @ \cup l.seen] ELSE l
      [] e.op = "cond" ->
            LET t == Eval(m, e.c, c)
                r == Eval(t.m, IF IsTrue(t.v, c) THEN e.t ELSE e.e, c)
            IN  IF t.ok THEN [r EXCEPT !.seen = @ \cup t.seen] ELSE t

(* A statement without control flow. *)
Exec(m, s, c) ==
    CASE s.op = "decl" ->
            Outcome(TRUE, [m EXCEPT !.live = @ \cup {s.n}, !.cell[s.n] = Junk,
                                    !.loc[s.n] = Own(s.n)], Junk, {})
      [] s.op = "store" ->
            LET r == Eval(m, s.e, c)
                to == Shifted(r.m.loc[s.n], s.at)
                length == WordBytes - s.at
            IN  IF r.ok /\ Accessible(r.m, to, length)
                THEN Outcome(TRUE, Written(r.m, to, length, r.v), Junk,
                             r.seen \cup {[op |-> "store", n |-> s.n]})
                ELSE Failed(r.m, r.seen)
      [] s.op = "text" ->
            IF Accessible(m, m.loc[s.n], WordBytes)
            THEN Outcome(TRUE, Written(m, m.loc[s.n], WordBytes, Text(s.t)), Junk,
                         {[op |-> "store", n |-> s.n]})
            ELSE Failed(m, {})
      [] s.op = "ptrstore" ->
            LET a == Eval(m, s.a, c)
                r == Eval(a.m, s.e, c)
            IN  IF a.ok /\ r.ok /\ Accessible(r.m, a.v, WordBytes)
                THEN Outcome(TRUE, Written(r.m, a.v, WordBytes, r.v), Junk,
                             a.seen \cup r.seen \cup {[op |-> "deref", a |-> s.a]})
                ELSE Failed(a.m, a.seen)
      [] s.op = "rebind" ->
            LET r == Eval(m, s.e, c)
            IN  IF r.ok THEN [r EXCEPT !.m.loc[s.n] = r.v] ELSE r
      [] s.op = "puts" ->
            LET at == m.loc[s.n]
            IN  IF /\ Accessible(m, at, 1)
                   /\ Content(m, at) # Text(FALSE)
                THEN Outcome(TRUE, m, Junk, {[op |-> "puts", n |-> s.n]})
                ELSE Failed(m, {})
      [] s.op = "memset" ->
            LET a == Eval(m, s.a, c)
                seen == a.seen \cup {[op |-> "memset", a |-> s.a]}
            IN  CASE a.ok /\ s.k = 0 -> Outcome(TRUE, a.m, Junk, seen)
                  [] a.ok /\ s.k # 0 /\ Accessible(a.m, a.v, s.k) ->
                        Outcome(TRUE, Written(a.m, a.v, s.k, Junk), Junk, seen)
                  [] OTHER -> Failed(a.m, a.seen)
      [] s.op = "free" ->
            LET a == Eval(m, s.e, c)
            IN  IF a.ok /\ Releasable(a.m, a.v)
                THEN Outcome(TRUE, Free(a.m, a.v), Junk,
                             a.seen \cup {[op |-> "free", a |-> s.e]})
                ELSE Failed(a.m, a.seen)
      [] OTHER -> Eval(m, s.e, c)

(***************************************************************************)
(* Control: a stack of frames, the innermost last.  A frame runs a block   *)
(* for its kind of construct; ph says how far the statement at i is: 0 not *)
(* begun, 1 at the test of a for, 2 at its post statement.                 *)
(***************************************************************************)
DeclaredIn(block) == {block[i].n : i \in {j \in DOMAIN block : block[j].op = "decl"}}
Frame(path, block, kind) ==
    [path |-> path, block |-> block, i |-> 1, ph |-> 0, kind |-> kind,
     locals |-> DeclaredIn(block)
                \cup IF kind = "call" /\ path = <<3>> THEN {Parameter} ELSE {}]

Top == ctl[Len(ctl)]
Running == status = "running" /\ ctl # <<>>
InBlock == Running /\ Top.i <= Len(Top.block)
(* The statement a frame is at, a label seen through, and its path. *)
StatementOf(f) == LET s == f.block[f.i] IN IF s.op = "label" THEN s.s ELSE s
PathOf(f) == IF f.block[f.i].op = "label" THEN <<f.i, 1>> ELSE <<f.i>>
Current == StatementOf(Top)
CurrentPath == Top.path \o PathOf(Top)

(* The frames below depth d, with the lifetimes of the others' locals over. *)
LocalsAbove(d) == UNION {ctl[j].locals : j \in (d + 1)..Len(ctl)}
Ended(m, names) ==
    LET After(v) == IF v.k = "addr" /\ v.of \in {Binding(n) : n \in names}
                    THEN [v EXCEPT !.stale = TRUE] ELSE v
    IN  [m EXCEPT !.live = @ \ names,
                  !.cell = [n \in Names |-> After(m.cell[n])],
                  !.loc = [n \in Names |-> After(m.loc[n])],
                  !.heap = [id \in DOMAIN m.heap |->
                               [m.heap[id] EXCEPT !.cell = After(@)]]]

(* The frames up to d, the statement of the last one done. *)
Advanced(frames, d) ==
    [SubSeq(frames, 1, d) EXCEPT ![d].i = @ + 1, ![d].ph = 0]
AtPhase(frames, d, ph) == [SubSeq(frames, 1, d) EXCEPT ![d].ph = ph]

(* The end of a block. *)
Finish ==
    /\ Running
    /\ Top.i > Len(Top.block)
    /\ LET d == Len(ctl) - 1
       IN  /\ mem' = Ended(mem, Top.locals)
           /\ ctl' = CASE Top.kind = "while" -> AtPhase(ctl, d, 0)
                       [] Top.kind = "for" -> AtPhase(ctl, d, 2)
                       [] Top.kind \in {"init", "main"} -> SubSeq(ctl, 1, d)
                       [] OTHER -> Advanced(ctl, d)
    /\ UNCHANGED <<unit, an, status, passed>>

(* What an evaluation at the current statement leaves: its memory, or the end
   of the run at the first error. *)
Note(o) == passed' = passed \cup {<<CurrentPath, e>> : e \in o.seen}
Leave(o, frames) ==
    /\ Note(o)
    /\ IF o.ok THEN mem' = o.m /\ ctl' = frames /\ UNCHANGED status
       ELSE status' = "error" /\ UNCHANGED <<mem, ctl>>
    /\ UNCHANGED <<unit, an>>

SimpleOps == {"decl", "store", "text", "ptrstore", "rebind", "puts", "memset", "free"}
SimpleStep(c) ==
    /\ InBlock
    /\ Current.op \in SimpleOps
    /\ Leave(Exec(mem, Current, c), Advanced(ctl, Len(ctl)))

(* A branch opens the block it takes. *)
OpenBlock(which, block, kind) ==
    Append(ctl, Frame(Append(CurrentPath, which), block, kind))
BranchStep(c) ==
    /\ InBlock
    /\ Current.op = "if"
    /\ LET o == Eval(mem, Current.c, c)
       IN  Leave(o, IF IsTrue(o.v, c) THEN OpenBlock(1, Current.t, "branch")
                    ELSE OpenBlock(2, Current.e, "branch"))

WhileStep(c) ==
    /\ InBlock
    /\ Current.op = "while"
    /\ LET o == Eval(mem, Current.c, c)
       IN  Leave(o, IF IsTrue(o.v, c) THEN OpenBlock(1, Current.b, "while")
                    ELSE Advanced(ctl, Len(ctl)))

ForStep(c) ==
    /\ InBlock
    /\ Current.op = "for"
    /\ LET o == CASE Top.ph = 0 -> Exec(mem, Current.init, c)
                  [] Top.ph = 1 -> Eval(mem, Current.c, c)
                  [] Top.ph = 2 -> Exec(mem, Current.post, c)
       IN  Leave(o, CASE Top.ph # 1 -> AtPhase(ctl, Len(ctl), 1)
                      [] Top.ph = 1 /\ IsTrue(o.v, c) -> OpenBlock(1, Current.b, "for")
                      [] OTHER -> Advanced(ctl, Len(ctl)))

TryStep ==
    /\ InBlock
    /\ Current.op = "try"
    /\ ctl' = OpenBlock(1, Current.t, "try")
    /\ UNCHANGED <<unit, an, mem, status, passed>>

(* A call of helper binds the parameter and opens its body. *)
CallStep(c) ==
    /\ InBlock
    /\ Current.op = "call"
    /\ LET o == Eval(mem, Current.e, c)
       IN  Leave([o EXCEPT !.m.cell[Parameter] = o.v, !.m.live = @ \cup {Parameter},
                           !.m.loc[Parameter] = Own(Parameter)],
                 Append(ctl, Frame(<<3>>, unit.helper, "call")))

(* A jump leaves every frame above the depth it goes to. *)
Deepest(ds) == IF ds = {} THEN 0 ELSE CHOOSE d \in ds : \A x \in ds : x <= d
FunctionDepth == Deepest({d \in DOMAIN ctl : ctl[d].kind \in {"call", "main", "init"}})
JumpTo(d, frames) ==
    /\ mem' = Ended(mem, LocalsAbove(d))
    /\ ctl' = frames
    /\ UNCHANGED <<unit, an, status, passed>>

LabelAt(block, l) == {i \in DOMAIN block : block[i].op = "label" /\ block[i].l = l}
GotoStep ==
    /\ InBlock
    /\ Current.op = "goto"
    /\ LET d == Deepest({x \in FunctionDepth..Len(ctl) :
                            LabelAt(ctl[x].block, Current.l) # {}})
       IN  JumpTo(d, [SubSeq(ctl, 1, d) EXCEPT
                         ![d].i = CHOOSE i \in LabelAt(ctl[d].block, Current.l) : TRUE,
                         ![d].ph = 0])

LoopStep ==
    /\ InBlock
    /\ Current.op \in {"break", "continue"}
    /\ LET d == Deepest({x \in DOMAIN ctl : ctl[x].kind \in {"while", "for"}}) - 1
       IN  JumpTo(d, CASE Current.op = "break" -> Advanced(ctl, d)
                       [] Current.op = "continue" /\ ctl[d + 1].kind = "for" ->
                            AtPhase(ctl, d, 2)
                       [] OTHER -> AtPhase(ctl, d, 0))

ReturnStep(c) ==
    /\ InBlock
    /\ Current.op = "return"
    /\ LET o == Eval(mem, Current.e, c)
           d == FunctionDepth - 1
       IN  Leave([o EXCEPT !.m = Ended(@, LocalsAbove(d))],
                 IF ctl[d + 1].kind = "call" THEN Advanced(ctl, d) ELSE SubSeq(ctl, 1, d))

(* A throw goes to the catch of the innermost open try; without one it ends
   the run. *)
ThrowStep ==
    /\ InBlock
    /\ Current.op = "throw"
    /\ LET d == Deepest({x \in DOMAIN ctl : ctl[x].kind = "try"}) - 1
       IN  IF d < 0 THEN JumpTo(0, <<>>)
           ELSE JumpTo(d, Append(SubSeq(ctl, 1, d),
                   Frame(ctl[d].path \o PathOf(ctl[d]) \o <<2>>,
                         StatementOf(ctl[d]).e, "branch")))

Init ==
    /\ unit \in Units
    /\ an = Analysis(unit)
    /\ ctl = <<Frame(<<2>>, unit.main, "main"), Frame(<<1>>, unit.init, "init")>>
    /\ mem = [cell |-> [n \in Names |-> IF n \in Globals THEN Number(0) ELSE Junk],
              loc |-> [n \in Names |-> Own(n)],
              live |-> Globals, heap |-> <<>>, failed |-> FALSE]
    /\ status = "running"
    /\ passed = {}

Next ==
    \/ Finish
    \/ \E c \in Choices : \/ SimpleStep(c) \/ BranchStep(c) \/ WhileStep(c)
                          \/ ForStep(c) \/ CallStep(c) \/ ReturnStep(c)
    \/ TryStep \/ GotoStep \/ LoopStep \/ ThrowStep

Spec == Init /\ [][Next]_vars

(***************************************************************************)
(* Properties.                                                             *)
(***************************************************************************)
AddressHolds(f, a, v) ==
    LET located == a.range # NoRange /\ v.k = "addr"
    IN  CASE a.origin = "null" -> v.k = "int"
          [] a.origin \in {"object", "expired"} ->
                /\ v.k = "addr"
                /\ located => v.of = a.range[1].of /\ v.off = a.range[1].offset
                /\ ObjectLive(mem, v) = (a.origin = "object")
          [] a.origin = "dynamic" ->
                \/ v.k = "int"
                \/ /\ v.k = "addr" /\ v.of.kind = "dynamic"
                   /\ located => /\ v.off = a.range[1].offset
                                 /\ ObjectSize(mem, v.of) = a.range[1].upper
                   /\ a.base => v.off = 0
                   /\ (a.id \in DOMAIN f.dyn /\ f.dyn[a.id] = "freed")
                          => ~ObjectLive(mem, v)

(* The facts of the names the running function can use. *)
FactsHold(f, names) ==
    \A n \in names :
        /\ IsKnown(f.val[n]) => mem.cell[n] = Number(f.val[n].v)
        /\ IsKnown(f.addr[n]) => AddressHolds(f, f.addr[n].v, mem.cell[n])
        /\ IsKnown(f.term[n]) => mem.cell[n] = Text(f.term[n].v)
        /\ f.bind[n] = Absent => mem.loc[n] = Own(n)
        /\ IsKnown(f.bind[n]) => AddressHolds(f, f.bind[n].v, mem.loc[n])

NamesInUse == Globals \cup (mem.live \cap
                 UNION {ctl[d].locals : d \in FunctionDepth..Len(ctl)})

(* The names that the statements of a block and of its branches store to. *)
StoredBy(block) ==
    LET inside == UNION {Range(block[i].t) \cup Range(block[i].e) :
                           i \in {j \in DOMAIN block : block[j].op = "if"}}
    IN  {s.n : s \in {t \in Range(block) \cup inside : t.op = "store"}}

(* A loop is analyzed as it is entered: what was known of a name that it stores to
   is a fact of its first turn, and is not asked of the others. *)
FirstTurnOnly ==
    LET At(d) == StatementOf(ctl[d])
        loops == {d \in FunctionDepth..Len(ctl) : At(d).op \in {"while", "for"}}
        Stores(d) == StoredBy(At(d).b)
                     \cup IF At(d).op = "for" THEN StoredBy(<<At(d).post>>) ELSE {}
        KnownBefore(d, n) ==
            LET f == an.at[Append(ctl[d].path, ctl[d].i)]
            IN  IsKnown(f.val[n]) \/ IsKnown(f.addr[n]) \/ IsKnown(f.term[n])
    IN  UNION {{n \in Stores(d) : KnownBefore(d, n)} : d \in loops}

(* Every statement an execution begins was reached by the analysis, and the
   facts with which the analyzer last visited it hold of the memory: joins at
   branches, loops and labels, scope exits, rebinding, releases and calls of
   functions forget all that may have changed. *)
EntryFactsHold ==
    InBlock /\ Top.ph = 0 =>
        LET p == Append(Top.path, Top.i)
        IN  p \in DOMAIN an.at /\ FactsHold(an.at[p], NamesInUse \ FirstTurnOnly)

(* A block with labels is revisited while its entry states shrink, and what a
   first visit rejected stays rejected. *)
Labelled == \E i \in DOMAIN unit.main : unit.main[i].op = "label"

(* The analyzer's diagnostics are errors: no execution of a main without labels
   evaluates, without a runtime error, an expression that the analyzer has
   rejected (StaticSafetyValidation.cpp, addDiagnostic).  The analyzer takes an
   allocation to succeed: a run in which one failed is not judged. *)
AlarmsAreErrors == ~mem.failed /\ ~Labelled => passed \cap an.diags = {}

(* The fixed point over a block with labels is reached: the analysis of every
   unit ends within Fuel visits of statements. *)
AnalysisEnds == an.ended
=============================================================================
