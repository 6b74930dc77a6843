---------------------------- MODULE CheckedCode ----------------------------
(***************************************************************************)
(* The code that the LLVM emitter generates in checked mode for blocks,    *)
(* loops, try/catch, goto and return, running on the object registry.  The *)
(* emitter tracks the scope depth at compile time (runtimeScopeDepth_) and *)
(* emits hs_scope_enter, hs_scope_exit and hs_scope_exit_to calls that     *)
(* must keep the runtime's depth equal to it on every path.                *)
(*                                                                         *)
(* Where control is in a function is the path of the constructs around it, *)
(* one element per emitted scope; any program is a part of the tree of all *)
(* paths, and a run of it a walk through that tree, so the module covers   *)
(* every program up to MaxDepth.  A function runs in an activation that    *)
(* holds the path, what is executed next, and the storage that the entry   *)
(* block has set aside for the locals declared so far.                     *)
(***************************************************************************)
EXTENDS ObjectRegistry

CONSTANTS
    MaxDepth,      \* bound on the nesting of a program
    Ids            \* names of the constructs of one block

\* One byte stands for the storage of a local.
ASSUME CodeAssumption == MaxDepth \in Nat \ {0} /\ 1 \in Sizes

VARIABLE code      \* the activations, the outermost function first

codeVars == <<hs_allocs, hs_current_frame, hs_frame_scopes, blocks, status, code>>

Body == [kind |-> "body", id |-> 0]
ForBody == [kind |-> "forbody", id |-> 0]

\* If branches, while bodies, for headers (their own scope, which holds the
\* initializer's locals), try blocks and catch blocks.
Construct == [kind : {"branch", "while", "for", "try", "catch"}, id : Ids]

WellFormed(p) ==
    /\ p[1] = Body
    /\ \A i \in 2 .. Len(p) : IF p[i - 1].kind = "for" THEN p[i] = ForBody
                                                       ELSE p[i] \in Construct

Paths == {p \in UNION {[1 .. n -> {Body, ForBody} \cup Construct] : n \in 1 .. MaxDepth} :
            WellFormed(p)}

Prefix(p, n) == SubSeq(p, 1, n)

\* Where a label can stand: in a block, not in a for header.
LabelPaths == {p \in Paths : p[Len(p)].kind # "for"}

\* runtimeScopeDepth_ while the emitter is at a path: emit(Block) and emit(For)
\* add one for the scope they open.
runtimeScopeDepth(p) == Len(p)

\* Mutant: the body of a for counts as one scope.
labelScopeDepth_ForIsOneScope(p) ==
    Len(p) - (IF \E i \in 1 .. Len(p) : p[i].kind = "forbody" THEN 1 ELSE 0)

\* The depth collectLabels records for a label: one for the function body, one
\* for each block, two for the body of a for.
labelScopeDepth(p) == Len(p)

Depth == Len(code)
Top == code[Depth]

Goes(path, pc) ==
    code' = [code EXCEPT ![Depth] = [path |-> path, pc |-> pc, locals |-> Top.locals]]

At(pcs) == code # << >> /\ Top.pc \in pcs

CodeInit == Init /\ code = << >>

-----------------------------------------------------------------------------
(* Functions.                                                              *)

\* A call, from any statement, initializer or for step; with no activation the
\* C startup calls the global initializer or main.
Call ==
    /\ code = << >> \/ At({"stmt", "init", "post"})
    /\ hs_frame_enter
    /\ code' = Append(code, [path |-> << >>, pc |-> "params", locals |-> << >>])

\* The storage of a declaration: fixed for the activation, apart from that of
\* every other local of the active functions.
StorageOf(key) ==
    IF key \in DOMAIN Top.locals
      THEN {Top.locals[key]}
      ELSE StackAddr \ UNION {{code[f].locals[k] : k \in DOMAIN code[f].locals} : f \in 1 .. Depth}

RegisterAs(key, path, pc) ==
    \E p \in StorageOf(key) :
       /\ hs_register_local(p, 1)
       /\ code' = [code EXCEPT ![Depth] =
                     [path |-> path, pc |-> pc,
                      locals |-> [k \in DOMAIN Top.locals \cup {key} |->
                                    IF k = key THEN p ELSE Top.locals[k]]]]

\* A parameter, a local of the current block, or a local of a for initializer.
Declare ==
    /\ At({"params", "stmt", "init"})
    /\ RegisterAs(Top.path, Top.path, Top.pc)

EnterFunctionBody ==
    /\ At({"params"})
    /\ hs_scope_enter
    /\ Goes(<<Body>>, "stmt")

\* emitRuntimeFrameExit: leave every scope, then the frame.  After the end of
\* the body the compile-time depth is 0 and only the frame is left.
Return ==
    /\ At({"stmt"})
    /\ hs_scope_exit_to(0)
    /\ Goes(<< >>, "return")

FrameExit ==
    /\ At({"return"})
    /\ hs_frame_exit
    /\ code' = Prefix(code, Depth - 1)

-----------------------------------------------------------------------------
(* Blocks and loops.                                                       *)

\* The then or else block of an if, or the body of a while.
EnterBlock ==
    /\ At({"stmt"})
    /\ Len(Top.path) < MaxDepth
    /\ \E b \in [kind : {"branch", "while"}, id : Ids] :
          hs_scope_enter /\ Goes(Append(Top.path, b), "stmt")

\* Mutant: the body of a for falls through to the code after the header.
BlockEnd_SkipsStep ==
    /\ At({"stmt"})
    /\ hs_scope_exit
    /\ Goes(Prefix(Top.path, Len(Top.path) - 1),
            IF Top.path[Len(Top.path)].kind = "body" THEN "return" ELSE "stmt")

\* The end of a block.  A while tests its condition again in the block around
\* it, the body of a for continues with the step.
BlockEnd ==
    /\ At({"stmt"})
    /\ hs_scope_exit
    /\ LET kind == Top.path[Len(Top.path)].kind IN
       Goes(Prefix(Top.path, Len(Top.path) - 1),
            CASE kind = "body" -> "return" [] kind = "forbody" -> "post" [] OTHER -> "stmt")

EnterFor ==
    /\ At({"stmt"})
    /\ Len(Top.path) + 1 < MaxDepth
    /\ \E id \in Ids :
          hs_scope_enter /\ Goes(Append(Top.path, [kind |-> "for", id |-> id]), "init")

\* The condition holds, after the initializer or after a step.
EnterForBody ==
    /\ At({"init", "post"})
    /\ hs_scope_enter
    /\ Goes(Append(Top.path, ForBody), "stmt")

\* for.end, reached when the condition fails or from a break.
LeaveFor ==
    /\ At({"init", "post", "after"})
    /\ hs_scope_exit
    /\ Goes(Prefix(Top.path, Len(Top.path) - 1), "stmt")

Loops == {i \in 1 .. Len(Top.path) : Top.path[i].kind \in {"while", "for"}}

IsInnermost(i, positions) == i \in positions /\ \A j \in positions : j <= i

\* Mutant: leaving a single scope emits nothing.
emitRuntimeScopeExitTo_OffByOne(target) ==
    IF runtimeScopeDepth(Top.path) > target + 1
      THEN hs_scope_exit_to(target)
      ELSE status = "running" /\ UNCHANGED vars

\* emitRuntimeScopeExitTo emits nothing when no scope is left.
emitRuntimeScopeExitTo(target) ==
    IF runtimeScopeDepth(Top.path) > target THEN hs_scope_exit_to(target)
                                            ELSE status = "running" /\ UNCHANGED vars

\* Mutant: break and continue also leave the scope of a for header.
LeaveLoop_LeavesHeader(header) ==
    /\ At({"stmt"})
    /\ \E i \in Loops :
          /\ IsInnermost(i, Loops)
          /\ emitRuntimeScopeExitTo(i - 1)
          /\ IF Top.path[i].kind = "while" THEN Goes(Prefix(Top.path, i - 1), "stmt")
                                           ELSE Goes(Prefix(Top.path, i), header)

\* break and continue return to the loop's block, or to the header of a for.
LeaveLoop(header) ==
    /\ At({"stmt"})
    /\ \E i \in Loops :
          /\ IsInnermost(i, Loops)
          /\ LET target == IF Top.path[i].kind = "while" THEN i - 1 ELSE i IN
             /\ emitRuntimeScopeExitTo(target)
             /\ Goes(Prefix(Top.path, target),
                     IF Top.path[i].kind = "while" THEN "stmt" ELSE header)

emitBreak == LeaveLoop("after")

emitContinue == LeaveLoop("post")

-----------------------------------------------------------------------------
(* goto.                                                                   *)

\* Accepted by the analyzer and by the emitter when the label is not deeper.
GotoAccepted(label) == labelScopeDepth(label) <= runtimeScopeDepth(Top.path)

Goto ==
    /\ At({"stmt"})
    /\ \E label \in LabelPaths :
          /\ GotoAccepted(label)
          /\ emitRuntimeScopeExitTo(labelScopeDepth(label))
          /\ Goes(label, "stmt")

-----------------------------------------------------------------------------
(* try, catch and throw.                                                   *)

\* The error storage of a try is registered in the block around it.
ErrorKey(try) ==
    Append(Prefix(try, Len(try) - 1), [kind |-> "error", id |-> try[Len(try)].id])

\* Mutant: the error storage is not registered.
BeginTry_Unregistered ==
    /\ At({"stmt"})
    /\ Len(Top.path) < MaxDepth
    /\ \E id \in Ids : Goes(Append(Top.path, [kind |-> "try", id |-> id]), "enter")
    /\ status = "running"
    /\ UNCHANGED vars

BeginTry ==
    /\ At({"stmt"})
    /\ Len(Top.path) < MaxDepth
    /\ \E id \in Ids : LET try == Append(Top.path, [kind |-> "try", id |-> id]) IN
          RegisterAs(ErrorKey(try), try, "enter")

EnterTryOrCatch ==
    /\ At({"enter"})
    /\ hs_scope_enter
    /\ Goes(Top.path, "stmt")

Tries == {i \in 1 .. Len(Top.path) : Top.path[i].kind = "try"}

\* A throw stores its value in the error storage of the innermost try of the
\* function and jumps to the catch block.
Throw ==
    /\ At({"stmt"})
    /\ \E i \in Tries :
          /\ IsInnermost(i, Tries)
          /\ emitRuntimeScopeExitTo(i - 1)
          /\ Goes(Append(Prefix(Top.path, i - 1),
                         [kind |-> "catch", id |-> Top.path[i].id]), "enter")

\* A throw that no try of the function catches ends the process.
ThrowUncaught ==
    /\ At({"stmt"})
    /\ Tries = {}
    /\ emitRuntimeScopeExitTo(0)
    /\ Goes(<< >>, "exit")

Ended == (status # "running" \/ At({"exit"})) /\ UNCHANGED codeVars

CodeNext ==
    \/ Call \/ Declare \/ EnterFunctionBody \/ Return \/ FrameExit
    \/ EnterBlock \/ BlockEnd \/ EnterFor \/ EnterForBody \/ LeaveFor
    \/ emitBreak \/ emitContinue \/ Goto
    \/ BeginTry \/ EnterTryOrCatch \/ Throw \/ ThrowUncaught
    \/ Ended

CodeSpec == CodeInit /\ [][CodeNext]_codeVars

-----------------------------------------------------------------------------
(* Properties.                                                             *)

\* The block that declares the local with this key.
BlockOf(key) ==
    IF key # << >> /\ key[Len(key)].kind = "error" THEN Prefix(key, Len(key) - 1) ELSE key

PCs == {"params", "stmt", "init", "post", "after", "enter", "return", "exit"}

\* Type invariant of the activations: their paths are those of a program, and
\* control is in a for header exactly between its initializer and its end.
CodeTypeOK ==
    \A f \in 1 .. Depth :
        /\ code[f].path \in Paths \cup {<< >>}
        /\ code[f].pc \in PCs
        /\ code[f].pc \in {"init", "post", "after"} <=>
              code[f].path # << >> /\ code[f].path[Len(code[f].path)].kind = "for"
        /\ \A k \in DOMAIN code[f].locals :
              BlockOf(k) \in Paths \cup {<< >>} /\ code[f].locals[k] \in StackAddr

\* Scopes the runtime has open for an activation: a try or catch block that
\* control has reached is opened by the next call.
OpenScopes(a) == Len(a.path) - (IF a.pc = "enter" THEN 1 ELSE 0)

\* On every path through the generated code, break, continue, goto, throw and
\* return included, the runtime's scope depth of each active function is the
\* depth the emitter assumed when it generated the code there.
CompiledDepthIsRuntimeDepth ==
    status = "running" =>
        /\ Depth = hs_current_frame
        /\ \A f \in 1 .. Depth : hs_frame_scopes[f] = OpenScopes(code[f])

\* Generated code never makes a frame or scope call that the runtime rejects
\* as inconsistent; only the limits of the registry can stop it.
NoInconsistentCall ==
    status \notin {"runtime frame underflow", "runtime scope underflow",
                   "invalid runtime scope exit", "scope entered outside a runtime frame",
                   "local object registered outside a runtime frame",
                   "conflicting object registration"}

\* What the emitter counts and what the runtime counts never part: the depths
\* are equal on every path, so that no frame or scope call is inconsistent
\* (emitRuntimeScopeExitTo, collectLabels against hs_scope_exit_to).
DepthsAgree == CompiledDepthIsRuntimeDepth /\ NoInconsistentCall

\* Standard.md:436: "When `return`, `throw`, `break`, `continue`, or `goto`
\* leaves a block scope, already-created local `new` objects are released
\* according to the ordinary scope rules."  Every registered local belongs to
\* a block that control is in, or is the error storage of a try in one.
LocalsOfOpenBlocks ==
    status = "running" =>
        \A i \in Slots : IsAuto(i) =>
            LET a == code[hs_allocs[i].frame] IN
            \E k \in DOMAIN a.locals :
                /\ a.locals[k] = hs_allocs[i].ptr
                /\ BlockOf(k) \in {Prefix(a.path, n) : n \in 0 .. Len(a.path)}

\* In a try block and in its catch block, the error storage that a throw
\* writes and the handler reads is registered, in full.
ErrorStorageLive ==
    status = "running" /\ At({"stmt"}) =>
        \A i \in 1 .. Len(Top.path) : Top.path[i].kind \in {"try", "catch"} =>
            LET key == ErrorKey(Prefix(Top.path, i)) IN
            key \in DOMAIN Top.locals /\ CheckAccepts(Top.locals[key], 1)
=============================================================================
