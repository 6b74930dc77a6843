--------------------------- MODULE MCCheckedCode ---------------------------
(***************************************************************************)
(* Programs with automatic storage only.  `part' is the bound on them:     *)
(*   "scopes"   one active function, nested up to MaxDepth, whose gotos    *)
(*              only leave blocks;                                         *)
(*   "jumps"    several active functions, nested up to JumpDepth, with     *)
(*              locals in JumpStorage and every goto the compiler accepts. *)
(***************************************************************************)
EXTENDS CheckedCode

CONSTANTS Parts, JumpDepth, JumpStorage

VARIABLE part

NoStatics == {}

ASSUME PartsAssumption == Parts \subseteq {"scopes", "jumps"}

Around(p, q) == Len(p) <= Len(q) /\ Prefix(q, Len(p)) = p

\* A goto into a block that control was not in.
Strays ==
    /\ code # << >> /\ Len(code') = Depth
    /\ Top.pc = "stmt" /\ code'[Depth].pc = "stmt"
    /\ ~Around(code'[Depth].path, Top.path) /\ ~Around(Top.path, code'[Depth].path)

ScopesStep == part = "scopes" /\ CodeNext /\ Len(code') <= 1 /\ ~Strays /\ UNCHANGED part

JumpsStep ==
    /\ part = "jumps" /\ CodeNext /\ UNCHANGED part
    /\ \A f \in DOMAIN code' :
          /\ Len(code'[f].path) <= JumpDepth
          /\ \A k \in DOMAIN code'[f].locals : code'[f].locals[k] \in JumpStorage

MCInit == part \in Parts /\ CodeInit
MCNext == ScopesStep \/ JumpsStep

MCSpec == MCInit /\ [][MCNext]_<<codeVars, part>>

-----------------------------------------------------------------------------

\* What is registered is what control is in, for gotos to a label in a block
\* around them.  Standard.md:436: "When `return`, `throw`, `break`, `continue`,
\* or `goto` leaves a block scope, already-created local `new` objects are
\* released according to the ordinary scope rules" (emitRuntimeScopeExitTo); and
\* while control is in a try or its catch block, the error storage that a throw
\* writes and the handler reads is registered (emit(TryCatch)).
RegisteredWhatIsOpen == part = "scopes" => LocalsOfOpenBlocks /\ ErrorStorageLive
=============================================================================
