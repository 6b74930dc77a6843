------------------------- MODULE CheckedCodeProofs -------------------------
(***************************************************************************)
(* The generated code and the runtime never disagree, for programs of any  *)
(* depth: the scope depth that the emitter assumes is the one the runtime  *)
(* has, the code is a client that the registry's theorems apply to, and    *)
(* what is registered is what control is in.                               *)
(***************************************************************************)
EXTENDS MCCheckedCode, ObjectRegistryProofs

-----------------------------------------------------------------------------
(* Paths.                                                                  *)

Scope == {Body, ForBody} \cup Construct
BlockKinds == {"branch", "while", "for", "try", "catch"}

\* What may follow the construct c on a path.
Follows(c, d) == IF c.kind = "for" THEN d = ForBody ELSE d \in Construct

\* Leaving what was just entered (hs_scope_exit after hs_scope_enter).
LEMMA FrontOfAppend ==
    ASSUME NEW S, NEW s \in Seq(S), NEW e \in S
    PROVE  Prefix(Append(s, e), Len(s)) = s
<1>1. Append(s, e) \in Seq(S) /\ Len(Append(s, e)) = Len(s) + 1 /\ Len(s) \in Nat
  OBVIOUS
<1>2. \A i \in 1 .. Len(s) : Append(s, e)[i] = s[i]
  OBVIOUS
<1>3. PICK t \in Seq(S) : t = Append(s, e)
  BY <1>1
<1>4. SubSeq(t, 1, Len(s)) = s
  BY <1>1, <1>2, <1>3
<1>. QED
  BY <1>3, <1>4 DEF Prefix

\* A path is a sequence of constructs, each of which may follow the one before.
LEMMA PathIs ==
    ASSUME NEW p
    PROVE  p \in Paths <=>
             /\ p \in Seq(Scope)
             /\ Len(p) \in 1 .. MaxDepth
             /\ p[1] = Body
             /\ \A i \in 2 .. Len(p) : Follows(p[i - 1], p[i])
<1>1. ASSUME p \in Paths
      PROVE  /\ p \in Seq(Scope)
             /\ Len(p) \in 1 .. MaxDepth
  <2>1. PICK n \in 1 .. MaxDepth : p \in [1 .. n -> Scope]
    BY <1>1 DEF Paths, Scope
  <2>2. n \in Nat
    BY CodeAssumption
  <2>. QED
    BY <2>1, <2>2
<1>2. ASSUME p \in Seq(Scope), Len(p) \in 1 .. MaxDepth, WellFormed(p) PROVE p \in Paths
  BY <1>2 DEF Paths, Scope
<1>. QED
  BY <1>1, <1>2 DEF Paths, WellFormed, Follows

\* The kinds of the constructs: a body is outermost, the body of a for directly
\* inside its header, and everything else a block of a program.
LEMMA PathKinds ==
    ASSUME NEW p \in Paths
    PROVE  /\ p[1].kind = "body"
           /\ \A i \in 2 .. Len(p) :
                 /\ p[i - 1].kind = "for" => p[i].kind = "forbody"
                 /\ p[i - 1].kind # "for" => p[i] \in Construct /\ p[i].kind \in BlockKinds
<1>1. \A c \in Construct : c.kind \in BlockKinds
  BY DEF Construct, BlockKinds
<1>. QED
  BY <1>1, PathIs DEF Follows, Body, ForBody

\* The first n constructs of a path are a path (what a scope exit leaves).
LEMMA PathPrefix ==
    ASSUME NEW p \in Paths, NEW n \in 1 .. Len(p)
    PROVE  /\ Prefix(p, n) \in Paths
           /\ Len(Prefix(p, n)) = n
           /\ \A i \in 1 .. n : Prefix(p, n)[i] = p[i]
<1>1. p \in Seq(Scope) /\ Len(p) \in 1 .. MaxDepth
  BY PathIs
<1>2. /\ Prefix(p, n) \in Seq(Scope)
      /\ Len(Prefix(p, n)) = n
      /\ \A i \in 1 .. n : Prefix(p, n)[i] = p[i]
  BY <1>1 DEF Prefix
<1>3. Prefix(p, n)[1] = Body
  BY <1>2, PathIs
<1>4. ASSUME NEW i \in 2 .. n PROVE Follows(Prefix(p, n)[i - 1], Prefix(p, n)[i])
  <2>1. i \in 2 .. Len(p) /\ i \in 1 .. n /\ i - 1 \in 1 .. n
    BY <1>1
  <2>2. Follows(p[i - 1], p[i])
    BY <2>1, PathIs
  <2>3. Prefix(p, n)[i - 1] = p[i - 1] /\ Prefix(p, n)[i] = p[i]
    BY <1>2, <2>1
  <2>. QED
    BY ONLY <2>2, <2>3
<1>5. Len(Prefix(p, n)) \in 1 .. MaxDepth
  BY <1>1, <1>2, CodeAssumption
<1>6. \A i \in 2 .. Len(Prefix(p, n)) : Follows(Prefix(p, n)[i - 1], Prefix(p, n)[i])
  BY <1>2, <1>4
<1>7. Prefix(p, n) \in Paths
  BY ONLY <1>2, <1>3, <1>5, <1>6, PathIs
<1>. QED
  BY <1>2, <1>7

\* A construct that may follow is entered (what a scope enter adds).
LEMMA PathAppend ==
    ASSUME NEW p \in Paths, Len(p) < MaxDepth, NEW c, Follows(p[Len(p)], c)
    PROVE  /\ Append(p, c) \in Paths
           /\ Len(Append(p, c)) = Len(p) + 1
           /\ Append(p, c)[Len(p) + 1] = c
           /\ \A i \in 1 .. Len(p) : Append(p, c)[i] = p[i]
<1>1. p \in Seq(Scope) /\ Len(p) \in 1 .. MaxDepth
  BY PathIs
<1>2. c \in Scope
  BY DEF Follows, Scope
<1>3. /\ Append(p, c) \in Seq(Scope)
      /\ Len(Append(p, c)) = Len(p) + 1
      /\ Append(p, c)[Len(p) + 1] = c
      /\ \A i \in 1 .. Len(p) : Append(p, c)[i] = p[i]
  BY <1>1, <1>2
<1>4. Append(p, c)[1] = Body
  BY <1>1, <1>3, PathIs
<1>5. ASSUME NEW i \in 2 .. (Len(p) + 1) PROVE Follows(Append(p, c)[i - 1], Append(p, c)[i])
  <2>1. CASE i = Len(p) + 1
    BY <1>1, <1>3, <2>1
  <2>2. CASE i # Len(p) + 1
    BY <1>1, <1>3, <2>2, PathIs
  <2>. QED
    BY <2>1, <2>2
<1>6. Len(Append(p, c)) \in 1 .. MaxDepth
  BY <1>1, <1>3, CodeAssumption
<1>7. \A i \in 2 .. Len(Append(p, c)) : Follows(Append(p, c)[i - 1], Append(p, c)[i])
  BY <1>3, <1>5
<1>8. Append(p, c) \in Paths
  BY ONLY <1>3, <1>4, <1>6, <1>7, PathIs
<1>. QED
  BY <1>3, <1>8
-----------------------------------------------------------------------------
(* The activations.                                                        *)

Keys == {<< >>} \cup Paths \cup
        UNION {{Append(p, [kind |-> "error", id |-> id]) : id \in Ids} : p \in Paths}

Storage == UNION {[K -> StackAddr] : K \in SUBSET Keys}

Activation == [path : Paths \cup {<< >>}, pc : PCs, locals : Storage]

Last(p) == p[Len(p)]

\* Where control can be: outside the body before and after it, in a for header
\* that leaves room for its body, at a try or catch block that is opened next,
\* or in a block.
Placed(p, pc) ==
    \/ p = << >> /\ pc \in {"params", "return", "exit"}
    \/ /\ p \in Paths
       /\ \/ Last(p).kind = "for" /\ Len(p) < MaxDepth /\ pc \in {"init", "post", "after"}
          \/ Last(p).kind \in {"try", "catch"} /\ pc = "enter"
          \/ Last(p).kind # "for" /\ pc = "stmt"

CodeShape ==
    /\ code \in Seq(Activation)
    /\ \A f \in 1 .. Depth : Placed(code[f].path, code[f].pc)

\* The inductive invariant: the registry's own, where control can be, and the
\* agreement of the depths.
CodeInv == IInv /\ CodeShape /\ CompiledDepthIsRuntimeDepth /\ NoInconsistentCall

\* Every key of a local names a block of a program.
LEMMA KeysOfBlocks == \A k \in Keys : BlockOf(k) \in Paths \cup {<< >>}
<1>. SUFFICES ASSUME NEW k \in Keys PROVE BlockOf(k) \in Paths \cup {<< >>}
  OBVIOUS
<1>1. CASE k = << >>
  BY <1>1 DEF BlockOf
<1>2. CASE k \in Paths
  <2>1. k \in Seq(Scope) /\ Len(k) \in Nat /\ Len(k) \in 1 .. Len(k)
    BY <1>2, PathIs
  <2>2. k[Len(k)] \in Scope
    BY <2>1
  <2>3. \A c \in Scope : c.kind # "error"
    BY DEF Scope, Body, ForBody, Construct
  <2>. QED
    BY <1>2, <2>2, <2>3 DEF BlockOf
<1>3. CASE \E p \in Paths, id \in Ids : k = Append(p, [kind |-> "error", id |-> id])
  <2>1. PICK p \in Paths, id \in Ids : k = Append(p, [kind |-> "error", id |-> id])
    BY <1>3
  <2>2. PICK e : e = [kind |-> "error", id |-> id]
    OBVIOUS
  <2>3. p \in Seq(Scope \cup {e}) /\ Len(p) \in Nat
    <3>1. p \in Seq(Scope)
      BY PathIs
    <3>. QED
      BY <3>1
  <2>4. k \in Seq(Scope \cup {e}) /\ Len(k) = Len(p) + 1 /\ k[Len(k)] = e
    BY <2>1, <2>2, <2>3
  <2>5. k # << >> /\ k[Len(k)].kind = "error" /\ Len(k) - 1 = Len(p)
    BY <2>2, <2>3, <2>4
  <2>6. Prefix(k, Len(p)) = p
    <3>1. e \in Scope \cup {e}
      OBVIOUS
    <3>2. Prefix(Append(p, e), Len(p)) = p
      BY ONLY <2>3, <3>1, FrontOfAppend
    <3>. QED
      BY ONLY <2>1, <2>2, <3>2
  <2>. QED
    BY <2>5, <2>6 DEF BlockOf
<1>4. \/ k = << >>
      \/ k \in Paths
      \/ \E p \in Paths, id \in Ids : k = Append(p, [kind |-> "error", id |-> id])
  BY DEF Keys
<1>. QED
  BY ONLY <1>1, <1>2, <1>3, <1>4

\* The shape gives the type invariant.
LEMMA ShapeType == CodeShape => CodeTypeOK
<1>. SUFFICES ASSUME CodeShape, NEW f \in 1 .. Depth
              PROVE  /\ code[f].path \in Paths \cup {<< >>}
                     /\ code[f].pc \in PCs
                     /\ code[f].pc \in {"init", "post", "after"} <=>
                           code[f].path # << >> /\ code[f].path[Len(code[f].path)].kind = "for"
                     /\ \A k \in DOMAIN code[f].locals :
                           BlockOf(k) \in Paths \cup {<< >>} /\ code[f].locals[k] \in StackAddr
  BY DEF CodeTypeOK
<1>1. code[f] \in Activation /\ Placed(code[f].path, code[f].pc)
  BY DEF CodeShape, Depth
<1>2. << >> \notin Paths
  BY PathIs
<1>3. code[f].pc \in {"init", "post", "after"} <=>
         code[f].path # << >> /\ code[f].path[Len(code[f].path)].kind = "for"
  BY <1>1, <1>2 DEF Placed, Last
<1>4. ASSUME NEW k \in DOMAIN code[f].locals
      PROVE  k \in Keys /\ code[f].locals[k] \in StackAddr
  BY <1>1 DEF Activation, Storage
<1>. QED
  BY <1>1, <1>3, <1>4, KeysOfBlocks DEF Activation

-----------------------------------------------------------------------------
(* What the calls into the registry do to the depths.                      *)

Inconsistent ==
    {"runtime frame underflow", "runtime scope underflow", "invalid runtime scope exit",
     "scope entered outside a runtime frame",
     "local object registered outside a runtime frame"}

\* The current frame has n scopes open, the frames below it as many as before.
ScopesBecome(n) ==
    /\ hs_current_frame' = hs_current_frame
    /\ hs_frame_scopes'[hs_current_frame] = n
    /\ \A f \in 1 .. (hs_current_frame - 1) : hs_frame_scopes'[f] = hs_frame_scopes[f]

\* hs_scope_enter in a frame opens one scope, or the depth is at its limit.
LEMMA EnterScope ==
    ASSUME TypeOK, hs_current_frame # 0, hs_scope_enter
    PROVE  /\ status' \notin Inconsistent
           /\ status' = "running" => ScopesBecome(hs_frame_scopes[hs_current_frame] + 1)
           /\ Next
<1>1. hs_current_frame \in Frames /\ hs_frame_scopes \in [Frames -> 0 .. SCOPE_MAX]
  BY DEF TypeOK
<1>2. 1 .. (hs_current_frame - 1) \subseteq Frames
  BY <1>1, TableAssumption DEF Frames
<1>3. \A f \in 1 .. (hs_current_frame - 1) : f # hs_current_frame
  BY <1>1, TableAssumption DEF Frames
<1>. QED
  BY <1>1, <1>2, <1>3 DEF hs_scope_enter, hs_fail, Inconsistent, ScopesBecome, Next

\* hs_scope_exit_to a depth that is open always succeeds.
LEMMA LeaveTo ==
    ASSUME TypeOK, hs_current_frame # 0, NEW target \in Nat,
           target <= hs_frame_scopes[hs_current_frame], hs_scope_exit_to(target)
    PROVE  /\ status' \notin Inconsistent
           /\ ScopesBecome(target)
           /\ LeaveScopes(target)
           /\ Next
<1>1. hs_current_frame \in Frames /\ hs_frame_scopes \in [Frames -> 0 .. SCOPE_MAX]
  BY DEF TypeOK
<1>2. 1 .. (hs_current_frame - 1) \subseteq Frames
  BY <1>1, TableAssumption DEF Frames
<1>3. \A f \in 1 .. (hs_current_frame - 1) : f # hs_current_frame
  BY <1>1, TableAssumption DEF Frames
<1>4. target \in 0 .. SCOPE_MAX
  BY <1>1, TableAssumption
<1>5. Next
  BY <1>4 DEF Next
<1>6. LeaveScopes(target) /\ status = "running"
  <2>1. target \in Nat /\ hs_frame_scopes[hs_current_frame] \in Nat
    BY <1>1, TableAssumption
  <2>2. ~(target > hs_frame_scopes[hs_current_frame])
    BY <2>1
  <2>. QED
    BY <2>2, Zenon DEF hs_scope_exit_to
<1>7. status' = "running"
  BY <1>6 DEF LeaveScopes
<1>8. ScopesBecome(target)
  BY <1>1, <1>2, <1>3, <1>6 DEF LeaveScopes, ScopesBecome
<1>. QED
  BY <1>5, <1>6, <1>7, <1>8 DEF Inconsistent

\* hs_scope_exit with a scope open is a multi-level exit of one level.
LEMMA LeaveOne ==
    ASSUME TypeOK, hs_current_frame # 0, hs_frame_scopes[hs_current_frame] # 0, hs_scope_exit
    PROVE  /\ hs_scope_exit_to(hs_frame_scopes[hs_current_frame] - 1)
           /\ hs_frame_scopes[hs_current_frame] - 1 \in Nat
<1>1. hs_frame_scopes[hs_current_frame] \in 0 .. SCOPE_MAX
  BY DEF TypeOK
<1>2. hs_frame_scopes[hs_current_frame] \in Nat
  BY <1>1, TableAssumption
<1>3. ~(hs_frame_scopes[hs_current_frame] - 1 > hs_frame_scopes[hs_current_frame])
  BY <1>2
<1>4. /\ status = "running"
      /\ LeaveScopes(hs_frame_scopes[hs_current_frame] - 1)
      /\ UNCHANGED blocks
  BY Zenon DEF hs_scope_exit
<1>5. hs_scope_exit_to(hs_frame_scopes[hs_current_frame] - 1)
  BY <1>3, <1>4, Zenon DEF hs_scope_exit_to
<1>6. hs_frame_scopes[hs_current_frame] - 1 \in Nat
  BY <1>2
<1>. QED
  BY <1>5, <1>6

\* hs_register_local in a frame leaves the depths alone.
LEMMA RegisterLocal ==
    ASSUME TypeOK, hs_current_frame # 0, NEW p \in StackAddr, hs_register_local(p, 1)
    PROVE  /\ status' \notin Inconsistent
           /\ ScopesBecome(hs_frame_scopes[hs_current_frame])
           /\ Next
<1>1. 1 \in Sizes \ {0}
  BY CodeAssumption
<1>2. Next
  BY <1>1 DEF Next
<1>3. ScopesBecome(hs_frame_scopes[hs_current_frame])
  BY DEF hs_register_local, ScopesBecome
<1>4. status' \notin Inconsistent
  BY DEF hs_register_local, hs_register, TakeSlot, hs_fail, Inconsistent
<1>. QED
  BY <1>2, <1>3, <1>4

-----------------------------------------------------------------------------
(* Steps of the innermost activation.                                      *)

\* What a step keeps of the invariant, and that the registry takes a step too.
Advances ==
    /\ [Next]_vars
    /\ CodeShape'
    /\ CompiledDepthIsRuntimeDepth'
    /\ status' \notin Inconsistent

\* Control is in a function: the current frame is that of its activation.
LEMMA InFunction ==
    ASSUME CodeInv, status = "running", code # << >>
    PROVE  /\ TypeOK
           /\ Depth \in Nat \ {0}
           /\ hs_current_frame = Depth
           /\ hs_current_frame # 0
           /\ code \in Seq(Activation)
           /\ Top \in Activation
           /\ Placed(Top.path, Top.pc)
           /\ Top.path \in Paths \cup {<< >>}
           /\ Top.locals \in Storage
           /\ hs_frame_scopes[hs_current_frame] = OpenScopes(Top)
<1>1. code \in Seq(Activation) /\ Depth = hs_current_frame /\ TypeOK
  BY DEF CodeInv, CodeShape, CompiledDepthIsRuntimeDepth, IInv
<1>2. Depth \in Nat \ {0} /\ Depth \in 1 .. Depth
  BY <1>1 DEF Depth
<1>3. Top \in Activation
  BY <1>1, <1>2 DEF Top, Depth
<1>4. Placed(Top.path, Top.pc) /\ hs_frame_scopes[hs_current_frame] = OpenScopes(Top)
  BY <1>1, <1>2 DEF CodeInv, CodeShape, CompiledDepthIsRuntimeDepth, Top
<1>5. Top.path \in Paths \cup {<< >>} /\ Top.locals \in Storage
  BY <1>3 DEF Activation
<1>. QED
  BY <1>1, <1>2, <1>3, <1>4, <1>5

\* The innermost activation changes to a, and the runtime's depth with it.
LEMMA ActivationChanges ==
    ASSUME CodeInv, status = "running", code # << >>,
           NEW a \in Activation, Placed(a.path, a.pc), code' = [code EXCEPT ![Depth] = a],
           status' = "running" => ScopesBecome(OpenScopes(a))
    PROVE  CodeShape' /\ CompiledDepthIsRuntimeDepth'
<1>1. /\ code \in Seq(Activation)
      /\ Len(code) \in Nat \ {0}
      /\ hs_current_frame = Len(code)
  BY InFunction DEF Depth
<1>2. /\ code' \in Seq(Activation)
      /\ Len(code') = Len(code)
      /\ code'[Len(code)] = a
      /\ \A f \in 1 .. (Len(code) - 1) : code'[f] = code[f]
  BY <1>1 DEF Depth
<1>3. \A f \in 1 .. Len(code) : f = Len(code) \/ f \in 1 .. (Len(code) - 1)
  BY <1>1
<1>4. \A f \in 1 .. Len(code') : Placed(code'[f].path, code'[f].pc)
  <2>1. \A f \in 1 .. Len(code) : Placed(code[f].path, code[f].pc)
    BY DEF CodeInv, CodeShape, Depth
  <2>. QED
    BY <1>1, <1>2, <1>3, <2>1
<1>5. CodeShape'
  BY <1>2, <1>4 DEF CodeShape, Depth
<1>6. ASSUME status' = "running"
      PROVE  /\ Len(code') = hs_current_frame'
             /\ \A f \in 1 .. Len(code') : hs_frame_scopes'[f] = OpenScopes(code'[f])
  <2>1. \A f \in 1 .. Len(code) : hs_frame_scopes[f] = OpenScopes(code[f])
    BY DEF CodeInv, CompiledDepthIsRuntimeDepth, Depth
  <2>2. ScopesBecome(OpenScopes(a))
    BY <1>6
  <2>3. hs_current_frame' = hs_current_frame
    BY <2>2 DEF ScopesBecome
  <2>4. hs_frame_scopes'[Len(code)] = OpenScopes(a)
    BY <1>1, <2>2 DEF ScopesBecome
  <2>5. \A f \in 1 .. (Len(code) - 1) : hs_frame_scopes'[f] = hs_frame_scopes[f]
    BY <1>1, <2>2 DEF ScopesBecome
  <2>6. \A f \in 1 .. (Len(code) - 1) : f \in 1 .. Len(code)
    BY <1>1
  <2>7. \A f \in 1 .. Len(code) : hs_frame_scopes'[f] = OpenScopes(code'[f])
    BY ONLY <1>2, <1>3, <2>1, <2>4, <2>5, <2>6
  <2>. QED
    BY <1>1, <1>2, <2>3, <2>7
<1>7. CompiledDepthIsRuntimeDepth'
  BY <1>6 DEF CompiledDepthIsRuntimeDepth, Depth, OpenScopes
<1>. QED
  BY <1>5, <1>7

\* Goes, with the scopes that are open where control goes.
LEMMA GoesTo ==
    ASSUME CodeInv, status = "running", code # << >>,
           NEW q \in Paths \cup {<< >>}, NEW pc \in PCs, Placed(q, pc), Goes(q, pc),
           status' = "running" => ScopesBecome(Len(q) - (IF pc = "enter" THEN 1 ELSE 0))
    PROVE  CodeShape' /\ CompiledDepthIsRuntimeDepth'
<1>1. PICK a : a = [path |-> q, pc |-> pc, locals |-> Top.locals]
  OBVIOUS
<1>2. Top.locals \in Storage
  BY InFunction
<1>3. /\ a \in Activation
      /\ a.path = q
      /\ a.pc = pc
  BY <1>1, <1>2 DEF Activation
<1>4. code' = [code EXCEPT ![Depth] = a]
  BY <1>1 DEF Goes
<1>5. OpenScopes(a) = Len(q) - (IF pc = "enter" THEN 1 ELSE 0)
  BY <1>3 DEF OpenScopes
<1>. QED
  BY <1>3, <1>4, <1>5, ActivationChanges

\* Control is in a block: all of its scopes are open.
LEMMA InBlock ==
    ASSUME CodeInv, status = "running", At({"stmt"})
    PROVE  /\ code # << >>
           /\ Top.path \in Paths
           /\ Len(Top.path) \in 1 .. MaxDepth
           /\ Last(Top.path).kind # "for"
           /\ Top.pc = "stmt"
           /\ hs_frame_scopes[hs_current_frame] = Len(Top.path)
<1>1. code # << >> /\ Top.pc = "stmt"
  BY DEF At
<1>2. /\ Placed(Top.path, Top.pc)
      /\ hs_frame_scopes[hs_current_frame] = OpenScopes(Top)
  BY <1>1, InFunction
<1>3. Top.path \in Paths /\ Last(Top.path).kind # "for"
  BY <1>1, <1>2 DEF Placed
<1>4. Len(Top.path) \in 1 .. MaxDepth
  BY <1>3, PathIs
<1>5. OpenScopes(Top) = Len(Top.path)
  BY <1>1, <1>4, CodeAssumption DEF OpenScopes
<1>. QED
  BY <1>1, <1>2, <1>3, <1>4, <1>5

\* Control is in the header of a for, which is inside a block.
LEMMA InHeader ==
    ASSUME CodeInv, status = "running", At({"init", "post", "after"})
    PROVE  /\ code # << >>
           /\ Top.path \in Paths
           /\ Len(Top.path) \in 2 .. MaxDepth
           /\ Len(Top.path) < MaxDepth
           /\ Last(Top.path).kind = "for"
           /\ Top.pc # "enter"
           /\ hs_frame_scopes[hs_current_frame] = Len(Top.path)
<1>1. code # << >> /\ Top.pc \in {"init", "post", "after"}
  BY DEF At
<1>2. /\ Placed(Top.path, Top.pc)
      /\ hs_frame_scopes[hs_current_frame] = OpenScopes(Top)
  BY <1>1, InFunction
<1>3. Top.path \in Paths /\ Last(Top.path).kind = "for" /\ Len(Top.path) < MaxDepth
  BY <1>1, <1>2 DEF Placed
<1>4. Len(Top.path) \in 1 .. MaxDepth
  BY <1>3, PathIs
<1>5. Top.pc # "enter"
  BY <1>1, Zenon
<1>6. OpenScopes(Top) = Len(Top.path)
  BY <1>4, <1>5, CodeAssumption DEF OpenScopes
<1>7. Top.path[1].kind = "body"
  BY <1>3, PathKinds
<1>8. Len(Top.path) # 1
  BY <1>3, <1>7 DEF Last
<1>9. Len(Top.path) \in 2 .. MaxDepth
  <2>1. \A n \in 1 .. MaxDepth : n # 1 => n \in 2 .. MaxDepth
    BY CodeAssumption
  <2>. QED
    BY ONLY <1>4, <1>8, <2>1
<1>10. hs_frame_scopes[hs_current_frame] = Len(Top.path)
  BY ONLY <1>2, <1>6
<1>11. code # << >>
  BY DEF At
<1>. QED
  BY ONLY <1>3, <1>5, <1>9, <1>10, <1>11

\* Opening the scope of a construct inside the current one.
LEMMA EnterAdvances ==
    ASSUME CodeInv, code # << >>, hs_scope_enter,
           NEW q \in Paths, NEW pc \in PCs, Placed(q, pc), pc # "enter", Goes(q, pc),
           Len(q) = hs_frame_scopes[hs_current_frame] + 1
    PROVE  Advances
<1>1. status = "running"
  BY DEF hs_scope_enter
<1>2. /\ status' \notin Inconsistent
      /\ status' = "running" => ScopesBecome(hs_frame_scopes[hs_current_frame] + 1)
      /\ Next
  BY <1>1, InFunction, EnterScope
<1>3. Len(q) \in Nat
  BY PathIs
<1>4. status' = "running" => ScopesBecome(Len(q) - (IF pc = "enter" THEN 1 ELSE 0))
  BY <1>2, <1>3
<1>5. CodeShape' /\ CompiledDepthIsRuntimeDepth'
  BY <1>1, <1>4, GoesTo
<1>. QED
  BY <1>2, <1>5 DEF Advances

\* emitRuntimeScopeExitTo in a block, to a depth the emitter has open: the
\* runtime has it open too.
LEMMA ScopeExitTo ==
    ASSUME CodeInv, status = "running", At({"stmt"}),
           NEW target \in Nat, target <= Len(Top.path), emitRuntimeScopeExitTo(target)
    PROVE  /\ status' \notin Inconsistent
           /\ status' = "running"
           /\ ScopesBecome(target)
           /\ [Next]_vars
<1>1. /\ hs_frame_scopes[hs_current_frame] = Len(Top.path)
      /\ Len(Top.path) \in Nat
      /\ TypeOK /\ hs_current_frame # 0
  BY InBlock, InFunction
<1>2. CASE Len(Top.path) > target
  <2>1. hs_scope_exit_to(target)
    BY <1>2 DEF emitRuntimeScopeExitTo, runtimeScopeDepth
  <2>2. status' \notin Inconsistent /\ ScopesBecome(target) /\ LeaveScopes(target) /\ Next
    BY <1>1, <2>1, LeaveTo
  <2>3. status' = "running"
    BY <2>2 DEF LeaveScopes
  <2>. QED
    BY <2>2, <2>3
<1>3. CASE ~(Len(Top.path) > target)
  <2>1. UNCHANGED vars
    BY <1>3 DEF emitRuntimeScopeExitTo, runtimeScopeDepth
  <2>2. target = hs_frame_scopes[hs_current_frame]
    BY <1>1, <1>3
  <2>3. status' = "running" /\ ScopesBecome(target)
    BY <2>1, <2>2 DEF vars, ScopesBecome
  <2>. QED
    BY <2>1, <2>3 DEF Inconsistent
<1>. QED
  BY <1>2, <1>3

\* A jump that leaves scopes for a place whose open scopes are those left over.
LEMMA JumpAdvances ==
    ASSUME CodeInv, status = "running", At({"stmt"}),
           NEW target \in Nat, target <= Len(Top.path), emitRuntimeScopeExitTo(target),
           NEW q \in Paths \cup {<< >>}, NEW pc \in PCs, Placed(q, pc), Goes(q, pc),
           Len(q) - (IF pc = "enter" THEN 1 ELSE 0) = target
    PROVE  Advances
<1>1. /\ status' \notin Inconsistent
      /\ ScopesBecome(target)
      /\ [Next]_vars
  BY ScopeExitTo
<1>2. code # << >>
  BY DEF At
<1>3. CodeShape' /\ CompiledDepthIsRuntimeDepth'
  BY <1>1, <1>2, GoesTo
<1>. QED
  BY <1>1, <1>3 DEF Advances

\* The same for hs_scope_exit and hs_scope_exit_to, called as they are.
LEMMA ExitAdvances ==
    ASSUME CodeInv, status = "running", code # << >>,
           NEW target \in Nat, target <= hs_frame_scopes[hs_current_frame],
           hs_scope_exit_to(target),
           NEW q \in Paths \cup {<< >>}, NEW pc \in PCs, Placed(q, pc), Goes(q, pc),
           pc # "enter", Len(q) = target
    PROVE  Advances
<1>1. /\ status' \notin Inconsistent
      /\ ScopesBecome(target)
      /\ Next
  BY InFunction, LeaveTo
<1>2. ScopesBecome(Len(q) - (IF pc = "enter" THEN 1 ELSE 0))
  BY <1>1
<1>3. CodeShape' /\ CompiledDepthIsRuntimeDepth'
  BY <1>2, GoesTo
<1>. QED
  BY <1>1, <1>3 DEF Advances

-----------------------------------------------------------------------------
(* Functions.                                                              *)

\* A call opens a frame with no scopes for an activation outside its body.
LEMMA CallAdvances == CodeInv /\ Call => Advances
<1>. SUFFICES ASSUME CodeInv, Call PROVE Advances
  OBVIOUS
<1>. DEFINE a == [path |-> << >>, pc |-> "params", locals |-> << >>]
<1>1. status = "running" /\ hs_frame_enter /\ code' = Append(code, a)
  BY DEF Call, hs_frame_enter
<1>2. /\ code \in Seq(Activation)
      /\ Len(code) \in Nat
      /\ hs_current_frame = Len(code)
      /\ \A f \in 1 .. Len(code) : hs_frame_scopes[f] = OpenScopes(code[f])
      /\ \A f \in 1 .. Len(code) : Placed(code[f].path, code[f].pc)
  BY <1>1 DEF CodeInv, CodeShape, CompiledDepthIsRuntimeDepth, Depth
<1>3. a \in Activation /\ Placed(a.path, a.pc) /\ OpenScopes(a) = 0
  <2>1. << >> \in [{} -> StackAddr]
    OBVIOUS
  <2>2. << >> \in Storage
    BY <2>1 DEF Storage
  <2>. QED
    BY <2>2 DEF Activation, Placed, OpenScopes, PCs
<1>. HIDE DEF a
<1>4. /\ code' \in Seq(Activation)
      /\ Len(code') = Len(code) + 1
      /\ code'[Len(code) + 1] = a
      /\ \A f \in 1 .. Len(code) : code'[f] = code[f]
  BY <1>1, <1>2, <1>3
<1>5. \A f \in 1 .. Len(code') : f = Len(code) + 1 \/ f \in 1 .. Len(code)
  BY <1>2, <1>4
<1>6. \A f \in 1 .. Len(code') : Placed(code'[f].path, code'[f].pc)
  BY ONLY <1>2, <1>3, <1>4, <1>5
<1>7. CodeShape'
  BY <1>4, <1>6 DEF CodeShape, Depth
<1>8. status' \notin Inconsistent /\ Next
  BY <1>1 DEF hs_frame_enter, hs_fail, Inconsistent, Next
<1>9. ASSUME status' = "running"
      PROVE  /\ Len(code') = hs_current_frame'
             /\ \A f \in 1 .. Len(code') : hs_frame_scopes'[f] = OpenScopes(code'[f])
  <2>1. /\ ~(hs_current_frame + 1 >= HS_MAX_FRAMES)
        /\ hs_current_frame' = hs_current_frame + 1
        /\ hs_frame_scopes' = [hs_frame_scopes EXCEPT ![hs_current_frame + 1] = 0]
    BY <1>1, <1>9 DEF hs_frame_enter, hs_fail
  <2>2. hs_frame_scopes \in [Frames -> 0 .. SCOPE_MAX] /\ hs_current_frame \in Frames
    BY DEF CodeInv, IInv, TypeOK
  <2>3. hs_current_frame + 1 \in Frames /\ 1 .. hs_current_frame \subseteq Frames
    BY <2>1, <2>2, TableAssumption DEF Frames
  <2>4. hs_frame_scopes'[Len(code) + 1] = 0
    BY <1>2, <2>1, <2>2, <2>3
  <2>5. \A f \in 1 .. Len(code) : hs_frame_scopes'[f] = hs_frame_scopes[f]
    BY <1>2, <2>1, <2>2, <2>3
  <2>6. \A f \in 1 .. Len(code') : hs_frame_scopes'[f] = OpenScopes(code'[f])
    BY ONLY <1>2, <1>3, <1>4, <1>5, <2>4, <2>5
  <2>. QED
    BY <1>2, <1>4, <2>1, <2>6
<1>10. CompiledDepthIsRuntimeDepth'
  BY <1>9 DEF CompiledDepthIsRuntimeDepth, Depth, OpenScopes
<1>. QED
  BY <1>7, <1>8, <1>10 DEF Advances

\* Registering a local in the current scope, with control going where the same
\* scopes are open.
LEMMA RegisterAdvances ==
    ASSUME CodeInv, code # << >>, NEW key \in Keys,
           NEW q \in Paths \cup {<< >>}, NEW pc \in PCs, Placed(q, pc),
           Len(q) - (IF pc = "enter" THEN 1 ELSE 0) = OpenScopes(Top),
           RegisterAs(key, q, pc)
    PROVE  Advances
<1>1. PICK p \in StorageOf(key) :
         /\ hs_register_local(p, 1)
         /\ code' = [code EXCEPT ![Depth] =
                       [path |-> q, pc |-> pc,
                        locals |-> [k \in DOMAIN Top.locals \cup {key} |->
                                      IF k = key THEN p ELSE Top.locals[k]]]]
  BY DEF RegisterAs
<1>2. status = "running"
  BY <1>1 DEF hs_register_local
<1>3. PICK K \in SUBSET Keys : Top.locals \in [K -> StackAddr]
  <2>1. Top.locals \in Storage
    BY <1>2, InFunction
  <2>. QED
    BY <2>1 DEF Storage
<1>4. p \in StackAddr
  BY <1>1, <1>3 DEF StorageOf
<1>5. [k \in DOMAIN Top.locals \cup {key} |-> IF k = key THEN p ELSE Top.locals[k]] \in Storage
  <2>1. K \cup {key} \in SUBSET Keys
    OBVIOUS
  <2>2. [k \in K \cup {key} |-> IF k = key THEN p ELSE Top.locals[k]] \in [K \cup {key} -> StackAddr]
    BY <1>3, <1>4
  <2>3. DOMAIN Top.locals = K
    BY <1>3
  <2>. QED
    BY <2>1, <2>2, <2>3 DEF Storage
<1>6. PICK a : a = [path |-> q, pc |-> pc,
                    locals |-> [k \in DOMAIN Top.locals \cup {key} |->
                                  IF k = key THEN p ELSE Top.locals[k]]]
  OBVIOUS
<1>7. a \in Activation /\ a.path = q /\ a.pc = pc
  BY <1>5, <1>6 DEF Activation
<1>8. code' = [code EXCEPT ![Depth] = a]
  BY <1>1, <1>6
<1>9. OpenScopes(a) = OpenScopes(Top)
  BY <1>7 DEF OpenScopes
<1>10. /\ status' \notin Inconsistent
       /\ ScopesBecome(OpenScopes(a))
       /\ Next
  <2>1. TypeOK /\ hs_current_frame # 0 /\ hs_frame_scopes[hs_current_frame] = OpenScopes(Top)
    BY <1>2, InFunction
  <2>2. /\ status' \notin Inconsistent
        /\ ScopesBecome(hs_frame_scopes[hs_current_frame])
        /\ Next
    BY <1>1, <1>4, <2>1, RegisterLocal
  <2>. QED
    BY <1>9, <2>1, <2>2
<1>11. CodeShape' /\ CompiledDepthIsRuntimeDepth'
  BY <1>2, <1>7, <1>8, <1>10, ActivationChanges
<1>. QED
  BY <1>10, <1>11 DEF Advances

\* A declaration registers its storage where control is.
LEMMA DeclareAdvances == CodeInv /\ Declare => Advances
<1>. SUFFICES ASSUME CodeInv, Declare PROVE Advances
  OBVIOUS
<1>1. code # << >> /\ RegisterAs(Top.path, Top.path, Top.pc)
  BY DEF Declare, At
<1>2. status = "running"
  BY <1>1 DEF RegisterAs, hs_register_local
<1>3. Top \in Activation /\ Placed(Top.path, Top.pc)
  BY <1>1, <1>2, InFunction
<1>4. Top.path \in Paths \cup {<< >>} /\ Top.path \in Keys /\ Top.pc \in PCs
  BY <1>3 DEF Activation, Keys
<1>5. Len(Top.path) - (IF Top.pc = "enter" THEN 1 ELSE 0) = OpenScopes(Top)
  BY DEF OpenScopes
<1>. QED
  BY <1>1, <1>3, <1>4, <1>5, RegisterAdvances

\* The prologue opens the scope of the body.
LEMMA EnterFunctionBodyAdvances == CodeInv /\ EnterFunctionBody => Advances
<1>. SUFFICES ASSUME CodeInv, EnterFunctionBody PROVE Advances
  OBVIOUS
<1>1. code # << >> /\ Top.pc = "params" /\ hs_scope_enter /\ Goes(<<Body>>, "stmt")
  BY DEF EnterFunctionBody, At
<1>2. status = "running"
  BY <1>1 DEF hs_scope_enter
<1>3. Placed(Top.path, Top.pc) /\ hs_frame_scopes[hs_current_frame] = OpenScopes(Top)
  BY <1>1, <1>2, InFunction
<1>4. Top.path = << >>
  BY <1>1, <1>3 DEF Placed
<1>5. OpenScopes(Top) = 0
  BY <1>1, <1>4 DEF OpenScopes
<1>6. <<Body>> \in Paths /\ Len(<<Body>>) = 1 /\ Last(<<Body>>).kind = "body"
  <2>1. <<Body>> \in Seq(Scope) /\ Len(<<Body>>) = 1 /\ <<Body>>[1] = Body
    BY DEF Scope
  <2>2. Len(<<Body>>) \in 1 .. MaxDepth
    BY <2>1, CodeAssumption
  <2>3. \A i \in 2 .. Len(<<Body>>) : Follows(<<Body>>[i - 1], <<Body>>[i])
    BY <2>1
  <2>4. <<Body>> \in Paths
    BY ONLY <2>1, <2>2, <2>3, PathIs
  <2>5. Last(<<Body>>) = Body
    BY <2>1 DEF Last
  <2>. QED
    BY <2>1, <2>4, <2>5 DEF Body
<1>7. Placed(<<Body>>, "stmt") /\ "stmt" \in PCs
  BY <1>6 DEF Placed, PCs
<1>8. Len(<<Body>>) = hs_frame_scopes[hs_current_frame] + 1
  BY <1>3, <1>5, <1>6
<1>. QED
  BY <1>1, <1>6, <1>7, <1>8, EnterAdvances

\* A return leaves every scope of the function.
LEMMA ReturnAdvances == CodeInv /\ Return => Advances
<1>. SUFFICES ASSUME CodeInv, Return PROVE Advances
  OBVIOUS
<1>1. At({"stmt"}) /\ hs_scope_exit_to(0) /\ Goes(<< >>, "return")
  BY DEF Return
<1>2. status = "running"
  BY <1>1 DEF hs_scope_exit_to
<1>3. code # << >> /\ hs_frame_scopes[hs_current_frame] = Len(Top.path)
      /\ Len(Top.path) \in 1 .. MaxDepth
  BY <1>1, <1>2, InBlock
<1>4. 0 <= hs_frame_scopes[hs_current_frame]
  BY <1>3, CodeAssumption
<1>5. Placed(<< >>, "return") /\ "return" \in PCs /\ Len(<< >>) = 0
  BY DEF Placed, PCs
<1>. QED
  BY <1>1, <1>2, <1>3, <1>4, <1>5, ExitAdvances

\* hs_frame_exit removes the frame together with the activation.
LEMMA FrameExitAdvances == CodeInv /\ FrameExit => Advances
<1>. SUFFICES ASSUME CodeInv, FrameExit PROVE Advances
  OBVIOUS
<1>1. code # << >> /\ hs_frame_exit /\ code' = Prefix(code, Depth - 1)
  BY DEF FrameExit, At
<1>2. status = "running"
  BY <1>1 DEF hs_frame_exit
<1>3. /\ code \in Seq(Activation)
      /\ Len(code) \in Nat \ {0}
      /\ hs_current_frame = Len(code)
      /\ TypeOK
  BY <1>1, <1>2, InFunction DEF Depth
<1>4. /\ \A f \in 1 .. Len(code) : hs_frame_scopes[f] = OpenScopes(code[f])
      /\ \A f \in 1 .. Len(code) : Placed(code[f].path, code[f].pc)
  BY <1>2 DEF CodeInv, CodeShape, CompiledDepthIsRuntimeDepth, Depth
<1>5. /\ code' \in Seq(Activation)
      /\ Len(code') = Len(code) - 1
      /\ \A f \in 1 .. (Len(code) - 1) : code'[f] = code[f]
  BY <1>1, <1>3 DEF Prefix, Depth
<1>6. \A f \in 1 .. Len(code') : f \in 1 .. Len(code) /\ f \in 1 .. (Len(code) - 1) /\ f # Len(code)
  BY <1>3, <1>5
<1>7. CodeShape'
  <2>1. \A f \in 1 .. Len(code') : Placed(code'[f].path, code'[f].pc)
    BY ONLY <1>4, <1>5, <1>6
  <2>. QED
    BY <1>5, <2>1 DEF CodeShape, Depth
<1>8. /\ hs_frame_scopes' = [hs_frame_scopes EXCEPT ![hs_current_frame] = 0]
      /\ hs_current_frame' = hs_current_frame - 1
      /\ status' = "running"
      /\ Next
  BY <1>1, <1>2, <1>3 DEF hs_frame_exit, Next
<1>9. \A f \in 1 .. Len(code') : hs_frame_scopes'[f] = OpenScopes(code'[f])
  <2>1. hs_frame_scopes \in [Frames -> 0 .. SCOPE_MAX] /\ Len(code) \in Frames
    BY <1>3 DEF TypeOK
  <2>2. 1 .. Len(code) \subseteq Frames
    BY <2>1, TableAssumption DEF Frames
  <2>3. \A f \in 1 .. Len(code') : hs_frame_scopes'[f] = hs_frame_scopes[f]
    BY <1>3, <1>6, <1>8, <2>1, <2>2
  <2>. QED
    BY ONLY <1>4, <1>5, <1>6, <2>3
<1>10. Len(code') = hs_current_frame'
  BY <1>3, <1>5, <1>8
<1>11. CompiledDepthIsRuntimeDepth'
  BY <1>9, <1>10 DEF CompiledDepthIsRuntimeDepth, Depth, OpenScopes
<1>. QED
  BY <1>7, <1>8, <1>11 DEF Advances, Inconsistent

-----------------------------------------------------------------------------
(* Blocks and loops.                                                       *)

\* The block around the current construct: a path that is no for header when
\* the construct is not the body of a for.
LEMMA BlockAround ==
    ASSUME NEW p \in Paths, NEW n \in 2 .. Len(p)
    PROVE  /\ Prefix(p, n - 1) \in Paths
           /\ Len(Prefix(p, n - 1)) = n - 1
           /\ Last(Prefix(p, n - 1)) = p[n - 1]
           /\ p[n].kind # "forbody" => p[n - 1].kind # "for"
           /\ p[n].kind = "forbody" => p[n - 1].kind = "for"
<1>1. Len(p) \in Nat
  BY PathIs
<1>2. n - 1 \in 1 .. Len(p) /\ n - 1 \in 1 .. (n - 1)
  BY <1>1
<1>3. /\ Prefix(p, n - 1) \in Paths
      /\ Len(Prefix(p, n - 1)) = n - 1
      /\ Prefix(p, n - 1)[n - 1] = p[n - 1]
  BY <1>2, PathPrefix
<1>4. /\ p[n - 1].kind = "for" => p[n].kind = "forbody"
      /\ p[n - 1].kind # "for" => p[n].kind \in BlockKinds
  BY PathKinds
<1>. QED
  BY <1>3, <1>4 DEF Last, BlockKinds

\* A block is entered.
LEMMA EnterBlockAdvances == CodeInv /\ EnterBlock => Advances
<1>. SUFFICES ASSUME CodeInv, EnterBlock PROVE Advances
  OBVIOUS
<1>1. PICK b \in [kind : {"branch", "while"}, id : Ids] :
         hs_scope_enter /\ Goes(Append(Top.path, b), "stmt")
  BY DEF EnterBlock
<1>2. At({"stmt"}) /\ Len(Top.path) < MaxDepth /\ status = "running"
  BY <1>1 DEF EnterBlock, hs_scope_enter
<1>3. /\ code # << >>
      /\ Top.path \in Paths
      /\ Last(Top.path).kind # "for"
      /\ hs_frame_scopes[hs_current_frame] = Len(Top.path)
  BY <1>2, InBlock
<1>4. b \in Construct /\ b.kind \in {"branch", "while"}
  BY DEF Construct
<1>5. Follows(Last(Top.path), b)
  BY <1>3, <1>4 DEF Follows
<1>6. /\ Append(Top.path, b) \in Paths
      /\ Len(Append(Top.path, b)) = Len(Top.path) + 1
      /\ Last(Append(Top.path, b)) = b
  BY <1>2, <1>3, <1>5, PathAppend DEF Last
<1>7. Placed(Append(Top.path, b), "stmt") /\ "stmt" \in PCs
  BY <1>4, <1>6 DEF Placed, PCs
<1>8. Len(Append(Top.path, b)) = hs_frame_scopes[hs_current_frame] + 1
  BY <1>3, <1>6
<1>. QED
  BY <1>1, <1>3, <1>6, <1>7, <1>8, EnterAdvances

\* hs_scope_exit where scopes are open, to where one less is.
LEMMA ExitOneAdvances ==
    ASSUME CodeInv, status = "running", code # << >>, hs_scope_exit,
           hs_frame_scopes[hs_current_frame] # 0,
           NEW q \in Paths \cup {<< >>}, NEW pc \in PCs, Placed(q, pc), Goes(q, pc),
           pc # "enter", Len(q) = hs_frame_scopes[hs_current_frame] - 1
    PROVE  Advances
<1>1. TypeOK /\ hs_current_frame # 0
  BY InFunction
<1>2. /\ hs_scope_exit_to(hs_frame_scopes[hs_current_frame] - 1)
      /\ hs_frame_scopes[hs_current_frame] - 1 \in Nat
  BY <1>1, LeaveOne
<1>3. hs_frame_scopes[hs_current_frame] \in Nat
  <2>1. hs_frame_scopes[hs_current_frame] \in 0 .. SCOPE_MAX
    BY <1>1 DEF TypeOK
  <2>. QED
    BY <2>1, TableAssumption
<1>4. hs_frame_scopes[hs_current_frame] - 1 <= hs_frame_scopes[hs_current_frame]
  BY <1>3
<1>. QED
  BY <1>2, <1>4, ExitAdvances

\* The end of a block: after the body of the function only the frame is left,
\* after the body of a for its step is next.
LEMMA BlockEndAdvances == CodeInv /\ BlockEnd => Advances
<1>. SUFFICES ASSUME CodeInv, BlockEnd PROVE Advances
  OBVIOUS
<1>. DEFINE kind == Last(Top.path).kind
            pc == CASE kind = "body" -> "return" [] kind = "forbody" -> "post" [] OTHER -> "stmt"
            q == Prefix(Top.path, Len(Top.path) - 1)
<1>1. At({"stmt"}) /\ hs_scope_exit /\ Goes(q, pc)
  BY DEF BlockEnd, Last
<1>2. status = "running"
  BY <1>1 DEF hs_scope_exit
<1>3. /\ code # << >>
      /\ Top.path \in Paths
      /\ Len(Top.path) \in 1 .. MaxDepth
      /\ kind # "for"
      /\ hs_frame_scopes[hs_current_frame] = Len(Top.path)
  BY <1>1, <1>2, InBlock
<1>4. Len(Top.path) \in Nat /\ hs_frame_scopes[hs_current_frame] # 0
  BY <1>3, CodeAssumption
<1>5. pc \in PCs /\ pc # "enter"
  BY DEF PCs
<1>6. /\ q \in Paths \cup {<< >>}
      /\ Len(q) = Len(Top.path) - 1
      /\ Placed(q, pc)
  <2>1. CASE Len(Top.path) = 1
    <3>1. kind = "body"
      BY <1>3, <2>1, PathKinds DEF Last
    <3>2. Top.path \in Seq(Scope)
      BY <1>3, PathIs
    <3>3. q = << >>
      BY <2>1, <3>2 DEF Prefix
    <3>4. pc = "return"
      BY <3>1
    <3>. QED
      BY <2>1, <3>3, <3>4 DEF Placed
  <2>2. CASE Len(Top.path) # 1
    <3>1. Len(Top.path) \in 2 .. Len(Top.path)
      <4>1. \A n \in 1 .. MaxDepth : n # 1 => n \in 2 .. n
        BY CodeAssumption
      <4>. QED
        BY ONLY <1>3, <2>2, <4>1
    <3>2. /\ q \in Paths
          /\ Len(q) = Len(Top.path) - 1
          /\ Last(q) = Top.path[Len(Top.path) - 1]
          /\ kind # "forbody" => Last(q).kind # "for"
          /\ kind = "forbody" => Last(q).kind = "for"
      BY <1>3, <3>1, BlockAround DEF Last
    <3>3. kind # "body"
      BY <1>3, <3>1, PathKinds DEF Last, BlockKinds
    <3>4. Len(q) < MaxDepth
      BY <1>3, <3>2, CodeAssumption
    <3>5. pc = IF kind = "forbody" THEN "post" ELSE "stmt"
      BY <3>3
    <3>. HIDE DEF pc, q, kind
    <3>. QED
      BY <3>2, <3>4, <3>5 DEF Placed
  <2>. QED
    BY <2>1, <2>2
<1>. HIDE DEF pc, q
<1>7. Len(q) = hs_frame_scopes[hs_current_frame] - 1
  BY <1>3, <1>6
<1>. QED
  BY <1>1, <1>2, <1>3, <1>4, <1>5, <1>6, <1>7, ExitOneAdvances

\* The header of a for is entered, with room for its body.
LEMMA EnterForAdvances == CodeInv /\ EnterFor => Advances
<1>. SUFFICES ASSUME CodeInv, EnterFor PROVE Advances
  OBVIOUS
<1>1. PICK id \in Ids :
         hs_scope_enter /\ Goes(Append(Top.path, [kind |-> "for", id |-> id]), "init")
  BY DEF EnterFor
<1>2. PICK b : b = [kind |-> "for", id |-> id]
  OBVIOUS
<1>3. b \in Construct /\ b.kind = "for" /\ hs_scope_enter /\ Goes(Append(Top.path, b), "init")
  BY <1>1, <1>2 DEF Construct
<1>4. At({"stmt"}) /\ Len(Top.path) + 1 < MaxDepth /\ status = "running"
  BY <1>1 DEF EnterFor, hs_scope_enter
<1>5. /\ code # << >>
      /\ Top.path \in Paths
      /\ Len(Top.path) \in 1 .. MaxDepth
      /\ Last(Top.path).kind # "for"
      /\ hs_frame_scopes[hs_current_frame] = Len(Top.path)
  BY <1>4, InBlock
<1>6. Follows(Last(Top.path), b)
  BY <1>3, <1>5 DEF Follows
<1>7. Len(Top.path) < MaxDepth
  BY <1>4, <1>5, CodeAssumption
<1>8. /\ Append(Top.path, b) \in Paths
      /\ Len(Append(Top.path, b)) = Len(Top.path) + 1
      /\ Last(Append(Top.path, b)) = b
  BY <1>5, <1>6, <1>7, PathAppend DEF Last
<1>9. Placed(Append(Top.path, b), "init") /\ "init" \in PCs
  BY <1>3, <1>4, <1>8 DEF Placed, PCs
<1>10. Len(Append(Top.path, b)) = hs_frame_scopes[hs_current_frame] + 1
  BY <1>5, <1>8
<1>. QED
  BY <1>3, <1>5, <1>8, <1>9, <1>10, EnterAdvances

\* The body of a for is entered from its header.
LEMMA EnterForBodyAdvances == CodeInv /\ EnterForBody => Advances
<1>. SUFFICES ASSUME CodeInv, EnterForBody PROVE Advances
  OBVIOUS
<1>1. At({"init", "post", "after"}) /\ hs_scope_enter /\ Goes(Append(Top.path, ForBody), "stmt")
  BY DEF EnterForBody, At
<1>2. status = "running"
  BY <1>1 DEF hs_scope_enter
<1>3. /\ code # << >>
      /\ Top.path \in Paths
      /\ Len(Top.path) < MaxDepth
      /\ Last(Top.path).kind = "for"
      /\ hs_frame_scopes[hs_current_frame] = Len(Top.path)
  BY <1>1, <1>2, InHeader
<1>4. Follows(Last(Top.path), ForBody)
  BY <1>3 DEF Follows
<1>5. /\ Append(Top.path, ForBody) \in Paths
      /\ Len(Append(Top.path, ForBody)) = Len(Top.path) + 1
      /\ Last(Append(Top.path, ForBody)) = ForBody
  BY <1>3, <1>4, PathAppend DEF Last
<1>6. Placed(Append(Top.path, ForBody), "stmt") /\ "stmt" \in PCs
  BY <1>5 DEF Placed, PCs, ForBody
<1>7. Len(Append(Top.path, ForBody)) = hs_frame_scopes[hs_current_frame] + 1
  BY <1>3, <1>5
<1>. QED
  BY <1>1, <1>3, <1>5, <1>6, <1>7, EnterAdvances

\* A for is left for the block around it.
LEMMA LeaveForAdvances == CodeInv /\ LeaveFor => Advances
<1>. SUFFICES ASSUME CodeInv, LeaveFor PROVE Advances
  OBVIOUS
<1>. DEFINE q == Prefix(Top.path, Len(Top.path) - 1)
<1>1. At({"init", "post", "after"}) /\ hs_scope_exit /\ Goes(q, "stmt")
  BY DEF LeaveFor
<1>2. status = "running"
  BY <1>1 DEF hs_scope_exit
<1>3. /\ code # << >>
      /\ Top.path \in Paths
      /\ Len(Top.path) \in 2 .. MaxDepth
      /\ Last(Top.path).kind = "for"
      /\ hs_frame_scopes[hs_current_frame] = Len(Top.path)
  BY <1>1, <1>2, InHeader
<1>4. Len(Top.path) \in 2 .. Len(Top.path) /\ hs_frame_scopes[hs_current_frame] # 0
  BY <1>3, CodeAssumption
<1>5. /\ q \in Paths
      /\ Len(q) = Len(Top.path) - 1
      /\ Last(q).kind # "for"
  BY <1>3, <1>4, BlockAround DEF Last
<1>6. Placed(q, "stmt") /\ "stmt" \in PCs
  BY <1>5 DEF Placed, PCs
<1>7. Len(q) = hs_frame_scopes[hs_current_frame] - 1
  BY <1>3, <1>5
<1>. QED
  BY <1>1, <1>2, <1>3, <1>4, <1>5, <1>6, <1>7, ExitOneAdvances

\* break and continue: the scopes inside the innermost loop are left, those of
\* the header of a for are not.
LEMMA LeaveLoopAdvances ==
    ASSUME CodeInv, NEW header \in {"post", "after"}, LeaveLoop(header)
    PROVE  Advances
<1>1. PICK i \in Loops :
         LET target == IF Top.path[i].kind = "while" THEN i - 1 ELSE i IN
         /\ emitRuntimeScopeExitTo(target)
         /\ Goes(Prefix(Top.path, target),
                 IF Top.path[i].kind = "while" THEN "stmt" ELSE header)
  BY DEF LeaveLoop
<1>2. At({"stmt"})
  BY DEF LeaveLoop
<1>3. status = "running"
  BY <1>1 DEF emitRuntimeScopeExitTo, hs_scope_exit_to
<1>4. /\ code # << >>
      /\ Top.path \in Paths
      /\ Len(Top.path) \in 1 .. MaxDepth
      /\ Last(Top.path).kind # "for"
  BY <1>2, <1>3, InBlock
<1>5. i \in 1 .. Len(Top.path) /\ Top.path[i].kind \in {"while", "for"} /\ Len(Top.path) \in Nat
  BY <1>4, CodeAssumption DEF Loops
<1>6. i \in 2 .. Len(Top.path)
  <2>1. i # 1
    BY <1>4, <1>5, PathKinds
  <2>. QED
    BY <1>5, <2>1
<1>7. CASE Top.path[i].kind = "while"
  <2>. DEFINE q == Prefix(Top.path, i - 1)
  <2>1. emitRuntimeScopeExitTo(i - 1) /\ Goes(q, "stmt")
    BY <1>1, <1>7
  <2>2. q \in Paths /\ Len(q) = i - 1 /\ Last(q).kind # "for"
    BY <1>4, <1>6, <1>7, BlockAround
  <2>3. Placed(q, "stmt") /\ "stmt" \in PCs
    BY <2>2 DEF Placed, PCs
  <2>4. i - 1 \in Nat /\ i - 1 <= Len(Top.path)
    BY <1>5, <1>6
  <2>5. Len(q) - (IF "stmt" = "enter" THEN 1 ELSE 0) = i - 1
    BY <2>2, <2>4
  <2>. HIDE DEF q
  <2>. QED
    BY <1>2, <1>3, <2>1, <2>2, <2>3, <2>4, <2>5, JumpAdvances
<1>8. CASE Top.path[i].kind = "for"
  <2>. DEFINE q == Prefix(Top.path, i)
  <2>1. emitRuntimeScopeExitTo(i) /\ Goes(q, header)
    BY <1>1, <1>8
  <2>2. q \in Paths /\ Len(q) = i /\ q[i] = Top.path[i]
    BY <1>4, <1>5, PathPrefix
  <2>3. Last(q).kind = "for"
    BY <1>8, <2>2 DEF Last
  <2>4. i # Len(Top.path)
    BY <1>4, <1>8 DEF Last
  <2>5. Len(q) < MaxDepth
    BY <1>4, <1>5, <2>2, <2>4, CodeAssumption
  <2>6. Placed(q, header) /\ header \in PCs /\ header # "enter"
    BY <2>2, <2>3, <2>5 DEF Placed, PCs
  <2>7. i \in Nat /\ i <= Len(Top.path)
    BY <1>5
  <2>8. Len(q) - (IF header = "enter" THEN 1 ELSE 0) = i
    BY <2>2, <2>6, <2>7
  <2>. HIDE DEF q
  <2>. QED
    BY <1>2, <1>3, <2>1, <2>2, <2>6, <2>7, <2>8, JumpAdvances
<1>. QED
  BY <1>5, <1>7, <1>8

-----------------------------------------------------------------------------
(* goto, try, catch and throw.                                             *)

\* A goto to a label that is not deeper: the depth that collectLabels recorded
\* for it is the number of scopes the runtime then has open.
LEMMA GotoAdvances == CodeInv /\ Goto => Advances
<1>. SUFFICES ASSUME CodeInv, Goto PROVE Advances
  OBVIOUS
<1>1. PICK label \in LabelPaths :
         /\ Len(label) <= Len(Top.path)
         /\ emitRuntimeScopeExitTo(Len(label))
         /\ Goes(label, "stmt")
  BY DEF Goto, GotoAccepted, labelScopeDepth, runtimeScopeDepth
<1>2. At({"stmt"})
  BY DEF Goto
<1>3. status = "running"
  BY <1>1 DEF emitRuntimeScopeExitTo, hs_scope_exit_to
<1>4. label \in Paths /\ Last(label).kind # "for"
  BY DEF LabelPaths, Last
<1>5. Len(label) \in Nat
  BY <1>4, PathIs
<1>6. Placed(label, "stmt") /\ "stmt" \in PCs
  BY <1>4 DEF Placed, PCs
<1>7. Len(label) - (IF "stmt" = "enter" THEN 1 ELSE 0) = Len(label)
  BY <1>5
<1>. QED
  BY <1>1, <1>2, <1>3, <1>4, <1>5, <1>6, <1>7, JumpAdvances

\* The key of the error storage of a try.
LEMMA ErrorKeyOfTry ==
    ASSUME NEW p \in Paths, NEW c, c.id \in Ids, NEW try, try = Append(p, c)
    PROVE  ErrorKey(try) = Append(p, [kind |-> "error", id |-> c.id]) /\ ErrorKey(try) \in Keys
<1>1. p \in Seq(Scope)
  BY PathIs
<1>2. p \in Seq(Scope \cup {c}) /\ c \in Scope \cup {c}
  BY <1>1
<1>3. Prefix(Append(p, c), Len(p)) = p
  BY ONLY <1>2, FrontOfAppend
<1>4. Len(try) - 1 = Len(p) /\ try[Len(try)] = c
  BY <1>2
<1>5. ErrorKey(try) = Append(p, [kind |-> "error", id |-> c.id])
  BY <1>3, <1>4 DEF ErrorKey
<1>6. Append(p, [kind |-> "error", id |-> c.id]) \in Keys
  BY DEF Keys
<1>. QED
  BY <1>5, <1>6

\* A try registers its error storage in the block around it.
LEMMA BeginTryAdvances == CodeInv /\ BeginTry => Advances
<1>. SUFFICES ASSUME CodeInv, BeginTry PROVE Advances
  OBVIOUS
<1>1. PICK id \in Ids :
         RegisterAs(ErrorKey(Append(Top.path, [kind |-> "try", id |-> id])),
                    Append(Top.path, [kind |-> "try", id |-> id]), "enter")
  BY DEF BeginTry
<1>2. PICK c : c = [kind |-> "try", id |-> id]
  OBVIOUS
<1>3. PICK try : try = Append(Top.path, c)
  OBVIOUS
<1>4. RegisterAs(ErrorKey(try), try, "enter")
  BY <1>1, <1>2, <1>3
<1>5. c \in Construct /\ c.kind = "try" /\ c.id = id
  BY <1>2 DEF Construct
<1>6. At({"stmt"}) /\ Len(Top.path) < MaxDepth /\ status = "running"
  BY <1>1 DEF BeginTry, RegisterAs, hs_register_local
<1>7. /\ code # << >>
      /\ Top.path \in Paths
      /\ Len(Top.path) \in 1 .. MaxDepth
      /\ Last(Top.path).kind # "for"
      /\ Top.pc = "stmt"
  BY <1>6, InBlock
<1>8. Follows(Last(Top.path), c)
  BY <1>5, <1>7 DEF Follows
<1>9. try \in Paths /\ Len(try) = Len(Top.path) + 1 /\ Last(try) = c
  BY <1>3, <1>6, <1>7, <1>8, PathAppend DEF Last
<1>10. Placed(try, "enter") /\ "enter" \in PCs
  BY <1>5, <1>9 DEF Placed, PCs
<1>11. Len(try) - (IF "enter" = "enter" THEN 1 ELSE 0) = OpenScopes(Top)
  BY <1>7, <1>9, CodeAssumption DEF OpenScopes
<1>12. ErrorKey(try) \in Keys
  BY <1>3, <1>5, <1>7, ErrorKeyOfTry
<1>. QED
  BY <1>4, <1>7, <1>9, <1>10, <1>11, <1>12, RegisterAdvances

\* The scope of a try or catch block is opened.
LEMMA EnterTryOrCatchAdvances == CodeInv /\ EnterTryOrCatch => Advances
<1>. SUFFICES ASSUME CodeInv, EnterTryOrCatch PROVE Advances
  OBVIOUS
<1>1. code # << >> /\ Top.pc = "enter" /\ hs_scope_enter /\ Goes(Top.path, "stmt")
  BY DEF EnterTryOrCatch, At
<1>2. status = "running"
  BY <1>1 DEF hs_scope_enter
<1>3. Placed(Top.path, Top.pc) /\ hs_frame_scopes[hs_current_frame] = OpenScopes(Top)
  BY <1>1, <1>2, InFunction
<1>4. Top.path \in Paths /\ Last(Top.path).kind \in {"try", "catch"}
  BY <1>1, <1>3 DEF Placed
<1>5. Placed(Top.path, "stmt") /\ "stmt" \in PCs
  BY <1>4 DEF Placed, PCs
<1>6. Len(Top.path) \in Nat
  BY <1>4, PathIs
<1>7. Len(Top.path) = hs_frame_scopes[hs_current_frame] + 1
  BY <1>1, <1>3, <1>6 DEF OpenScopes
<1>. QED
  BY <1>1, <1>4, <1>5, <1>7, EnterAdvances

\* The path of the catch block that belongs to the try at position i of a path.
LEMMA CatchPath ==
    ASSUME NEW p \in Paths, NEW i \in 1 .. Len(p), p[i].kind = "try",
           NEW c, c = [kind |-> "catch", id |-> p[i].id]
    PROVE  /\ i \in 2 .. Len(p)
           /\ p[i].id \in Ids
           /\ Prefix(p, i - 1) \in Paths
           /\ Len(Prefix(p, i - 1)) = i - 1
           /\ Append(Prefix(p, i - 1), c) \in Paths
           /\ Len(Append(Prefix(p, i - 1), c)) = i
           /\ Last(Append(Prefix(p, i - 1), c)) = c
<1>1. Len(p) \in 1 .. MaxDepth /\ Len(p) \in Nat
  BY PathIs, CodeAssumption
<1>2. i # 1
  BY PathKinds
<1>3. i \in 2 .. Len(p)
  BY <1>1, <1>2
<1>4. /\ Prefix(p, i - 1) \in Paths
      /\ Len(Prefix(p, i - 1)) = i - 1
      /\ Last(Prefix(p, i - 1)).kind # "for"
      /\ p[i - 1].kind # "for"
  <2>1. /\ Prefix(p, i - 1) \in Paths
        /\ Len(Prefix(p, i - 1)) = i - 1
        /\ Last(Prefix(p, i - 1)) = p[i - 1]
        /\ p[i].kind # "forbody" => p[i - 1].kind # "for"
    BY <1>3, BlockAround
  <2>. QED
    BY <2>1
<1>5. p[i] \in Construct
  BY <1>3, <1>4, PathKinds
<1>6. p[i].id \in Ids /\ c \in Construct
  BY <1>5 DEF Construct
<1>7. Follows(Last(Prefix(p, i - 1)), c)
  BY <1>4, <1>6 DEF Follows
<1>8. Len(Prefix(p, i - 1)) < MaxDepth
  BY <1>1, <1>3, <1>4, CodeAssumption
<1>9. PICK r \in Paths : r = Prefix(p, i - 1)
  BY <1>4
<1>10. /\ Append(r, c) \in Paths
       /\ Len(Append(r, c)) = Len(r) + 1
       /\ Append(r, c)[Len(r) + 1] = c
  BY <1>7, <1>8, <1>9, PathAppend DEF Last
<1>11. Len(r) = i - 1 /\ Len(Append(r, c)) = i
  BY <1>3, <1>4, <1>9, <1>10
<1>12. Last(Append(r, c)) = c
  BY <1>10 DEF Last
<1>. QED
  BY <1>3, <1>4, <1>6, <1>9, <1>10, <1>11, <1>12

\* A throw leaves the scopes up to the block around the innermost try; the
\* scope of the catch block is opened next.
LEMMA ThrowAdvances == CodeInv /\ Throw => Advances
<1>. SUFFICES ASSUME CodeInv, Throw PROVE Advances
  OBVIOUS
<1>1. PICK i \in Tries :
         /\ emitRuntimeScopeExitTo(i - 1)
         /\ Goes(Append(Prefix(Top.path, i - 1),
                        [kind |-> "catch", id |-> Top.path[i].id]), "enter")
  BY DEF Throw
<1>2. PICK c : c = [kind |-> "catch", id |-> Top.path[i].id]
  OBVIOUS
<1>3. PICK q : q = Append(Prefix(Top.path, i - 1), c)
  OBVIOUS
<1>4. emitRuntimeScopeExitTo(i - 1) /\ Goes(q, "enter")
  BY <1>1, <1>2, <1>3
<1>5. At({"stmt"})
  BY DEF Throw
<1>6. status = "running"
  BY <1>4 DEF emitRuntimeScopeExitTo, hs_scope_exit_to
<1>7. Top.path \in Paths /\ Len(Top.path) \in Nat
  BY <1>5, <1>6, InBlock, CodeAssumption
<1>8. i \in 1 .. Len(Top.path) /\ Top.path[i].kind = "try"
  BY DEF Tries
<1>9. q \in Paths /\ Len(q) = i /\ Last(q) = c
  BY <1>2, <1>3, <1>7, <1>8, CatchPath
<1>10. Placed(q, "enter") /\ "enter" \in PCs
  BY <1>2, <1>9 DEF Placed, PCs
<1>11. i - 1 \in Nat /\ i - 1 <= Len(Top.path)
  BY <1>7, <1>8
<1>12. Len(q) - (IF "enter" = "enter" THEN 1 ELSE 0) = i - 1
  BY <1>8, <1>9
<1>. QED
  BY <1>4, <1>5, <1>6, <1>9, <1>10, <1>11, <1>12, JumpAdvances

\* A throw that nothing catches leaves every scope.
LEMMA ThrowUncaughtAdvances == CodeInv /\ ThrowUncaught => Advances
<1>. SUFFICES ASSUME CodeInv, ThrowUncaught PROVE Advances
  OBVIOUS
<1>1. At({"stmt"}) /\ emitRuntimeScopeExitTo(0) /\ Goes(<< >>, "exit")
  BY DEF ThrowUncaught
<1>2. status = "running"
  BY <1>1 DEF emitRuntimeScopeExitTo, hs_scope_exit_to
<1>3. Len(Top.path) \in 1 .. MaxDepth
  BY <1>1, <1>2, InBlock
<1>4. 0 <= Len(Top.path)
  BY <1>3, CodeAssumption
<1>5. Placed(<< >>, "exit") /\ "exit" \in PCs /\ Len(<< >>) = 0
  BY DEF Placed, PCs
<1>6. Len(<< >>) - (IF "exit" = "enter" THEN 1 ELSE 0) = 0
  BY <1>5
<1>. QED
  BY <1>1, <1>2, <1>4, <1>5, <1>6, JumpAdvances

-----------------------------------------------------------------------------
(* The theorems on the depths.                                             *)

\* Every step of the generated code is a step of the registry, and keeps the
\* emitter's depths and the runtime's equal.
LEMMA StepAdvances == CodeInv /\ [CodeNext]_codeVars => Advances
<1>. SUFFICES ASSUME CodeInv, [CodeNext]_codeVars PROVE Advances
  OBVIOUS
<1>1. ASSUME UNCHANGED codeVars PROVE Advances
  <2>1. /\ UNCHANGED vars
        /\ UNCHANGED code
        /\ status' = status
    BY <1>1 DEF codeVars, vars
  <2>2. CodeShape' /\ CompiledDepthIsRuntimeDepth'
    BY <2>1 DEF CodeInv, CodeShape, CompiledDepthIsRuntimeDepth, Depth, OpenScopes, vars
  <2>3. status' \notin Inconsistent
    BY <2>1 DEF CodeInv, NoInconsistentCall, Inconsistent
  <2>. QED
    BY <2>1, <2>2, <2>3 DEF Advances
<1>2. ASSUME emitBreak \/ emitContinue PROVE Advances
  BY <1>2, LeaveLoopAdvances DEF emitBreak, emitContinue
<1>3. ASSUME Ended PROVE Advances
  BY <1>1, <1>3 DEF Ended
<1>. QED
  BY <1>1, <1>2, <1>3, CallAdvances, DeclareAdvances, EnterFunctionBodyAdvances, ReturnAdvances,
     FrameExitAdvances, EnterBlockAdvances, BlockEndAdvances, EnterForAdvances,
     EnterForBodyAdvances, LeaveForAdvances, GotoAdvances, BeginTryAdvances,
     EnterTryOrCatchAdvances, ThrowAdvances, ThrowUncaughtAdvances DEF CodeNext

\* Before the C startup calls anything there is no frame and no activation.
LEMMA CodeInvInit == CodeInit => CodeInv
<1>. SUFFICES ASSUME CodeInit PROVE CodeInv
  OBVIOUS
<1>1. Init /\ code = << >> /\ status = "running" /\ hs_current_frame = 0
  BY DEF CodeInit, Init
<1>2. IInv
  BY <1>1, InvInit
<1>3. CodeShape /\ CompiledDepthIsRuntimeDepth
  BY <1>1 DEF CodeShape, CompiledDepthIsRuntimeDepth, Depth
<1>4. NoInconsistentCall
  BY <1>1 DEF NoInconsistentCall
<1>. QED
  BY <1>2, <1>3, <1>4 DEF CodeInv

\* The invariant is inductive: what StepAdvances leaves open follows from the
\* registry's own invariant, which excludes a conflicting registration.
LEMMA CodeInvStep == CodeInv /\ [CodeNext]_codeVars => CodeInv'
<1>. SUFFICES ASSUME CodeInv, [CodeNext]_codeVars PROVE CodeInv'
  OBVIOUS
<1>1. Advances
  BY StepAdvances
<1>2. IInv'
  BY <1>1, InvStep DEF Advances, CodeInv
<1>3. status' # "conflicting object registration"
  BY <1>2 DEF IInv, LiveObjectsDisjoint
<1>4. NoInconsistentCall'
  BY <1>1, <1>3 DEF Advances, NoInconsistentCall, Inconsistent
<1>. QED
  BY <1>1, <1>2, <1>4 DEF CodeInv, Advances

\* Generated code keeps the invariant at every depth of nesting.
THEOREM CodeInvariance == CodeSpec => []CodeInv
BY CodeInvInit, CodeInvStep, PTL DEF CodeSpec

\* Control is always at a place of a program (emit of blocks, loops and jumps):
\* in a for header exactly between its initializer and its end.
THEOREM CodeTypeCorrect == CodeSpec => []CodeTypeOK
<1>1. CodeInv => CodeTypeOK
  BY ShapeType DEF CodeInv
<1>. QED
  BY <1>1, CodeInvariance, PTL

\* On every path of every program the scope depth that the emitter assumes
\* (runtimeScopeDepth_, labelScopeDepth) is the depth the runtime has, and no
\* frame or scope call is ever rejected as inconsistent.
THEOREM DepthsNeverPart == CodeSpec => []DepthsAgree
<1>1. CodeInv => DepthsAgree
  BY DEF CodeInv, DepthsAgree
<1>. QED
  BY <1>1, CodeInvariance, PTL

\* Generated code is a client of the registry: what is proved of the registry
\* for arbitrary calls holds for it.
THEOREM CodeUsesRegistry == CodeSpec => Spec
<1>1. CodeInit => Init
  BY DEF CodeInit
<1>2. CodeInv /\ [CodeNext]_codeVars => [Next]_vars
  BY StepAdvances DEF Advances
<1>. QED
  BY <1>1, <1>2, CodeInvariance, PTL DEF CodeSpec, Spec


-----------------------------------------------------------------------------
(* What generated code has registered is what control is in: every local   *)
(* belongs to an open block, and the error storage of every try that       *)
(* control is in is live, for programs whose gotos jump to a label in a    *)
(* block around them.                                                      *)

ErrorHandled(c) == c.kind \in {"try", "catch"}

\* The entry of the storage at p while it is registered in scope s of frame f.
Holds(e, p, f, s) ==
    /\ e.ptr = p
    /\ e.size = 1
    /\ e.kind = "local"
    /\ e.frame = f
    /\ e.scope = s
    /\ e.freed = 0

Registered(p, f, s) == \E i \in Slots : Holds(hs_allocs[i], p, f, s)

\* The entry e is of a local that activation a declared in the block made of the
\* first e.scope constructs around where control is.
Declared(e, a) ==
    \E k \in DOMAIN a.locals :
        /\ a.locals[k] = e.ptr
        /\ BlockOf(k) = Prefix(a.path, e.scope)

\* The error storage of the try or catch block at position n of a path.
ErrorKeyAt(p, n) == ErrorKey(Prefix(p, n))

HasErrorStorage(f, n) ==
    /\ ErrorKeyAt(code[f].path, n) \in DOMAIN code[f].locals
    /\ Registered(code[f].locals[ErrorKeyAt(code[f].path, n)], f, n - 1)

LocalsHeld ==
    status = "running" => \A i \in Slots : IsAuto(i) => Declared(hs_allocs[i], code[hs_allocs[i].frame])

ErrorsHeld ==
    status = "running" =>
        \A f \in 1 .. Depth : \A n \in 1 .. Len(code[f].path) :
            ErrorHandled(code[f].path[n]) => HasErrorStorage(f, n)

\* Inductive together with CodeInv: the scope number of an entry tells which of
\* the blocks around control declared it.
StorageHeld == LocalsHeld /\ ErrorsHeld

-----------------------------------------------------------------------------
(* What the invariant says.                                                *)

\* Every automatic entry belongs to an activation and to a scope it has open.
LEMMA FrameOfEntry ==
    ASSUME CodeInv, status = "running", NEW i \in Slots, IsAuto(i)
    PROVE  /\ hs_allocs[i].frame \in 1 .. Depth
           /\ code[hs_allocs[i].frame] \in Activation
           /\ hs_allocs[i].scope \in 0 .. OpenScopes(code[hs_allocs[i].frame])
           /\ OpenScopes(code[hs_allocs[i].frame]) \in Int
           /\ OpenScopes(code[hs_allocs[i].frame]) <= Len(code[hs_allocs[i].frame].path)
           /\ Len(code[hs_allocs[i].frame].path) \in Nat
<1>1. /\ hs_allocs[i].frame \in 1 .. hs_current_frame
      /\ hs_allocs[i].scope \in 0 .. hs_frame_scopes[hs_allocs[i].frame]
  BY DEF CodeInv, IInv, AutomaticObjectsInOpenScopes
<1>2. PICK f : f = hs_allocs[i].frame
  OBVIOUS
<1>3. f \in 1 .. Depth /\ hs_frame_scopes[f] = OpenScopes(code[f])
  BY <1>1, <1>2 DEF CodeInv, CompiledDepthIsRuntimeDepth
<1>4. code[f] \in Activation
  BY <1>3 DEF CodeInv, CodeShape, Depth
<1>5. code[f].path \in Paths \/ code[f].path = << >>
  BY <1>4 DEF Activation
<1>6. Len(code[f].path) \in Nat
  BY <1>5, PathIs
<1>7. OpenScopes(code[f]) <= Len(code[f].path)
  <2>1. CASE code[f].pc = "enter"
    <3>1. OpenScopes(code[f]) = Len(code[f].path) - 1
      BY <2>1 DEF OpenScopes
    <3>. QED
      BY <1>6, <3>1
  <2>2. CASE code[f].pc # "enter"
    <3>1. OpenScopes(code[f]) = Len(code[f].path) - 0
      BY <2>2 DEF OpenScopes
    <3>. QED
      BY <1>6, <3>1
  <2>. QED
    BY <2>1, <2>2
<1>8. OpenScopes(code[f]) \in Int
  BY <1>6 DEF OpenScopes
<1>. QED
  BY <1>1, <1>2, <1>3, <1>4, <1>6, <1>7, <1>8

\* The invariant gives the properties: every registered local belongs to a
\* block that control is in, and error storage can be accessed where it is used.
LEMMA HeldIsOpen == CodeInv /\ StorageHeld => LocalsOfOpenBlocks /\ ErrorStorageLive
<1>. SUFFICES ASSUME CodeInv, StorageHeld PROVE LocalsOfOpenBlocks /\ ErrorStorageLive
  OBVIOUS
<1>1. LocalsOfOpenBlocks
  <2>. SUFFICES ASSUME status = "running", NEW i \in Slots, IsAuto(i)
                PROVE  LET a == code[hs_allocs[i].frame] IN
                       \E k \in DOMAIN a.locals :
                          /\ a.locals[k] = hs_allocs[i].ptr
                          /\ BlockOf(k) \in {Prefix(a.path, n) : n \in 0 .. Len(a.path)}
    BY DEF LocalsOfOpenBlocks
  <2>1. PICK a : a = code[hs_allocs[i].frame]
    OBVIOUS
  <2>2. Declared(hs_allocs[i], a)
    BY <2>1 DEF StorageHeld, LocalsHeld
  <2>3. hs_allocs[i].scope \in 0 .. OpenScopes(a) /\ OpenScopes(a) <= Len(a.path)
       /\ OpenScopes(a) \in Int /\ Len(a.path) \in Nat
    BY <2>1, FrameOfEntry
  <2>4. hs_allocs[i].scope \in 0 .. Len(a.path)
    BY ONLY <2>3
  <2>. QED
    BY <2>1, <2>2, <2>4 DEF Declared
<1>2. ErrorStorageLive
  <2>. SUFFICES ASSUME status = "running", At({"stmt"}), NEW n \in 1 .. Len(Top.path),
                       Top.path[n].kind \in {"try", "catch"}
                PROVE  LET key == ErrorKey(Prefix(Top.path, n)) IN
                       key \in DOMAIN Top.locals /\ CheckAccepts(Top.locals[key], 1)
    BY DEF ErrorStorageLive
  <2>1. Depth \in 1 .. Depth
    <3>1. code # << >>
      BY DEF At
    <3>2. Depth \in Nat \ {0}
      BY <3>1, InFunction
    <3>. QED
      BY <3>2
  <2>. DEFINE key == ErrorKeyAt(Top.path, n)
  <2>2. key \in DOMAIN Top.locals /\ Registered(Top.locals[key], Depth, n - 1)
    BY <2>1 DEF StorageHeld, ErrorsHeld, ErrorHandled, HasErrorStorage, Top
  <2>3. PICK i \in Slots : Holds(hs_allocs[i], Top.locals[key], Depth, n - 1)
    BY <2>2 DEF Registered
  <2>4. hs_allocs[i].ptr # NULL /\ hs_allocs[i].size = 1
    <3>1. Top.locals[key] \in StackAddr
      <4>1. CodeTypeOK
        BY ShapeType DEF CodeInv
      <4>2. key \in DOMAIN code[Depth].locals
        BY <2>2 DEF Top
      <4>. QED
        BY <2>1, <4>1, <4>2 DEF CodeTypeOK, Top
    <3>. QED
      BY <2>3, <3>1, AddressAssumption DEF Holds, NULL
  <2>5. IsLive(i) /\ hs_allocs[i].kind # "heap"
    BY <2>3, <2>4 DEF IsLive, Holds
  <2>6. AutomaticAndStaticUsable
    BY InvUsable DEF CodeInv
  <2>7. CheckAccepts(hs_allocs[i].ptr, hs_allocs[i].size)
    BY <2>5, <2>6 DEF AutomaticAndStaticUsable
  <2>8. CheckAccepts(Top.locals[key], 1)
    BY <2>3, <2>4, <2>7 DEF Holds
  <2>. QED
    BY <2>2, <2>8 DEF ErrorKeyAt
<1>. QED
  BY <1>1, <1>2

-----------------------------------------------------------------------------
(* Leaving scopes.                                                         *)

\* Exactly the automatic entries of the current frame deeper than t are dropped.
Dropped(t) ==
    \A i \in Slots :
        \/ /\ IsAuto(i)
           /\ hs_allocs[i].frame = hs_current_frame
           /\ hs_allocs[i].scope > t
           /\ hs_allocs'[i].ptr = NULL
        \/ /\ ~(IsAuto(i) /\ hs_allocs[i].frame = hs_current_frame /\ hs_allocs[i].scope > t)
           /\ hs_allocs'[i] = hs_allocs[i]

\* The storage of a local is an address.
LEMMA LocalsAreStack ==
    ASSUME CodeInv, NEW f \in 1 .. Depth, NEW k \in DOMAIN code[f].locals
    PROVE  code[f].locals[k] \in StackAddr /\ code[f].locals[k] # NULL
<1>1. CodeTypeOK
  BY ShapeType DEF CodeInv
<1>2. code[f].locals[k] \in StackAddr
  BY <1>1 DEF CodeTypeOK
<1>. QED
  BY <1>2, AddressAssumption DEF NULL

\* Goes changes the innermost activation only, and keeps its locals.
LEMMA GoesKeeps ==
    ASSUME CodeInv, status = "running", code # << >>, NEW q, NEW pc, Goes(q, pc)
    PROVE  /\ Len(code') = Depth
           /\ Depth \in 1 .. Depth
           /\ code'[Depth].path = q
           /\ code'[Depth].locals = code[Depth].locals
           /\ \A f \in 1 .. Depth : f # Depth => code'[f] = code[f]
<1>1. code \in Seq(Activation) /\ Depth \in Nat \ {0} /\ Depth = Len(code)
  BY InFunction DEF Depth
<1>2. PICK a : a = [path |-> q, pc |-> pc, locals |-> Top.locals]
  OBVIOUS
<1>3. code' = [code EXCEPT ![Depth] = a] /\ a.path = q /\ a.locals = Top.locals
  BY <1>2 DEF Goes
<1>4. /\ Len(code') = Depth
      /\ code'[Depth] = a
      /\ \A f \in 1 .. Depth : f # Depth => code'[f] = code[f]
  BY <1>1, <1>3
<1>5. Depth \in 1 .. Depth
  BY <1>1
<1>. QED
  BY <1>3, <1>4, <1>5 DEF Top

\* Control goes from a path to a path q that agrees with it in the scopes that
\* stay open, and whose try and catch blocks are those it was in, or the catch
\* block of the innermost scope that is left.
Agrees(p, q, t) ==
    /\ \A n \in 0 .. t : Prefix(q, n) = Prefix(p, n)
    /\ \A n \in 1 .. Len(q) : ErrorHandled(q[n]) =>
          /\ n - 1 <= t
          /\ n \in 1 .. Len(p)
          /\ ErrorHandled(p[n])
          /\ ErrorKeyAt(q, n) = ErrorKeyAt(p, n)

\* Leaving scopes drops the locals of the blocks left, and only those.
LEMMA JumpHeld ==
    ASSUME CodeInv, StorageHeld, status = "running", code # << >>, NEW q, NEW pc, Goes(q, pc),
           NEW t \in Nat, Dropped(t), Agrees(Top.path, q, t)
    PROVE  StorageHeld'
<1>1. /\ Len(code') = Depth
      /\ Depth \in 1 .. Depth
      /\ code'[Depth].path = q
      /\ code'[Depth].locals = code[Depth].locals
      /\ \A f \in 1 .. Depth : f # Depth => code'[f] = code[f]
  BY GoesKeeps
<1>2. Depth' = Depth /\ Depth = hs_current_frame /\ Depth \in Nat \ {0}
  BY <1>1, InFunction DEF Depth
<1>3. ASSUME NEW i \in Slots, IsAuto(i)'
      PROVE  Declared(hs_allocs'[i], code'[hs_allocs'[i].frame])
  <2>1. hs_allocs'[i].ptr # NULL /\ hs_allocs'[i].kind \in {"local", "temporary"}
    BY <1>3 DEF IsAuto
  <2>2. PICK e : e = hs_allocs[i]
    OBVIOUS
  <2>3. /\ hs_allocs'[i] = e
        /\ ~(IsAuto(i) /\ e.frame = hs_current_frame /\ e.scope > t)
    BY <2>1, <2>2 DEF Dropped
  <2>4. IsAuto(i)
    BY <2>1, <2>2, <2>3 DEF IsAuto
  <2>5. Declared(e, code[e.frame])
    BY <2>2, <2>4 DEF StorageHeld, LocalsHeld
  <2>6. e.frame \in 1 .. Depth /\ e.scope \in Nat
    <3>1. e.frame \in 1 .. Depth /\ e.scope \in 0 .. OpenScopes(code[e.frame])
          /\ OpenScopes(code[e.frame]) \in Int
      BY <2>2, <2>4, FrameOfEntry
    <3>. QED
      BY <3>1
  <2>7. CASE e.frame # Depth
    BY <1>1, <2>3, <2>5, <2>6, <2>7
  <2>8. CASE e.frame = Depth
    <3>1. e.scope \in 0 .. t
      BY <1>2, <2>3, <2>4, <2>6, <2>8
    <3>2. Prefix(q, e.scope) = Prefix(code[Depth].path, e.scope)
      BY <3>1 DEF Agrees, Top
    <3>3. Declared(e, code'[Depth])
      BY <1>1, <2>5, <2>8, <3>2 DEF Declared
    <3>. QED
      BY <2>3, <2>8, <3>3
  <2>. QED
    BY <2>7, <2>8
<1>4. ASSUME NEW f \in 1 .. Depth, NEW p, NEW s \in Int, p # NULL,
             Registered(p, f, s), f = Depth => s <= t
      PROVE  Registered(p, f, s)'
  <2>1. PICK i \in Slots : Holds(hs_allocs[i], p, f, s)
    BY <1>4 DEF Registered
  <2>2. ~(f = Depth /\ s > t)
    BY <1>4
  <2>3. hs_allocs'[i] = hs_allocs[i]
    BY <1>2, <2>1, <2>2 DEF Dropped, Holds
  <2>. QED
    BY <2>1, <2>3 DEF Registered
<1>5. ASSUME NEW f \in 1 .. Depth, NEW n \in 1 .. Len(code'[f].path),
             ErrorHandled(code'[f].path[n]), status' = "running"
      PROVE  HasErrorStorage(f, n)'
  <2>1. ASSUME NEW m \in 1 .. Len(code[f].path), ErrorHandled(code[f].path[m])
        PROVE  /\ ErrorKeyAt(code[f].path, m) \in DOMAIN code[f].locals
               /\ Registered(code[f].locals[ErrorKeyAt(code[f].path, m)], f, m - 1)
    BY <2>1 DEF StorageHeld, ErrorsHeld, HasErrorStorage
  <2>2. CASE f # Depth
    <3>1. code'[f] = code[f]
      BY <1>1, <2>2
    <3>2. PICK key, p : key = ErrorKeyAt(code[f].path, n) /\ p = code[f].locals[key]
      OBVIOUS
    <3>3. key \in DOMAIN code[f].locals /\ Registered(p, f, n - 1)
      BY <1>5, <2>1, <3>1, <3>2
    <3>4. p # NULL
      BY <3>2, <3>3, LocalsAreStack
    <3>5. Registered(p, f, n - 1)'
      BY <1>4, <2>2, <3>3, <3>4
    <3>. QED
      BY <3>1, <3>2, <3>3, <3>5 DEF HasErrorStorage, Registered
  <2>3. CASE f = Depth
    <3>1. n \in 1 .. Len(q) /\ ErrorHandled(q[n])
      BY <1>1, <1>5, <2>3
    <3>2. /\ n - 1 <= t
          /\ n \in 1 .. Len(code[f].path)
          /\ ErrorHandled(code[f].path[n])
          /\ ErrorKeyAt(q, n) = ErrorKeyAt(code[f].path, n)
      BY <2>3, <3>1 DEF Agrees, Top
    <3>3. PICK key, p : key = ErrorKeyAt(code[f].path, n) /\ p = code[f].locals[key]
      OBVIOUS
    <3>4. key \in DOMAIN code[f].locals /\ Registered(p, f, n - 1)
      BY <2>1, <3>2, <3>3
    <3>5. p # NULL
      BY <3>3, <3>4, LocalsAreStack
    <3>6. Registered(p, f, n - 1)'
      BY <1>4, <3>2, <3>4, <3>5
    <3>7. ErrorKeyAt(code'[f].path, n) = key /\ code'[f].locals = code[f].locals
      BY <1>1, <2>3, <3>2, <3>3
    <3>. QED
      BY <3>3, <3>4, <3>6, <3>7 DEF HasErrorStorage, Registered
  <2>. QED
    BY <2>2, <2>3
<1>6. LocalsHeld'
  BY <1>3 DEF LocalsHeld
<1>7. ErrorsHeld'
  BY <1>2, <1>5 DEF ErrorsHeld
<1>. QED
  BY <1>6, <1>7 DEF StorageHeld

\* Where control is, as a sequence.
LEMMA PathSeq == \A p \in Paths \cup {<< >>} : p \in Seq(Scope) /\ Len(p) \in Nat
<1>1. \A p \in Paths : p \in Seq(Scope) /\ Len(p) \in Nat
  BY PathIs
<1>2. << >> \in Seq(Scope) /\ Len(<< >>) \in Nat
  OBVIOUS
<1>. QED
  BY <1>1, <1>2

\* Sequences that agree up to n have the same first n elements.
LEMMA SamePrefix ==
    ASSUME NEW S, NEW s \in Seq(S), NEW r \in Seq(S), NEW n \in Nat,
           n <= Len(s), n <= Len(r), \A i \in 1 .. n : s[i] = r[i]
    PROVE  Prefix(s, n) = Prefix(r, n)
BY DEF Prefix

\* A path that agrees with another up to t, and with nothing of a try after it.
LEMMA AgreesUpTo ==
    ASSUME NEW p \in Paths, NEW q \in Paths \cup {<< >>}, NEW t \in Nat,
           t <= Len(p), t <= Len(q), \A i \in 1 .. t : q[i] = p[i],
           \A n \in 1 .. Len(q) : n > t => ~ErrorHandled(q[n])
    PROVE  Agrees(p, q, t)
<1>1. p \in Seq(Scope) /\ q \in Seq(Scope) /\ Len(p) \in Nat /\ Len(q) \in Nat
  BY PathSeq
<1>2. ASSUME NEW n \in 0 .. t PROVE Prefix(q, n) = Prefix(p, n)
  <2>1. n \in Nat /\ n <= Len(p) /\ n <= Len(q) /\ \A i \in 1 .. n : q[i] = p[i]
    BY <1>1
  <2>. QED
    BY ONLY <1>1, <2>1, SamePrefix
<1>3. ASSUME NEW n \in 1 .. Len(q), ErrorHandled(q[n])
      PROVE  /\ n - 1 <= t
             /\ n \in 1 .. Len(p)
             /\ ErrorHandled(p[n])
             /\ ErrorKeyAt(q, n) = ErrorKeyAt(p, n)
  <2>1. n \in 1 .. t /\ n \in 0 .. t
    BY <1>1, <1>3
  <2>2. Prefix(q, n) = Prefix(p, n) /\ q[n] = p[n]
    BY <1>2, <2>1
  <2>. QED
    BY <1>1, <1>3, <2>1, <2>2 DEF ErrorKeyAt
<1>. QED
  BY <1>2, <1>3 DEF Agrees

\* Control leaves blocks for one around it, or for the end of the function.
LEMMA AgreesPrefix ==
    ASSUME NEW p \in Paths, NEW t \in 0 .. Len(p)
    PROVE  Agrees(p, Prefix(p, t), t)
<1>1. p \in Seq(Scope) /\ Len(p) \in Nat
  BY PathIs
<1>2. CASE t = 0
  <2>1. Prefix(p, t) = << >>
    BY <1>1, <1>2 DEF Prefix
  <2>2. PICK q : q = Prefix(p, t)
    OBVIOUS
  <2>3. q \in Paths \cup {<< >>} /\ Len(q) = 0
    BY <2>1, <2>2
  <2>4. Agrees(p, q, t)
    BY <1>1, <1>2, <2>3, AgreesUpTo
  <2>. QED
    BY <2>2, <2>4
<1>3. CASE t # 0
  <2>1. t \in 1 .. Len(p)
    BY <1>1, <1>3
  <2>2. PICK q \in Paths : q = Prefix(p, t)
    BY <2>1, PathPrefix
  <2>3. Len(q) = t /\ \A i \in 1 .. t : q[i] = p[i]
    BY <2>1, <2>2, PathPrefix
  <2>4. \A n \in 1 .. Len(q) : n > t => ~ErrorHandled(q[n])
    BY <1>1, <2>1, <2>3
  <2>5. t \in Nat /\ t <= Len(p) /\ t <= Len(q)
    BY <1>1, <2>1, <2>3
  <2>6. Agrees(p, q, t)
    BY <2>3, <2>4, <2>5, AgreesUpTo
  <2>. QED
    BY <2>2, <2>6
<1>. QED
  BY <1>2, <1>3

\* Control enters a block that is no try or catch block.
LEMMA AgreesAppend ==
    ASSUME NEW p \in Paths, NEW q \in Paths, NEW c, q = Append(p, c), ~ErrorHandled(c)
    PROVE  Agrees(p, q, Len(p))
<1>1. p \in Seq(Scope) /\ q \in Seq(Scope) /\ Len(p) \in Nat
  <2>1. p \in Paths \cup {<< >>} /\ q \in Paths \cup {<< >>}
    OBVIOUS
  <2>. QED
    BY ONLY <2>1, PathSeq
<1>2. p \in Seq(Scope \cup {c}) /\ c \in Scope \cup {c}
  BY <1>1
<1>3. Len(q) = Len(p) + 1 /\ q[Len(p) + 1] = c /\ \A i \in 1 .. Len(p) : q[i] = p[i]
  BY <1>2
<1>4. \A n \in 1 .. Len(q) : n > Len(p) => ~ErrorHandled(q[n])
  <2>1. \A n \in 1 .. Len(q) : n > Len(p) => n = Len(p) + 1
    BY <1>1, <1>3
  <2>. QED
    BY <1>3, <2>1
<1>5. Len(p) <= Len(p) /\ Len(p) <= Len(q)
  BY <1>1, <1>3
<1>. QED
  BY <1>1, <1>3, <1>4, <1>5, AgreesUpTo

\* Control is thrown from a try to its catch block: the error storage of the
\* handler is that of the try.
LEMMA AgreesCatch ==
    ASSUME NEW p \in Paths, NEW i \in 1 .. Len(p), p[i].kind = "try",
           NEW c, c = [kind |-> "catch", id |-> p[i].id],
           NEW q, q = Append(Prefix(p, i - 1), c)
    PROVE  Agrees(p, q, i - 1)
<1>1. p \in Seq(Scope) /\ Len(p) \in Nat
  BY PathIs
<1>2. /\ i \in 2 .. Len(p)
      /\ p[i].id \in Ids
      /\ Prefix(p, i - 1) \in Paths
      /\ Len(Prefix(p, i - 1)) = i - 1
      /\ q \in Paths
      /\ Len(q) = i
      /\ Last(q) = c
  BY CatchPath
<1>3. i - 1 \in 1 .. Len(p) /\ i - 1 \in Nat
  BY <1>1, <1>2
<1>4. PICK r \in Paths : r = Prefix(p, i - 1)
  BY <1>2
<1>5. Len(r) = i - 1 /\ \A j \in 1 .. (i - 1) : r[j] = p[j]
  BY <1>3, <1>4, PathPrefix
<1>6. q = Append(r, c) /\ \A j \in 1 .. (i - 1) : q[j] = r[j]
  <2>1. r \in Seq(Scope \cup {c}) /\ c \in Scope \cup {c}
    BY PathIs
  <2>. QED
    BY <1>4, <1>5, <2>1
<1>7. \A j \in 1 .. (i - 1) : q[j] = p[j]
  BY <1>5, <1>6
<1>8. \A n \in 0 .. (i - 1) : Prefix(q, n) = Prefix(p, n)
  <2>. SUFFICES ASSUME NEW n \in 0 .. (i - 1) PROVE Prefix(q, n) = Prefix(p, n)
    OBVIOUS
  <2>1. n \in Nat /\ n <= Len(q) /\ n <= Len(p) /\ \A j \in 1 .. n : q[j] = p[j]
    BY <1>1, <1>2, <1>3, <1>7
  <2>2. q \in Seq(Scope)
    BY <1>2, PathIs
  <2>. QED
    BY ONLY <1>1, <2>1, <2>2, SamePrefix
<1>9. ErrorKeyAt(q, i) = ErrorKeyAt(p, i)
  <2>1. ErrorKey(q) = Append(r, [kind |-> "error", id |-> c.id])
    BY <1>2, <1>6, ErrorKeyOfTry
  <2>2. Prefix(q, i) = q
    <3>1. q \in Seq(Scope)
      BY <1>2, PathIs
    <3>. QED
      BY <1>2, <3>1 DEF Prefix
  <2>3. PICK try \in Paths : try = Prefix(p, i)
    BY PathPrefix
  <2>4. Len(try) = i /\ \A j \in 1 .. i : try[j] = p[j]
    BY <2>3, PathPrefix
  <2>5. Prefix(try, i - 1) = r
    <3>1. try \in Seq(Scope)
      BY PathIs
    <3>2. i - 1 <= Len(try) /\ i - 1 <= Len(p) /\ \A j \in 1 .. (i - 1) : try[j] = p[j]
      BY <1>1, <1>3, <2>4
    <3>3. Prefix(try, i - 1) = Prefix(p, i - 1)
      BY ONLY <1>1, <1>3, <3>1, <3>2, SamePrefix
    <3>. QED
      BY <1>4, <3>3
  <2>6. ErrorKey(try) = Append(r, [kind |-> "error", id |-> p[i].id])
    BY <1>2, <2>4, <2>5 DEF ErrorKey
  <2>. QED
    BY <2>1, <2>2, <2>3, <2>6 DEF ErrorKeyAt
<1>10. ASSUME NEW n \in 1 .. Len(q), ErrorHandled(q[n])
       PROVE  /\ n - 1 <= i - 1
              /\ n \in 1 .. Len(p)
              /\ ErrorHandled(p[n])
              /\ ErrorKeyAt(q, n) = ErrorKeyAt(p, n)
  <2>1. n \in 1 .. Len(p) /\ n - 1 <= i - 1
    BY <1>1, <1>2
  <2>2. CASE n = i
    BY <1>9, <2>1, <2>2 DEF ErrorHandled
  <2>3. CASE n # i
    <3>1. n \in 1 .. (i - 1) /\ n \in 0 .. (i - 1)
      BY <1>2, <2>3
    <3>. QED
      BY <1>7, <1>8, <1>10, <2>1, <3>1 DEF ErrorKeyAt
  <2>. QED
    BY <2>2, <2>3
<1>. QED
  BY <1>8, <1>10 DEF Agrees

-----------------------------------------------------------------------------
(* The calls into the registry.                                            *)

\* Nothing is promised once the process has ended (hs_fail).
LEMMA StoppedHeld == ASSUME status' # "running" PROVE StorageHeld'
BY DEF StorageHeld, LocalsHeld, ErrorsHeld

\* hs_scope_enter drops nothing.
LEMMA EnterHeld ==
    ASSUME CodeInv, StorageHeld, code # << >>, hs_scope_enter, NEW q, NEW pc, Goes(q, pc),
           Agrees(Top.path, q, Len(Top.path))
    PROVE  StorageHeld'
<1>1. status = "running"
  BY DEF hs_scope_enter
<1>2. /\ Top.path \in Paths \cup {<< >>}
      /\ Depth \in 1 .. Depth
      /\ hs_current_frame = Depth
  BY <1>1, InFunction
<1>3. Len(Top.path) \in Nat
  BY <1>2, PathSeq
<1>4. ASSUME status' = "running" PROVE Dropped(Len(Top.path))
  <2>1. UNCHANGED hs_allocs
    BY <1>4 DEF hs_scope_enter, hs_fail
  <2>2. ASSUME NEW i \in Slots, IsAuto(i), hs_allocs[i].frame = hs_current_frame
        PROVE  ~(hs_allocs[i].scope > Len(Top.path))
    <3>1. PICK e : e = hs_allocs[i]
      OBVIOUS
    <3>2. /\ e.scope \in 0 .. OpenScopes(code[e.frame])
          /\ OpenScopes(code[e.frame]) \in Int
          /\ OpenScopes(code[e.frame]) <= Len(code[e.frame].path)
          /\ Len(code[e.frame].path) \in Nat
      BY <1>1, <2>2, <3>1, FrameOfEntry
    <3>3. code[e.frame] = Top
      BY <1>2, <2>2, <3>1 DEF Top
    <3>. QED
      BY <3>1, <3>2, <3>3
  <2>. QED
    BY <2>1, <2>2 DEF Dropped
<1>. QED
  BY <1>1, <1>3, <1>4, JumpHeld, StoppedHeld

\* hs_scope_exit_to drops what is deeper.
LEMMA LeaveDrops ==
    ASSUME CodeInv, status = "running", code # << >>, NEW t \in Nat, LeaveScopes(t)
    PROVE  Dropped(t)
<1>1. hs_allocs' = [i \in Slots |->
         IF /\ IsAuto(i)
            /\ hs_allocs[i].frame = hs_current_frame
            /\ hs_allocs[i].scope > t
            /\ hs_allocs[i].scope <= hs_frame_scopes[hs_current_frame]
           THEN hs_clear(hs_allocs[i]) ELSE hs_allocs[i]]
  BY DEF LeaveScopes
<1>2. ASSUME NEW i \in Slots, IsAuto(i), hs_allocs[i].frame = hs_current_frame
      PROVE  hs_allocs[i].scope <= hs_frame_scopes[hs_current_frame]
  <2>1. hs_allocs[i].scope \in 0 .. hs_frame_scopes[hs_current_frame]
    BY <1>2 DEF CodeInv, IInv, AutomaticObjectsInOpenScopes
  <2>2. hs_frame_scopes[hs_current_frame] \in 0 .. SCOPE_MAX
    BY DEF CodeInv, IInv, TypeOK
  <2>. QED
    BY <2>1, <2>2, TableAssumption
<1>3. \A i \in Slots : hs_clear(hs_allocs[i]).ptr = NULL
  BY DEF hs_clear
<1>. QED
  BY <1>1, <1>2, <1>3 DEF Dropped

\* hs_scope_exit_to, called as it is (the end of a block, a return).
LEMMA ExitHeld ==
    ASSUME CodeInv, StorageHeld, code # << >>, NEW t \in Nat, hs_scope_exit_to(t),
           NEW q, NEW pc, Goes(q, pc), Agrees(Top.path, q, t)
    PROVE  StorageHeld'
<1>1. status = "running" /\ (status' # "running" \/ LeaveScopes(t))
  BY DEF hs_scope_exit_to, hs_fail
<1>. QED
  BY <1>1, LeaveDrops, JumpHeld, StoppedHeld

\* A jump of the emitter drops what is deeper, whether it emits a call or not.
LEMMA EmittedExitHeld ==
    ASSUME CodeInv, StorageHeld, At({"stmt"}), NEW t \in Nat, t <= Len(Top.path),
           emitRuntimeScopeExitTo(t), NEW q, NEW pc, Goes(q, pc), Agrees(Top.path, q, t)
    PROVE  StorageHeld'
<1>1. status = "running"
  BY DEF emitRuntimeScopeExitTo, hs_scope_exit_to
<1>2. /\ code # << >>
      /\ Len(Top.path) \in 1 .. MaxDepth
      /\ hs_frame_scopes[hs_current_frame] = Len(Top.path)
  BY <1>1, InBlock
<1>3. CASE Len(Top.path) > t
  <2>1. hs_scope_exit_to(t)
    BY <1>3 DEF emitRuntimeScopeExitTo, runtimeScopeDepth
  <2>. QED
    BY <1>2, <2>1, ExitHeld
<1>4. CASE ~(Len(Top.path) > t)
  <2>1. UNCHANGED hs_allocs
    BY <1>4 DEF emitRuntimeScopeExitTo, runtimeScopeDepth, vars
  <2>2. t = hs_frame_scopes[hs_current_frame]
    BY <1>2, <1>4, CodeAssumption
  <2>3. ASSUME NEW i \in Slots, IsAuto(i), hs_allocs[i].frame = hs_current_frame
        PROVE  ~(hs_allocs[i].scope > t)
    <3>1. hs_allocs[i].scope \in 0 .. t
      BY <2>2, <2>3 DEF CodeInv, IInv, AutomaticObjectsInOpenScopes
    <3>. QED
      BY <3>1
  <2>4. Dropped(t)
    BY <2>1, <2>3 DEF Dropped
  <2>. QED
    BY <1>1, <1>2, <2>4, JumpHeld
<1>. QED
  BY <1>3, <1>4

\* hs_register_local that succeeds: the storage has an entry in the current
\* scope, and no other live entry changes.
LEMMA RegisterEffect ==
    ASSUME CodeInv, NEW p \in StackAddr, hs_register_local(p, 1), status' = "running",
           NEW f, NEW s, f = hs_current_frame, f # 0, s = hs_frame_scopes[hs_current_frame]
    PROVE  /\ Registered(p, f, s)'
           /\ \A i \in Slots : \/ hs_allocs'[i] = hs_allocs[i]
                               \/ ~IsLive(i) /\ Holds(hs_allocs'[i], p, f, s)
<1>1. p \in Nat \ {0} /\ p # NULL /\ p \in Bytes(p, 1)
  BY AddressAssumption, BaseInBytes DEF NULL
<1>2. TypeOK /\ StorageInv
  BY DEF CodeInv, IInv, StorageInv
<1>3. OnlySelf(p, 1, "local", f, s) /\ hs_register(p, 1, "local", f, s) /\ status = "running"
  BY DEF hs_register_local, OnStack, OnlySelf
<1>. DEFINE e == [ptr |-> p, size |-> 1, frame |-> f, scope |-> s,
                  registration_id |-> 0, kind |-> "local", freed |-> 0]
<1>4. \/ UNCHANGED <<hs_allocs, status>> /\ Exact(p, "local", f, s) # {}
      \/ UNCHANGED hs_allocs /\ status' = "object registry is full"
      \/ \E i \in FreeSlots : hs_allocs' = [hs_allocs EXCEPT ![i] = e]
  <2>1. 1 \in Nat \ {0}
    OBVIOUS
  <2>. QED
    BY ONLY <1>1, <1>2, <1>3, <2>1, RegisterCases
<1>5. CASE UNCHANGED <<hs_allocs, status>> /\ Exact(p, "local", f, s) # {}
  <2>1. PICK i \in Exact(p, "local", f, s) : TRUE
    BY <1>5
  <2>2. /\ i \in Slots /\ IsLive(i) /\ hs_allocs[i].ptr = p
        /\ hs_allocs[i].kind = "local" /\ hs_allocs[i].frame = f
        /\ hs_allocs[i].scope = s /\ hs_allocs[i].freed = 0
    BY <1>1, <2>1 DEF Exact, IsLive
  <2>3. p \in Bytes(hs_allocs[i].ptr, hs_allocs[i].size)
    BY <1>2, <2>2, BaseInBytes DEF StorageInv, StorageByKind, IsLive, TypeOK, HsAlloc
  <2>4. hs_allocs[i].size = 1
    BY <1>1, <1>3, <2>2, <2>3 DEF OnlySelf
  <2>5. Holds(hs_allocs'[i], p, f, s)
    BY <1>5, <2>2, <2>4 DEF Holds
  <2>. QED
    BY <1>5, <2>2, <2>5 DEF Registered
<1>6. CASE \E i \in FreeSlots : hs_allocs' = [hs_allocs EXCEPT ![i] = e]
  <2>1. PICK i \in FreeSlots : hs_allocs' = [hs_allocs EXCEPT ![i] = e]
    BY <1>6
  <2>2. i \in Slots /\ ~IsLive(i)
    BY DEF FreeSlots, IsLive
  <2>3. hs_allocs'[i] = e /\ \A j \in Slots : j # i => hs_allocs'[j] = hs_allocs[j]
    BY <1>2, <2>1, <2>2 DEF TypeOK
  <2>4. Holds(e, p, f, s)
    BY DEF Holds
  <2>. HIDE DEF e
  <2>. QED
    BY <2>2, <2>3, <2>4 DEF Registered
<1>. QED
  BY <1>4, <1>5, <1>6

\* A local is declared in the scope that control is in: key names its block in
\* the path q where control goes, of which the open scopes are kept.
LEMMA RegisterHeld ==
    ASSUME CodeInv, StorageHeld, code # << >>, NEW key, NEW q, NEW pc, RegisterAs(key, q, pc),
           NEW s \in Nat, s = OpenScopes(Top), BlockOf(key) = Prefix(q, s),
           \A n \in 0 .. s : Prefix(q, n) = Prefix(Top.path, n),
           \A n \in 1 .. Len(q) : ErrorHandled(q[n]) =>
              \/ /\ n \in 1 .. Len(Top.path) /\ ErrorHandled(Top.path[n])
                 /\ ErrorKeyAt(q, n) = ErrorKeyAt(Top.path, n)
              \/ n - 1 = s /\ ErrorKeyAt(q, n) = key
    PROVE  StorageHeld'
<1>. SUFFICES ASSUME status' = "running" PROVE StorageHeld'
  BY StoppedHeld
<1>1. PICK p \in StorageOf(key) :
         /\ hs_register_local(p, 1)
         /\ code' = [code EXCEPT ![Depth] =
                       [path |-> q, pc |-> pc,
                        locals |-> [k \in DOMAIN Top.locals \cup {key} |->
                                      IF k = key THEN p ELSE Top.locals[k]]]]
  BY DEF RegisterAs
<1>2. status = "running"
  BY <1>1 DEF hs_register_local
<1>3. /\ code \in Seq(Activation)
      /\ Depth \in Nat \ {0} /\ Depth = Len(code) /\ Depth \in 1 .. Depth
      /\ hs_current_frame = Depth
      /\ hs_frame_scopes[hs_current_frame] = s
  <2>1. /\ code \in Seq(Activation) /\ Depth \in Nat \ {0} /\ hs_current_frame = Depth
        /\ hs_frame_scopes[hs_current_frame] = OpenScopes(Top)
    BY <1>2, InFunction
  <2>. QED
    BY <2>1 DEF Depth
<1>4. p \in StackAddr
  <2>1. \A k \in DOMAIN Top.locals : Top.locals[k] \in StackAddr
    BY <1>3, LocalsAreStack DEF Top
  <2>. QED
    BY <2>1 DEF StorageOf
<1>5. PICK L : L = [k \in DOMAIN Top.locals \cup {key} |-> IF k = key THEN p ELSE Top.locals[k]]
  OBVIOUS
<1>6. key \in DOMAIN L /\ L[key] = p
  BY <1>5
<1>7. \A k \in DOMAIN Top.locals : k \in DOMAIN L /\ L[k] = Top.locals[k]
  BY <1>1, <1>5 DEF StorageOf
<1>8. /\ Len(code') = Depth
      /\ code'[Depth].path = q
      /\ code'[Depth].locals = L
      /\ \A f \in 1 .. Depth : f # Depth => code'[f] = code[f]
  <2>1. PICK a : a = [path |-> q, pc |-> pc, locals |-> L]
    OBVIOUS
  <2>2. code' = [code EXCEPT ![Depth] = a] /\ a.path = q /\ a.locals = L
    BY <1>1, <1>5, <2>1
  <2>3. code'[Depth] = a /\ Len(code') = Depth
        /\ \A f \in 1 .. Depth : f # Depth => code'[f] = code[f]
    BY <1>3, <2>2
  <2>. QED
    BY <2>2, <2>3
<1>. PICK d : d = Depth
  OBVIOUS
<1>9. /\ Registered(p, d, s)'
      /\ \A i \in Slots : \/ hs_allocs'[i] = hs_allocs[i]
                          \/ ~IsLive(i) /\ Holds(hs_allocs'[i], p, d, s)
  <2>1. d = hs_current_frame /\ d # 0 /\ s = hs_frame_scopes[hs_current_frame]
    BY <1>3
  <2>. QED
    BY <1>1, <1>4, <2>1, RegisterEffect
<1>10. ASSUME NEW i \in Slots, IsAuto(i)'
       PROVE  Declared(hs_allocs'[i], code'[hs_allocs'[i].frame])
  <2>1. CASE Holds(hs_allocs'[i], p, d, s)
    <3>1. PICK e : e = hs_allocs'[i]
      OBVIOUS
    <3>2. e.ptr = p /\ e.frame = Depth /\ e.scope = s
      BY <2>1, <3>1 DEF Holds
    <3>3. Declared(e, code'[Depth])
      BY <1>6, <1>8, <3>2 DEF Declared
    <3>. QED
      BY <3>1, <3>2, <3>3
  <2>2. CASE hs_allocs'[i] = hs_allocs[i]
    <3>1. PICK e : e = hs_allocs[i]
      OBVIOUS
    <3>2. IsAuto(i)
      BY <1>10, <2>2 DEF IsAuto
    <3>3. Declared(e, code[e.frame])
      BY <1>2, <3>1, <3>2 DEF StorageHeld, LocalsHeld
    <3>4. e.frame \in 1 .. Depth /\ e.scope \in 0 .. OpenScopes(code[e.frame])
      BY <1>2, <3>1, <3>2, FrameOfEntry
    <3>5. CASE e.frame # Depth
      BY <1>8, <2>2, <3>1, <3>3, <3>4, <3>5
    <3>6. CASE e.frame = Depth
      <4>1. Prefix(q, e.scope) = Prefix(Top.path, e.scope)
        BY <3>4, <3>6 DEF Top
      <4>2. PICK k \in DOMAIN Top.locals :
               Top.locals[k] = e.ptr /\ BlockOf(k) = Prefix(Top.path, e.scope)
        BY <3>3, <3>6 DEF Declared, Top
      <4>3. k \in DOMAIN L /\ L[k] = e.ptr /\ BlockOf(k) = Prefix(q, e.scope)
        BY <1>7, <4>1, <4>2
      <4>4. Declared(e, code'[Depth])
        BY <1>8, <4>3 DEF Declared
      <4>. QED
        BY <2>2, <3>1, <3>6, <4>4
    <3>. QED
      BY <3>5, <3>6
  <2>. QED
    BY <1>9, <2>1, <2>2
<1>11. ASSUME NEW f, NEW r, NEW m, r # NULL, Registered(r, f, m)
       PROVE  Registered(r, f, m)'
  <2>1. PICK i \in Slots : Holds(hs_allocs[i], r, f, m)
    BY <1>11 DEF Registered
  <2>2. IsLive(i)
    BY <1>11, <2>1 DEF Holds, IsLive
  <2>3. hs_allocs'[i] = hs_allocs[i]
    BY <1>9, <2>2
  <2>. QED
    BY <2>1, <2>3 DEF Registered
<1>12. ASSUME NEW f \in 1 .. Depth, NEW n \in 1 .. Len(code'[f].path),
              ErrorHandled(code'[f].path[n])
       PROVE  HasErrorStorage(f, n)'
  <2>1. ASSUME NEW m \in 1 .. Len(code[f].path), ErrorHandled(code[f].path[m]),
               NEW k, NEW r, k = ErrorKeyAt(code[f].path, m), r = code[f].locals[k]
        PROVE  k \in DOMAIN code[f].locals /\ Registered(r, f, m - 1)'
    <3>1. k \in DOMAIN code[f].locals /\ Registered(r, f, m - 1)
      BY <1>2, <2>1 DEF StorageHeld, ErrorsHeld, HasErrorStorage
    <3>2. r # NULL
      BY <2>1, <3>1, LocalsAreStack
    <3>. QED
      BY <1>11, <3>1, <3>2
  <2>2. CASE f # Depth
    <3>1. code'[f] = code[f]
      BY <1>8, <2>2
    <3>2. PICK k, r : k = ErrorKeyAt(code[f].path, n) /\ r = code[f].locals[k]
      OBVIOUS
    <3>3. k \in DOMAIN code[f].locals /\ Registered(r, f, n - 1)'
      BY <1>12, <2>1, <3>1, <3>2
    <3>. QED
      BY <3>1, <3>2, <3>3 DEF HasErrorStorage, Registered
  <2>3. CASE f = Depth
    <3>1. n \in 1 .. Len(q) /\ ErrorHandled(q[n])
      BY <1>8, <1>12, <2>3
    <3>2. PICK k : k = ErrorKeyAt(q, n)
      OBVIOUS
    <3>3. CASE n - 1 = s /\ k = key
      <4>1. Registered(L[k], d, n - 1)'
        BY <1>6, <1>9, <3>3
      <4>. QED
        BY <1>6, <1>8, <2>3, <3>2, <3>3, <4>1 DEF HasErrorStorage, Registered
    <3>4. CASE /\ n \in 1 .. Len(Top.path) /\ ErrorHandled(Top.path[n])
               /\ k = ErrorKeyAt(Top.path, n)
      <4>1. PICK r : r = Top.locals[k]
        OBVIOUS
      <4>2. k \in DOMAIN Top.locals /\ Registered(r, f, n - 1)'
        BY <2>1, <2>3, <3>4, <4>1 DEF Top
      <4>3. k \in DOMAIN L /\ L[k] = r
        BY <1>7, <4>1, <4>2
      <4>. QED
        BY <1>8, <2>3, <3>2, <4>2, <4>3 DEF HasErrorStorage, Registered
    <3>. QED
      BY <3>1, <3>2, <3>3, <3>4
  <2>. QED
    BY <2>2, <2>3
<1>13. LocalsHeld'
  BY <1>10 DEF LocalsHeld
<1>14. ErrorsHeld'
  BY <1>8, <1>12 DEF ErrorsHeld, Depth
<1>. QED
  BY <1>13, <1>14 DEF StorageHeld

-----------------------------------------------------------------------------
(* The steps of generated code.                                            *)

\* A path is its own prefix.
LEMMA WholePrefix == \A p \in Paths : Prefix(p, Len(p)) = p
<1>. SUFFICES ASSUME NEW p \in Paths PROVE Prefix(p, Len(p)) = p
  OBVIOUS
<1>1. p \in Seq(Scope)
  BY PathIs
<1>. QED
  BY <1>1 DEF Prefix

\* The activation of a call has no locals yet.
LEMMA CallHeld == CodeInv /\ StorageHeld /\ Call => StorageHeld'
<1>. SUFFICES ASSUME CodeInv, StorageHeld, Call, status' = "running" PROVE StorageHeld'
  BY StoppedHeld
<1>. PICK a : a = [path |-> << >>, pc |-> "params", locals |-> << >>]
  OBVIOUS
<1>1. status = "running" /\ UNCHANGED hs_allocs
  BY DEF Call, hs_frame_enter, hs_fail
<1>2. code' = Append(code, a) /\ Len(a.path) = 0
  BY DEF Call
<1>3. code \in Seq(Activation) /\ Depth = Len(code) /\ Depth \in Nat
  BY DEF CodeInv, CodeShape, Depth
<1>4. /\ Len(code') = Depth + 1
      /\ code'[Depth + 1] = a
      /\ \A f \in 1 .. Depth : code'[f] = code[f]
  <2>1. code \in Seq(Activation \cup {a}) /\ a \in Activation \cup {a}
    BY <1>3
  <2>. QED
    BY <1>2, <1>3, <2>1
<1>5. ASSUME NEW i \in Slots, IsAuto(i)'
      PROVE  Declared(hs_allocs'[i], code'[hs_allocs'[i].frame])
  <2>1. IsAuto(i)
    BY <1>1, <1>5 DEF IsAuto
  <2>2. Declared(hs_allocs[i], code[hs_allocs[i].frame]) /\ hs_allocs[i].frame \in 1 .. Depth
    BY <1>1, <2>1, FrameOfEntry DEF StorageHeld, LocalsHeld
  <2>. QED
    BY <1>1, <1>4, <2>2
<1>6. ASSUME NEW f \in 1 .. (Depth + 1), NEW n \in 1 .. Len(code'[f].path),
             ErrorHandled(code'[f].path[n])
      PROVE  HasErrorStorage(f, n)'
  <2>1. f # Depth + 1
    BY <1>2, <1>4
  <2>2. f \in 1 .. Depth /\ code'[f] = code[f]
    BY <1>3, <1>4, <2>1
  <2>3. HasErrorStorage(f, n)
    BY <1>1, <1>6, <2>2 DEF StorageHeld, ErrorsHeld
  <2>. QED
    BY <1>1, <2>2, <2>3 DEF HasErrorStorage, Registered
<1>7. LocalsHeld'
  BY <1>5 DEF LocalsHeld
<1>8. ErrorsHeld'
  BY <1>4, <1>6 DEF ErrorsHeld, Depth
<1>. QED
  BY <1>7, <1>8 DEF StorageHeld

\* hs_frame_exit drops the locals of the activation that ends, no other's.
LEMMA FrameExitHeld == CodeInv /\ StorageHeld /\ FrameExit => StorageHeld'
<1>. SUFFICES ASSUME CodeInv, StorageHeld, FrameExit PROVE StorageHeld'
  OBVIOUS
<1>1. status = "running" /\ code # << >> /\ code' = Prefix(code, Depth - 1) /\ hs_frame_exit
  BY DEF FrameExit, At, hs_frame_exit
<1>2. /\ code \in Seq(Activation) /\ Depth = Len(code) /\ Depth \in Nat \ {0}
      /\ hs_current_frame = Depth
  <2>1. code \in Seq(Activation) /\ Depth \in Nat \ {0} /\ hs_current_frame = Depth
    BY <1>1, InFunction
  <2>. QED
    BY <2>1 DEF Depth
<1>3. /\ Len(code') = Depth - 1
      /\ \A f \in 1 .. (Depth - 1) : code'[f] = code[f]
  BY <1>1, <1>2 DEF Prefix
<1>4. hs_allocs' = [i \in Slots |->
         IF IsAuto(i) /\ hs_allocs[i].frame = hs_current_frame
           THEN hs_clear(hs_allocs[i]) ELSE hs_allocs[i]]
  BY <1>1, <1>2 DEF hs_frame_exit
<1>5. \A i \in Slots :
         \/ IsAuto(i) /\ hs_allocs[i].frame = Depth /\ hs_allocs'[i].ptr = NULL
         \/ ~(IsAuto(i) /\ hs_allocs[i].frame = Depth) /\ hs_allocs'[i] = hs_allocs[i]
  <2>1. \A i \in Slots : hs_clear(hs_allocs[i]).ptr = NULL
    BY DEF hs_clear
  <2>. QED
    BY <1>2, <1>4, <2>1
<1>6. ASSUME NEW i \in Slots, IsAuto(i)'
      PROVE  Declared(hs_allocs'[i], code'[hs_allocs'[i].frame])
  <2>1. hs_allocs'[i] = hs_allocs[i]
    BY <1>5, <1>6 DEF IsAuto
  <2>2. IsAuto(i) /\ hs_allocs[i].frame # Depth
    BY <1>5, <1>6, <2>1 DEF IsAuto
  <2>3. Declared(hs_allocs[i], code[hs_allocs[i].frame]) /\ hs_allocs[i].frame \in 1 .. Depth
    BY <1>1, <2>2, FrameOfEntry DEF StorageHeld, LocalsHeld
  <2>4. hs_allocs[i].frame \in 1 .. (Depth - 1)
    BY <1>2, <2>2, <2>3
  <2>. QED
    BY <1>3, <2>1, <2>3, <2>4
<1>7. ASSUME NEW f \in 1 .. (Depth - 1), NEW n \in 1 .. Len(code'[f].path),
             ErrorHandled(code'[f].path[n])
      PROVE  HasErrorStorage(f, n)'
  <2>1. f \in 1 .. Depth /\ f # Depth /\ code'[f] = code[f]
    BY <1>2, <1>3
  <2>2. PICK k, r : k = ErrorKeyAt(code[f].path, n) /\ r = code[f].locals[k]
    OBVIOUS
  <2>3. k \in DOMAIN code[f].locals /\ Registered(r, f, n - 1)
    BY <1>1, <1>7, <2>1, <2>2 DEF StorageHeld, ErrorsHeld, HasErrorStorage
  <2>4. PICK i \in Slots : Holds(hs_allocs[i], r, f, n - 1)
    BY <2>3 DEF Registered
  <2>5. hs_allocs'[i] = hs_allocs[i]
    BY <1>5, <2>1, <2>4 DEF Holds
  <2>. QED
    BY <2>1, <2>2, <2>3, <2>4, <2>5 DEF HasErrorStorage, Registered
<1>8. LocalsHeld'
  BY <1>6 DEF LocalsHeld
<1>9. ErrorsHeld'
  BY <1>3, <1>7 DEF ErrorsHeld, Depth
<1>. QED
  BY <1>8, <1>9 DEF StorageHeld

\* A declaration: the local belongs to the block that control is in.
LEMMA DeclareHeld == CodeInv /\ StorageHeld /\ Declare => StorageHeld'
<1>. SUFFICES ASSUME CodeInv, StorageHeld, Declare PROVE StorageHeld'
  OBVIOUS
<1>1. code # << >> /\ Top.pc \in {"params", "stmt", "init"} /\ RegisterAs(Top.path, Top.path, Top.pc)
  BY DEF Declare, At
<1>2. status = "running"
  BY <1>1 DEF RegisterAs, hs_register_local
<1>3. Top.path \in Paths \cup {<< >>} /\ Top.pc # "enter"
  <2>1. Top.path \in Paths \cup {<< >>}
    BY <1>1, <1>2, InFunction
  <2>. QED
    BY <1>1, <2>1
<1>4. Len(Top.path) \in Nat
  BY <1>3, PathSeq
<1>5. OpenScopes(Top) = Len(Top.path)
  <2>1. OpenScopes(Top) = Len(Top.path) - 0
    BY <1>3 DEF OpenScopes
  <2>. QED
    BY <1>4, <2>1
<1>6. BlockOf(Top.path) = Top.path
  <2>1. CASE Top.path \in Paths
    <3>1. Top.path \in Seq(Scope) /\ Len(Top.path) \in 1 .. Len(Top.path)
      BY <2>1, PathIs
    <3>2. Top.path[Len(Top.path)] \in Scope
      BY <3>1
    <3>3. \A c \in Scope : c.kind # "error"
      BY DEF Scope, Body, ForBody, Construct
    <3>. QED
      BY <3>2, <3>3 DEF BlockOf
  <2>2. CASE Top.path = << >>
    BY <2>2 DEF BlockOf
  <2>. QED
    BY <1>3, <2>1, <2>2
<1>7. Prefix(Top.path, Len(Top.path)) = Top.path
  <2>1. CASE Top.path = << >>
    BY <2>1 DEF Prefix
  <2>. QED
    BY <1>3, <2>1, WholePrefix
<1>8. PICK q, s : q = Top.path /\ s = Len(Top.path)
  OBVIOUS
<1>. QED
  BY <1>1, <1>4, <1>5, <1>6, <1>7, <1>8, RegisterHeld

\* A try registers its error storage in the block around it.
LEMMA BeginTryHeld == CodeInv /\ StorageHeld /\ BeginTry => StorageHeld'
<1>. SUFFICES ASSUME CodeInv, StorageHeld, BeginTry PROVE StorageHeld'
  OBVIOUS
<1>1. PICK id \in Ids :
         RegisterAs(ErrorKey(Append(Top.path, [kind |-> "try", id |-> id])),
                    Append(Top.path, [kind |-> "try", id |-> id]), "enter")
  BY DEF BeginTry
<1>2. PICK c : c = [kind |-> "try", id |-> id]
  OBVIOUS
<1>3. PICK try : try = Append(Top.path, c)
  OBVIOUS
<1>4. RegisterAs(ErrorKey(try), try, "enter")
  BY <1>1, <1>2, <1>3
<1>5. At({"stmt"}) /\ Len(Top.path) < MaxDepth /\ status = "running"
  BY <1>1 DEF BeginTry, RegisterAs, hs_register_local
<1>6. /\ code # << >>
      /\ Top.path \in Paths
      /\ Last(Top.path).kind # "for"
      /\ Top.pc = "stmt"
  BY <1>5, InBlock
<1>7. c.id \in Ids /\ c \in Construct
  BY <1>2 DEF Construct
<1>8. Follows(Last(Top.path), c)
  BY <1>6, <1>7 DEF Follows
<1>9. PICK p \in Paths, s \in {Len(Top.path)} : p = Top.path /\ s = Len(p)
  BY <1>6
<1>10. /\ try \in Paths
       /\ Len(try) = s + 1
       /\ \A i \in 1 .. s : try[i] = p[i]
  BY <1>3, <1>5, <1>8, <1>9, PathAppend DEF Last
<1>11. s \in Nat /\ s = OpenScopes(Top)
  <2>1. s \in Nat
    BY <1>9, PathSeq
  <2>2. OpenScopes(Top) = s - 0
    BY <1>6, <1>9 DEF OpenScopes
  <2>. QED
    BY <2>1, <2>2
<1>12. p \in Seq(Scope) /\ try \in Seq(Scope)
  BY <1>10, PathIs
<1>13. \A n \in 0 .. s : Prefix(try, n) = Prefix(p, n)
  <2>. SUFFICES ASSUME NEW n \in 0 .. s PROVE Prefix(try, n) = Prefix(p, n)
    OBVIOUS
  <2>1. n \in Nat /\ n <= Len(try) /\ n <= Len(p) /\ \A i \in 1 .. n : try[i] = p[i]
    BY <1>9, <1>10, <1>11
  <2>. QED
    BY ONLY <1>12, <2>1, SamePrefix
<1>14. Prefix(try, s) = p
  <2>1. s \in 0 .. s
    BY <1>11
  <2>. QED
    BY <1>9, <1>13, <2>1, WholePrefix
<1>15. BlockOf(ErrorKey(try)) = p
  <2>1. PICK e : e = [kind |-> "error", id |-> c.id]
    OBVIOUS
  <2>2. ErrorKey(try) = Append(p, e)
    BY <1>3, <1>7, <1>9, <2>1, ErrorKeyOfTry
  <2>3. p \in Seq(Scope \cup {e}) /\ e \in Scope \cup {e}
    BY <1>12
  <2>4. PICK k : k = Append(p, e)
    OBVIOUS
  <2>5. k \in Seq(Scope \cup {e}) /\ k # << >> /\ Len(k) = s + 1 /\ k[Len(k)] = e
    BY <1>9, <2>3, <2>4
  <2>6. Prefix(k, s) = p
    BY ONLY <1>9, <2>3, <2>4, FrontOfAppend
  <2>7. k[Len(k)].kind = "error" /\ Len(k) - 1 = s
    BY <1>11, <2>1, <2>5
  <2>8. BlockOf(k) = p
    BY <2>5, <2>6, <2>7 DEF BlockOf
  <2>. QED
    BY <2>2, <2>4, <2>8
<1>16. ASSUME NEW n \in 1 .. Len(try), ErrorHandled(try[n])
       PROVE  \/ /\ n \in 1 .. Len(p) /\ ErrorHandled(p[n])
                 /\ ErrorKeyAt(try, n) = ErrorKeyAt(p, n)
              \/ n - 1 = s /\ ErrorKeyAt(try, n) = ErrorKey(try)
  <2>1. CASE n = s + 1
    BY <1>10, <1>11, <2>1, WholePrefix DEF ErrorKeyAt
  <2>2. CASE n # s + 1
    <3>1. n \in 1 .. s /\ n \in 0 .. s
      BY <1>10, <1>11, <2>2
    <3>. QED
      BY <1>9, <1>10, <1>13, <1>16, <3>1 DEF ErrorKeyAt
  <2>. QED
    BY <2>1, <2>2
<1>17. PICK key : key = ErrorKey(try)
  OBVIOUS
<1>. QED
  BY <1>4, <1>6, <1>9, <1>11, <1>13, <1>14, <1>15, <1>16, <1>17, RegisterHeld

\* Entering a scope: nothing registered changes its block.
LEMMA OpeningHeld ==
    CodeInv /\ StorageHeld /\ (EnterFunctionBody \/ EnterBlock \/ EnterFor \/ EnterForBody
                               \/ EnterTryOrCatch) => StorageHeld'
<1>. SUFFICES ASSUME CodeInv, StorageHeld,
                     EnterFunctionBody \/ EnterBlock \/ EnterFor \/ EnterForBody \/ EnterTryOrCatch
              PROVE  StorageHeld'
  OBVIOUS
<1>1. status = "running" /\ code # << >>
  BY DEF EnterFunctionBody, EnterBlock, EnterFor, EnterForBody, EnterTryOrCatch, At, hs_scope_enter
<1>2. ASSUME NEW c, ~ErrorHandled(c), NEW pc, hs_scope_enter, Goes(Append(Top.path, c), pc),
             Top.path \in Paths, Append(Top.path, c) \in Paths
      PROVE  StorageHeld'
  <2>1. PICK p \in Paths, q \in Paths : p = Top.path /\ q = Append(p, c)
    BY <1>2
  <2>2. Agrees(p, q, Len(p))
    BY <1>2, <2>1, AgreesAppend
  <2>. QED
    BY <1>1, <1>2, <2>1, <2>2, EnterHeld
<1>3. CASE EnterFunctionBody
  <2>1. Top.pc = "params" /\ hs_scope_enter /\ Goes(<<Body>>, "stmt")
    BY <1>3 DEF EnterFunctionBody, At
  <2>2. Top.path = << >>
    <3>1. Placed(Top.path, Top.pc)
      BY <1>1, InFunction
    <3>. QED
      BY <2>1, <3>1 DEF Placed
  <2>3. PICK q : q = <<Body>>
    OBVIOUS
  <2>4. q \in Seq(Scope) /\ << >> \in Seq(Scope) /\ Len(q) = 1 /\ q[1] = Body
    BY <2>3 DEF Scope
  <2>5. Agrees(Top.path, q, Len(Top.path))
    <3>1. Len(Top.path) = 0
      BY <2>2
    <3>2. \A n \in 0 .. 0 : Prefix(q, n) = Prefix(<< >>, n)
      BY <2>4 DEF Prefix
    <3>3. \A n \in 1 .. Len(q) : ~ErrorHandled(q[n])
      <4>1. \A n \in 1 .. Len(q) : n = 1
        BY <2>4
      <4>2. ~ErrorHandled(Body)
        BY DEF ErrorHandled, Body
      <4>. QED
        BY ONLY <2>4, <4>1, <4>2
    <3>. QED
      BY ONLY <2>2, <3>1, <3>2, <3>3 DEF Agrees
  <2>. QED
    BY <1>1, <2>1, <2>3, <2>5, EnterHeld
<1>4. CASE EnterBlock
  <2>1. PICK b \in [kind : {"branch", "while"}, id : Ids] :
           hs_scope_enter /\ Goes(Append(Top.path, b), "stmt")
    BY <1>4 DEF EnterBlock
  <2>2. b \in Construct /\ ~ErrorHandled(b)
    BY DEF Construct, ErrorHandled
  <2>3. At({"stmt"}) /\ Len(Top.path) < MaxDepth
    BY <1>4 DEF EnterBlock
  <2>4. Top.path \in Paths /\ Last(Top.path).kind # "for"
    BY <1>1, <2>3, InBlock
  <2>5. Append(Top.path, b) \in Paths
    BY <2>2, <2>3, <2>4, PathAppend DEF Follows, Last
  <2>. QED
    BY <1>2, <2>1, <2>2, <2>4, <2>5
<1>5. CASE EnterFor
  <2>1. PICK id \in Ids :
           hs_scope_enter /\ Goes(Append(Top.path, [kind |-> "for", id |-> id]), "init")
    BY <1>5 DEF EnterFor
  <2>2. PICK b : b = [kind |-> "for", id |-> id]
    OBVIOUS
  <2>3. b \in Construct /\ ~ErrorHandled(b) /\ hs_scope_enter /\ Goes(Append(Top.path, b), "init")
    BY <2>1, <2>2 DEF Construct, ErrorHandled
  <2>4. At({"stmt"}) /\ Len(Top.path) + 1 < MaxDepth
    BY <1>5 DEF EnterFor
  <2>5. Top.path \in Paths /\ Last(Top.path).kind # "for" /\ Len(Top.path) \in 1 .. MaxDepth
    BY <1>1, <2>4, InBlock
  <2>6. Len(Top.path) < MaxDepth
    BY <2>4, <2>5, CodeAssumption
  <2>7. Append(Top.path, b) \in Paths
    BY <2>3, <2>5, <2>6, PathAppend DEF Follows, Last
  <2>. QED
    BY <1>2, <2>3, <2>5, <2>7
<1>6. CASE EnterForBody
  <2>1. At({"init", "post", "after"}) /\ hs_scope_enter /\ Goes(Append(Top.path, ForBody), "stmt")
    BY <1>6 DEF EnterForBody, At
  <2>2. Top.path \in Paths /\ Last(Top.path).kind = "for" /\ Len(Top.path) < MaxDepth
    BY <1>1, <2>1, InHeader
  <2>3. Append(Top.path, ForBody) \in Paths
    BY <2>2, PathAppend DEF Follows, Last
  <2>4. ~ErrorHandled(ForBody)
    BY DEF ErrorHandled, ForBody
  <2>. QED
    BY <1>2, <2>1, <2>2, <2>3, <2>4
<1>7. CASE EnterTryOrCatch
  <2>1. Top.pc = "enter" /\ hs_scope_enter /\ Goes(Top.path, "stmt")
    BY <1>7 DEF EnterTryOrCatch, At
  <2>2. Top.path \in Paths
    <3>1. Placed(Top.path, Top.pc)
      BY <1>1, InFunction
    <3>. QED
      BY <2>1, <3>1 DEF Placed
  <2>3. PICK p \in Paths : p = Top.path
    BY <2>2
  <2>4. Len(p) \in 0 .. Len(p)
    BY PathSeq
  <2>5. Agrees(p, p, Len(p))
    BY <2>4, AgreesPrefix, WholePrefix
  <2>. QED
    BY <1>1, <2>1, <2>3, <2>5, EnterHeld
<1>. QED
  BY <1>3, <1>4, <1>5, <1>6, <1>7

\* The ends of blocks, loops and functions.
LEMMA ClosingHeld ==
    CodeInv /\ StorageHeld /\ (BlockEnd \/ LeaveFor \/ Return) => StorageHeld'
<1>. SUFFICES ASSUME CodeInv, StorageHeld, BlockEnd \/ LeaveFor \/ Return PROVE StorageHeld'
  OBVIOUS
<1>1. status = "running" /\ code # << >>
  BY DEF BlockEnd, LeaveFor, Return, At, hs_scope_exit, hs_scope_exit_to
<1>2. /\ Top.path \in Paths
      /\ Len(Top.path) \in Nat \ {0}
      /\ hs_frame_scopes[hs_current_frame] = Len(Top.path)
  <2>1. CASE At({"stmt"})
    BY <1>1, <2>1, InBlock, CodeAssumption
  <2>2. CASE At({"init", "post", "after"})
    <3>1. /\ Top.path \in Paths /\ hs_frame_scopes[hs_current_frame] = Len(Top.path)
      BY <1>1, <2>2, InHeader
    <3>2. Len(Top.path) \in 1 .. MaxDepth
      BY <3>1, PathIs
    <3>. QED
      BY <3>1, <3>2, CodeAssumption
  <2>. QED
    BY <2>1, <2>2 DEF BlockEnd, LeaveFor, Return
<1>3. PICK p \in Paths : p = Top.path
  BY <1>2
<1>4. ASSUME NEW pc, hs_scope_exit, Goes(Prefix(p, Len(p) - 1), pc)
      PROVE  StorageHeld'
  <2>1. PICK q, t : q = Prefix(p, Len(p) - 1) /\ t = Len(p) - 1
    OBVIOUS
  <2>2. TypeOK /\ hs_current_frame # 0
    BY <1>1, InFunction
  <2>3. hs_scope_exit_to(t)
    BY <1>2, <1>3, <1>4, <2>1, <2>2, LeaveOne
  <2>4. t \in Nat /\ t \in 0 .. Len(p)
    BY <1>2, <1>3, <2>1
  <2>5. Agrees(p, q, t)
    BY <2>1, <2>4, AgreesPrefix
  <2>. QED
    BY <1>1, <1>3, <1>4, <2>1, <2>3, <2>4, <2>5, ExitHeld
<1>5. CASE BlockEnd \/ LeaveFor
  BY <1>3, <1>4, <1>5 DEF BlockEnd, LeaveFor
<1>6. CASE Return
  <2>1. hs_scope_exit_to(0) /\ Goes(<< >>, "return")
    BY <1>6 DEF Return
  <2>2. 0 \in 0 .. Len(p)
    BY <1>2, <1>3
  <2>3. Prefix(p, 0) = << >>
    BY DEF Prefix
  <2>4. Agrees(p, << >>, 0)
    BY <2>2, <2>3, AgreesPrefix
  <2>5. 0 \in Nat
    OBVIOUS
  <2>. QED
    BY <1>1, <1>3, <2>1, <2>4, <2>5, ExitHeld
<1>. QED
  BY <1>5, <1>6

\* A jump to a block around control, with the scopes in between left.
LEMMA OutwardHeld ==
    ASSUME CodeInv, StorageHeld, At({"stmt"}), NEW t \in Nat, t <= Len(Top.path),
           emitRuntimeScopeExitTo(t), NEW pc, Goes(Prefix(Top.path, t), pc)
    PROVE  StorageHeld'
<1>1. status = "running"
  BY DEF emitRuntimeScopeExitTo, hs_scope_exit_to
<1>2. Top.path \in Paths
  BY <1>1, InBlock
<1>3. PICK p \in Paths, q \in {Prefix(Top.path, t)} : p = Top.path /\ q = Prefix(p, t)
  BY <1>2
<1>4. Len(p) \in Nat
  BY PathSeq
<1>5. t \in 0 .. Len(p)
  BY <1>3, <1>4
<1>6. Agrees(p, q, t)
  BY <1>3, <1>5, AgreesPrefix
<1>. QED
  BY <1>3, <1>6, EmittedExitHeld

\* break and continue.
LEMMA LeaveLoopHeld ==
    ASSUME CodeInv, StorageHeld, NEW header \in {"post", "after"}, LeaveLoop(header)
    PROVE  StorageHeld'
<1>1. PICK i \in Loops :
         LET target == IF Top.path[i].kind = "while" THEN i - 1 ELSE i IN
         /\ emitRuntimeScopeExitTo(target)
         /\ Goes(Prefix(Top.path, target),
                 IF Top.path[i].kind = "while" THEN "stmt" ELSE header)
  BY DEF LeaveLoop
<1>2. PICK t, pc : /\ t = IF Top.path[i].kind = "while" THEN i - 1 ELSE i
                   /\ pc = IF Top.path[i].kind = "while" THEN "stmt" ELSE header
  OBVIOUS
<1>3. emitRuntimeScopeExitTo(t) /\ Goes(Prefix(Top.path, t), pc)
  BY <1>1, <1>2
<1>4. At({"stmt"})
  BY DEF LeaveLoop
<1>5. status = "running"
  BY <1>3 DEF emitRuntimeScopeExitTo, hs_scope_exit_to
<1>6. Len(Top.path) \in Nat
  BY <1>4, <1>5, InBlock, CodeAssumption
<1>7. i \in 1 .. Len(Top.path)
  BY DEF Loops
<1>8. t \in Nat /\ t <= Len(Top.path)
  <2>1. t = i - 1 \/ t = i
    BY <1>2
  <2>. QED
    BY <1>6, <1>7, <2>1
<1>. QED
  BY <1>3, <1>4, <1>8, OutwardHeld

\* goto to a label in a block around it.
LEMMA GotoHeld == CodeInv /\ StorageHeld /\ Goto /\ ~Strays => StorageHeld'
<1>. SUFFICES ASSUME CodeInv, StorageHeld, Goto, ~Strays PROVE StorageHeld'
  OBVIOUS
<1>1. PICK label \in LabelPaths :
         /\ Len(label) <= Len(Top.path)
         /\ emitRuntimeScopeExitTo(Len(label))
         /\ Goes(label, "stmt")
  BY DEF Goto, GotoAccepted, labelScopeDepth, runtimeScopeDepth
<1>2. At({"stmt"}) /\ code # << >> /\ Top.pc = "stmt"
  BY DEF Goto, At
<1>3. status = "running"
  BY <1>1 DEF emitRuntimeScopeExitTo, hs_scope_exit_to
<1>4. Top.path \in Paths /\ label \in Paths
  BY <1>2, <1>3, InBlock DEF LabelPaths
<1>5. Len(label) \in Nat /\ Len(Top.path) \in Nat
  BY <1>4, PathSeq
<1>6. Around(label, Top.path) \/ Around(Top.path, label)
  <2>1. PICK a : a = [path |-> label, pc |-> "stmt", locals |-> Top.locals]
    OBVIOUS
  <2>2. code' = [code EXCEPT ![Depth] = a] /\ a.path = label /\ a.pc = "stmt"
    BY <1>1, <2>1 DEF Goes
  <2>3. code \in Seq(Activation) /\ Depth \in Nat \ {0} /\ Depth = Len(code)
    BY <1>2, <1>3, InFunction DEF Depth
  <2>4. Len(code') = Depth /\ code'[Depth] = a
    BY <2>2, <2>3
  <2>. QED
    BY <1>2, <2>2, <2>4 DEF Strays
<1>7. label = Prefix(Top.path, Len(label))
  <2>1. CASE Around(label, Top.path)
    BY <2>1 DEF Around
  <2>2. CASE Around(Top.path, label)
    <3>1. Len(Top.path) = Len(label) /\ Prefix(label, Len(Top.path)) = Top.path
      BY <1>1, <1>5, <2>2 DEF Around
    <3>2. Prefix(label, Len(label)) = label /\ Prefix(Top.path, Len(Top.path)) = Top.path
      BY <1>4, WholePrefix
    <3>. QED
      BY <3>1, <3>2
  <2>. QED
    BY <1>6, <2>1, <2>2
<1>8. PICK t : t = Len(label)
  OBVIOUS
<1>. QED
  BY <1>1, <1>2, <1>5, <1>7, <1>8, OutwardHeld

\* A throw keeps the error storage of the try that catches it.
LEMMA ThrowHeld == CodeInv /\ StorageHeld /\ Throw => StorageHeld'
<1>. SUFFICES ASSUME CodeInv, StorageHeld, Throw PROVE StorageHeld'
  OBVIOUS
<1>1. PICK i \in Tries :
         /\ emitRuntimeScopeExitTo(i - 1)
         /\ Goes(Append(Prefix(Top.path, i - 1),
                        [kind |-> "catch", id |-> Top.path[i].id]), "enter")
  BY DEF Throw
<1>2. PICK c : c = [kind |-> "catch", id |-> Top.path[i].id]
  OBVIOUS
<1>3. PICK q, t : q = Append(Prefix(Top.path, i - 1), c) /\ t = i - 1
  OBVIOUS
<1>4. emitRuntimeScopeExitTo(t) /\ Goes(q, "enter")
  BY <1>1, <1>2, <1>3
<1>5. At({"stmt"})
  BY DEF Throw
<1>6. status = "running"
  BY <1>4 DEF emitRuntimeScopeExitTo, hs_scope_exit_to
<1>7. Top.path \in Paths /\ Len(Top.path) \in Nat
  BY <1>5, <1>6, InBlock, CodeAssumption
<1>8. i \in 1 .. Len(Top.path) /\ Top.path[i].kind = "try"
  BY DEF Tries
<1>9. t \in Nat /\ t <= Len(Top.path)
  BY <1>3, <1>7, <1>8
<1>10. Agrees(Top.path, q, t)
  BY <1>2, <1>3, <1>7, <1>8, AgreesCatch
<1>. QED
  BY <1>4, <1>5, <1>9, <1>10, EmittedExitHeld

\* A throw that nothing catches drops everything.
LEMMA ThrowUncaughtHeld == CodeInv /\ StorageHeld /\ ThrowUncaught => StorageHeld'
<1>. SUFFICES ASSUME CodeInv, StorageHeld, ThrowUncaught PROVE StorageHeld'
  OBVIOUS
<1>1. At({"stmt"}) /\ emitRuntimeScopeExitTo(0) /\ Goes(<< >>, "exit")
  BY DEF ThrowUncaught
<1>2. status = "running"
  BY <1>1 DEF emitRuntimeScopeExitTo, hs_scope_exit_to
<1>3. Len(Top.path) \in 1 .. MaxDepth
  BY <1>1, <1>2, InBlock
<1>4. 0 \in Nat /\ 0 <= Len(Top.path)
  BY <1>3, CodeAssumption
<1>5. Prefix(Top.path, 0) = << >>
  BY DEF Prefix
<1>. QED
  BY <1>1, <1>4, <1>5, OutwardHeld

\* Every step whose goto, if it is one, goes to a block around it.
LEMMA StorageStepHeld ==
    CodeInv /\ StorageHeld /\ [CodeNext /\ ~Strays]_codeVars => StorageHeld'
<1>. SUFFICES ASSUME CodeInv, StorageHeld, [CodeNext /\ ~Strays]_codeVars PROVE StorageHeld'
  OBVIOUS
<1>1. ASSUME UNCHANGED codeVars PROVE StorageHeld'
  BY <1>1 DEF codeVars, StorageHeld, LocalsHeld, ErrorsHeld, HasErrorStorage, Registered,
              Depth, IsAuto
<1>2. ASSUME emitBreak \/ emitContinue PROVE StorageHeld'
  BY <1>2, LeaveLoopHeld DEF emitBreak, emitContinue
<1>3. ASSUME Ended PROVE StorageHeld'
  BY <1>1, <1>3 DEF Ended
<1>. QED
  BY <1>1, <1>2, <1>3, CallHeld, DeclareHeld, FrameExitHeld, OpeningHeld, ClosingHeld, GotoHeld,
     BeginTryHeld, ThrowHeld, ThrowUncaughtHeld DEF CodeNext

\* Nothing is registered before the first call.
LEMMA StorageInit == CodeInit => StorageHeld
<1>. SUFFICES ASSUME CodeInit PROVE StorageHeld
  OBVIOUS
<1>1. \A i \in Slots : ~IsAuto(i)
  BY DEF CodeInit, Init, NoAlloc, IsAuto
<1>2. Depth = 0
  BY DEF CodeInit, Depth
<1>. QED
  BY <1>1, <1>2 DEF StorageHeld, LocalsHeld, ErrorsHeld

-----------------------------------------------------------------------------
(* The theorems.                                                           *)

\* Standard.md:436 for programs of any depth, with any number of active
\* functions, whose gotos leave blocks: return, throw, break, continue, goto and
\* the ends of blocks release exactly the locals of the blocks they leave, and
\* the error storage that a throw writes and a handler reads is registered.
THEOREM ScopesOwnLocals ==
    CodeInit /\ [][CodeNext /\ ~Strays]_codeVars => [](LocalsOfOpenBlocks /\ ErrorStorageLive)
<1>1. CodeInit => CodeInv /\ StorageHeld
  BY CodeInvInit, StorageInit
<1>2. CodeInv /\ StorageHeld /\ [CodeNext /\ ~Strays]_codeVars => (CodeInv /\ StorageHeld)'
  BY CodeInvStep, StorageStepHeld
<1>3. CodeInv /\ StorageHeld => LocalsOfOpenBlocks /\ ErrorStorageLive
  BY HeldIsOpen
<1>. QED
  BY <1>1, <1>2, <1>3, PTL

\* The same of the programs that the run walks through.
THEOREM RegisteredIsOpen == MCSpec => []RegisteredWhatIsOpen
<1>. DEFINE I == CodeInv /\ (part = "scopes" => StorageHeld)
<1>1. MCInit => I
  BY CodeInvInit, StorageInit DEF MCInit
<1>2. I /\ [MCNext]_<<codeVars, part>> => I'
  <2>. SUFFICES ASSUME I, [MCNext]_<<codeVars, part>> PROVE I'
    OBVIOUS
  <2>1. [CodeNext]_codeVars
    BY DEF MCNext, ScopesStep, JumpsStep
  <2>2. CodeInv'
    BY <2>1, CodeInvStep
  <2>3. part' = part
    BY DEF MCNext, ScopesStep, JumpsStep
  <2>4. part = "scopes" => [CodeNext /\ ~Strays]_codeVars
    BY DEF MCNext, ScopesStep, JumpsStep
  <2>. QED
    BY <2>2, <2>3, <2>4, StorageStepHeld
<1>3. I => RegisteredWhatIsOpen
  BY HeldIsOpen DEF RegisteredWhatIsOpen
<1>. HIDE DEF I
<1>. QED
  BY <1>1, <1>2, <1>3, PTL DEF MCSpec
=============================================================================
