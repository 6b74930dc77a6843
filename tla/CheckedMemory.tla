--------------------------- MODULE CheckedMemory ---------------------------
(***************************************************************************)
(* What checked mode promises about storage, stated without a registry:    *)
(* an automatic object belongs to the scope that declared it and dies with *)
(* it, a dynamic object lives from its allocation to its release, a static *)
(* object lives for ever, and storage that is handed out never overlaps    *)
(* storage that is still live.  The runtime may stop the program at any    *)
(* step; what it may not do is carry on with a different memory.           *)
(***************************************************************************)
EXTENDS Naturals, Sequences

CONSTANT Object          \* pairs <<base address, size in bytes>>, size > 0

VARIABLES
    frames,   \* the call stack: one sequence of scopes per active function,
              \* each scope the set of the automatic objects declared in it
    heap,     \* the dynamic objects that have not been released
    statics,  \* the static objects registered so far
    stopped   \* TRUE once the runtime has ended the program

vars == <<frames, heap, statics, stopped>>

Bytes(o) == o[1] .. (o[1] + o[2] - 1)

InScopes(f) == UNION {f[s] : s \in DOMAIN f}

Autos == UNION {InScopes(frames[f]) : f \in DOMAIN frames}

Live == Autos \cup heap \cup statics

Disjoint(o, objects) == \A x \in objects : Bytes(o) \cap Bytes(x) = {}

Top == frames[Len(frames)]

SetTop(scopes) == [frames EXCEPT ![Len(frames)] = scopes]

InnermostScope(objects) == SetTop([Top EXCEPT ![Len(Top)] = objects])

Init ==
    /\ frames = << >>
    /\ heap = {}
    /\ statics = {}
    /\ stopped = FALSE

EnterFrame ==
    /\ frames' = Append(frames, <<{}>>)
    /\ UNCHANGED <<heap, statics, stopped>>

ExitFrame ==
    /\ frames # << >>
    /\ frames' = SubSeq(frames, 1, Len(frames) - 1)
    /\ UNCHANGED <<heap, statics, stopped>>

EnterScope ==
    /\ frames # << >>
    /\ frames' = SetTop(Append(Top, {}))
    /\ UNCHANGED <<heap, statics, stopped>>

\* Leaves every scope above the first `kept` ones of the current function.
ExitScopes ==
    /\ frames # << >>
    /\ \E kept \in 1 .. Len(Top) : frames' = SetTop(SubSeq(Top, 1, kept))
    /\ UNCHANGED <<heap, statics, stopped>>

\* An automatic object appears in the innermost scope; a temporary that is
\* evaluated again takes the place of its previous evaluation.
Declare ==
    /\ frames # << >>
    /\ \E gone \in SUBSET Top[Len(Top)], o \in Object :
          /\ \A x, y \in gone : x = y
          /\ Disjoint(o, Live \ gone)
          /\ frames' = InnermostScope((Top[Len(Top)] \ gone) \cup {o})
    /\ UNCHANGED <<heap, statics, stopped>>

\* A temporary evaluates to an empty View, which needs no storage.
Discard ==
    /\ frames # << >>
    /\ \E o \in Top[Len(Top)] : frames' = InnermostScope(Top[Len(Top)] \ {o})
    /\ UNCHANGED <<heap, statics, stopped>>

DeclareStatic ==
    /\ \E o \in Object : Disjoint(o, Live) /\ statics' = statics \cup {o}
    /\ UNCHANGED <<frames, heap, stopped>>

Allocate ==
    /\ \E o \in Object : Disjoint(o, Live) /\ heap' = heap \cup {o}
    /\ UNCHANGED <<frames, statics, stopped>>

Release ==
    /\ \E o \in heap : heap' = heap \ {o}
    /\ UNCHANGED <<frames, statics, stopped>>

Resize ==
    /\ \E old \in heap, new \in Object :
          /\ Disjoint(new, Live \ {old})
          /\ heap' = (heap \ {old}) \cup {new}
    /\ UNCHANGED <<frames, statics, stopped>>

Stop ==
    /\ stopped' = TRUE
    /\ UNCHANGED <<frames, heap, statics>>

Next ==
    /\ ~stopped
    /\ \/ EnterFrame \/ ExitFrame \/ EnterScope \/ ExitScopes
       \/ Declare \/ Discard \/ DeclareStatic
       \/ Allocate \/ Release \/ Resize
       \/ Stop

Spec == Init /\ [][Next]_vars
=============================================================================
