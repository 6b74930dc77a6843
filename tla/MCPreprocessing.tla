-------------------------- MODULE MCPreprocessing --------------------------
(***************************************************************************)
(* The preprocessor in one run: either a program goes through it           *)
(* (Preprocessing) or a text through validateSource (SourceValidation),    *)
(* whichever `part' says; the other is idle.                               *)
(*                                                                         *)
(* The programs have an input "m", files "a" and "b" and headers "h" and   *)
(* "core.hsh".  Every input of four lines out of a few is combined with a  *)
(* few included files; the others are picked for cycles, messages and      *)
(* refusals.  The texts have the bytes at the borders of every range of    *)
(* UTF-8, and those that comments, literals and directives are made of.    *)
(***************************************************************************)
EXTENDS Preprocessing

CONSTANTS Parts, Texts

VARIABLES part, text, textPhase, index, textLine, textColumn, inBlockComment, invalid, hashes

textVars == <<text, textPhase, index, textLine, textColumn, inBlockComment, invalid, hashes>>
mcVars == <<part, vars, textVars>>

Validation == INSTANCE SourceValidation
    WITH phase <- textPhase, line <- textLine, column <- textColumn

ASSUME PartsAssumption == Parts \subseteq {"program", "text"}

-----------------------------------------------------------------------------
(* Programs.                                                               *)

L(kind) == Line(kind, "")
T(name) == Line("text", name)
Include(file) == Line("include", file)
System(header) == Line("system", header)
Guard(body) == <<Line("ifndef", "G"), Line("define", "G")>> \o body \o <<L("endif")>>

Body == {T("t"), L("blank"), Include("a"), System("h"), Line("ifndef", "G"), Line("define", "G"),
         L("else"), L("endif")}

Included == {<<T("x")>>, Guard(<<T("x"), Include("m")>>), <<Include("b"), T("x")>>}

Generated ==
    {[m |-> lines \o <<T("end")>>, a |-> a, b |-> <<L("blank"), T("y")>>] :
        lines \in [1 .. 3 -> Body], a \in Included}

Picked == {
    [m |-> <<Line("ifndef", "F"), T("s"), L("else"), Include("gone"), L("endif"), T("t")>>],
    [m |-> <<T("s"), L("else"), L("blank"), L("endif"), T("t"), Line("ifndef", "G")>>],
    [m |-> <<T("s"), Include("a")>>, a |-> <<T("x"), Include("m")>>],
    [m |-> <<Include("a"), T("s"), Include("b")>>,
     a |-> <<T("x"), Include("b")>>, b |-> <<T("y"), Include("a")>>],
    [m |-> <<L("blank"), Include("gone"), System("gone"), T("s")>>],
    [m |-> <<System("a"), T("s"), Include("a")>>, a |-> <<T("x")>>],
    [m |-> <<System("a"), T("s"), System("h")>>, a |-> <<T("x"), System("h")>>],
    [m |-> <<Line("define", "G"), L("continued"), T("s"), L("warning"), T("t")>>],
    [m |-> <<Include("a"), T("s")>>, a |-> <<T("x"), L("bad")>>],
    [m |-> <<T("s"), System("core.hsh")>>]}

EmptyProgram == [m |-> << >>]

Sources == Generated \cup Picked \cup {EmptyProgram}

\* An include whose target is the replacement of a macro.
MacroIncludes == {[m |-> <<Line("macro", "a"), T("s")>>, a |-> <<T("x")>>]}

-----------------------------------------------------------------------------
(* Texts.                                                                  *)

Borders == {10, 65, 127, 128, 143, 144, 159, 160, 191, 193, 194, 223, 224, 237, 239, 240, 244, 245}

Utf8 == UNION {[1 .. n -> Borders] : n \in 0 .. 4}

\* Line end, quotes, #, *, / and \; 36 is $.
Marks == {10, 34, 39, 35, 42, 47, 92}

\* No directive stands in a comment or leaves one open.
Directives == {<<36, 120, 35, 10>> \o t \o <<35>> : t \in UNION {[1 .. n -> Marks] : n \in 0 .. 3}}

MarkedTexts == UNION {[1 .. n -> Marks] : n \in 5 .. 6} \cup Directives

TextSources == Utf8 \cup MarkedTexts

\* $ / * newline # * /
Commented == {<<36, 120, 47, 42, 10, 35, 42, 47>>}

-----------------------------------------------------------------------------
(* The sum of the components.                                              *)

\* An idle component has nothing to read: an empty program, an empty text.
MCInit ==
    /\ part \in Parts
    /\ sources \in IF part = "program" THEN Programs ELSE {EmptyProgram}
    /\ text \in IF part = "text" THEN Texts ELSE {<< >>}
    /\ Init
    /\ Validation!Init

ProgramStep == part = "program" /\ Next /\ UNCHANGED <<part, textVars>>
TextStep == part = "text" /\ Validation!Next /\ UNCHANGED <<part, vars>>

MCNext == ProgramStep \/ TextStep

MCSpec == MCInit /\ [][MCNext]_mcVars

-----------------------------------------------------------------------------

\* Type invariant: the adapter keeps to the lines of its files and the mirror to
\* mapped places (Preprocessor.cpp), and the scans of validateSource stay within
\* their text.
AdapterTypeOK == TypeOK /\ Validation!TypeOK

\* A source is refused exactly when its bytes are not UTF-8, or when it has a #
\* outside comments, literals and directives; the first report is where that
\* begins (validateUtf8, validateBareHashInLine).
SourceRefusedExactly == Validation!RefusesInvalidUtf8 /\ Validation!ReportsBareHash

\* Whatever mcpp includes and the program has was translated to where mcpp looks
\* for it, and files that include each other were translated once, so that the
\* adapter comes to an end (prepareInclude, mirrorPathFor).
IncludesTranslated == IncludesFound /\ NotTwice

\* Lines and messages stand, in what the adapter returns, where they stand in
\* the sources (parseMcppOutput, parseMcppDiagnostics).
PlacesAreKept == LinesKeepOrigin /\ MessagesKeepLine
=============================================================================
