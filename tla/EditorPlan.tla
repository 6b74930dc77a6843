----------------------------- MODULE EditorPlan -----------------------------
(***************************************************************************)
(* The command line that the VS Code extension builds for hsc              *)
(* (buildPlan.js, debugPlan.js) and what hsc reads from it: a composition  *)
(* with DriverOptions.  The extension controls mode, source, output and,   *)
(* for a debug build, -g -O0; the user's hitsimple.additionalArgs go in    *)
(* between.                                                                *)
(***************************************************************************)
EXTENDS DriverOptions

CONSTANTS
    Modes,              \* values of hitsimple.mode
    AdditionalArgs      \* values of hitsimple.additionalArgs

ASSUME PlanAssumption ==
    /\ Modes \subseteq {"unchecked", "static-checked", "checked"}
    /\ \A extra \in AdditionalArgs : extra \in Seq(Arguments)

VARIABLES mode, additional, debugInfo, refused

editorVars == <<mode, additional, debugInfo, refused>>

Source == Input("active.hs")
OutputPath == Input("active")

modeFlag(m) == Flag(CASE m = "unchecked" -> "--unchecked"
                      [] m = "static-checked" -> "--static-checked"
                      [] m = "checked" -> "--checked")

\* Mutant: the safety flags may be given by the user.
CONTROLLED_ARGUMENTS_WithoutModes ==
    {"--", "-h", "--help", "--version", "--target-info", "-o", "--output",
     "--dump-tokens", "--dump-ast", "--dump-hir", "--emit-llvm", "-E", "--preprocess-only"}

CONTROLLED_ARGUMENTS ==
    {"--", "-h", "--help", "--version", "--target-info", "--unchecked",
     "--static-checked", "--checked", "-o", "--output", "--dump-tokens",
     "--dump-ast", "--dump-hir", "--emit-llvm", "-E", "--preprocess-only"}

\* The only options of hsc that are refused with `=` too are the output ones.
validateAdditionalArgs(extra) ==
    \A i \in DOMAIN extra :
        /\ extra[i] # Input("")
        /\ ~(extra[i].opt \in CONTROLLED_ARGUMENTS /\ extra[i].val = None)
        /\ extra[i].opt \notin {"--output", "-o"}

createBuildPlan(m, extra) ==
    <<modeFlag(m)>> \o extra \o <<Source, Flag("-o"), OutputPath>>

\* Mutant: only -g is dropped from the user's arguments.
normalizeDebugBuildArgs_KeepsLevels(plan) ==
    <<Flag("-g"), Flag("-O0")>> \o SelectSeq(plan, LAMBDA a : a # Flag("-g"))

normalizeDebugBuildArgs(plan) ==
    LET dropped(a) == a = Flag("-g") \/ (a.opt \in OptimizationFlags /\ a.val = None)
        kept[n \in 0..Len(plan)] ==
            IF n = 0 THEN <<>>
            ELSE IF dropped(plan[n]) THEN kept[n - 1] ELSE Append(kept[n - 1], plan[n])
    IN  <<Flag("-g"), Flag("-O0")>> \o kept[Len(plan)]

\* planForContext
planForContext(m, extra, debug) ==
    IF debug THEN normalizeDebugBuildArgs(createBuildPlan(m, extra))
    ELSE createBuildPlan(m, extra)

EditorInit ==
    /\ mode \in Modes
    /\ additional \in AdditionalArgs
    /\ debugInfo \in BOOLEAN
    /\ refused = ~validateAdditionalArgs(additional)
    /\ args = IF refused THEN <<>> ELSE planForContext(mode, additional, debugInfo)
    /\ next = 1
    /\ parse = StartParse

EditorNext == ParserNext /\ UNCHANGED editorVars

EditorSpec == EditorInit /\ [][EditorNext]_<<parserVars, editorVars>>

-----------------------------------------------------------------------------
(* Properties.                                                             *)

Accepted == ~refused /\ next > Len(args) /\ Outcome(parse) = "ok"

\* Whatever additional arguments the extension lets through, and whatever they
\* swallow: hsc, if it accepts the line, writes to the planned path, in the
\* configured safety mode, and runs no inspection action.
PlanIsKept ==
    Accepted => /\ parse.options.output = OutputPath
                /\ parse.options.safety = mode
                /\ parse.options.actions = {} /\ parse.options.show = None

\* A debug build that hsc accepts has debug information and is not optimized,
\* whatever levels the user asked for.
DebugIsUnoptimized ==
    Accepted /\ debugInfo => parse.options.debug /\ parse.options.optimization = "O0"

\* A debug build compiles the program that a plain build compiles: the same
\* inputs and the same native inputs.
DebugBuildsTheSameProgram ==
    Accepted /\ debugInfo =>
        LET plain == parseDriverOptions(createBuildPlan(mode, additional)) IN
        Outcome(plain) = "ok" =>
            /\ parse.options.inputs = plain.options.inputs
            /\ parse.options.ext = plain.options.ext
=============================================================================
