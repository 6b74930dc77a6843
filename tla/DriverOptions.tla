--------------------------- MODULE DriverOptions ---------------------------
(***************************************************************************)
(* The command line of hsc (DriverOptions.cpp): arguments are read from    *)
(* left to right into a DriverOptions record; some options take the next   *)
(* argument as their value, whatever it is; the first error ends the       *)
(* parse; the combination is validated at the end.                         *)
(*                                                                         *)
(* An argument is a record: opt is its text up to `=`, val what follows,   *)
(* or None.  An argument that does not start with `-` has opt "input".     *)
(***************************************************************************)
EXTENDS Naturals, Sequences, SequencesExt

CONSTANT CommandLines   \* the command lines considered, sequences of arguments

Arguments == [opt : STRING, val : STRING]

ASSUME LinesAssumption == \A l \in CommandLines : l \in Seq(Arguments)

VARIABLES
    args,     \* the command line
    next,     \* index of the next argument
    parse     \* what was read so far

parserVars == <<args, next, parse>>

None == "none"
Flag(o) == [opt |-> o, val |-> None]
With(o, v) == [opt |-> o, val |-> v]
Input(p) == [opt |-> "input", val |-> p]
Absent == Flag(None)   \* a value that was not given

\* DriverOptions with the defaults of its members.  ext holds the kinds of
\* external inputs given, cargo the Cargo options given.
DefaultOptions ==
    [show |-> None, actions |-> {}, cCompat |-> FALSE, timing |-> FALSE,
     format |-> "human", crateType |-> "bin", crateTypeSelected |-> FALSE,
     provider |-> "optimized", safety |-> "unchecked", debug |-> FALSE,
     optimization |-> "O2", pgo |-> None, profile |-> None, sanitizer |-> None,
     remarks |-> None, inputs |-> <<>>, output |-> Absent, timingJson |-> None,
     clang |-> Absent, clangxx |-> Absent, ext |-> {}, linkerLanguage |-> None,
     entry |-> "hsc", cargo |-> {}]

\* A parse in progress: pending is the option that waits for its value, state
\* is "reading", "shown" (help or version ended the parse) or "error".
StartParse == [options |-> DefaultOptions, pending |-> None, state |-> "reading"]

Set(p, o) == [p EXCEPT !.options = o]
Fails(p) == [p EXCEPT !.state = "error"]
Awaits(p, o) == [p EXCEPT !.pending = o]
OneOf(p, value, choices, o) == IF value \in choices THEN Set(p, o) ELSE Fails(p)

-----------------------------------------------------------------------------
(* Groups of options, in the order of the code.                            *)

ActionFlags == {"--target-info", "--dump-tokens", "--dump-ast", "--dump-hir",
                "--emit-llvm", "-E", "--preprocess-only"}

actionOption(p, a) ==
    Set(p, [p.options EXCEPT !.actions =
              @ \cup {IF a.opt = "-E" THEN "--preprocess-only" ELSE a.opt}])

\* Mutant: --emit-object overrides a crate type given before it.
crateTypeOption_AliasOverrides(p, a) ==
    LET selected == IF a.opt = "--emit-object" THEN "object" ELSE a.val
        o == p.options IN
    IF \/ selected \notin {"bin", "object", "staticlib"}
       \/ a.opt # "--emit-object" /\ o.crateTypeSelected /\ o.crateType # selected
    THEN Fails(p)
    ELSE Set(p, [o EXCEPT !.crateType = selected, !.crateTypeSelected = TRUE])

\* Mutant: --emit-object does not count as a selected crate type.
crateTypeOption_AliasUnselected(p, a) ==
    LET o == p.options IN
    IF a.opt = "--emit-object" THEN Set(p, [o EXCEPT !.crateType = "object"])
    ELSE crateTypeOption_AliasOverrides(p, a)

\* --emit-object is --crate-type=object; a second, different type conflicts.
crateTypeOption(p, a) ==
    LET selected == IF a.opt = "--emit-object" THEN "object" ELSE a.val
        o == p.options IN
    IF \/ selected \notin {"bin", "object", "staticlib"}
       \/ o.crateTypeSelected /\ o.crateType # selected
    THEN Fails(p)
    ELSE Set(p, [o EXCEPT !.crateType = selected, !.crateTypeSelected = TRUE])

OptimizationFlags == {"-O0", "-O1", "-O2", "-O3", "-Os"}

optimizationLevel(flag) ==
    [f \in OptimizationFlags |->
       CASE f = "-O0" -> "O0" [] f = "-O1" -> "O1" [] f = "-O2" -> "O2"
         [] f = "-O3" -> "O3" [] f = "-Os" -> "Os"][flag]

\* The last one wins.
optimizationOption(p, a) ==
    Set(p, [p.options EXCEPT !.optimization = optimizationLevel(a.opt)])

\* Remarks and sanitizer may be given once.
onceOption(p, a) ==
    LET o == p.options IN
    CASE a.opt = "--optimization-remarks" ->
           IF a.val \in {None, ""} \/ o.remarks # None THEN Fails(p)
           ELSE Set(p, [o EXCEPT !.remarks = a.val])
      [] a.opt = "--sanitize" ->
           IF o.sanitizer # None THEN Fails(p)
           ELSE OneOf(p, a.val, {"address", "undefined"}, [o EXCEPT !.sanitizer = a.val])

\* One PGO mode, once, with a path.
pgoOption(p, a) ==
    LET mode == IF a.opt = "--pgo-use" THEN "use" ELSE "instrument" IN
    IF a.val \in {None, ""} \/ p.options.pgo # None THEN Fails(p)
    ELSE Set(p, [p.options EXCEPT !.pgo = mode, !.profile = a.val])

\* Output of the compiler itself.
reportOption(p, a) ==
    LET o == p.options IN
    CASE a.opt = "--timing" -> Set(p, [o EXCEPT !.timing = TRUE])
      [] a.opt = "--timing-json" ->
           IF a.val \in {None, ""} THEN Fails(p) ELSE Set(p, [o EXCEPT !.timingJson = a.val])
      [] a.opt = "--diagnostic-format" ->
           OneOf(p, a.val, {"json"}, [o EXCEPT !.format = "json"])
      [] a.opt = "--c-compat" -> Set(p, [o EXCEPT !.cCompat = TRUE])
      [] a.opt = "--stdlib-provider" ->
           OneOf(p, a.val, {"optimized", "reference"}, [o EXCEPT !.provider = a.val])

SafetyFlags == {"--checked", "--static-checked", "--unchecked"}

safetyOption(p, a) ==
    Set(p, [p.options EXCEPT !.safety =
              CASE a.opt = "--checked" -> "checked"
                [] a.opt = "--static-checked" -> "static-checked"
                [] a.opt = "--unchecked" -> "unchecked"])

\* Options that take the next argument as their value.
NativeValueOptions == {"--clang", "--clangxx", "--c-source", "--cxx-source",
                       "--link-input", "-L", "-l", "--link-arg"}
CargoValueOptions == {"--cargo-manifest", "--cargo-package", "--cargo-profile",
                      "--cargo-features"}
ValueOptions == NativeValueOptions \cup CargoValueOptions \cup {"-o"}

\* Options that are given with `=` and a value.
EqualsOptions ==
    {"--crate-type", "--optimization-remarks", "--sanitize", "--pgo-instrument", "--pgo-use",
     "--timing-json", "--diagnostic-format", "--stdlib-provider", "--entry", "--linker-language"}

nativeValue(o, opt, value) ==
    CASE opt = "--clang" -> [o EXCEPT !.clang = value]
      [] opt = "--clangxx" -> [o EXCEPT !.clangxx = value]
      [] OTHER -> [o EXCEPT !.ext = @ \cup {opt}]

linkOption(p, a) ==
    CASE a.opt = "--entry" ->
           OneOf(p, a.val, {"hsc", "native"}, [p.options EXCEPT !.entry = a.val])
      [] a.opt = "--linker-language" ->
           OneOf(p, a.val, {"c", "cxx"}, [p.options EXCEPT !.linkerLanguage = a.val])

cargoValue(o, opt) == [o EXCEPT !.cargo = @ \cup {opt}]

\* The value of the pending option is read: the argument as a whole.
TakeValue(p, a) ==
    LET o == p.options IN
    [p EXCEPT !.pending = None,
              !.options = CASE p.pending = "-o" -> [o EXCEPT !.output = a]
                            [] p.pending \in NativeValueOptions -> nativeValue(o, p.pending, a)
                            [] p.pending \in CargoValueOptions -> cargoValue(o, p.pending)]

\* An argument that is not the value of an option.
ReadOption(p, a) ==
    CASE a.opt = "input" -> Set(p, [p.options EXCEPT !.inputs = Append(@, a)])
      [] a.opt \in {"-h", "--help", "--version"} ->
           [p EXCEPT !.state = "shown", !.options.show = a.opt]
      [] a.opt \in ActionFlags -> actionOption(p, a)
      [] a.opt \in {"--emit-object", "--crate-type"} -> crateTypeOption(p, a)
      [] a.opt \in OptimizationFlags -> optimizationOption(p, a)
      [] a.opt \in {"--optimization-remarks", "--sanitize"} -> onceOption(p, a)
      [] a.opt = "-g" -> Set(p, [p.options EXCEPT !.debug = TRUE])
      [] a.opt \in {"--pgo-instrument", "--pgo-use"} -> pgoOption(p, a)
      [] a.opt \in {"--timing", "--timing-json", "--diagnostic-format",
                    "--c-compat", "--stdlib-provider"} -> reportOption(p, a)
      [] a.opt \in SafetyFlags -> safetyOption(p, a)
      [] a.opt \in ValueOptions -> Awaits(p, a.opt)
      [] a.opt \in {"--entry", "--linker-language"} -> linkOption(p, a)
      [] a.opt = "--cargo-no-default-features" -> Set(p, cargoValue(p.options, a.opt))
      [] OTHER -> Fails(p)

\* Any other option with a `=` is unknown.
Unknown(a) == a.val # None /\ a.opt \notin EqualsOptions \cup {"input"}

\* One turn of the loop over the arguments.
ReadArgument(p, a) ==
    CASE p.state # "reading" -> p
      [] p.state = "reading" /\ p.pending # None -> TakeValue(p, a)
      [] OTHER -> IF Unknown(a) THEN Fails(p) ELSE ReadOption(p, a)

hasMixedBuildOptions(o) == o.ext # {} \/ o.linkerLanguage # None \/ o.entry # "hsc"

hasCargoBuildOptions(o) == o.cargo # {}

\* Mutant: a conflict of the sanitizer with the crate type is not noticed.
CombinationOK_SanitizedLibrary(o) ==
    /\ \A x, y \in o.actions : x = y
    /\ o.pgo # None => o.crateType = "bin" /\ o.actions = {}
    /\ o.sanitizer # None => o.actions = {}
    /\ hasMixedBuildOptions(o) => o.crateType = "bin" /\ o.actions = {}
    /\ o.crateType # "bin" => o.actions = {}

\* The combinations that are accepted once all arguments are read.
CombinationOK(o) ==
    LET mixed == hasMixedBuildOptions(o) \/ o.clangxx # Absent \/ hasCargoBuildOptions(o) IN
    /\ ~(o.actions \cap {"--dump-tokens", "--target-info"} # {} /\ o.cCompat)
    /\ \A x, y \in o.actions : x = y
    /\ o.pgo # None => o.crateType = "bin" /\ o.actions = {}
    /\ o.remarks # None => o.actions = {}
    /\ o.sanitizer # None => o.crateType = "bin" /\ o.actions = {}
    /\ hasCargoBuildOptions(o) => "--cargo-manifest" \in o.cargo
    /\ mixed => o.crateType = "bin" /\ o.actions = {}
    /\ o.crateType # "bin" => o.actions = {}
    /\ o.clangxx # Absent => "--cxx-source" \in o.ext \/ o.linkerLanguage = "cxx"
    /\ o.debug => o.actions \subseteq {"--emit-llvm"}

\* What parseDriverOptions returns for a parse that has read every argument.
Outcome(p) ==
    CASE p.state = "shown" -> "ok"
      [] p.state = "error" \/ p.pending # None -> "error"
      [] OTHER -> IF CombinationOK(p.options) THEN "ok" ELSE "error"

\* The loop over the arguments of a line.
parseDriverOptions(line) ==
    LET read[n \in 0..Len(line)] ==
            IF n = 0 THEN StartParse ELSE ReadArgument(read[n - 1], line[n])
    IN  read[Len(line)]

-----------------------------------------------------------------------------
(* The parse, argument by argument.                                        *)

ParserInit ==
    /\ args \in CommandLines
    /\ next = 1
    /\ parse = StartParse

Read ==
    /\ next <= Len(args)
    /\ parse' = ReadArgument(parse, args[next])
    /\ next' = next + 1
    /\ UNCHANGED args

Parsed == next > Len(args) /\ UNCHANGED parserVars

ParserNext == Read \/ Parsed

ParserSpec == ParserInit /\ [][ParserNext]_parserVars

-----------------------------------------------------------------------------
(* Properties.                                                             *)

\* Type invariant; the members that are set together are set together.
ParserTypeOK ==
    /\ next \in 1..(Len(args) + 1)
    /\ DOMAIN parse.options = DOMAIN DefaultOptions
    /\ parse.pending \in ValueOptions \cup {None}
    /\ parse.state \in {"reading", "shown", "error"}
    /\ parse.options.crateType # "bin" => parse.options.crateTypeSelected
    /\ parse.options.pgo # None <=> parse.options.profile # None

\* The options of which the last occurrence wins, and the arguments whose
\* place matters because they take a value or end the parse.
LastWins == {OptimizationFlags, SafetyFlags, {"--timing-json"}, {"--entry"},
             {"--linker-language"}, {"--stdlib-provider"}}
Positional(a) == a.opt \in ValueOptions \cup {"-h", "--help", "--version", "input"}

Independent(a, b) ==
    /\ ~Positional(a) /\ ~Positional(b)
    /\ \A group \in LastWins : ~{a.opt, b.opt} \subseteq group

\* Two neighbouring flags may be exchanged: whether the line is accepted and
\* with which options does not depend on their order, whatever conflicts with
\* what, as long as neither is a last-one-wins flag of the same group and the
\* first is not read as a value.
OrderIrrelevant ==
    \A i \in 1..(Len(args) - 1) :
        LET swapped == [args EXCEPT ![i] = args[i + 1], ![i + 1] = args[i]]
            one == parseDriverOptions(args)
            two == parseDriverOptions(swapped) IN
        /\ Independent(args[i], args[i + 1])
        /\ i = 1 \/ args[i - 1].opt \notin ValueOptions
        => /\ Outcome(one) = Outcome(two)
           /\ Outcome(one) = "ok" => one.options = two.options

\* What no accepted command line asks for: two actions, an action together
\* with an output kind or native inputs, a library with a sanitizer or profile.
AcceptedIsConsistent ==
    (next > Len(args) /\ Outcome(parse) = "ok" /\ parse.state = "reading") =>
        LET o == parse.options
            wantsBinary == \/ o.pgo # None \/ o.sanitizer # None
                           \/ hasMixedBuildOptions(o) \/ hasCargoBuildOptions(o) IN
        /\ o.actions # {} => o.crateType = "bin" /\ ~wantsBinary
        /\ wantsBinary => o.crateType = "bin"
=============================================================================
