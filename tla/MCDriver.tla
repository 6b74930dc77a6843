------------------------------ MODULE MCDriver ------------------------------
(***************************************************************************)
(* The driver in one run.  `part' says which of its components works, the  *)
(* others are idle:                                                        *)
(*   "line"   the parse of every command line of up to MaxArguments        *)
(*            arguments from a set with every group of options, their      *)
(*            conflicts and malformed spellings;                           *)
(*   "plan"   the parse of the extension's command lines for up to         *)
(*            MaxAdditional additional arguments;                          *)
(*   "build"  whole runs of hsc, in environments that differ from a good   *)
(*            one in at most one respect: main.hs and other.hs define      *)
(*            main, lib.hs and other.hs need standard library modules;     *)
(*   "cargo"  a Cargo build with every output of up to two messages and    *)
(*            some longer ones;                                            *)
(*   "quote"  the Windows command line of up to two arguments.             *)
(***************************************************************************)
EXTENDS HscDriver, EditorPlan, TLC

CONSTANTS Parts, MaxArguments, MaxAdditional, MaxLength, MaxQuoted

VARIABLES part,
          project, phase, cargoTemp, cargoChild, file, waited, forwarded, cargoNext,
          archive, linked, result,                              \* of CargoBuild
          arguments, arg, pos, backslashes, line                \* of WindowsArguments

cargoVars == <<project, phase, cargoTemp, cargoChild, file, waited, forwarded, cargoNext,
               archive, linked, result>>
quoteVars == <<arguments, arg, pos, backslashes, line>>
mcVars == <<part, run, parserVars, editorVars, cargoVars, quoteVars>>

-----------------------------------------------------------------------------
(* Instances.                                                              *)

OptionArguments ==
    {Flag("--dump-tokens"), Flag("--emit-llvm"), Flag("--emit-object"),
     With("--crate-type", "bin"), With("--crate-type", "dylib"), Flag("-O0"), Flag("-Os"),
     With("--optimization-remarks", "r.txt"), With("--sanitize", "address"), Flag("-g"),
     With("--pgo-use", "p"), With("--pgo-instrument", "p"), With("--timing-json", "t.json"),
     Flag("--timing"), With("--diagnostic-format", "xml"), Flag("--c-compat"), With("--stdlib-provider", "reference"), Flag("--checked"),
     Flag("--unchecked"), Flag("--link-arg"), Flag("--clangxx"), Flag("--cxx-source"),
     With("--entry", "native"), With("--linker-language", "cxx"), Flag("--cargo-manifest"),
     Flag("--cargo-no-default-features"), Flag("-o"), Flag("--help"), Flag("--bogus"),
     Flag("-E"), Input("a.hs")}


Lines == UNION {[1..n -> OptionArguments] : n \in 0..MaxArguments}

UserArguments ==
    {Flag("-O2"), Flag("-Os"), Flag("-g"), Flag("--checked"), Flag("--link-arg"), Flag("--clang"),
     Flag("-L"), Flag("--c-compat"), Flag("--emit-object"), Flag("-o"), With("-o", "x"),
     Flag("--dump-ast"), With("--timing-json", "t.json"), Flag("--c-source"), Input("other.hs"),
     Input(""), Flag("--help"), With("--crate-type", "staticlib"), Flag("--bogus")}

UserLines == UNION {[1..n -> UserArguments] : n \in 0..MaxAdditional}

MCMains == ("main.hs" :> 1) @@ ("lib.hs" :> 0) @@ ("other.hs" :> 1)
MCNeeds == ("main.hs" :> <<>>) @@ ("lib.hs" :> <<"ctype">>) @@ ("other.hs" :> <<"ctype", "string">>)
MCObjectPath == ("main.hs" :> "main.o") @@ ("lib.hs" :> "lib.o") @@ ("other.hs" :> "other.o")

Good(p) == [platform |-> p, clang |-> TRUE, clangxx |-> TRUE, llvmAr |-> TRUE,
            runtimeLibrary |-> "absolute", runtimeSource |-> FALSE, members |-> TRUE,
            abiClash |-> FALSE, modules |-> TRUE]

Variants(e) ==
    {e, [e EXCEPT !.clang = FALSE], [e EXCEPT !.clangxx = FALSE], [e EXCEPT !.llvmAr = FALSE],
     [e EXCEPT !.runtimeLibrary = "relative"], [e EXCEPT !.runtimeLibrary = "missing"],
     [e EXCEPT !.runtimeSource = TRUE], [e EXCEPT !.abiClash = TRUE], [e EXCEPT !.modules = FALSE]}

MCEnvironments == UNION {Variants(Good(p)) : p \in {"linux", "windows", "macos"}}
WithoutMembers == {[Good("linux") EXCEPT !.members = FALSE]}

M == Input("main.hs")
L == Input("lib.hs")
O == Input("other.hs")
T == With("--timing-json", "t.json")
CSource == <<Flag("--c-source"), Input("x.c")>>
CxxSource == <<Flag("--cxx-source"), Input("x.cpp")>>
Archive == <<Flag("--link-input"), Input("x.a")>>
Out == <<Flag("-o"), Input("out")>>

\* Executables, objects, libraries and inspection actions.
BuildLines ==
    {f \o i : f \in {<<T>>, <<T, Flag("-g")>>, <<T, Flag("--c-compat")>> \o Out,
                      <<T, With("--sanitize", "address")>>,
                      <<T, With("--optimization-remarks", "remarks")>>, <<T, With("--pgo-use", "p")>>},
               i \in {<<M>>, <<M, L>>, <<L>>, <<M, O>>}}
    \cup {<<T, Flag(c)>> \o i : c \in {"--emit-object", "--emit-llvm", "--dump-hir",
                                       "--preprocess-only", "--target-info", "--help", "--bogus"},
                                i \in {<<>>, <<O>>, <<M, L>>}}
    \cup {Out \o <<T, Flag(c), O>> : c \in {"--emit-object", "--emit-llvm", "--preprocess-only"}}
    \cup {<<T, With("--crate-type", "staticlib")>> \o i : i \in {<<M>>, <<L>>, <<M, L>>}}
    \cup {Out \o <<With("--timing-json", "out"), M>>, <<With("--timing-json", "a.out"), M>>}

\* Executables with native sources, libraries and Cargo packages.
MixedLines ==
    {<<T>> \o x \o e \o l \o i :
        x \in {CSource, CxxSource, CSource \o CxxSource, Archive,
               <<Flag("--cargo-manifest"), Input("Cargo.toml")>>},
        e \in {<<>>, <<With("--entry", "native")>>, <<Flag("-g"), With("--sanitize", "address")>>},
        l \in {<<>>, <<With("--linker-language", "c")>>, <<With("--linker-language", "cxx")>>},
        i \in {<<M>>, <<L>>}}

AllBuilds == BuildLines \cup MixedLines

\* The names of the product, of the PDB and of the record are apart, and the
\* runtime archive has object members.
ProductsApart ==
    /\ \A e \in Environments : e.members
    /\ \A i \in DOMAIN ObjectPath : ObjectPath[i] # "pdb"
    /\ \A l \in Builds :
         /\ \A i \in DOMAIN l : l[i].val # "pdb"
         /\ \A i \in DOMAIN ObjectPath : parseDriverOptions(l).options.timingJson # ObjectPath[i]

ASSUME InstanceApart ==
    Environments = MCEnvironments /\ Builds = AllBuilds => ProductsApart

-----------------------------------------------------------------------------

Projects == [tool : BOOLEAN, manifest : BOOLEAN, virtual : BOOLEAN, package : BOOLEAN]

Messages == {"text", "diagnostic", "rlib", "archive1", "archive2", "nofile", "script", "badscript"}

Outputs == SeqOf(Messages, 2) \cup
    {<<"script", "archive1", "script">>, <<"archive1", "script", "archive2">>,
     <<"rlib", "archive1", "archive1">>, <<"diagnostic", "archive1", "badscript">>}

Cargo == INSTANCE CargoBuild WITH temp <- cargoTemp, child <- cargoChild, next <- cargoNext
Windows == INSTANCE WindowsArguments WITH MaxArguments <- MaxQuoted

ASSUME PartsAssumption ==
    /\ Parts \subseteq {"line", "plan", "build", "cargo", "quote"}
    /\ Cargo!CargoAssumption /\ Windows!LineAssumption

-----------------------------------------------------------------------------
(* The sum of the components.                                              *)

ParserIdle == args = <<>> /\ next = 1 /\ parse = StartParse
PlanIdle == mode = None /\ additional = <<>> /\ debugInfo = FALSE /\ refused = TRUE

BuildIdle ==
    /\ env = None /\ opts = DefaultOptions /\ todo = <<>> /\ units = <<>>
    /\ stages = [s \in GlobalStages |-> "not_started"] /\ failed = None
    /\ disk = <<>> /\ objects = {} /\ temp = "none" /\ cwd = "start" /\ child = "none"
    /\ resolved = {} /\ used = {} /\ exit = None

CargoIdle ==
    /\ project = None /\ phase = "returned" /\ cargoTemp = "none"
    /\ cargoChild = Cargo!NoChild /\ file = [t \in Cargo!Tasks |-> <<>>]
    /\ waited = Cargo!NoWait /\ forwarded = <<>> /\ cargoNext = 1 /\ archive = None
    /\ linked = 0 /\ result = None

QuoteIdle == arguments = <<>> /\ arg = 1 /\ pos = 0 /\ backslashes = 0 /\ line = <<>>

Init ==
    /\ part \in Parts
    /\ CASE part = "line" -> ParserInit
         [] part = "plan" -> EditorInit
         [] part = "build" -> DriverInit
         [] OTHER -> ParserIdle
    /\ part # "plan" => PlanIdle
    /\ part # "build" => BuildIdle
    /\ IF part = "cargo" THEN Cargo!Init ELSE CargoIdle
    /\ IF part = "quote" THEN Windows!Init ELSE QuoteIdle

LineStep == part = "line" /\ ParserNext /\ UNCHANGED <<part, run, editorVars, cargoVars, quoteVars>>
PlanStep == part = "plan" /\ EditorNext /\ UNCHANGED <<part, run, cargoVars, quoteVars>>
BuildStep == part = "build" /\ DriverNext /\ UNCHANGED <<part, editorVars, cargoVars, quoteVars>>
CargoStep ==
    part = "cargo" /\ Cargo!Next /\ UNCHANGED <<part, run, parserVars, editorVars, quoteVars>>
QuoteStep ==
    part = "quote" /\ Windows!Next /\ UNCHANGED <<part, run, parserVars, editorVars, cargoVars>>

\* What has ended: the call of Cargo has returned, or every argument is quoted.
Finished ==
    /\ \/ part = "cargo" /\ phase = "returned"
       \/ part = "quote" /\ arg > Len(arguments)
    /\ UNCHANGED mcVars

Next == LineStep \/ PlanStep \/ BuildStep \/ CargoStep \/ QuoteStep \/ Finished

\* hsc keeps running, and the cargo it waits for ends.
Spec == Init /\ [][Next]_mcVars /\ WF_mcVars(CargoStep)

-----------------------------------------------------------------------------
(* Properties of the parts.                                                *)

\* Type invariant of the parts; nothing is left behind by what has returned: no
\* process and no temporary directory, neither of hsc (leaveTemporaryDirectory)
\* nor of buildCargoStaticLibrary.
AllTypeOK == ParserTypeOK /\ DriverTypeOK /\ Cargo!TypeOK

\* A command line means one thing: two neighbouring flags may be exchanged, and
\* no accepted line asks for an action and a product, or for a library with what
\* only an executable can have (parseDriverOptions).
LineMeansOneThing == part = "line" => OrderIrrelevant /\ AcceptedIsConsistent

\* Whatever additional arguments the extension lets through: if hsc accepts the
\* line, it builds what was planned, and a debug build is one
\* (createBuildPlan, normalizeDebugBuildArgs against parseDriverOptions).
ExtensionLineIsKept == PlanIsKept /\ DebugIsUnoptimized

\* A build that succeeds left the product that was asked for, from every input
\* and module, with the runtime in it; and no child process was started from a
\* tool that was not found (buildNativeArtifact, linkExecutable).
BuildIsWhole == SuccessMeansProduct /\ RuntimePackaged /\ ToolsAreResolved

\* A Cargo build returns whatever happens to its processes; cargo build only
\* runs after cargo metadata has ended well; and a library that is returned is
\* the only one of a cargo that ended with code 0, with everything its build
\* scripts asked for (buildCargoStaticLibrary, runProcessWithOutput).
CargoDelivers ==
    /\ []Cargo!LibraryIsTheBuilds
    /\ [][part = "cargo" => Cargo!BuildsAfterMetadata]_mcVars
    /\ <>(phase = "returned")

\* The started program gets back exactly the arguments that runProcess quoted
\* for CreateProcessW.
ArgumentsSurvive == Windows!ArgumentsSurvive
=============================================================================
