----------------------------- MODULE HscDriver -----------------------------
(***************************************************************************)
(* One run of hsc (Driver.cpp, FrontendPipeline.cpp, NativeBuild.cpp):     *)
(* the command line of module DriverOptions, the front end stage by stage  *)
(* for every translation unit, object emission, archiving or linking with  *)
(* child processes, and the timing record.  Every step can fail, and a     *)
(* failure returns from wherever the run is.                               *)
(*                                                                         *)
(* The calls that remain are the sequence todo; some calls expand into     *)
(* others when they run.  A program is abstracted to what decides the      *)
(* control: how many mains a unit defines, which standard library source   *)
(* modules it needs, and whether the external C declarations clash.        *)
(***************************************************************************)
EXTENDS DriverOptions, FiniteSets

CONSTANTS
    Builds,         \* the command lines of the runs of hsc
    Mains,          \* of an input: the number of main functions it defines
    Needs,          \* of an input: the source modules it needs, in order
    ObjectPath,     \* of an input: the path with the extension .o
    Environments    \* where hsc runs, see EnvironmentFields

EnvironmentFields ==
    {"platform",        \* "linux", "windows" or "macos"
     "clang", "clangxx", "llvmAr",    \* whether the tool can be found
     "runtimeLibrary",  \* "absolute", "relative" or "missing"
     "runtimeSource",   \* whether HITSIMPLE_RUNTIME_SOURCE is set
     "members",         \* whether the runtime archive has object members
     "abiClash",        \* whether external C declarations clash
     "modules"}         \* whether the source modules are installed

VARIABLES
    env,        \* the environment of the run
    opts,       \* the options, as far as the run may change them
    todo,       \* the calls that remain
    units,      \* metrics.translationUnits()
    stages,     \* the four global stages of the metrics
    failed,     \* metrics.failedStage()
    disk,       \* what is at the paths of the run
    objects,    \* objects written so far, by what they were compiled from
    temp,       \* the temporary directory: "none", "there" or "removed"
    cwd,        \* the working directory: "start" or "temp"
    child,      \* how the last llvm-ar ended
    resolved,   \* the tools that were looked up successfully
    used,       \* the tools that were started
    exit        \* None, or how the process ended

run == <<env, opts, todo, units, stages, failed, disk, objects, temp, cwd, child,
         resolved, used, exit>>
driverVars == <<run, parserVars>>

UnitStages == <<"preprocess", "parse", "c_compat_lowering", "sema_hir", "llvm_emission">>
GlobalStages == {"llvm_ir_write", "native_optimization", "object_emission", "clang_backend_link"}

\* A call for a unit; a loop is a call too, with the index of its next turn.
Call(c, u) == [call |-> c, of |-> u, index |-> 1]
Calls(seq) == [i \in DOMAIN seq |-> Call(seq[i], None)]
Turn(c, i) == [call |-> c, of |-> None, index |-> i]

Before == [what |-> "before", parts |-> {}]   \* left there by somebody else

-----------------------------------------------------------------------------
(* Paths and options.                                                      *)

inputs(o) == [i \in DOMAIN o.inputs |-> o.inputs[i].val]

\* Mutant: only the first input's modules.
collectRequiredSourceModules_First(ins) == Needs[Head(ins)]

\* The modules in more that are not in modules yet are added to them.
addUnseen(modules, more) ==
    LET added[n \in 0..Len(more)] ==
            IF n = 0 THEN modules
            ELSE IF more[n] \in ToSet(added[n - 1]) THEN added[n - 1]
            ELSE Append(added[n - 1], more[n])
    IN  added[Len(more)]

\* Every module once, in the order of first use.
collectRequiredSourceModules(ins) ==
    LET modules[n \in 0..Len(ins)] ==
            IF n = 0 THEN <<>> ELSE addUnseen(modules[n - 1], Needs[ins[n]])
    IN  modules[Len(ins)]

requiredModules(o) == collectRequiredSourceModules(inputs(o))

\* The inputs are known, with the modules they need; and every environment says
\* all that hsc asks of it.
ASSUME DriverAssumption ==
    /\ \A e \in Environments : DOMAIN e = EnvironmentFields
    /\ \A l \in Builds : l \in Seq(Arguments)
    /\ \A l \in Builds : \A u \in ToSet(inputs(parseDriverOptions(l).options)) :
          u \in DOMAIN ObjectPath /\ Needs[u] \in Seq(STRING)

Paths == {"a.out", "a.exe", "libhitsimple.a", "pdb", "remarks"}
         \cup {ObjectPath[i] : i \in DOMAIN ObjectPath} \cup {args[i].val : i \in DOMAIN args}

executableDefault == IF env.platform = "windows" THEN "a.exe" ELSE "a.out"

\* The path of the product.
outputPath(o) ==
    IF o.output # Absent THEN o.output.val
    ELSE CASE o.crateType = "object" -> ObjectPath[Head(inputs(o))]
           [] o.crateType = "staticlib" -> "libhitsimple.a"
           [] o.crateType = "bin" -> executableDefault

\* The default product path as the check of --timing-json sees it.
selectedOutputPath(o) ==
    CASE o.crateType = "object" -> "a.o"
      [] o.crateType = "staticlib" -> "libhitsimple.a"
      [] o.crateType = "bin" -> executableDefault

\* A debug build for Windows has a PDB.
emitWindowsPdb == opts.debug /\ env.platform = "windows"

useCxxLinker(o) == IF o.linkerLanguage # None THEN o.linkerLanguage = "cxx"
                   ELSE "--cxx-source" \in o.ext

\* Sanitized builds compile the runtime from source, Windows rejects them.
sanitizerRuntime(o) == o.sanitizer # None

\* Mutant: the runtime source is forgotten.
needsCCompiler_NoRuntime(o) ==
    "--c-source" \in o.ext \/ ~useCxxLinker(o) \/ sanitizerRuntime(o)

needsCCompiler(o) ==
    "--c-source" \in o.ext \/ ~useCxxLinker(o) \/ sanitizerRuntime(o) \/ env.runtimeSource

needsCxxCompiler(o) == "--cxx-source" \in o.ext \/ useCxxLinker(o)

-----------------------------------------------------------------------------
(* Control.                                                                *)

At(c) == exit = None /\ todo # <<>> /\ Head(todo).call = c

\* The call is done.
Goes == todo' = Tail(todo) /\ UNCHANGED <<failed, temp>>

\* The call is replaced by others.
Expands(calls) == todo' = calls \o Tail(todo) /\ UNCHANGED <<failed, temp>>

\* The compile function returns an error: its temporary directory goes, and
\* metrics.fail(stage) has been called unless stage is None.
Fail(stage) ==
    /\ failed' = IF failed = None THEN stage ELSE failed
    /\ temp' = IF temp = "there" THEN "removed" ELSE temp
    /\ todo' = <<Call("finish_failure", None)>>

Keep(rest) == UNCHANGED <<env, parserVars, exit>> /\ UNCHANGED rest

files == <<disk, objects>>
metrics == <<units, stages>>
tools == <<resolved, used>>
place == <<cwd, child>>

Mark(stage, status) == stages' = [stages EXCEPT ![stage] = status]
MarkUnit(stage, status) ==
    units' = [units EXCEPT ![Len(units)].stages[stage] = status]

-----------------------------------------------------------------------------
(* runHsc up to the compile functions.                                     *)

DriverInit ==
    /\ args \in Builds
    /\ next = Len(args) + 1
    /\ parse = parseDriverOptions(args)
    /\ env \in Environments
    /\ opts = parse.options
    /\ todo = <<Call("command_line", None)>>
    /\ units = <<>>
    /\ stages = [s \in GlobalStages |-> "not_started"]
    /\ failed = None
    /\ disk = [p \in Paths |-> Before]
    /\ objects = {} /\ temp = "none" /\ cwd = "start" /\ child = "none"
    /\ resolved = {} /\ used = {} /\ exit = None

\* Help and version end the run; a bad command line fails it.
ParseCommandLine ==
    /\ At("command_line")
    /\ CASE Outcome(parse) = "error" -> Fail("cli")
         [] parse.state = "shown" -> Expands(Calls(<<"finish_success">>))
         [] OTHER -> Expands(Calls(<<"profile", "timing_path", "dispatch">>))
    /\ Keep(<<opts, files, metrics, tools, place>>)

CheckProfile ==
    /\ At("profile")
    /\ Goes \/ (opts.pgo = "use" /\ Fail(None))
    /\ Keep(<<opts, files, metrics, tools, place>>)

\* A path that is not usable, or the product's, resets the timing path.
CheckTimingPath ==
    LET path == opts.timingJson
        conflict == \/ opts.output # Absent /\ opts.output.val = path
                    \/ opts.remarks = path
                    \/ /\ opts.output = Absent /\ opts.actions = {}
                       /\ selectedOutputPath(opts) = path IN
    /\ At("timing_path")
    /\ \/ (path = None \/ ~conflict) /\ Goes /\ UNCHANGED opts
       \/ path # None /\ Fail(None) /\ opts' = [opts EXCEPT !.timingJson = None]
    /\ Keep(<<files, metrics, tools, place>>)

\* An inspection action takes exactly one input (--target-info none) and, the
\* two that write files apart, no -o.
ActionAccepted(o, action) ==
    /\ Len(o.inputs) = IF action = "--target-info" THEN 0 ELSE 1
    /\ action \notin {"--emit-llvm", "--preprocess-only"} => o.output = Absent

Dispatch ==
    /\ At("dispatch")
    /\ IF opts.actions = {}
       THEN IF opts.inputs = <<>> THEN Fail(None)
            ELSE Expands(Calls(IF opts.crateType = "bin" THEN <<"remarks", "cargo", "compile">>
                               ELSE <<"remarks", "compile">>))
       ELSE \E action \in opts.actions :
              IF ActionAccepted(opts, action) THEN Expands(Calls(<<action>>)) ELSE Fail(None)
    /\ Keep(<<opts, files, metrics, tools, place>>)

PrepareRemarks ==
    /\ At("remarks")
    /\ \/ opts.remarks = None /\ Goes /\ UNCHANGED disk
       \/ opts.remarks \notin {None, outputPath(opts)} /\ Goes /\
            disk' = [disk EXCEPT ![opts.remarks] = [what |-> "remarks", parts |-> {}]]
       \/ opts.remarks # None /\ Fail(None) /\ UNCHANGED disk
    /\ Keep(<<opts, objects, metrics, tools, place>>)

\* External: Cargo builds one static library, which becomes a link input.
RunCargo ==
    /\ At("cargo")
    /\ \/ "--cargo-manifest" \notin opts.cargo /\ Goes /\ UNCHANGED opts
       \/ /\ "--cargo-manifest" \in opts.cargo /\ Goes
          /\ opts' = [opts EXCEPT !.ext = @ \cup {"--link-input"},
                        !.linkerLanguage = IF @ = None /\ "--cxx-source" \notin opts.ext
                                           THEN "c" ELSE @]
       \/ "--cargo-manifest" \in opts.cargo /\ Fail(None) /\ UNCHANGED opts
    /\ Keep(<<files, metrics, tools, place>>)

-----------------------------------------------------------------------------
(* The compile functions: the calls each of them makes, in order.          *)

Frontend(u) == [i \in 1..5 |-> Call(UnitStages[i], u)]
Emit(u) == <<Call("optimize", u), Call("append_remarks", u), Call("emit", u)>>

FrontendAndEmit(u) == Frontend(u) \o Emit(u)

\* One turn of a loop over the units in seq.
ForEach(c, seq, Body(_)) ==
    LET i == Head(todo).index IN
    /\ At(c)
    /\ IF i > Len(seq) THEN Goes ELSE Expands(Body(seq[i]) \o <<Turn(c, i + 1)>>)

\* Mutant: the object is emitted before the source modules are compiled.
compileObject_Early(o) ==
    IF Len(o.inputs) # 1 THEN Calls(<<"fail_cli">>)
    ELSE Calls(<<"parent_cli", "each_frontend", "emit_input", "source_modules", "merge",
                 "skip_native", "finish_success">>)

compileObject(o) ==
    IF Len(o.inputs) # 1 THEN Calls(<<"fail_cli">>)
    ELSE Calls(<<"parent_cli", "each_frontend", "source_modules", "merge", "emit_input",
                 "skip_native", "finish_success">>)

compileStaticLibrary ==
    Calls(<<"llvm-ar", "parent_cli", "temp", "each_unit", "source_modules", "emit_modules",
            "runtime_library", "enter_temp", "extract", "leave_temp", "extracted", "archive",
            "copy_archive", "skip_native", "finish_success">>)

compileExecutable ==
    Calls(<<"each_frontend", "mains", "external_abi", "source_modules", "parent_write",
            "sanitizer_write", "remove_pdb", "temp", "each_emit", "emit_modules", "skip_write",
            "clang", "sanitizer_runtime", "link", "dsym", "check_pdb", "finish_success">>)

compileMixedExecutable(o) ==
    IF \/ /\ o.ext \cap {"--c-source", "--cxx-source"} = {}
          /\ o.ext \cap {"--link-input", "-l"} # {}
          /\ o.linkerLanguage = None
       \/ o.entry = "native" /\ o.ext \cap {"--c-source", "--cxx-source"} = {}
    THEN Calls(<<"fail_cli">>)
    ELSE Calls(<<"temp", "each_unit", "mains", "external_abi", "source_modules", "emit_modules",
                 "parent_write", "skip_write", "sanitizer_link", "mixed_tools", "c_sources",
                 "cxx_sources", "runtime_sources", "remove_mixed_pdb", "mixed_link", "dsym",
                 "check_pdb", "finish_success">>)

Compile ==
    /\ At("compile")
    /\ Expands(CASE opts.crateType = "object" -> compileObject(opts)
                 [] opts.crateType = "staticlib" -> compileStaticLibrary
                 [] opts.crateType = "bin" ->
                      IF hasMixedBuildOptions(opts) THEN compileMixedExecutable(opts)
                      ELSE compileExecutable)
    /\ Keep(<<opts, files, metrics, tools, place>>)

\* The loops over the inputs.
CompileInputs ==
    /\ \/ ForEach("each_frontend", inputs(opts), Frontend)
       \/ ForEach("each_emit", inputs(opts), Emit)
       \/ ForEach("each_unit", inputs(opts), FrontendAndEmit)
       \/ At("emit_input") /\ Expands(Emit(Head(inputs(opts))))
    /\ Keep(<<opts, files, metrics, tools, place>>)

Rejected ==
    /\ At("fail_cli")
    /\ Fail("cli")
    /\ Keep(<<opts, files, metrics, tools, place>>)

-----------------------------------------------------------------------------
(* The front end.                                                          *)

isModule(u) == u \notin DOMAIN Mains

\* addTranslationUnit and preprocessFile.
Preprocess ==
    LET u == Head(todo).of
        new == [input |-> u, stages |-> [s \in ToSet(UnitStages) |-> "not_started"]]
        is(status) == units' = Append(units, [new EXCEPT !.stages["preprocess"] = status]) IN
    /\ At("preprocess")
    /\ (Goes /\ is("completed")) \/ (Fail("preprocess") /\ is("failed"))
    /\ Keep(<<opts, files, stages, tools, place>>)

\* Mutant: a failure of the lowering is reported as one of the parser.
LowerC_WrongStage ==
    /\ At("c_compat_lowering")
    /\ IF opts.cCompat /\ ~isModule(Head(todo).of)
       THEN \/ Goes /\ MarkUnit("c_compat_lowering", "completed")
            \/ Fail("parse") /\ MarkUnit("c_compat_lowering", "failed")
       ELSE Goes /\ MarkUnit("c_compat_lowering", "skipped")
    /\ Keep(<<opts, files, stages, tools, place>>)

\* C compatibility lowering is skipped for HitSimple sources.
LowerC ==
    /\ At("c_compat_lowering")
    /\ IF opts.cCompat /\ ~isModule(Head(todo).of)
       THEN \/ Goes /\ MarkUnit("c_compat_lowering", "completed")
            \/ Fail("c_compat_lowering") /\ MarkUnit("c_compat_lowering", "failed")
       ELSE Goes /\ MarkUnit("c_compat_lowering", "skipped")
    /\ Keep(<<opts, files, stages, tools, place>>)

FrontendStage ==
    \E stage \in {"parse", "sema_hir", "llvm_emission"} :
        /\ At(stage)
        /\ \/ Goes /\ MarkUnit(stage, "completed")
           \/ Fail(stage) /\ MarkUnit(stage, "failed")
        /\ Keep(<<opts, files, stages, tools, place>>)

SumOfMains(seq) == FoldLeft(LAMBDA sum, u : sum + Mains[u], 0, seq)

\* Exactly one main, or none for a native entry.
CheckMains ==
    /\ At("mains")
    /\ IF SumOfMains(inputs(opts)) = (IF opts.entry = "native" THEN 0 ELSE 1)
       THEN Goes ELSE Fail("sema_hir")
    /\ Keep(<<opts, files, metrics, tools, place>>)

validateCCompatibilityExternalAbi ==
    /\ At("external_abi")
    /\ IF opts.cCompat /\ env.abiClash THEN Fail("sema_hir") ELSE Goes
    /\ Keep(<<opts, files, metrics, tools, place>>)

\* A module that is not declared or not installed fails without a stage.
compileSourceModules ==
    LET modules == requiredModules(opts) IN
    /\ At("source_modules")
    /\ IF env.modules \/ Head(todo).index > Len(modules)
       THEN ForEach("source_modules", modules, Frontend)
       ELSE Fail(None)
    /\ Keep(<<opts, files, metrics, tools, place>>)

\* Only an object build with modules merges; what it emits then has them all.
mergeLlvmModules ==
    /\ At("merge")
    /\ \/ Goes /\ objects' = objects \cup ToSet(requiredModules(opts))
       \/ requiredModules(opts) # <<>> /\ Fail(None) /\ UNCHANGED objects
    /\ Keep(<<opts, disk, metrics, tools, place>>)

-----------------------------------------------------------------------------
(* emitOptimizedObject.                                                    *)

Optimize ==
    /\ At("optimize")
    /\ \/ Goes /\ Mark("native_optimization", "completed")
       \/ Fail("native_optimization") /\ Mark("native_optimization", "failed")
    /\ Keep(<<opts, files, units, tools, place>>)

\* Failing to append the remarks fails without a stage.
appendOptimizationRemarks ==
    /\ At("append_remarks")
    /\ Goes \/ (opts.remarks # None /\ Fail(None))
    /\ Keep(<<opts, files, metrics, tools, place>>)

\* Into the temporary directory, or straight to the product's path.
emitObjectFile ==
    LET done == objects \cup {Head(todo).of}
        direct == opts.crateType = "object" IN
    /\ At("emit")
    /\ \/ /\ Goes /\ Mark("object_emission", "completed") /\ objects' = done
          /\ disk' = IF direct
                     THEN [disk EXCEPT ![outputPath(opts)] = [what |-> "object", parts |-> done]]
                     ELSE disk
       \/ /\ Fail("object_emission") /\ Mark("object_emission", "failed") /\ UNCHANGED objects
          /\ \/ UNCHANGED disk
             \/ direct /\ disk' = [disk EXCEPT ![outputPath(opts)] =
                                     [what |-> "partial", parts |-> {}]]
    /\ Keep(<<opts, units, tools, place>>)

EmitModules ==
    /\ ForEach("emit_modules", requiredModules(opts), Emit)
    /\ Keep(<<opts, files, metrics, tools, place>>)

-----------------------------------------------------------------------------
(* Steps of the native builds.                                             *)

validateOutputParent ==
    /\ \/ At("parent_cli") /\ (Goes \/ Fail("cli")) /\ UNCHANGED stages
       \/ At("parent_write") /\
            \/ Goes /\ UNCHANGED stages
            \/ Fail("llvm_ir_write") /\ Mark("llvm_ir_write", "failed")
    /\ Keep(<<opts, files, units, tools, place>>)

markSkipped ==
    /\ \/ At("skip_write") /\ Mark("llvm_ir_write", "skipped")
       \/ At("skip_link") /\ Mark("clang_backend_link", "skipped")
       \/ At("skip_native") /\ stages' = [s \in GlobalStages |->
              IF s \in {"llvm_ir_write", "clang_backend_link"} THEN "skipped" ELSE stages[s]]
    /\ Goes
    /\ Keep(<<opts, files, units, tools, place>>)

\* Not on Windows, and only if the sources are installed.
sanitizerRuntimeSources ==
    LET bad == sanitizerRuntime(opts) IN
    /\ \/ At("sanitizer_write") /\
            \/ ~(bad /\ env.platform = "windows") /\ Goes /\ UNCHANGED stages
            \/ bad /\ Fail("llvm_ir_write") /\ Mark("llvm_ir_write", "failed")
       \/ At("sanitizer_link") /\
            \/ ~(bad /\ env.platform = "windows") /\ Goes /\ UNCHANGED stages
            \/ bad /\ Fail("clang_backend_link") /\ UNCHANGED stages
    /\ Keep(<<opts, files, units, tools, place>>)

\* Mutant: a PDB of an earlier build is left in place.
removePdb_Keeps ==
    /\ At("remove_pdb") \/ At("remove_mixed_pdb")
    /\ Goes
    /\ Keep(<<opts, files, metrics, tools, place>>)

removePdb ==
    /\ At("remove_pdb") \/ At("remove_mixed_pdb")
    /\ \/ Goes /\ disk' = IF emitWindowsPdb
                          THEN [disk EXCEPT !["pdb"] = [what |-> "nothing", parts |-> {}]] ELSE disk
       \/ emitWindowsPdb /\ Fail("clang_backend_link") /\ UNCHANGED disk
    /\ Keep(<<opts, objects, metrics, tools, place>>)

\* TemporaryDirectory::create
createTemporaryDirectory ==
    /\ At("temp")
    /\ \/ todo' = Tail(todo) /\ temp' = "there" /\ UNCHANGED failed
       \/ Fail("cli")
    /\ Keep(<<opts, files, metrics, tools, place>>)

Uses(tool) == used' = used \cup {tool}

resolveClang ==
    /\ At("clang")
    /\ IF env.clang THEN Goes /\ resolved' = resolved \cup {"clang"} /\ UNCHANGED stages
       ELSE Fail("clang_backend_link") /\ Mark("clang_backend_link", "failed") /\ UNCHANGED resolved
    /\ Keep(<<opts, files, units, used, place>>)

resolveMixedTools ==
    LET wanted == (IF needsCCompiler(opts) THEN {"clang"} ELSE {}) \cup
                  (IF needsCxxCompiler(opts) THEN {"clangxx"} ELSE {}) IN
    /\ At("mixed_tools")
    /\ resolved' = resolved \cup {t \in wanted : env[t]}
    /\ IF \A t \in wanted : env[t] THEN Goes /\ UNCHANGED stages
       ELSE Fail("clang_backend_link") /\ Mark("clang_backend_link", "failed")
    /\ Keep(<<opts, files, units, used, place>>)

\* A compiler is started for one object; only in a plain build is the link
\* stage already running.
CompileWith(call, wanted, tool, part, linking) ==
    /\ At(call)
    /\ IF ~wanted THEN Goes /\ UNCHANGED <<used, objects, stages>>
       ELSE /\ Uses(tool)
            /\ \/ Goes /\ objects' = objects \cup {part} /\ UNCHANGED stages
               \/ /\ Fail("clang_backend_link") /\ UNCHANGED objects
                  /\ IF linking THEN Mark("clang_backend_link", "failed") ELSE UNCHANGED stages
    /\ Keep(<<opts, disk, units, resolved, place>>)

\* Mutant: with C sources the C++ sources are not compiled.
compileExternalSource_OneLanguage ==
    \/ CompileWith("sanitizer_runtime", sanitizerRuntime(opts), "clang", "runtime", TRUE)
    \/ CompileWith("c_sources", "--c-source" \in opts.ext, "clang", "c", FALSE)
    \/ CompileWith("cxx_sources", opts.ext = {"--cxx-source"}, "clangxx", "cxx", FALSE)
    \/ CompileWith("runtime_sources", sanitizerRuntime(opts) \/ env.runtimeSource, "clang",
                   "runtime", FALSE)

compileExternalSource ==
    \/ CompileWith("sanitizer_runtime", sanitizerRuntime(opts), "clang", "runtime", TRUE)
    \/ CompileWith("c_sources", "--c-source" \in opts.ext, "clang", "c", FALSE)
    \/ CompileWith("cxx_sources", "--cxx-source" \in opts.ext, "clangxx", "cxx", FALSE)
    \/ CompileWith("runtime_sources", sanitizerRuntime(opts) \/ env.runtimeSource, "clang",
                   "runtime", FALSE)

\* Mutant: the runtime library is not given to the linker.
linkedParts_NoRuntime ==
    objects \cup (IF opts.ext \cap {"--link-input", "-l"} # {} THEN {"native"} ELSE {})

\* What is given to the linker: the runtime, compiled here, from its source
\* or from its library.
linkedParts ==
    objects \cup {"runtime"} \cup (IF opts.ext \cap {"--link-input", "-l"} # {} THEN {"native"} ELSE {})

\* External: the linker writes the executable and, on Windows, may write the
\* PDB; a failing linker may leave anything.
Link(call, tool) ==
    LET written == [what |-> "executable", parts |-> linkedParts]
        path == outputPath(opts) IN
    /\ At(call)
    /\ Uses(tool)
    /\ \/ /\ Goes /\ UNCHANGED stages
          /\ disk' \in {[disk EXCEPT ![path] = written]} \cup
                       (IF emitWindowsPdb THEN {[disk EXCEPT ![path] = written, !["pdb"] = written]}
                        ELSE {})
       \/ /\ Fail("clang_backend_link") /\ Mark("clang_backend_link", "failed")
          /\ disk' \in {disk, [disk EXCEPT ![path] = [what |-> "partial", parts |-> {}]]}
    /\ Keep(<<opts, objects, units, resolved, place>>)

LinkExecutable == Link("link", "clang")
LinkMixedExecutable == Link("mixed_link", IF useCxxLinker(opts) THEN "clangxx" ELSE "clang")

emitMacDsym ==
    /\ At("dsym")
    /\ \/ Goes /\ UNCHANGED stages
       \/ /\ opts.debug /\ env.platform = "macos"
          /\ Fail("clang_backend_link") /\ Mark("clang_backend_link", "failed")
    /\ Keep(<<opts, files, units, tools, place>>)

checkPdb ==
    /\ At("check_pdb")
    /\ IF emitWindowsPdb /\ disk["pdb"].what = "nothing"
       THEN Fail("clang_backend_link") /\ Mark("clang_backend_link", "failed")
       ELSE Goes /\ Mark("clang_backend_link", "completed")
    /\ Keep(<<opts, files, units, tools, place>>)

-----------------------------------------------------------------------------
(* compileStaticLibrary after its objects.                                 *)

resolveLlvmAr ==
    /\ At("llvm-ar")
    /\ IF env.llvmAr THEN Goes /\ resolved' = resolved \cup {"llvm-ar"} ELSE Fail("cli") /\ UNCHANGED resolved
    /\ Keep(<<opts, files, metrics, used, place>>)

checkRuntimeLibrary ==
    /\ At("runtime_library")
    /\ IF env.runtimeLibrary = "missing" THEN Fail("cli") ELSE Goes
    /\ Keep(<<opts, files, metrics, tools, place>>)

enterTemporaryDirectory ==
    /\ At("enter_temp")
    /\ (Goes /\ cwd' = "temp") \/ (Fail("cli") /\ UNCHANGED cwd)
    /\ Keep(<<opts, files, metrics, tools, child>>)

\* llvm-ar x, in the temporary directory: a relative path misses the library.
extractRuntime ==
    /\ At("extract")
    /\ Uses("llvm-ar")
    /\ \/ child' = "failed" /\ UNCHANGED objects
       \/ /\ child' = "ended" /\ env.runtimeLibrary = "absolute"
          /\ objects' = IF env.members THEN objects \cup {"runtime"} ELSE objects
    /\ Goes
    /\ Keep(<<opts, disk, metrics, resolved, cwd>>)

\* Mutant: the process stays in the temporary directory.
leaveTemporaryDirectory_Stays ==
    /\ At("leave_temp")
    /\ Goes
    /\ Keep(<<opts, files, metrics, tools, place>>)

leaveTemporaryDirectory ==
    /\ At("leave_temp")
    /\ (Goes /\ cwd' = "start") \/ (Fail("cli") /\ UNCHANGED cwd)
    /\ Keep(<<opts, files, metrics, tools, child>>)

\* The result of llvm-ar, then whether it extracted any member: there must be
\* more objects than inputs.
checkExtracted ==
    /\ At("extracted")
    /\ IF child = "failed" \/ Cardinality(objects) = Len(opts.inputs) THEN Fail("cli") ELSE Goes
    /\ Keep(<<opts, files, metrics, tools, place>>)

archiveObjects ==
    /\ At("archive")
    /\ Uses("llvm-ar")
    /\ Goes \/ Fail("cli")
    /\ Keep(<<opts, files, metrics, resolved, place>>)

copyArchive ==
    /\ At("copy_archive")
    /\ \/ Goes /\ disk' = [disk EXCEPT ![outputPath(opts)] = [what |-> "archive", parts |-> objects]]
       \/ Fail("cli") /\ disk' \in {disk, [disk EXCEPT ![outputPath(opts)] =
                                            [what |-> "partial", parts |-> {}]]}
    /\ Keep(<<opts, objects, metrics, tools, place>>)

-----------------------------------------------------------------------------
(* The inspection actions.                                                 *)

\* dumpTokens, dumpAst, dumpHir and printTargetInfo write to standard output
\* and record no stage.
DumpInput ==
    /\ \/ \E c \in {"--dump-tokens", "--dump-ast", "--dump-hir"} :
            At(c) /\ (Expands(Calls(<<"finish_success">>)) \/ Fail(None))
       \/ At("--target-info") /\ Expands(Calls(<<"finish_success">>))
    /\ Keep(<<opts, files, metrics, tools, place>>)

preprocessOnly ==
    /\ At("--preprocess-only")
    /\ \/ /\ Expands(Calls(<<"finish_success">>))
          /\ disk' = IF opts.output = Absent THEN disk
                     ELSE [disk EXCEPT ![outputPath(opts)] = [what |-> "text", parts |-> {}]]
       \/ Fail(None) /\ UNCHANGED disk
    /\ Keep(<<opts, objects, metrics, tools, place>>)

emitLlvm ==
    /\ At("--emit-llvm")
    /\ Expands(Calls(IF opts.output = Absent
                     THEN <<"each_frontend", "source_modules", "merge", "skip_write", "skip_link",
                            "finish_success">>
                     ELSE <<"each_frontend", "source_modules", "merge", "parent_write", "write_ir",
                            "skip_link", "finish_success">>))
    /\ Keep(<<opts, files, metrics, tools, place>>)

writeIr ==
    LET parts == objects \cup {Head(inputs(opts))} IN
    /\ At("write_ir")
    /\ \/ /\ Goes /\ Mark("llvm_ir_write", "completed")
          /\ disk' = [disk EXCEPT ![outputPath(opts)] = [what |-> "ir", parts |-> parts]]
       \/ /\ Fail("llvm_ir_write") /\ Mark("llvm_ir_write", "failed")
          /\ disk' \in {disk, [disk EXCEPT ![outputPath(opts)] = [what |-> "partial", parts |-> {}]]}
    /\ Keep(<<opts, objects, units, tools, place>>)

-----------------------------------------------------------------------------
(* finish: the record is written to a file beside its path and renamed.    *)

\* toJson
record(ok, stage) ==
    [what |-> "record", ok |-> ok, stage |-> stage, units |-> units, stages |-> stages]

finish ==
    \E c \in {"finish_success", "finish_failure"} :
        LET ok == c = "finish_success"
            stage == IF ok THEN None ELSE IF failed = None THEN "cli" ELSE failed IN
        /\ At(c)
        /\ failed' = stage
        /\ temp' = IF temp = "there" THEN "removed" ELSE temp
        /\ \/ /\ exit' = IF ok THEN "success" ELSE "failure"
              /\ disk' = IF opts.timingJson = None THEN disk
                         ELSE [disk EXCEPT ![opts.timingJson] = record(ok, stage)]
           \/ opts.timingJson # None /\ exit' = "failure" /\ UNCHANGED disk
        /\ UNCHANGED <<env, opts, todo, objects, metrics, tools, place, parserVars>>

Ended == exit # None /\ UNCHANGED driverVars

DriverNext ==
    \/ ParseCommandLine \/ CheckProfile \/ CheckTimingPath \/ Dispatch \/ PrepareRemarks
    \/ RunCargo \/ Compile \/ CompileInputs \/ Rejected
    \/ Preprocess \/ LowerC \/ FrontendStage \/ CheckMains
    \/ validateCCompatibilityExternalAbi \/ compileSourceModules \/ mergeLlvmModules
    \/ Optimize \/ appendOptimizationRemarks \/ emitObjectFile \/ EmitModules
    \/ validateOutputParent \/ markSkipped \/ sanitizerRuntimeSources \/ removePdb
    \/ createTemporaryDirectory \/ resolveClang \/ resolveMixedTools
    \/ compileExternalSource \/ LinkExecutable \/ LinkMixedExecutable \/ emitMacDsym \/ checkPdb
    \/ resolveLlvmAr \/ checkRuntimeLibrary \/ enterTemporaryDirectory \/ extractRuntime
    \/ leaveTemporaryDirectory \/ checkExtracted \/ archiveObjects \/ copyArchive
    \/ DumpInput \/ preprocessOnly \/ emitLlvm \/ writeIr \/ finish \/ Ended

DriverSpec == DriverInit /\ [][DriverNext]_driverVars

-----------------------------------------------------------------------------
(* Properties.                                                             *)

\* Type invariant, and what every return path cleans up: no temporary
\* directory survives the run, and a successful one is back where it started.
DriverTypeOK ==
    /\ exit \in {None, "success", "failure"} /\ temp \in {"none", "there", "removed"} /\ cwd \in {"start", "temp"}
    /\ \A s \in GlobalStages : stages[s] \in {"not_started", "skipped", "completed", "failed"}
    /\ used \subseteq {"clang", "clangxx", "llvm-ar"}
    /\ exit # None => temp # "there"
    /\ exit = "success" => cwd = "start"

Native == Outcome(parse) = "ok" /\ parse.state = "reading" /\ opts.actions = {} /\ opts.inputs # <<>>

Units == ToSet(inputs(opts)) \cup UNION {ToSet(Needs[u]) : u \in ToSet(inputs(opts))}

\* A build that succeeds leaves its product at the output path, made from
\* every input, every standard library module any of them needs, and every
\* native source; and on Windows the PDB of this build.
SuccessMeansProduct ==
    exit = "success" /\ Native =>
        LET product == disk[outputPath(opts)] IN
        /\ product.what = CASE opts.crateType = "bin" -> "executable"
                            [] opts.crateType = "object" -> "object"
                            [] opts.crateType = "staticlib" -> "archive"
        /\ Units \subseteq product.parts
        /\ "--c-source" \in opts.ext => "c" \in product.parts
        /\ "--cxx-source" \in opts.ext => "cxx" \in product.parts
        /\ emitWindowsPdb /\ opts.crateType = "bin" => disk["pdb"] = product

\* An executable or static library that was built contains the runtime.
RuntimePackaged ==
    exit = "success" /\ Native /\ opts.crateType # "object" => "runtime" \in disk[outputPath(opts)].parts

AllStages == [unit : DOMAIN units, stage : ToSet(UnitStages)]
FailedStages == {s \in GlobalStages : stages[s] = "failed"} \cup
                {p.stage : p \in {q \in AllStages : units[q.unit].stages[q.stage] = "failed"}}

\* The timing record agrees with the exit code.  A successful record has no
\* failed stage and, after a build, no stage that was not started; a failed one
\* names its stage, at most one stage is marked failed, and then it is the
\* named one and nothing was compiled after it.
RecordTellsOutcome ==
    LET path == opts.timingJson IN
    (exit # None /\ path # None /\ disk[path].what = "record") =>
        /\ disk[path].ok = (exit = "success")
        /\ disk[path].ok <=> disk[path].stage = None
        /\ IF exit = "success"
           THEN /\ FailedStages = {}
                /\ \A p \in AllStages : units[p.unit].stages[p.stage] # "not_started"
                /\ Native => \A s \in GlobalStages : stages[s] # "not_started"
           ELSE /\ FailedStages \subseteq {disk[path].stage}
                /\ \A u \in DOMAIN units : "failed" \in {units[u].stages[s] : s \in ToSet(UnitStages)}
                                          => u = Len(units)

\* No child process is started from a tool that was not found.
ToolsAreResolved == used \subseteq resolved

\* A step that writes the product's path comes after every unit, modules
\* included, has passed the front end: no half-checked program is written.
ProductAfterFrontend ==
    [][(Native /\ exit' = None /\ disk'[outputPath(opts)] # disk[outputPath(opts)]) =>
         /\ {units[i].input : i \in DOMAIN units} = Units
         /\ \A i \in DOMAIN units : units[i].stages["llvm_emission"] = "completed"]_driverVars
=============================================================================
