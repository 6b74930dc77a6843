# HitSimple: TLA+ models, model checking and proofs

HitSimple is a compiler (`src/`, C++), a C runtime linked into every program
(`runtime/`), and a VS Code extension (`vscode/hitsimple/`). In *checked mode*
the generated code registers every object it creates with the runtime and asks
it before each access, so that a wrong access stops the program with a
diagnostic instead of corrupting memory. The registry and the code that drives it
are the core of this project; around them stand models of the compiler's analyses
and translations, of the driver with its child processes, and of the editor
extension. Proved for every size are the registry with its refinement, the code
that drives it, the table of file handles, the extension's tasks and commands, the
preprocessor adapter's mirror, and the driver: its command line, its run, the Cargo
build and the quoting of arguments; the rest is model-checked.

All paths below are relative to the repository.

## 1. Inventory

| Component | State it keeps | Operations | Hard behaviours | What makes it correct | Here |
|---|---|---|---|---|---|
| Runtime object registry (`runtime/hitsimple_runtime.c` 50-422) | `hs_allocs` (1024 slots), `hs_current_frame`, `hs_frame_scopes` | frame enter/exit, scope enter/exit/exit-to, register local/temporary/static, alloc, calloc, realloc, free, check | stale entries of released blocks, address reuse, first-match lookup, multi-level scope exit, full table, counter limits, `count * size` overflow | accepted accesses are inside live storage; live objects disjoint; no automatic object outlives its scope; registry and allocator agree | `ObjectRegistry`, `CheckedMemory`; proved: `ObjectRegistryProofs` |
| Emitted scope and control-flow code (`src/codegen/LLVMCodegenControlFlow.cpp`, `...Statements.cpp`, `...Runtime.cpp`, `...Functions.cpp`) | compile-time `runtimeScopeDepth_`, loop, label and try contexts | blocks, if, while, for, break, continue, goto, try/catch/throw, return, calls | every jump is emitted with an absolute depth computed at compile time | compile-time depth = run-time depth on every path; locals die with their block | `CheckedCode`; proved: `CheckedCodeProofs` |
| File-handle registry (`hitsimple_runtime.c` 537-768, 926-) | `hs_files`, its capacity, `hs_stderr_closed` | fopen, fclose, stream operations, formatted I/O, panic | FILE address reuse, a handle closed by an argument of the call that uses it, failing table growth | a consumed stream is never passed to the C library again | `FileHandles`; proved: `FileHandlesProofs` |
| Checked bytes and C strings (`hitsimple_runtime.c` 424-, `LLVMCodegenExpressions.cpp`) | the bytes of registered storage | memory, string and block functions with the tests before them | overlap, scans up to the end of an object, size overflow, Views longer than their storage | a call stops exactly where the Standard asks for it and else stores what it says | `CheckedBytes` |
| Formatting and scanning (`hitsimple_runtime.c`, `sema/SemaCalls.cpp`) | position in format and input, targets written | printf, scanf, literal format checks | three loops that take one format apart, partial input, token limits | what is printed is scanned back; targets are written in order; accepted literals do not stop | `FormattedIO` |
| Half floats (`hitsimple_runtime.c` 801-875) | none | f16 to f32 and back | ties, subnormals, carries into the exponent | IEEE 754 | `HalfFloats` |
| Static safety analyzer (`src/safety/`) | facts about names, objects and releases per program point | statement transfer, branch merge, loops, label worklist, goto, calls | fixpoint over labelled blocks, loop bodies, try/catch states, aliases | the facts hold in every execution; what is refused is wrong; termination | `StaticFacts`, `StaticSafety` |
| Semantic analysis and expression emitter (`src/sema/`, `src/codegen/LLVMCodegenExpressions.cpp`) | an expression with its View | folding, Views, checks, emission | widths and signs that differ, folded patterns, checks under short circuits | the value and View of the Standard; undefined conditions are reported | `IntegerExpressions` (integers, Booleans, addresses) |
| C compatibility importer (`src/compat/`) | types, names, linkage, layouts | declarations, expressions, metadata | redeclarations, three computations of one layout, promotions | C's types, layout, linkage and values | `CDeclarations`, `CExpressions` |
| C ABI of calls (`src/codegen/LLVMCodegenCAbi.cpp`, `...Functions.cpp`) | the plans kept per function: structs in memory, structs in registers, return | declare, call, function entry, return | five loops that count the LLVM arguments of a struct, mixed eightbytes, registers at their end | every field arrives where the System V ABI puts it | `CAbiCalls` |
| Driver and native build (`src/driver/`) | options, temporary directory, child process, objects, timing record | parse, preprocess, compile, link, archive, record | failure of any step, four paths that end in one product | success means a whole product; the record tells the outcome | `DriverOptions`, `HscDriver`; proved: `DriverPartsProofs`, `DriverProofs` |
| Cargo packages, processes, quoting (`src/support/`) | two child processes, redirected output | fork, exec, waitpid, message parsing, argument quoting | interrupted and failing waits, truncated output, several libraries | the library returned is the one the build made; arguments survive | `CargoBuild`, `WindowsArguments`; proved: `DriverPartsProofs` |
| Preprocessor adapter (`src/preprocessor/`) | mirror of sources, file map, current line | validation, translation of directives, call of mcpp, way back | include cycles, dropped lines, a dying mcpp | sources are refused exactly when invalid; lines and messages keep their place | `SourceValidation`, `Preprocessing`; mirror proved: `PreprocessingProofs` |
| VS Code task runner (`vscode/hitsimple/src/taskRunner.js`) | per call: buffered events, execution, timer, outcome | start, event handlers, timer, settle | events before the promise, two orders of two events, broadcast to all calls, timer race | each call settles, with the outcome of its own process | `TaskRunner`; proved: `EditorProofs` |
| VS Code build, run and debug (`workflows.js`, `debugWorkflow.js`, `buildPlan.js`, `debugPlan.js`) | files on disk, the command line | build, run, debug | concurrent commands on one output path, edits while a command waits, arguments that swallow others | nothing stale is started; the line means what was planned | `EditorCommands`, `EditorPlan`; proved: `EditorCommandsProofs`, `EditorProofs`, the plan: `DriverProofs` |
| Lexer, parser, AST, HIR, library manifest, diagnostics, bundled mcpp | data structures, generated automata | pure translation | none over time | | not modelled |

**Interaction.** The extension starts `hsc` as a task and reads the exit code;
`hsc` runs preprocessor, parser, analysis and emitter in one thread and starts
compilers, linker, archiver and cargo as child processes. The emitter produces
calls of the runtime; a program has one runtime and is single-threaded, so its
calls do not interleave. `hs_fail` prints a diagnostic (through `stderr`, unless
the program closed it) and exits the process. The registry relies on the C
allocator and on the stack layout LLVM chose; the file table relies on the C
library's streams. The extension is a single JavaScript thread whose calls
interleave at every `await` and event.

The hazards in these parts, with the line where each bites and the properties
that cover it, are listed in `PROJECT.json`.

## 2. Modules

### ObjectRegistry, CheckedMemory

`ObjectRegistry` has one action per function of the runtime's registry, with the
function's name. `hs_allocs` is a function from slots to records with the C
struct's fields; the scans of the table (`hs_find`, `hs_slot`, `hs_find_exact`,
`hs_find_temporary`) are "the first slot of a set", which is where the order of
entries matters. `status` is `"running"` or the message `hs_fail` printed:
after it no call happens. `hs_calloc` multiplies modulo `UINT64_MAX + 1` as C
does. Zero-size temporaries, realloc of NULL and realloc to zero, and the slot
reuse of freed entries follow the code. Contents of storage are in `CheckedBytes`.

Two things are outside the runtime and *external*: `blocks`, the live blocks of
the C allocator, which may place a block at any address where it fits, fail, or
move a block on realloc (the new place may overlap the old); and the stack
layout, where an automatic object may be anywhere that no other registered
object is (`OnStack`). Only running the same declaration again presents
storage that is registered already.

`CheckedMemory` is what checked mode promises, without slots, stale entries,
lookups or counters: a stack of frames of scopes of objects, a set of heap
blocks, a set of static objects, and storage that is handed out disjoint from
everything live. `ObjectRegistry` maps its table to it (`Memory`), and
`ImplementsCheckedMemory` says that every call is one of its steps.

### CheckedCode

The composition of generated code with the registry: it EXTENDS
`ObjectRegistry` and every step that calls the runtime *is* the registry's
action conjoined with the movement of control. A function activation holds the
path of constructs around the current point (`body`, `branch`, `while`, `for`,
`forbody`, `try`, `catch`), a program counter inside the innermost construct
(parameters, statement, for initializer, for step, about to enter a try or catch
block, returning), and the stack storage the entry block gave to each
declaration. The path's length is the emitter's `runtimeScopeDepth_` at that
point, the path's `labelScopeDepth` what `collectLabels` computes. A program is a subset
of the tree of all paths and an execution a walk in it, so the model
covers all programs up to the nesting bound, every kind of jump from every
place, and calls, recursion included.

The emitter accepts a goto to any label whose depth is not larger than the
goto's. `MCCheckedCode` explores two families: `"scopes"`, one function whose
gotos stay within the blocks around them, which is what the scope rules of the
language need, and `"jumps"`, several functions with every goto the compiler
accepts. What differs between them is finding 2; such a goto into a `try` also
skips the registration of its error storage.

### FileHandles

`hs_files` as a sequence of records, the capacity that doubles, the
`hs_stderr_closed` flag. External: `libc`, what each FILE address really is
(unused, opened natively, opened by a checked `fopen`, closed), where `fopen` may
return the address of any stream that is not open. `touched` records what the
stream last passed to the C library was. Formatted
calls nest: `BeginFormatted` is the check that generated code makes before the
arguments, `PerformFormatted` the call itself; anything may happen between.
A stream that native code closes without the runtime's knowledge is outside the
registry's promise and is not modelled.

### CheckedBytes

Bytes of a small address space with registered objects that may be released.
Each action is one library call: the tests that the emitted code makes on the
operand Views, the tests of the runtime on the registry, and the C library call.
`memcpy` on overlapping ranges copies upwards or downwards, whichever the library
likes; `strncpy` fills the tail before it copies. String copies in the passing run
are between different objects (see section 4). The reference definitions say per
function when it must stop and what it stores and returns.

### FormattedIO, HalfFloats

`FormattedIO` follows a format through the analyzer's parse of a literal, the
descriptors, `hs_validate_scan_format`, and the loops of `hs_format_output` and
`hs_scan_input`, one conversion per step. A byte has 2 bits; a floating value is
the token that denotes it; a format is a sequence of pieces, so that its meaning is
known independently of the loops. Left out: the clamp of the count to INT32,
`ERANGE`, `%x` of floats, null `%p`. A failing write returns -1 at any point.
`HalfFloats` has the real widths: the neighbourhood of every subnormal half
and of the edges of every exponent, in both directions.

### StaticFacts, StaticSafety

`StaticFacts` is the analyzer's state (known, unknown or absent values, addresses,
lifetimes, dynamic objects) and the operations on it: merge, invalidation of
overlapping bytes, expiry of locals, release. `StaticSafety` has the analysis of a
translation unit as an operator, and beside it a machine that executes the same
unit one statement at a time, with `Choices` for what the analyzer cannot know.
`an.at` records the facts with which each statement was visited, `passed` the
expressions the execution evaluated without an error. The analyzer assumes that
allocations succeed. Within labelled blocks an alarm may come from an
intermediate visit of the worklist, so `AlarmsAreErrors` is about units without
labels; `EntryFactsHold` and `AnalysisEnds` are about all of them. A loop is
analyzed once, as it is entered, so within it what was known of a name that it
stores to is asked of the first turn only (`FirstTurnOnly`); behind the loop the
facts must hold whichever turn was the last.

### IntegerExpressions, CExpressions

`IntegerExpressions` takes a core expression through the analyzer (folding of
literals, the View of every node, refusals) and the emitter (operand widths,
sign or zero extension, checks) to its value, and compares with `Standard`, the
value the language standard gives. A byte has 2 bits, so that the widths 2, 4, 8
and 16 all have reachable boundaries; a memory cell holds the low bits of its own
address, so a load tells where it read. Left to the implementation ("free"):
shift counts of the width and above, and mixed operands of different
interpretation. Left out: floats, calls, dynamic Views, user templates, the
literal of the smallest i64. `CExpressions` adds the C importer in front: constant
evaluation, promotions, usual conversions, index and pointer arithmetic, and
compares the stored value with C's. Comparisons and unary operators have an operand
of at least the width of int in the passing run (see section 4).

### CDeclarations

C translation units as lists of declarations through the importer's passes, the
semantic checks of what it makes, and the metadata the pipeline puts back; the
reference is C's own notion of type, completeness, layout and linkage. Typedef
names are used after their typedef and struct fields by value after their struct;
floats, initializer values and bodies are left out. A `void main` is refused at
the metadata stage.

### CAbiCalls

One call across the C ABI: the signature (of a C unit, or made from the templates of
an `extern "C"` declaration), the LLVM declaration with its plans and
attributes, the emitted call, the emitted function's entry, the return and the
caller's result; either side may be C code instead. A byte is a tag that says of which
parameter it is which byte, so that the receiver's storage shows where each came from.
The classification of structs is the code's (`classifyCAbiValue` and the piece
types); the reference is stated on its own, by which leaves lie in an eightbyte, and
C's side uses only that. LLVM's assignment of registers to LLVM arguments is external.
Bytes of padding, and the upper bytes of a register behind a narrow scalar, are
undefined on both sides. Left out: the internal View ABI and the
multi-value returns of core functions.

### DriverOptions, EditorPlan, HscDriver

`DriverOptions` reads a command line one argument per step, with the values some
options swallow, the conflicts that are noticed at once and the validation at the
end. `EditorPlan` puts the extension's command line (and the arguments it removes
for a debug build) in front of that parser. `HscDriver` is one run of `hsc`: a
sequence of calls that remain, each of which may fail, expand into others, start
a child process or write a file; the timing record is kept stage by stage. A
program is abstracted to what decides the control: mains, standard library
modules it needs, clashing external declarations. What linkers and compilers do
is external: they succeed, fail or cannot be started. A loop over inputs, objects or
modules (`ForEach`) is one call per turn with its index, and the loops that only
compute (`parseDriverOptions`, `collectRequiredSourceModules`, the filter of a debug
build) are recursive functions with one value per turn, which is what the proofs about
them follow. `DriverAssumption` says what a build is made of: lines of arguments,
and inputs that have an object path and a list of modules.

### CargoBuild, WindowsArguments

`CargoBuild` has the two processes of `buildCargoStaticLibrary`: fork, the child's
redirection and exec, `waitpid` that may be interrupted or fail, output growing
while the child runs, and the reading of the messages one by one. A message is the
name of what `parseCargoOutput` does with it. `WindowsArguments` quotes a
command line character by character; the reference is the splitting rule of
the Microsoft C runtime (external), a scan of the line with one state per character.

### SourceValidation, Preprocessing

`SourceValidation` is `validateSourceInto`, on real bytes, one step per byte or
character: every border byte of UTF-8 in sequences of up to four, and
texts of quotes, comment marks, escapes and `#` of up to six bytes. After a reported
`#` the code leaves the line, so later lines may be judged from the wrong comment
state; the property therefore speaks of the first report. `Preprocessing` is
`preprocessFile` around an external mcpp: translation of the sources into a mirror,
mcpp's run (conditionals, guards, includes to depth 3, blank lines or markers as it
likes, missing or dying with its buffer lost), and the way back from its output and
messages; a message is a label for the text. Names of macros are not checked in the
model. A header outside the registry that includes a file in quotes is in no
instance, and excluded by the theorem (`PlainIncludes`): its copy stands in the
header directory, the copy of what it includes at the place of the standard library,
where mcpp does not look. `AcceptedSourceIsWhole` compares what the adapter hands
on with `WholeText`, a reading of the sources by the rules of C that knows nothing of
the mirror, of mcpp or of its messages: a program that is not refused reaches the
parser with every text of the input and of what it includes. When mcpp dies after a
`$warning` the code reports nothing more and the property does not hold; that case
is named (`FailureUntold`) and left out, see section 4.

### TaskRunner, EditorCommands

`TaskRunner`: one record of state per call of `executeProcessTask`. VS Code is
external: it launches the task (with or without a process), delivers the execution
through the promise or rejects, and broadcasts process-end and task-end events in
any order at any time after the launch, before the promise resolves too.
`EditorCommands`: each command is a program counter that moves from one await to
the next; between them the other command, edits and saves happen. Files carry the
version of the source they were made from and the command that made them.
`seen` keeps apart what a command removed as its output and as its PDB, since the
two may be removed with another command's build in between. Two debug commands on one
file share its PDB: the later may remove the one that the earlier has already found,
so `NoStalePdb` asks that a PDB that is there is new, and that it is there and the
command's own only for the only debug command of a file (`OnlyDebugger`).
`executeProcessTask` appears by its promise.

## 3. Runs

A run holds the parts of one subsystem; `part` chooses which one works while the
others stay idle, and a property of such a run is the conjunction of the parts'
own properties, named below.

| Run | Shows |
|---|---|
| `registry_heap` | 3 slots, 3 heap bytes, one stack byte, one static object, sizes 0-2, one usable frame: every order of alloc, calloc, realloc, free, with reuse of addresses and slots. Type correctness, agreement with the allocator, disjointness, soundness of accepted accesses, refinement of `CheckedMemory` |
| `registry_scopes` | 2 usable frames, scopes up to 2, 2 stack bytes, one temporary: multi-level exits, frame reuse, temporaries that move, grow and vanish. Lifetimes, usability of live automatic objects, refinement |
| `checked_code` | programs nested 4 deep with gotos to enclosing blocks: registered locals are those of blocks control is in, and the error storage of a try is registered throughout try and catch (`RegisteredWhatIsOpen`: `LocalsOfOpenBlocks`, `ErrorStorageLive`); all accepted gotos and calls, 3 deep: compile-time and run-time depth agree for every active function and no call is rejected as inconsistent (`DepthsAgree`) |
| `runtime_library` | files: 2 startup streams and 2 others, table of 1 growing to 2 and then full, nesting 2 (`HandlesAgree`: closed streams never reach the C library, registry agrees with the library, stderr flag with the table); bytes: two objects of 3 and 2 bytes and Views shorter and longer than they (`CallsAsSpecified`: `StopsWhereRequired`, `StoresAsSpecified`, and for scans `FormatDecides`); formats of up to three pieces, well-formed and not (`FormattedAsSpecified`: `WrittenInOrder`, `RoundTrip`, `LiteralIsChecked`); halves (`HalvesRound`: `RoundsToNearest`, `NormalsWidenExactly`) |
| `editor` | a build and a run task at once: results belong to the call (`ResultIsOwn`), exit codes are not lost (`ExitCodeNotLost`); two commands on one file on Windows (a run or a debug command beside a debug command), on two files elsewhere, with one edit each: `StartsWhatItBuilt` (`NothingStaleStarts`, `StartsOwnBuild`, `NoStalePdb`); `AllReturn`: calls whose execution ended settle, commands return or wait for a process |
| `driver` | every line of up to 3 arguments out of 31 (`LineMeansOneThing`: `OrderIrrelevant`, `AcceptedIsConsistent`); the extension's lines with up to 3 user arguments (`ExtensionLineIsKept`: `PlanIsKept`, `DebugIsUnoptimized`); 100-odd builds in 27 environments with any step failing (`BuildIsWhole`: `SuccessMeansProduct`, `RuntimePackaged`, `ToolsAreResolved`; `RecordTellsOutcome`; `ProductAfterFrontend`); Cargo with up to 3 messages (`CargoDelivers`); two arguments of up to 3 characters (`ArgumentsSurvive`) |
| `static_safety` | all mains of three statements out of 12 pointer and lifetime statements, of 19 control-flow statements (loops that change known names among them), and of 12 statements around a label; objects allocated, resized and released around a label that is visited again: `EntryFactsHold`, `AlarmsAreErrors`, `AnalysisEnds` |
| `translation` | `CoreAsStandard`: all operators over corner operands of every width, flat and nested, with places, slices and short circuits, stored to every target; `AssignmentsAsC`: the same for C assignments with pointers and arrays; `DeclarationsAndCallsAsC` (`AcceptedExactly`, `MetadataApplies`, `LayoutMatchesC`, `LinkageIsC`): one unit of up to four declarations, and pairs of units that share names; and `CallsFollowSysV` (`ArgumentsArrive`, `ResultArrives`, `NothingElseRefused`): 225 structs through a call and back, mixtures of up to three parameters, and both register files at their ends, with C as caller, as callee and on neither side |
| `preprocessing` | sources of up to four lines with includes, guards, cycles, messages and continued directives: `IncludesTranslated` (`IncludesFound`, `NotTwice`), `PlacesAreKept` (`LinesKeepOrigin`, `MessagesKeepLine`), `AcceptedSourceIsWhole` (what is not refused is all of the program, wherever mcpp is missing or dies); texts of bytes: `SourceRefusedExactly` (`RefusesInvalidUtf8`, `ReportsBareHash`) |
| `realloc_shadow`, `sibling_goto`, `half_subnormals` | expected violations, findings 1 to 3 |

Every property of a passing run has mutants: changed definitions (a dropped
guard, a stale field, an off-by-one) under which TLC finds that property
violated, one for each conjunct of a conjunction. Mutant definitions stand beside
the definition they change, named `<definition>_<what changed>`, and are used by
nothing else.

**Bounds.** `HS_MAX_OBJECTS` 3 is enough for a stale entry, the entry that
shadows it and a third party, and makes the full table reachable in every run;
`UINT64_MAX` 3 makes `calloc` overflow reachable with sizes 0-2; three heap bytes
let a block of two move onto itself with an overlap of one. `MaxDepth` 3 holds a
`for` with a construct inside or around it and 4 a `for` in a `try` with a block
around both. Two calls suffice for the task runner, since a call meets another
only through the broadcast of the other's events; two commands likewise meet only
at one output path. Three options show every conflict of two and an option that
swallows one of them. Three statements let a fact be made, disturbed and
used after a join; `Fuel` 80 is more visits than any unit of the run needs, and
`AnalysisEnds` would fail where it is not. Bytes of two bits keep every boundary of
a width. In `CheckedBytes`, `UINT64_MAX` 7 makes `count * size` wrap. A `VIEW` leaves the
last call and its outcome out of the fingerprint of the "bytes" states, since they
are compared on the step itself.
Deadlock checking is on except for `static_safety`, whose executions end; a
stopped program is otherwise an explicit stuttering action (`Exited`, `Ended`,
`Idle`, `Finished`).

**Fairness.** JavaScript promises that have resolved run their continuation, and
timers expire, so `Resolve` or `Reject`, `TimerExpires` and `Settle` of
`TaskRunner` are weakly fair per call, and so are the awaited file operations and
lookups of `EditorCommands` (`Settles`). Nothing is assumed of VS Code's events or of
the compiler and the program, which may run for ever; `EndedCallsSettle` starts
from a reported end and `CommandsReturn` lets a command wait for a process.
`CargoBuild` is run with weak fairness of its steps: `hsc` keeps running, and the
cargo that it waits for ends. There is no timeout in `runProcess`, so without the
second assumption hsc waits as long as cargo does. The runtime's modules have no
liveness: which call comes next is the program's choice.

## 4. Findings

1. `realloc_shadow` - `hs_find` returns the first entry that contains an
   address, live or freed. Allocation reuses the first freed slot, but
   `hs_realloc` rewrites its entry where it stands; when the C library moves the
   block onto bytes that an entry freed earlier, in a lower slot, still
   covers, the live block is shadowed: `free`, `realloc` and checked accesses of
   it stop the program. Standard.md:394 promises that such a block can be freed.
   The error is on the safe side (a correct program is stopped); `AccessSound`
   shows that no wrong access is let through.
2. `sibling_goto` - `goto` into another block of the same depth is accepted by
   the analyzer and by the emitter, which compare depths only, and no scope is
   left at run time: the locals of the block that was left stay registered.
   Standard.md:436 says that they are released.
3. `half_subnormals` - `hs_f16_to_f32` normalizes a subnormal with an exponent
   that is one too low, so `%2f` prints half of its value. Standard.md:1128 asks
   for IEEE 754.

**Divergences met while modelling.** The passing runs keep to instances where the
code does what its documents say. For each case below the MC module has an instance
that leaves them: putting it in place of the named constant in the run's cfg (for
example `Programs <- FoldedPrograms` in Translation.cfg) makes TLC show the
divergence.

| Instance | Property | Code | What happens, and what a document says |
|---|---|---|---|
| `Programs <- FoldedPrograms` | `CoreAsStandard` | `sema/SemaExpressions.cpp` 163 | A folded negative result is divided, shifted and compared as unsigned: `(3 - 5) / 2` is 127. Standard.md:764-770 makes untemplated integers signed |
| `Programs <- OffsetPrograms` | `CoreAsStandard` | `sema/SemaExpressions.cpp` 1545 | `(&x)? - n` observed as an integer is the sum: the right operand is negated and the operator kept |
| `Programs <- TernaryPrograms` | `CoreAsStandard` | `codegen/LLVMCodegenExpressions.cpp` 948 | A conditional as operand of a wider operation gives a phi of two widths, which the LLVM verifier refuses. Standard.md:766: "The computation width is `C = max(L1, L2)`" |
| `Assignments <- NarrowCompare` | `AssignmentsAsC` | `codegen/LLVMCodegenExpressions.cpp` 625 | A comparison is computed in the larger operand length, so an `unsigned char` of 200 is not `> 100`; unary `-` and `~` on narrow operands are not promoted either |
| `Assignments <- PointerDifference` | `AssignmentsAsC` | `sema/SemaExpressions.cpp` 1427 | `p - q` is refused; Standard.md:1646 translates it to `(p? - q?) / sizeof(T)`. Relational pointer comparisons and `(a < b) + 1` are refused as well |
| `Jobs <- MixedUnits` | `TypedefIsTransparent` (CDeclarations) | `compat/CCompatLowering.cpp` 81 | A prototype with `struct S *` and a definition with its typedef conflict; Standard.md:1565 calls a typedef "only a compatibility-layer translation-table entry" |
| `Signatures <- SplitSignatures` | `StructsUndivided` (CAbiCalls) | `codegen/LLVMCodegenCAbi.cpp` 496 | Each piece of a struct is an LLVM argument of its own: with one register left the struct is split between it and the stack, where C passes it whole in memory. README.md:247 names as the limit "covered x86_64 SysV ELF layouts" |
| part "plan" | `DebugBuildsTheSameProgram` (EditorPlan) | `vscode/hitsimple/src/debugPlan.js` 47 | `--link-arg -g` loses its value in a debug build, so the source becomes the linker argument; USAGE.md:366 |
| a build `--emit-object --timing-json=main.o main.hs` | `SuccessMeansProduct` (HscDriver) | `driver/Driver.cpp` 371 | The record may overwrite the object: the check compares with `a.o`, the object goes to `main.o`. USAGE.md:399: "the timing JSON path cannot equal the executable or IR output path" |
| `Environments <- WithoutMembers` | `BuildIsWhole` | `driver/NativeBuild.cpp` 470 | A runtime archive without members goes unnoticed when a standard library module adds an object; USAGE.md:52-53 |
| `Units <- WhileUnits`, `ForUnits`, `CatchUnits` | `AlarmsAreErrors` | `safety/StaticSafetyValidation.cpp` 488, 536, 569 | Facts from before a loop or try are used after the body has changed them, and a break in a `for` reaches nothing: a safe division is refused. Standard.md:106 leaves what cannot be proven to run time |
| `Units <- AliasUnits` | `AlarmsAreErrors` | `safety/StaticSafetyStateFlow.cpp` 209 | A callee writes a local through an address in a global; docs/standard-evidence.md:720: "global calls invalidate aliased facts" |
| `Units <- GlobalUnits` | `AlarmsAreErrors` | `safety/StaticSafetyValidation.cpp` 46 | Every function starts from the values the global initializer left |
| `Units <- AllocUnits` | `AnalysisEnds` | `safety/StaticSafetyValidation.cpp` 107 | An allocation behind a label that a goto reaches again gives a new object id at each visit: the "fixed point for back edges" of the comment is never reached |
| `Objects <- OneObject`, `Views <- OneObjectViews`, `StringCopies <- InOneObject` | `CallsAsSpecified` | `runtime/hitsimple_runtime.c` 653 | `strcpy` and `strcat` within one object overlap under `memcpy`; Standard.md:1369 lists no such error |
| `Scans <- TypedScans`, `WideScans` | `FormattedAsSpecified` | `sema/SemaCalls.cpp` 220, 139 | A literal scan into a target of another template, or with an overflowing width, compiles and stops at run time; Standard.md:1386 has both "checked statically" |
| `Scans <- EmptyScans` | `EndOfInput` | `runtime/hitsimple_runtime.c` 1454 | At the end of the input an integer, pointer or floating conversion returns 0; Standard.md:1395 says `-1` |
| `Programs <- MacroIncludes` | `IncludesTranslated` | `preprocessor/Preprocessor.cpp` 475 | `$include NAME` with a macro is not mirrored; Standard.md:1464 |
| invariant `SourceIsWhole` in place of `AcceptedSourceIsWhole` | `SourceIsWhole` | `preprocessor/Preprocessor.cpp` 676 | An exit code of mcpp is reported only if there is no diagnostic yet: when mcpp dies after a `$warning`, what it had printed is compiled as if it were the program. Standard.md:1464 |
| `Texts <- Commented` | `SourceRefusedExactly` | `preprocessor/Preprocessor.cpp` 372 | A `#` in a comment that a directive line opens is refused; Standard.md:131 |

## 5. Proofs

Eight modules hold proofs that TLAPS checks. Their theorems hold for every value
of the constants that satisfies the named assumptions; TLC evaluates those on every
run. The properties themselves are also checked by TLC on the runs' instances.

### The registry (ObjectRegistryProofs)

For every table size, frame and scope bound, address layout, set of sizes and set of
static objects:

* `TypeCorrect`: `Spec => []TypeOK`.
* `Invariance`: `Spec => []IInv`, the inductive invariant.
* `LifetimesRespected`, `ObjectsDisjoint`, `HeapAgreement`, `AccessSound`,
  `AutomaticUsable`: the invariants `AutomaticObjectsInOpenScopes`,
  `LiveObjectsDisjoint`, `HeapMatchesAllocator`, `AcceptedAccessIsLive` and
  `AutomaticAndStaticUsable` of the runs.
* `RegistryImplements`: `Spec => ImplementsCheckedMemory`, the refinement.

The assumptions are the module's: bounds are natural numbers, addresses are
not NULL, and heap, stack and static storage are disjoint regions
(`TableAssumption`, `AddressAssumption`, `LayoutAssumption`), plus the two
external definitions `Placements` and `OnStack`. The refinement also needs that
sizes are of type `uint64_t` (`SizeAssumption`), as the abstract memory's are.

None of the safety invariants is inductive alone. `IInv` conjoins them with
`StorageByKind` (each kind of entry lies in its region and only heap entries are
ever freed) and splits `HeapMatchesAllocator` into its two directions,
`HeapEntriesAreBlocks` and `BlocksAreRegistered`. The argument: a new entry goes to a
free slot, at a place where the allocator or the stack layout has nothing live
(`PutDisjoint`, `PutBlock`, `PutAuto`); rewriting an entry by realloc keeps it the
only entry of its block (`MoveBlock`); a release marks exactly the entry of the
block it returns, because an accepted lookup is live and live entries are
disjoint (`AcceptedEntry`, `ReleaseBlock`); clearing entries touches automatic
objects only (`ClearStorage`). Lifetimes are a separate induction on top of the
types (`ScopeStep`). `AccessSound` follows from `IInv` alone: a lookup that
succeeds returns a live entry, and a live entry is a block, a static object or
an automatic object of an open scope.

The refinement is proved call by call. The mapping has the abstract call stack as a
sequence of frames of scopes, so the proof first shows how that sequence changes
when a counter or a slot does (`StackShaped` and the lemmas behind it), then that
each runtime function is the abstract action of its purpose, or changes nothing
that the abstract memory has. `IInv` gives what the abstract actions ask for: new
storage is disjoint from everything live, an accepted release is of a live block.

### Generated code (CheckedCodeProofs)

For every nesting bound and every program, any number of active functions:

* `CodeTypeCorrect`: `CodeSpec => []CodeTypeOK`.
* `DepthsNeverPart`: `CodeSpec => []DepthsAgree`, for every goto the compiler accepts.
* `CodeUsesRegistry`: `CodeSpec => Spec`, so that the registry's theorems hold for
  generated code.
* `ScopesOwnLocals`: `LocalsOfOpenBlocks` and `ErrorStorageLive` for programs whose
  gotos do not stray (`~Strays`: the label is in a block around the goto).
* `RegisteredIsOpen`: the same for the run's own specification
  (`MCSpec => []RegisteredWhatIsOpen`).

`CodeInv` holds the registry's `IInv`, the shapes of paths and activations, and the
agreement of depths; a jump's case rests on the lemmas about prefixes of paths
(`PathPrefix`), since every jump goes to a prefix or to a sibling of one. For the
second group `StorageHeld` is inductive beside it: every automatic entry's scope
number tells which of the blocks around control declared it, and the error storage
of each enclosing try is registered one scope outside it. The hypothesis `~Strays`
is needed: with a straying goto the claim is false, which is `sibling_goto`.
`CodeAssumption` asks for a positive nesting bound and that one byte, which stands
for a local, is a size.

### File handles (FileHandlesProofs)

For every set of streams, initial capacity, limit of growth and nesting of formatted
calls: `TypeCorrect` (one entry for an address, room for all) and
`HandlesStayInAgreement` (`HandlesAgree`). The two are inductive together: the table
says of an address what the last checked operation on it did, growth by doubling
makes room for one more entry (`GrowthMakesRoom`), and a formatted call looks at the
table again after its arguments.

### The extension (EditorProofs, EditorCommandsProofs)

For any number of calls of `executeProcessTask`: `TypeCorrect`, `Invariance`,
`ResultsAreOwn` (`ResultIsOwn`) and `ExitCodesKept` (`ExitCodeNotLost`, an action
property). The invariant adds to `ResultIsOwn` that the buffer of a starting call has
every end reported of its execution (`BufferComplete`), that nothing is reported
before the call has subscribed (`SubscribedFirst`), that a timer runs because the own
task ended (`TimerHasReason`) and that a waiting call has missed no process end
(`NoEndMissed`).

For any number of commands, files, edits and platforms: `NothingStale`, `OwnBuild`
and `SymbolsAreNew`. `CommandInv` says that what a command removed from its paths
does not come back to them (`RemovedForGood`); that is inductive because nothing on
disk was written by a command whose compiler has not ended (`NothingFromTheFuture`),
so each compilation writes a file that no earlier command can have removed. Alone on
its file a command finds only its own artifacts (`OwnArtifacts`), made from a source
that is no older than the one it saved (`SavedInOrder`). `CommandAssumption` names
the kinds of commands. `ExtensionTypeCorrect` and `StartsWhatWasBuilt` put both
together for the specification that the run checks. The attempt to prove `NoStalePdb`
for two debug commands on one file corrected the model: with one set of removed
files for both paths, or without `OnlyDebugger`, it does not hold.

### The preprocessor adapter (PreprocessingProofs)

For every set of programs, header registry and depth of inclusion:
`AdapterTypeCorrect` and, for programs whose includes are spelled out
(`PlainIncludes`; the excluded programs are the divergence `MacroIncludes` of section
4 and the quoted includes of section 2), `IncludesAreTranslated`
(`IncludesTranslated`). `AcceptedSourceIsWhole` is only model-checked: its reference
is a recursive reading of the sources. `IncludesFound` is about a time at
which the translation is over, so the invariant has to follow the translation: the
lines before the current one of every open file have been followed
(`FramesInOrder`), every mapped place that can have a copy has one or is getting it,
and a copy is the whole translation of its file (`MirrorComplete`), what stands in
the header directory was included in angle brackets (`HeadersApart`), and mcpp runs
only on a source that was not refused (`Stages`); a removed header leaves no copy but
an error. When mcpp runs no file is open, so every include that it reaches has its
copy. A new file is opened only at a place that was not mapped and every open file's
place is, which gives `NotTwice`.

### The Cargo build (DriverPartsProofs)

For any project, output of cargo and way in which its processes fail:
`CargoTypeCorrect` (a call that has returned left no directory and no process),
`LibraryIsBuilt` (`LibraryIsTheBuilds`) and `MetadataFirst` (`BuildsAfterMetadata`, an
action property). `CargoInv` adds to `LibraryIsTheBuilds`, which is about a call that has
returned, what is known before: a child only at the phase that waits for it (`CargoShape`);
cargo build starts after cargo metadata ended well, and messages are read of the whole
output of a cargo that ended with code 0 (`CargoProgress`); of the messages read so far none
stops the reading, all archives among them are the one that was noted, and each build
script has added its two requirements (`CargoMessagesRead`). `CargoAssumption`: outputs
are sequences of messages. All three are about the specification of the run `driver`.

### The driver (DriverPartsProofs, DriverProofs)

`DriverPartsProofs` has the command line, the Cargo build and the quoting; `DriverProofs`
extends it with the run of hsc and the theorems that need both.

The specification is the one the run `driver` checks. For every set of builds,
environments, command lines and additional arguments:

* `RecordIsTrue` (`RecordTellsOutcome`): whichever step fails, the timing record agrees
  with the exit code and names the stage that failed.
* `BuildsAreWhole` (`BuildIsWhole`) and `ProductsComeAfter` (`ProductAfterFrontend`, an
  action property): a build that succeeds left the whole product, and nothing is written
  to the product's path before every unit has passed the front end.
* `ToolsAreFound` and `NothingIsLeft`: the parts of these that hold without
  `ProductsApart`.
* `LinesMeanOneThing` (`LineMeansOneThing`) and `ExtensionLinesAreKept`
  (`ExtensionLineIsKept`), for lines of any length.
* `ArgumentsComeBack` (`ArgumentsSurvive`), for arguments of any number and length.
* `TypesHold` (`AllTypeOK`), from these and the Cargo build.

*The run.* `RunInv` and `WorkInv` follow the list of calls that remain. `ControlInv` says
that the list is in the order of the pipeline and belongs to what the options ask for.
`RecordInv` says of the metrics that each unit is recorded as far as its calls are done,
that only the stage that has failed is recorded as failed (`MetricsInv`), and that a
stage that has not started will (`MarksInv`). `PlaceInv` says that the temporary directory
and the way back from it are still to be cleaned up or are, and that only tools that were
found are used. `WorkInv`, the invariant behind the two theorems on products, says of each
part of the product (object, native source, library, PDB) that it is there or the call
that makes it remains. A step takes the head of the list and may put other calls in its
place, so each part has one lemma per kind of call.

`ProductInvariance`, `BuildsAreWhole` and `ProductsComeAfter` assume `ProductsApart`: the
product, its PDB and the record have different paths, and the runtime archive has
members. Without it the properties are false, by the two divergences of section 4 on
`--timing-json` and on an archive without members; `InstanceApart` has TLC evaluate
it for the run's instance.

*The command line.* What the arguments before `next` can have set is a set that only
depends on which arguments they are (`LineOptions`), by induction over the turns of
the parser. Two flags may be exchanged because each sets fields of its own
(`OptionFrame`), what it sets depends on these only (`OptionLocal`), and two that
share a field are refused in either order or agree (`OptionsSwap`); the arguments after
them read equal parses alike. For the extension's lines the invariant compares the parse of the
line so far with the planned one (`PlannedStep`, `AsPlanned`): the additional arguments
that were let through change neither mode nor output.

*The quoting.* `QuoteInv` says what the started program's scan has read at the end of the
line written so far: between two arguments, exactly the arguments before; inside quotes,
what is open is the part of the argument before `pos` without the backslashes that
wait. The lemmas are about the scan: backslashes only wait (`ScannedSlashes`), an
argument without blanks and quotes reads as itself (`Copied`), and the doubled
backslashes before a quote are read as half of them (`BackslashesRead`, `QuoteCloses`).

Loops over sequences are followed by a set of turns: that a set of numbers has a least
element (`Least`) comes from the well-foundedness of `<`, and a set that holds 0 and, with
each number, the next one, holds all up to the bound (`Induct`); `LoopExists` gives the
value of a recursive function at each turn.

**Only model-checked.** Liveness under fairness (`AllReturn`, the last conjunct of
`CargoDelivers`) and ENABLED are out of the prover's reach, and so are the modules with
RECURSIVE operators and what is computed over trees: the analyzer's walk over a unit
(`EntryFactsHold`, `AlarmsAreErrors`, `AnalysisEnds`), the folding and emission of nested
expressions and the classification of nested structs (`CoreAsStandard`,
`AssignmentsAsC`, `DeclarationsAndCallsAsC`, `CallsFollowSysV`). The loops over formats and
bytes (`LibraryTypeOK`, `FormattedAsSpecified`, `CallsAsSpecified`), the rounding of
halves (`HalvesRound`), the scan of a source text (`SourceRefusedExactly`, the second
half of `AdapterTypeOK`) and the selection of lines (`PlacesAreKept`) have not been
proved.

## 6. Not modelled

Lexer, parser and AST are generated automata and data types; HIR is a data
structure with a structural verifier; the library manifest is a table; mcpp and
the software f128 backend are third-party or numeric code without behaviour over
time. Of the modelled components: name lookup and templates in semantic analysis;
floating point beyond f16 and calls within the core language in the emitter; statements and
calls in the C importer (its declarations and expressions are modelled); the text
of diagnostics; PATH search and path spelling; `longjmp`, signals and threads (the
runtime supports none). In `CheckedCode`: expression temporaries and the
guards of static locals (the registry's own runs cover re-evaluated temporaries),
and global initializers other than as a call. In `TaskRunner`: the text of the
messages, and `dispose` of the extension while a task runs.

## 7. Plan

1. Proofs: `HandlesAgree` together with the tests that stop a call in `CheckedBytes`; the
   scan of a text in `SourceValidation`, along the lines of the quoting.
2. Expression temporaries and static-local guards in `CheckedCode`.
3. The lowering of C statements and calls; the analyzer's name scopes.
