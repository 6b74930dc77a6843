------------------------ MODULE EditorCommandsProofs ------------------------
(***************************************************************************)
(* Proofs about Build, Run and Debug Current File, for any number of       *)
(* commands on any files and any number of edits: what a command removes   *)
(* at its paths never comes back to them, so what it starts is newer.      *)
(***************************************************************************)
EXTENDS EditorCommands, TLAPS

\* Where a command can be, whatever its kind.
AllSteps ==
    {"idle", "locate", "remove_output", "remove_pdb", "make_directory", "build_task",
     "compiling", "check_output", "check_access", "check_pdb", "built", "returned",
     "run_task", "running", "debug_checks", "locate_debugger", "start_debugging"}

\* hsc has not ended for the command.
BeforeCompiled ==
    {"idle", "locate", "remove_output", "remove_pdb", "make_directory", "build_task",
     "compiling"}

\* The command has removed its output (its PDB) and not returned.
OutputRemoved == AllSteps \ {"idle", "locate", "remove_output", "returned"}
PdbRemoved == OutputRemoved \ {"remove_pdb"}

\* The build of the command has seen a PDB.
PdbSeen == {"built", "debug_checks", "locate_debugger", "start_debugging"}

\* The steps a command can be at are known strings; so are its result's fields.
Shape ==
    /\ scenario \in Scenarios
    /\ pc \in [Commands -> AllSteps]
    /\ DOMAIN result = Commands

\* Nothing was written by a command whose compiler has not ended.
NothingFromTheFuture ==
    \A c \in Commands :
        pc[c] \in BeforeCompiled =>
            /\ \A f \in Files : output[f].by # c /\ pdb[f].by # c
            /\ \A d \in Commands : \A a \in seen[d].output \cup seen[d].pdb : a.by # c

\* What a command removed from its paths is not at them again.
RemovedForGood ==
    \A c \in Commands :
        LET f == File[c] IN
        /\ pc[c] \in OutputRemoved /\ output[f] # NoFile => output[f] \notin seen[c].output
        /\ WantsPdb(c) /\ pc[c] \in PdbRemoved /\ pdb[f] # NoFile => pdb[f] \notin seen[c].pdb

\* The source on disk is never newer than the editor's, nor older than what a
\* command saved.
SavedInOrder ==
    /\ \A f \in Files : source[f] <= buffer[f]
    /\ \A c \in Commands : saved[c] <= source[File[c]]

\* Alone on its file a command finds only its own output there, the only debug
\* command of a file only its own PDB.
OwnArtifacts ==
    \A c \in Commands :
        LET f == File[c] IN
        /\ Alone(c) /\ pc[c] \in OutputRemoved /\ output[f] # NoFile =>
               output[f].by = c /\ output[f].version >= saved[c]
        /\ OnlyDebugger(c) /\ WantsPdb(c) /\ pc[c] \in PdbRemoved /\ pdb[f] # NoFile =>
               pdb[f].by = c
        /\ OnlyDebugger(c) /\ WantsPdb(c) /\ pc[c] \in PdbSeen => pdb[f] # NoFile

\* A command has started nothing before it runs or has returned.
StartsLate ==
    \A c \in Commands : pc[c] \notin {"running", "returned"} => started[c] = NoFile

\* The inductive invariant.
CommandInv ==
    /\ Shape
    /\ TypeOK
    /\ NothingFromTheFuture
    /\ RemovedForGood
    /\ SavedInOrder
    /\ OwnArtifacts
    /\ StartsLate
    /\ NothingStaleStarts
    /\ StartsOwnBuild

-----------------------------------------------------------------------------

\* The steps of a command are among the named ones; Kind is build, run or debug.
LEMMA StepNames ==
    ASSUME CommandAssumption, Shape, NEW c \in Commands
    PROVE  /\ Steps(c) \subseteq AllSteps
           /\ Kind[c] \in {"build", "run", "debug"}
           /\ File[c] \in Files
           /\ c # "earlier" /\ c # "nobody"
BY DEF Steps, AllSteps, CommandAssumption, Shape, Kind, Files

\* Before the first command nothing of a command is on disk.
LEMMA CommandInvInit == CommandAssumption /\ Init => CommandInv
<1>. SUFFICES ASSUME CommandAssumption, Init PROVE CommandInv
  OBVIOUS
<1>1. /\ MaxVersion \in Nat /\ 0 \in 0..MaxVersion
      /\ Commands \cap {"earlier", "nobody"} = {}
  BY DEF CommandAssumption
<1>2. \A c \in Commands : pc[c] = "idle" /\ saved[c] = 0 /\ started[c] = NoFile
                          /\ seen[c] = [output |-> {}, pdb |-> {}] /\ File[c] \in Files
  BY DEF Init, Files
<1>3. \A f \in Files : /\ output[f] \in {NoFile, [by |-> "earlier", version |-> 0, runnable |-> TRUE]}
                       /\ pdb[f] = output[f] /\ buffer[f] = 0 /\ source[f] = 0
  BY DEF Init
<1>4. Shape
  BY DEF Init, Shape, AllSteps
<1>5. TypeOK
  <2>1. [by |-> "earlier", version |-> 0, runnable |-> TRUE] \in Artifact
    BY <1>1 DEF Artifact
  <2>2. \A c \in Commands : pc[c] \in Steps(c)
    BY <1>2 DEF Steps
  <2>3. output \in [Files -> Artifact \cup {NoFile}] /\ pdb \in [Files -> Artifact \cup {NoFile}]
    BY <2>1 DEF Init
  <2>4. buffer \in [Files -> 0..MaxVersion] /\ source \in [Files -> 0..MaxVersion]
        /\ saved \in [Commands -> 0..MaxVersion]
        /\ started \in [Commands -> Artifact \cup {NoFile}]
        /\ DOMAIN result = Commands
    BY <1>1 DEF Init
  <2>5. seen \in [Commands -> [output : SUBSET (Artifact \cup {NoFile}),
                               pdb : SUBSET (Artifact \cup {NoFile})]]
    BY DEF Init
  <2>. QED
    BY <2>2, <2>3, <2>4, <2>5 DEF TypeOK
<1>6. NothingFromTheFuture
  BY <1>1, <1>2, <1>3 DEF NothingFromTheFuture, NoFile
<1>7. RemovedForGood
  BY <1>2 DEF RemovedForGood, OutputRemoved, PdbRemoved
<1>8. SavedInOrder
  BY <1>2, <1>3 DEF SavedInOrder
<1>9. OwnArtifacts
  BY <1>2 DEF OwnArtifacts, OutputRemoved, PdbRemoved, PdbSeen
<1>10. StartsLate /\ NothingStaleStarts /\ StartsOwnBuild
  BY <1>2 DEF StartsLate, NothingStaleStarts, StartsOwnBuild
<1>. QED
  BY <1>4, <1>5, <1>6, <1>7, <1>8, <1>9, <1>10 DEF CommandInv

-----------------------------------------------------------------------------

\* What the user does and where is fixed at the start.
LEMMA ScenarioKept ==
    ASSUME UNCHANGED scenario
    PROVE  /\ Kind' = Kind /\ File' = File /\ platform' = platform /\ Files' = Files
           /\ \A d : /\ WantsPdb(d)' <=> WantsPdb(d)
                     /\ OnlyDebugger(d)' <=> OnlyDebugger(d)
                     /\ Alone(d)' <=> Alone(d)
                     /\ Steps(d)' = Steps(d)
<1>1. Kind' = Kind /\ File' = File /\ platform' = platform /\ Files' = Files
  BY DEF Kind, File, platform, Files
<1>. QED
  BY <1>1 DEF WantsPdb, OnlyDebugger, Alone, Steps

\* A command that only goes on to another await keeps the invariant, if it is
\* not past a removal or a check that it has not made.
LEMMA GoesOn ==
    ASSUME CommandAssumption, CommandInv, NEW c \in Commands, NEW where \in Steps(c),
           pc' = [pc EXCEPT ![c] = where], DOMAIN result' = Commands,
           UNCHANGED <<sources, disk, saved, seen, started>>,
           where \in BeforeCompiled => pc[c] \in BeforeCompiled,
           where \in OutputRemoved => pc[c] \in OutputRemoved,
           WantsPdb(c) /\ where \in PdbRemoved => pc[c] \in PdbRemoved,
           WantsPdb(c) /\ where \in PdbSeen => pc[c] \in PdbSeen \/ pdb[File[c]] # NoFile,
           where \notin {"running", "returned"} => pc[c] \notin {"running", "returned"}
    PROVE  CommandInv'
<1>. USE DEF CommandInv
<1>1. /\ UNCHANGED <<scenario, buffer, source, output, pdb, saved, seen, started>>
      /\ File' = File /\ Files' = Files
  BY ScenarioKept DEF sources, disk
<1>2. \A d \in Commands : /\ WantsPdb(d)' <=> WantsPdb(d)
                          /\ OnlyDebugger(d)' <=> OnlyDebugger(d)
                          /\ Alone(d)' <=> Alone(d)
                          /\ Steps(d)' = Steps(d)
  BY <1>1, ScenarioKept
<1>3. \A d \in Commands : pc'[d] = IF d = c THEN where ELSE pc[d]
  BY DEF Shape
<1>4. Shape'
  BY <1>1, StepNames DEF Shape
<1>5. TypeOK'
  <2>1. \A d \in Commands : pc'[d] \in Steps(d)'
    BY <1>2, <1>3 DEF TypeOK
  <2>. QED
    BY <1>1, <2>1 DEF TypeOK
<1>6. NothingFromTheFuture'
  BY <1>1, <1>3 DEF NothingFromTheFuture
<1>7. RemovedForGood'
  BY <1>1, <1>2, <1>3 DEF RemovedForGood
<1>8. SavedInOrder'
  BY <1>1 DEF SavedInOrder
<1>9. OwnArtifacts'
  BY <1>1, <1>2, <1>3 DEF OwnArtifacts
<1>10. StartsLate'
  BY <1>1, <1>3 DEF StartsLate
<1>11. NothingStaleStarts' /\ StartsOwnBuild'
  BY <1>1, <1>2 DEF NothingStaleStarts, StartsOwnBuild
<1>. QED
  BY <1>4, <1>5, <1>6, <1>7, <1>8, <1>9, <1>10, <1>11

\* A command that fails returns, whatever it was waiting for.
LEMMA FailureKeeps ==
    ASSUME CommandAssumption, CommandInv, NEW c \in Commands, NEW ok, NEW stage,
           Return(c, ok, stage), UNCHANGED <<sources, disk, saved, seen, started>>
    PROVE  CommandInv'
<1>1. "returned" \in Steps(c)
  BY DEF Steps
<1>2. DOMAIN result' = Commands
  BY DEF Return, CommandInv, Shape
<1>. QED
  BY <1>1, <1>2, GoesOn DEF Return, BeforeCompiled, OutputRemoved, PdbRemoved, PdbSeen

\* The checks before and after the compiler and the waits for programs and
\* debuggers change nothing on disk.
LEMMA WaitsKeep ==
    ASSUME CommandAssumption, CommandInv, NEW c \in Commands,
           \/ ContextRejected(c) \/ locateCompiler(c) \/ makeDirectory(c) \/ startBuild(c)
           \/ checkOutput(c) \/ checkAccess(c) \/ checkPdb(c) \/ buildReturns(c)
           \/ programEnds(c) \/ debugChecks(c) \/ locateDebugger(c)
    PROVE  CommandInv'
<1>. USE DEF At, Goto, failed
<1>a. DOMAIN result = Commands /\ pc[c] \in Steps(c) /\ Kind[c] \in {"build", "run", "debug"}
  BY StepNames DEF CommandInv, Shape, TypeOK
<1>1. CASE ContextRejected(c)
  BY <1>1, FailureKeeps DEF ContextRejected
<1>2. CASE locateCompiler(c)
  <2>1. CASE Goto(c, "remove_output")
    BY <1>2, <1>a, <2>1, GoesOn
    DEF locateCompiler, Steps, BeforeCompiled, OutputRemoved, PdbRemoved, PdbSeen
  <2>. QED
    BY <1>2, <2>1, FailureKeeps DEF locateCompiler
<1>3. CASE makeDirectory(c)
  <2>1. CASE Goto(c, "build_task")
    BY <1>3, <1>a, <2>1, GoesOn
    DEF makeDirectory, Steps, BeforeCompiled, OutputRemoved, PdbRemoved, PdbSeen, AllSteps
  <2>. QED
    BY <1>3, <2>1, FailureKeeps DEF makeDirectory
<1>4. CASE startBuild(c)
  <2>1. CASE Goto(c, "compiling")
    BY <1>4, <1>a, <2>1, GoesOn
    DEF startBuild, Steps, BeforeCompiled, OutputRemoved, PdbRemoved, PdbSeen, AllSteps
  <2>. QED
    BY <1>4, <2>1, FailureKeeps DEF startBuild
<1>5. CASE checkOutput(c)
  <2>1. CASE output[File[c]] = NoFile
    BY <1>5, <2>1, FailureKeeps DEF checkOutput
  <2>2. CASE output[File[c]] # NoFile
    <3>1. CASE platform # "win32"
      <4>1. Goto(c, "check_access")
        BY <1>5, <2>2, <3>1 DEF checkOutput, WantsPdb
      <4>. QED
        BY <1>5, <1>a, <3>1, <4>1, GoesOn
        DEF checkOutput, Steps, BeforeCompiled, OutputRemoved, PdbRemoved, PdbSeen, AllSteps,
            WantsPdb
    <3>2. CASE platform = "win32" /\ WantsPdb(c)
      <4>1. Goto(c, "check_pdb")
        BY <1>5, <2>2, <3>2 DEF checkOutput, WantsPdb
      <4>. QED
        BY <1>5, <1>a, <3>2, <4>1, GoesOn
        DEF checkOutput, Steps, BeforeCompiled, OutputRemoved, PdbRemoved, PdbSeen, AllSteps,
            WantsPdb
    <3>3. CASE platform = "win32" /\ ~WantsPdb(c)
      <4>1. Goto(c, "built")
        BY <1>5, <2>2, <3>3 DEF checkOutput, WantsPdb
      <4>. QED
        BY <1>5, <1>a, <3>3, <4>1, GoesOn
        DEF checkOutput, Steps, BeforeCompiled, OutputRemoved, PdbRemoved, PdbSeen, AllSteps,
            WantsPdb
    <3>. QED
      BY <3>1, <3>2, <3>3
  <2>. QED
    BY <2>1, <2>2
<1>6. CASE checkAccess(c)
  <2>1. CASE Goto(c, "built")
    <3>1. ~WantsPdb(c)
      BY <1>6, <1>a DEF checkAccess, Steps, WantsPdb
    <3>. QED
      BY <1>6, <1>a, <2>1, <3>1, GoesOn
      DEF checkAccess, Steps, BeforeCompiled, OutputRemoved, PdbRemoved, PdbSeen, AllSteps
  <2>. QED
    BY <1>6, <2>1, FailureKeeps DEF checkAccess
<1>7. CASE checkPdb(c)
  <2>1. CASE pdb[File[c]] # NoFile
    BY <1>7, <1>a, <2>1, GoesOn
    DEF checkPdb, Steps, BeforeCompiled, OutputRemoved, PdbRemoved, PdbSeen, AllSteps
  <2>. QED
    BY <1>7, <2>1, FailureKeeps DEF checkPdb
<1>8. CASE buildReturns(c)
  <2>1. CASE Kind[c] = "build"
    BY <1>8, <2>1, FailureKeeps DEF buildReturns
  <2>2. CASE Kind[c] = "run"
    <3>1. Goto(c, "run_task") /\ ~WantsPdb(c)
      BY <1>8, <2>2 DEF buildReturns, WantsPdb
    <3>. QED
      BY <1>8, <1>a, <2>2, <3>1, GoesOn
      DEF buildReturns, Steps, BeforeCompiled, OutputRemoved, PdbRemoved, PdbSeen, AllSteps
  <2>3. CASE Kind[c] = "debug"
    BY <1>8, <1>a, <2>3, GoesOn
    DEF buildReturns, Steps, BeforeCompiled, OutputRemoved, PdbRemoved, PdbSeen, AllSteps
  <2>. QED
    BY <1>a, <2>1, <2>2, <2>3
<1>9. CASE programEnds(c)
  BY <1>9, FailureKeeps DEF programEnds
<1>10. CASE debugChecks(c)
  <2>1. CASE Goto(c, "locate_debugger")
    BY <1>10, <1>a, <2>1, GoesOn
    DEF debugChecks, Steps, BeforeCompiled, OutputRemoved, PdbRemoved, PdbSeen, AllSteps
  <2>2. CASE Goto(c, "start_debugging")
    BY <1>10, <1>a, <2>2, GoesOn
    DEF debugChecks, Steps, BeforeCompiled, OutputRemoved, PdbRemoved, PdbSeen, AllSteps
  <2>3. CASE ~Goto(c, "locate_debugger") /\ ~Goto(c, "start_debugging")
    BY <1>10, <2>3, FailureKeeps DEF debugChecks
  <2>. QED
    BY <2>1, <2>2, <2>3
<1>11. CASE locateDebugger(c)
  <2>1. CASE Goto(c, "start_debugging")
    BY <1>11, <1>a, <2>1, GoesOn
    DEF locateDebugger, Steps, BeforeCompiled, OutputRemoved, PdbRemoved, PdbSeen, AllSteps
  <2>. QED
    BY <1>11, <2>1, FailureKeeps DEF locateDebugger
<1>. QED
  BY <1>1, <1>2, <1>3, <1>4, <1>5, <1>6, <1>7, <1>8, <1>9, <1>10, <1>11

-----------------------------------------------------------------------------

\* The command saves a dirty document and remembers what is on disk: sources only
\* get newer (resolveActiveContext).
LEMMA SaveKeeps ==
    ASSUME CommandAssumption, CommandInv, NEW c \in Commands, resolveActiveContext(c)
    PROVE  CommandInv'
<1>. USE DEF CommandInv
<1>1. /\ UNCHANGED <<scenario, buffer, output, pdb, seen, started, result>>
      /\ File' = File /\ Files' = Files
  BY ScenarioKept DEF resolveActiveContext, disk, Goto
<1>2. \A d \in Commands : /\ WantsPdb(d)' <=> WantsPdb(d)
                          /\ OnlyDebugger(d)' <=> OnlyDebugger(d)
                          /\ Alone(d)' <=> Alone(d)
                          /\ Steps(d)' = Steps(d)
  BY <1>1, ScenarioKept
<1>3. /\ pc[c] = "idle" /\ File[c] \in Files
      /\ \A d \in Commands : /\ pc'[d] = IF d = c THEN "locate" ELSE pc[d]
                             /\ saved'[d] = IF d = c THEN buffer[File[c]] ELSE saved[d]
  BY StepNames DEF resolveActiveContext, At, Goto, Shape, TypeOK
<1>4. /\ buffer \in [Files -> Nat] /\ source \in [Files -> Nat] /\ saved \in [Commands -> Nat]
  BY DEF TypeOK, CommandAssumption
<1>5. \A f \in Files : source'[f] = IF f = File[c] THEN buffer[f] ELSE source[f]
  BY <1>4 DEF resolveActiveContext
<1>6. Shape'
  BY <1>1, StepNames DEF resolveActiveContext, Goto, Shape, AllSteps
<1>7. TypeOK'
  <2>1. \A d \in Commands : pc'[d] \in Steps(d)'
    <3>1. "locate" \in Steps(c)
      BY DEF Steps
    <3>. QED
      BY <1>2, <1>3, <3>1 DEF TypeOK
  <2>2. buffer[File[c]] \in 0..MaxVersion
    BY <1>3 DEF TypeOK
  <2>3. source' \in [Files -> 0..MaxVersion] /\ saved' \in [Commands -> 0..MaxVersion]
    BY <2>2 DEF resolveActiveContext, TypeOK
  <2>. QED
    BY <1>1, <2>1, <2>3 DEF TypeOK
<1>8. NothingFromTheFuture'
  BY <1>1, <1>3 DEF NothingFromTheFuture, BeforeCompiled
<1>9. RemovedForGood'
  BY <1>1, <1>2, <1>3 DEF RemovedForGood, OutputRemoved, PdbRemoved
<1>10. SavedInOrder'
  <2>1. \A f \in Files : source'[f] <= buffer[f] /\ source[f] <= source'[f]
    BY <1>4, <1>5 DEF SavedInOrder
  <2>2. ASSUME NEW d \in Commands PROVE saved'[d] <= source'[File[d]]
    <3>1. /\ File[d] \in Files /\ saved[d] <= source[File[d]]
          /\ source[File[d]] <= source'[File[d]]
          /\ saved[d] \in Nat /\ source[File[d]] \in Nat /\ source'[File[d]] \in Nat
      BY <1>4, <1>5, <2>1, StepNames DEF SavedInOrder
    <3>2. CASE d = c
      BY <1>3, <1>4, <1>5, <3>1, <3>2
    <3>3. CASE d # c
      BY <1>3, <3>1, <3>3
    <3>. QED
      BY <3>2, <3>3
  <2>. QED
    BY <1>1, <2>1, <2>2 DEF SavedInOrder
<1>11. OwnArtifacts'
  BY <1>1, <1>2, <1>3 DEF OwnArtifacts, OutputRemoved, PdbRemoved, PdbSeen
<1>12. StartsLate'
  BY <1>1, <1>3 DEF StartsLate
<1>13. NothingStaleStarts' /\ StartsOwnBuild'
  BY <1>1, <1>2, <1>3 DEF NothingStaleStarts, StartsOwnBuild, StartsLate
<1>. QED
  BY <1>6, <1>7, <1>8, <1>9, <1>10, <1>11, <1>12, <1>13

\* The user edits and saves: buffers and sources only get newer.
LEMMA UserKeeps ==
    ASSUME CommandAssumption, CommandInv, NEW f \in Files, Edit(f) \/ Save(f)
    PROVE  CommandInv'
<1>. USE DEF CommandInv
<1>1. /\ UNCHANGED <<scenario, pc, result, output, pdb, saved, seen, started>>
      /\ File' = File /\ Files' = Files
  BY ScenarioKept DEF Edit, Save, disk
<1>2. \A d \in Commands : /\ WantsPdb(d)' <=> WantsPdb(d)
                          /\ OnlyDebugger(d)' <=> OnlyDebugger(d)
                          /\ Alone(d)' <=> Alone(d)
                          /\ Steps(d)' = Steps(d)
  BY <1>1, ScenarioKept
<1>3. /\ buffer \in [Files -> 0..MaxVersion] /\ source \in [Files -> 0..MaxVersion]
      /\ saved \in [Commands -> 0..MaxVersion] /\ MaxVersion \in Nat
  BY DEF TypeOK, CommandAssumption
<1>4. /\ buffer' \in [Files -> 0..MaxVersion] /\ source' \in [Files -> 0..MaxVersion]
      /\ \A g \in Files : source'[g] <= buffer'[g] /\ source[g] <= source'[g]
  <2>1. CASE Edit(f)
    <3>1. buffer' = [buffer EXCEPT ![f] = buffer[f] + 1] /\ source' = source
          /\ buffer[f] + 1 \in 0..MaxVersion
      BY <1>3, <2>1 DEF Edit
    <3>2. \A g \in Files : source[g] <= buffer'[g]
      BY <1>3, <3>1 DEF SavedInOrder
    <3>. QED
      BY <1>3, <3>1, <3>2
  <2>2. CASE Save(f)
    <3>1. source' = [source EXCEPT ![f] = buffer[f]] /\ buffer' = buffer
      BY <2>2 DEF Save
    <3>. QED
      BY <1>3, <3>1 DEF SavedInOrder
  <2>. QED
    BY <2>1, <2>2
<1>5. Shape' /\ TypeOK'
  BY <1>1, <1>2, <1>4 DEF Shape, TypeOK
<1>6. SavedInOrder'
  <2>. SUFFICES ASSUME NEW d \in Commands PROVE saved[d] <= source'[File[d]]
    BY <1>1, <1>4 DEF SavedInOrder
  <2>1. File[d] \in Files /\ saved[d] <= source[File[d]]
    BY StepNames DEF SavedInOrder
  <2>. QED
    BY <1>3, <1>4, <2>1
<1>7. NothingFromTheFuture' /\ RemovedForGood' /\ OwnArtifacts'
  BY <1>1, <1>2 DEF NothingFromTheFuture, RemovedForGood, OwnArtifacts
<1>8. StartsLate' /\ NothingStaleStarts' /\ StartsOwnBuild'
  BY <1>1, <1>2 DEF StartsLate, NothingStaleStarts, StartsOwnBuild
<1>. QED
  BY <1>5, <1>6, <1>7, <1>8

-----------------------------------------------------------------------------

\* One more file among those a command has removed (buildCurrentFile).
LEMMA RemembersMore ==
    ASSUME NEW S, NEW T, NEW m \in [T -> [output : SUBSET S, pdb : SUBSET S]],
           NEW c \in T, NEW a \in S
    PROVE  /\ [m EXCEPT ![c].output = @ \cup {a}] \in [T -> [output : SUBSET S, pdb : SUBSET S]]
           /\ [m EXCEPT ![c].pdb = @ \cup {a}] \in [T -> [output : SUBSET S, pdb : SUBSET S]]
<1>1. /\ m[c] \in [output : SUBSET S, pdb : SUBSET S]
      /\ m[c].output \cup {a} \in SUBSET S
      /\ m[c].pdb \cup {a} \in SUBSET S
  OBVIOUS
<1>2. /\ [m[c] EXCEPT !.output = @ \cup {a}] \in [output : SUBSET S, pdb : SUBSET S]
      /\ [m[c] EXCEPT !.pdb = @ \cup {a}] \in [output : SUBSET S, pdb : SUBSET S]
  BY <1>1
<1>. QED
  BY <1>2

\* What a command finds at its output path it remembers, and the path is empty
\* (the first rm of buildCurrentFile).
LEMMA RemoveOutputKeeps ==
    ASSUME CommandAssumption, CommandInv, NEW c \in Commands, removeOutput(c)
    PROVE  CommandInv'
<1>. USE DEF CommandInv
<1>a. pc[c] = "remove_output"
  BY DEF removeOutput, At
<1>1. CASE failed(c, "prepare-output") /\ UNCHANGED <<output, seen>>
  BY <1>1, FailureKeeps DEF removeOutput, failed, disk
<1>2. CASE /\ output' = [output EXCEPT ![File[c]] = NoFile]
           /\ seen' = [seen EXCEPT ![c].output = @ \cup {output[File[c]]}]
           /\ Goto(c, IF WantsPdb(c) THEN "remove_pdb" ELSE "make_directory")
  <2>1. /\ UNCHANGED <<scenario, buffer, source, pdb, saved, started, result>>
        /\ File' = File /\ Files' = Files
    BY <1>2, ScenarioKept DEF removeOutput, sources, Goto
  <2>2. \A d \in Commands : /\ WantsPdb(d)' <=> WantsPdb(d)
                            /\ OnlyDebugger(d)' <=> OnlyDebugger(d)
                            /\ Alone(d)' <=> Alone(d)
                            /\ Steps(d)' = Steps(d)
    BY <2>1, ScenarioKept
  <2>. DEFINE where == IF WantsPdb(c) THEN "remove_pdb" ELSE "make_directory"
  <2>3. \A d \in Commands : pc'[d] = IF d = c THEN where ELSE pc[d]
    BY <1>2 DEF Shape, Goto
  <2>4. /\ where \in Steps(c) /\ where \in AllSteps /\ where \in BeforeCompiled
        /\ where \notin PdbSeen
        /\ WantsPdb(c) => where \notin PdbRemoved
    BY DEF Steps, AllSteps, BeforeCompiled, PdbSeen, PdbRemoved
  <2>5. \A f \in Files : output'[f] = IF f = File[c] THEN NoFile ELSE output[f]
    BY <1>2 DEF TypeOK
  <2>6. /\ \A d \in Commands : seen'[d].output = IF d = c THEN seen[c].output \cup {output[File[c]]}
                                                  ELSE seen[d].output
        /\ \A d \in Commands : seen'[d].pdb = seen[d].pdb
    BY <1>2 DEF TypeOK
  <2>7. File[c] \in Files /\ pc[c] \in BeforeCompiled
    BY <1>a, StepNames DEF BeforeCompiled
  <2>. HIDE DEF where
  <2>8. Shape'
    BY <1>2, <2>1, <2>4 DEF Shape, Goto, where
  <2>9. TypeOK'
    <3>1. \A d \in Commands : pc'[d] \in Steps(d)'
      BY <2>2, <2>3, <2>4 DEF TypeOK
    <3>2. output' \in [Files -> Artifact \cup {NoFile}]
      BY <1>2 DEF TypeOK
    <3>3. seen' \in [Commands -> [output : SUBSET (Artifact \cup {NoFile}),
                                  pdb : SUBSET (Artifact \cup {NoFile})]]
      <4>1. output[File[c]] \in Artifact \cup {NoFile}
        BY <2>7 DEF TypeOK
      <4>. QED
        BY <1>2, <4>1, RemembersMore DEF TypeOK
    <3>. QED
      BY <2>1, <3>1, <3>2, <3>3 DEF TypeOK
  <2>10. NothingFromTheFuture'
    <3>. SUFFICES ASSUME NEW e \in Commands, pc'[e] \in BeforeCompiled
                  PROVE  /\ \A f \in Files : output'[f].by # e /\ pdb[f].by # e
                         /\ \A d \in Commands :
                               \A a \in seen'[d].output \cup seen'[d].pdb : a.by # e
      BY <2>1 DEF NothingFromTheFuture
    <3>1. pc[e] \in BeforeCompiled
      BY <2>3, <2>7
    <3>2. NoFile.by # e
      BY StepNames DEF NoFile
    <3>. QED
      BY <2>5, <2>6, <2>7, <3>1, <3>2 DEF NothingFromTheFuture
  <2>11. RemovedForGood'
    <3>. SUFFICES ASSUME NEW d \in Commands
                  PROVE  /\ pc'[d] \in OutputRemoved /\ output'[File[d]] # NoFile =>
                               output'[File[d]] \notin seen'[d].output
                         /\ WantsPdb(d) /\ pc'[d] \in PdbRemoved /\ pdb[File[d]] # NoFile =>
                               pdb[File[d]] \notin seen'[d].pdb
      BY <2>1, <2>2 DEF RemovedForGood
    <3>1. File[d] \in Files
      BY StepNames
    <3>. QED
      BY <2>3, <2>4, <2>5, <2>6, <3>1 DEF RemovedForGood
  <2>12. SavedInOrder'
    BY <2>1 DEF SavedInOrder
  <2>13. OwnArtifacts'
    <3>. SUFFICES ASSUME NEW d \in Commands
                  PROVE  /\ Alone(d) /\ pc'[d] \in OutputRemoved /\ output'[File[d]] # NoFile =>
                               output'[File[d]].by = d /\ output'[File[d]].version >= saved[d]
                         /\ /\ OnlyDebugger(d) /\ WantsPdb(d)
                            /\ pc'[d] \in PdbRemoved /\ pdb[File[d]] # NoFile
                            => pdb[File[d]].by = d
                         /\ OnlyDebugger(d) /\ WantsPdb(d) /\ pc'[d] \in PdbSeen =>
                               pdb[File[d]] # NoFile
      BY <2>1, <2>2 DEF OwnArtifacts
    <3>1. File[d] \in Files
      BY StepNames
    <3>. QED
      BY <2>3, <2>4, <2>5, <3>1 DEF OwnArtifacts
  <2>14. StartsLate'
    BY <1>a, <2>1, <2>3 DEF StartsLate
  <2>15. NothingStaleStarts' /\ StartsOwnBuild'
    BY <1>a, <2>1, <2>2, <2>6 DEF NothingStaleStarts, StartsOwnBuild, StartsLate
  <2>. QED
    BY <2>8, <2>9, <2>10, <2>11, <2>12, <2>13, <2>14, <2>15
<1>. QED
  BY <1>1, <1>2 DEF removeOutput

\* The same for the PDB of a debug build on Windows (the second rm).  A command
\* that is the only one to debug its file is not disturbed by another's rm.
LEMMA RemovePdbKeeps ==
    ASSUME CommandAssumption, CommandInv, NEW c \in Commands, removePdb(c)
    PROVE  CommandInv'
<1>. USE DEF CommandInv
<1>a. pc[c] = "remove_pdb" /\ WantsPdb(c) /\ Kind[c] = "debug"
  <2>1. pc[c] = "remove_pdb" /\ pc[c] \in Steps(c)
    BY DEF removePdb, At, TypeOK
  <2>. QED
    BY <2>1 DEF Steps, WantsPdb
<1>1. CASE failed(c, "prepare-output") /\ UNCHANGED <<pdb, seen>>
  BY <1>1, FailureKeeps DEF removePdb, failed, disk
<1>2. CASE /\ pdb' = [pdb EXCEPT ![File[c]] = NoFile]
           /\ seen' = [seen EXCEPT ![c].pdb = @ \cup {pdb[File[c]]}]
           /\ Goto(c, "make_directory")
  <2>1. /\ UNCHANGED <<scenario, buffer, source, output, saved, started, result>>
        /\ File' = File /\ Files' = Files
    BY <1>2, ScenarioKept DEF removePdb, sources, Goto
  <2>2. \A d \in Commands : /\ WantsPdb(d)' <=> WantsPdb(d)
                            /\ OnlyDebugger(d)' <=> OnlyDebugger(d)
                            /\ Alone(d)' <=> Alone(d)
                            /\ Steps(d)' = Steps(d)
    BY <2>1, ScenarioKept
  <2>3. \A d \in Commands : pc'[d] = IF d = c THEN "make_directory" ELSE pc[d]
    BY <1>2 DEF Shape, Goto
  <2>4. "make_directory" \in Steps(c)
    BY DEF Steps
  <2>5. \A f \in Files : pdb'[f] = IF f = File[c] THEN NoFile ELSE pdb[f]
    BY <1>2 DEF TypeOK
  <2>6. /\ \A d \in Commands : seen'[d].pdb = IF d = c THEN seen[c].pdb \cup {pdb[File[c]]}
                                               ELSE seen[d].pdb
        /\ \A d \in Commands : seen'[d].output = seen[d].output
    BY <1>2 DEF TypeOK
  <2>7. File[c] \in Files /\ pc[c] \in BeforeCompiled /\ pc[c] \in OutputRemoved
    BY <1>a, StepNames DEF BeforeCompiled, OutputRemoved, AllSteps
  <2>8. Shape'
    BY <1>2, <2>1 DEF Shape, Goto, AllSteps
  <2>9. TypeOK'
    <3>1. \A d \in Commands : pc'[d] \in Steps(d)'
      BY <2>2, <2>3, <2>4 DEF TypeOK
    <3>2. pdb' \in [Files -> Artifact \cup {NoFile}]
      BY <1>2 DEF TypeOK
    <3>3. seen' \in [Commands -> [output : SUBSET (Artifact \cup {NoFile}),
                                  pdb : SUBSET (Artifact \cup {NoFile})]]
      <4>1. pdb[File[c]] \in Artifact \cup {NoFile}
        BY <2>7 DEF TypeOK
      <4>. QED
        BY <1>2, <4>1, RemembersMore DEF TypeOK
    <3>. QED
      BY <2>1, <3>1, <3>2, <3>3 DEF TypeOK
  <2>10. NothingFromTheFuture'
    <3>. SUFFICES ASSUME NEW e \in Commands, pc'[e] \in BeforeCompiled
                  PROVE  /\ \A f \in Files : output[f].by # e /\ pdb'[f].by # e
                         /\ \A d \in Commands :
                               \A a \in seen'[d].output \cup seen'[d].pdb : a.by # e
      BY <2>1 DEF NothingFromTheFuture
    <3>1. pc[e] \in BeforeCompiled
      BY <2>3, <2>7
    <3>2. NoFile.by # e
      BY StepNames DEF NoFile
    <3>. QED
      BY <2>5, <2>6, <2>7, <3>1, <3>2 DEF NothingFromTheFuture
  <2>11. RemovedForGood'
    <3>. SUFFICES ASSUME NEW d \in Commands
                  PROVE  /\ pc'[d] \in OutputRemoved /\ output[File[d]] # NoFile =>
                               output[File[d]] \notin seen'[d].output
                         /\ WantsPdb(d) /\ pc'[d] \in PdbRemoved /\ pdb'[File[d]] # NoFile =>
                               pdb'[File[d]] \notin seen'[d].pdb
      BY <2>1, <2>2 DEF RemovedForGood
    <3>1. File[d] \in Files
      BY StepNames
    <3>. QED
      BY <2>3, <2>5, <2>6, <2>7, <3>1 DEF RemovedForGood
  <2>12. SavedInOrder'
    BY <2>1 DEF SavedInOrder
  <2>13. OwnArtifacts'
    <3>. SUFFICES ASSUME NEW d \in Commands
                  PROVE  /\ Alone(d) /\ pc'[d] \in OutputRemoved /\ output[File[d]] # NoFile =>
                               output[File[d]].by = d /\ output[File[d]].version >= saved[d]
                         /\ /\ OnlyDebugger(d) /\ WantsPdb(d)
                            /\ pc'[d] \in PdbRemoved /\ pdb'[File[d]] # NoFile
                            => pdb'[File[d]].by = d
                         /\ OnlyDebugger(d) /\ WantsPdb(d) /\ pc'[d] \in PdbSeen =>
                               pdb'[File[d]] # NoFile
      BY <2>1, <2>2 DEF OwnArtifacts
    <3>1. File[d] \in Files
      BY StepNames
    <3>2. CASE d = c
      BY <2>3, <2>5, <2>7, <3>1, <3>2 DEF OwnArtifacts, PdbSeen
    <3>3. CASE d # c /\ File[d] = File[c]
      <4>1. ~OnlyDebugger(d)
        BY <1>a, <3>3 DEF OnlyDebugger
      <4>. QED
        BY <2>3, <3>1, <3>3, <4>1 DEF OwnArtifacts
    <3>4. CASE d # c /\ File[d] # File[c]
      BY <2>3, <2>5, <3>1, <3>4 DEF OwnArtifacts
    <3>. QED
      BY <3>2, <3>3, <3>4
  <2>14. StartsLate'
    BY <1>a, <2>1, <2>3 DEF StartsLate
  <2>15. NothingStaleStarts' /\ StartsOwnBuild'
    BY <2>1, <2>2, <2>6 DEF NothingStaleStarts, StartsOwnBuild
  <2>. QED
    BY <2>8, <2>9, <2>10, <2>11, <2>12, <2>13, <2>14, <2>15
<1>. QED
  BY <1>1, <1>2 DEF removePdb

\* hsc ends, with or without a new file at the paths of its command: whatever it
\* wrote nobody has removed before, and it is from the source as it is now.
LEMMA CompilerKeeps ==
    ASSUME CommandAssumption, CommandInv, NEW c \in Commands, At(c, "compiling"),
           NEW where \in {"check_output", "returned"},
           pc' = [pc EXCEPT ![c] = where], DOMAIN result' = Commands,
           UNCHANGED <<scenario, sources, saved, seen, started>>,
           NEW written \in Artifact, written.by = c, written.version = source[File[c]],
           output' = output \/ output' = [output EXCEPT ![File[c]] = written],
           \/ pdb' = pdb
           \/ WantsPdb(c) /\ pdb' = [pdb EXCEPT ![File[c]] = written]
    PROVE  CommandInv'
<1>. USE DEF CommandInv
<1>1. /\ UNCHANGED <<scenario, buffer, source, saved, seen, started>>
      /\ File' = File /\ Files' = Files
  BY ScenarioKept DEF sources
<1>2. \A d \in Commands : /\ WantsPdb(d)' <=> WantsPdb(d)
                          /\ OnlyDebugger(d)' <=> OnlyDebugger(d)
                          /\ Alone(d)' <=> Alone(d)
                          /\ Steps(d)' = Steps(d)
  BY <1>1, ScenarioKept
<1>3. /\ pc[c] = "compiling"
      /\ \A d \in Commands : pc'[d] = IF d = c THEN where ELSE pc[d]
  BY DEF Shape, At
<1>4. /\ where \in Steps(c) /\ where \in AllSteps
      /\ where \notin BeforeCompiled /\ where \notin PdbSeen
      /\ pc[c] \in BeforeCompiled /\ pc[c] \in OutputRemoved /\ pc[c] \in PdbRemoved
      /\ File[c] \in Files
  BY <1>3, StepNames DEF Steps, AllSteps, BeforeCompiled, OutputRemoved, PdbRemoved, PdbSeen
<1>5. \A f \in Files : /\ output'[f] = output[f] \/ (f = File[c] /\ output'[f] = written)
                       /\ \/ pdb'[f] = pdb[f]
                          \/ WantsPdb(c) /\ f = File[c] /\ pdb'[f] = written
  BY DEF TypeOK
<1>6. /\ written # NoFile
      /\ \A d \in Commands : written \notin seen[d].output /\ written \notin seen[d].pdb
  <2>1. NoFile.by = "nobody" /\ c # "nobody"
    BY StepNames DEF NoFile
  <2>2. \A d \in Commands : \A a \in seen[d].output \cup seen[d].pdb : a.by # c
    BY <1>4 DEF NothingFromTheFuture
  <2>. QED
    BY <2>1, <2>2
<1>7. Shape'
  BY <1>1, <1>4 DEF Shape
<1>8. TypeOK'
  <2>1. \A d \in Commands : pc'[d] \in Steps(d)'
    BY <1>2, <1>3, <1>4 DEF TypeOK
  <2>2. output' \in [Files -> Artifact \cup {NoFile}]
    <3>1. output \in [Files -> Artifact \cup {NoFile}]
      BY DEF TypeOK
    <3>. QED
      BY <1>4, <3>1
  <2>3. pdb' \in [Files -> Artifact \cup {NoFile}]
    <3>1. pdb \in [Files -> Artifact \cup {NoFile}]
      BY DEF TypeOK
    <3>. QED
      BY <1>4, <3>1
  <2>. QED
    BY <1>1, <2>1, <2>2, <2>3 DEF TypeOK
<1>9. NothingFromTheFuture'
  <2>. SUFFICES ASSUME NEW e \in Commands, pc'[e] \in BeforeCompiled
                PROVE  /\ \A f \in Files : output'[f].by # e /\ pdb'[f].by # e
                       /\ \A d \in Commands :
                             \A a \in seen[d].output \cup seen[d].pdb : a.by # e
    BY <1>1 DEF NothingFromTheFuture
  <2>1. e # c /\ pc[e] \in BeforeCompiled
    BY <1>3, <1>4
  <2>. QED
    BY <1>5, <2>1 DEF NothingFromTheFuture
<1>10. RemovedForGood'
  <2>. SUFFICES ASSUME NEW d \in Commands
                PROVE  /\ pc'[d] \in OutputRemoved /\ output'[File[d]] # NoFile =>
                             output'[File[d]] \notin seen[d].output
                       /\ WantsPdb(d) /\ pc'[d] \in PdbRemoved /\ pdb'[File[d]] # NoFile =>
                             pdb'[File[d]] \notin seen[d].pdb
    BY <1>1, <1>2 DEF RemovedForGood
  <2>1. File[d] \in Files
    BY StepNames
  <2>2. /\ pc'[d] \in OutputRemoved => pc[d] \in OutputRemoved
        /\ pc'[d] \in PdbRemoved => pc[d] \in PdbRemoved
    BY <1>3, <1>4
  <2>. QED
    BY <1>5, <1>6, <2>1, <2>2 DEF RemovedForGood
<1>11. SavedInOrder'
  BY <1>1 DEF SavedInOrder
<1>12. OwnArtifacts'
  <2>. SUFFICES ASSUME NEW d \in Commands
                PROVE  /\ Alone(d) /\ pc'[d] \in OutputRemoved /\ output'[File[d]] # NoFile =>
                             output'[File[d]].by = d /\ output'[File[d]].version >= saved[d]
                       /\ /\ OnlyDebugger(d) /\ WantsPdb(d)
                          /\ pc'[d] \in PdbRemoved /\ pdb'[File[d]] # NoFile
                          => pdb'[File[d]].by = d
                       /\ OnlyDebugger(d) /\ WantsPdb(d) /\ pc'[d] \in PdbSeen =>
                             pdb'[File[d]] # NoFile
    BY <1>1, <1>2 DEF OwnArtifacts
  <2>1. File[d] \in Files
    BY StepNames
  <2>2. /\ pc'[d] \in OutputRemoved => pc[d] \in OutputRemoved
        /\ pc'[d] \in PdbRemoved => pc[d] \in PdbRemoved
        /\ pc'[d] \in PdbSeen => pc[d] \in PdbSeen
    BY <1>3, <1>4
  <2>3. Alone(d) /\ File[d] = File[c] => d = c
    BY DEF Alone
  <2>4. OnlyDebugger(d) /\ WantsPdb(c) /\ File[d] = File[c] => d = c
    BY DEF OnlyDebugger, WantsPdb
  <2>5. written.version >= saved[c]
    <3>1. saved[c] \in Nat /\ source[File[c]] \in Nat /\ saved[c] <= source[File[c]]
      <4>1. saved[c] \in 0..MaxVersion /\ source[File[c]] \in 0..MaxVersion
        BY <1>4 DEF TypeOK
      <4>. QED
        BY <4>1 DEF SavedInOrder, CommandAssumption
    <3>. QED
      BY <3>1
  <2>6. /\ output'[File[d]] = output[File[d]] \/ (File[d] = File[c] /\ output'[File[d]] = written)
        /\ \/ pdb'[File[d]] = pdb[File[d]]
           \/ WantsPdb(c) /\ File[d] = File[c] /\ pdb'[File[d]] = written
    BY <1>5, <2>1
  <2>7. Alone(d) /\ pc'[d] \in OutputRemoved /\ output'[File[d]] # NoFile =>
            output'[File[d]].by = d /\ output'[File[d]].version >= saved[d]
    BY <2>2, <2>3, <2>5, <2>6 DEF OwnArtifacts
  <2>8. /\ OnlyDebugger(d) /\ WantsPdb(d) /\ pc'[d] \in PdbRemoved /\ pdb'[File[d]] # NoFile =>
               pdb'[File[d]].by = d
        /\ OnlyDebugger(d) /\ WantsPdb(d) /\ pc'[d] \in PdbSeen => pdb'[File[d]] # NoFile
    BY <1>6, <2>2, <2>4, <2>6 DEF OwnArtifacts
  <2>. QED
    BY <2>7, <2>8
<1>13. StartsLate'
  BY <1>1, <1>3 DEF StartsLate
<1>14. NothingStaleStarts' /\ StartsOwnBuild'
  BY <1>1, <1>2 DEF NothingStaleStarts, StartsOwnBuild
<1>. QED
  BY <1>7, <1>8, <1>9, <1>10, <1>11, <1>12, <1>13, <1>14

\* compilerSucceeds and compilerFails end hsc that way.
LEMMA CompilationKeeps ==
    ASSUME CommandAssumption, CommandInv, NEW c \in Commands,
           compilerSucceeds(c) \/ compilerFails(c)
    PROVE  CommandInv'
<1>1. /\ source[File[c]] \in 0..MaxVersion
      /\ \A runnable \in BOOLEAN :
            [by |-> c, version |-> source[File[c]], runnable |-> runnable] \in Artifact
  <2>1. source[File[c]] \in 0..MaxVersion
    BY StepNames DEF CommandInv, TypeOK
  <2>. QED
    BY <2>1 DEF Artifact
<1>2. DOMAIN result = Commands
  BY DEF CommandInv, Shape
<1>3. CASE compilerSucceeds(c)
  <2>1. /\ At(c, "compiling") /\ pc' = [pc EXCEPT ![c] = "check_output"] /\ result' = result
        /\ UNCHANGED <<scenario, sources, saved, seen, started>>
    BY <1>3 DEF compilerSucceeds, Goto
  <2>2. CASE UNCHANGED <<output, pdb>>
    <3>. DEFINE w == [by |-> c, version |-> source[File[c]], runnable |-> FALSE]
    <3>1. w \in Artifact /\ w.by = c /\ w.version = source[File[c]]
      BY <1>1
    <3>. HIDE DEF w
    <3>. QED
      BY <1>2, <2>1, <2>2, <3>1, CompilerKeeps
  <2>3. CASE ~UNCHANGED <<output, pdb>>
    <3>1. PICK runnable \in BOOLEAN :
             LET written == [by |-> c, version |-> source[File[c]], runnable |-> runnable] IN
             /\ output' = [output EXCEPT ![File[c]] = written]
             /\ pdb' = IF WantsPdb(c) THEN [pdb EXCEPT ![File[c]] = written] ELSE pdb
      BY <1>3, <2>3 DEF compilerSucceeds
    <3>. DEFINE w == [by |-> c, version |-> source[File[c]], runnable |-> runnable]
    <3>2. w \in Artifact /\ w.by = c /\ w.version = source[File[c]]
      BY <1>1
    <3>3. output' = [output EXCEPT ![File[c]] = w]
      BY <3>1
    <3>4. pdb' = pdb \/ (WantsPdb(c) /\ pdb' = [pdb EXCEPT ![File[c]] = w])
      BY <3>1 DEF WantsPdb
    <3>. HIDE DEF w
    <3>. QED
      BY <1>2, <2>1, <3>2, <3>3, <3>4, CompilerKeeps
  <2>. QED
    BY <2>2, <2>3
<1>4. CASE compilerFails(c)
  <2>. DEFINE w == [by |-> c, version |-> source[File[c]], runnable |-> FALSE]
  <2>1. w \in Artifact /\ w.by = c /\ w.version = source[File[c]]
    BY <1>1
  <2>2. output' = [output EXCEPT ![File[c]] = output[File[c]]]
        \/ output' = [output EXCEPT ![File[c]] = w]
    BY <1>4 DEF compilerFails
  <2>3. output' = output \/ output' = [output EXCEPT ![File[c]] = w]
    <3>1. [output EXCEPT ![File[c]] = output[File[c]]] = output
      BY DEF CommandInv, TypeOK
    <3>. QED
      BY <2>2, <3>1
  <2>4. /\ At(c, "compiling") /\ pc' = [pc EXCEPT ![c] = "returned"] /\ DOMAIN result' = Commands
        /\ UNCHANGED <<scenario, sources, saved, seen, started>> /\ pdb' = pdb
    BY <1>2, <1>4 DEF compilerFails, failed, Return
  <2>. HIDE DEF w
  <2>. QED
    BY <2>1, <2>3, <2>4, CompilerKeeps
<1>. QED
  BY <1>3, <1>4

\* A program or a debug session starts from what is at the path now: none of what
\* the command removed, and its own build if it is alone (runCurrentFile,
\* debugCurrentFile).
LEMMA StartKeeps ==
    ASSUME CommandAssumption, CommandInv, NEW c \in Commands,
           startProgram(c) \/ startDebugging(c)
    PROVE  CommandInv'
<1>. USE DEF CommandInv
<1>a. /\ pc[c] \in {"run_task", "start_debugging"} /\ pc[c] \in Steps(c)
      /\ File[c] \in Files /\ DOMAIN result = Commands
      /\ UNCHANGED <<sources, disk, saved, seen>>
  BY StepNames DEF startProgram, startDebugging, At, TypeOK
<1>1. CASE failed(c, "start-run") \/ failed(c, "start-debug")
  <2>1. CASE UNCHANGED started
    BY <1>a, <1>1, <2>1, FailureKeeps DEF failed
  <2>2. CASE ~UNCHANGED started
    <3>1. CASE startProgram(c)
      <4>1. Goto(c, "running")
        BY <2>2, <3>1 DEF startProgram
      <4>2. pc'[c] = "running" /\ pc'[c] = "returned"
        BY <1>1, <4>1 DEF Goto, failed, Return, Shape
      <4>. QED
        BY <4>2
    <3>2. CASE startDebugging(c)
      <4>1. Return(c, TRUE, "debug")
        BY <2>2, <3>2 DEF startDebugging
      <4>2. result'[c].ok = TRUE /\ result'[c].ok = FALSE
        BY <1>a, <1>1, <4>1 DEF failed, Return
      <4>. QED
        BY <4>2
    <3>. QED
      BY <3>1, <3>2
  <2>. QED
    BY <2>1, <2>2
<1>2. CASE /\ output[File[c]].runnable
           /\ started' = [started EXCEPT ![c] = output[File[c]]]
           /\ Goto(c, "running") \/ Return(c, TRUE, "debug")
  <2>1. /\ UNCHANGED <<scenario, buffer, source, output, pdb, saved, seen>>
        /\ File' = File /\ Files' = Files
    BY <1>a, ScenarioKept DEF sources, disk
  <2>2. \A d \in Commands : /\ WantsPdb(d)' <=> WantsPdb(d)
                            /\ OnlyDebugger(d)' <=> OnlyDebugger(d)
                            /\ Alone(d)' <=> Alone(d)
                            /\ Steps(d)' = Steps(d)
    BY <2>1, ScenarioKept
  <2>3. PICK where \in {"running", "returned"} :
            pc' = [pc EXCEPT ![c] = where] /\ (where = "running" => startProgram(c))
    <3>1. CASE startProgram(c)
      BY <1>2, <3>1 DEF Goto, Return
    <3>2. CASE startDebugging(c)
      <4>1. pc' = [pc EXCEPT ![c] = "returned"]
        BY <3>2 DEF startDebugging, failed, Return
      <4>. QED
        BY <4>1
    <3>. QED
      BY <3>1, <3>2
  <2>4. /\ \A d \in Commands : pc'[d] = IF d = c THEN where ELSE pc[d]
        /\ \A d \in Commands : started'[d] = IF d = c THEN output[File[c]] ELSE started[d]
        /\ DOMAIN result' = Commands
    BY <1>2, <1>a, <2>3 DEF Shape, TypeOK, Goto, Return
  <2>5. where \in Steps(c) /\ where \in AllSteps
    BY <1>a, <2>3 DEF Steps, AllSteps, startProgram, At
  <2>6. /\ output[File[c]] # NoFile /\ output[File[c]] \in Artifact \cup {NoFile}
        /\ pc[c] \in OutputRemoved
    BY <1>2, <1>a DEF NoFile, TypeOK, OutputRemoved, AllSteps
  <2>7. Shape'
    BY <2>1, <2>3, <2>4, <2>5 DEF Shape
  <2>8. TypeOK'
    <3>1. \A d \in Commands : pc'[d] \in Steps(d)'
      BY <2>2, <2>4, <2>5 DEF TypeOK
    <3>2. started' \in [Commands -> Artifact \cup {NoFile}]
      BY <1>2, <2>6 DEF TypeOK
    <3>. QED
      BY <2>1, <2>4, <3>1, <3>2 DEF TypeOK
  <2>9. where \notin BeforeCompiled /\ where \notin PdbSeen
        /\ (where \in OutputRemoved => pc[c] \in OutputRemoved)
        /\ (where \in PdbRemoved => pc[c] \in PdbRemoved)
    BY <1>a, <2>3 DEF BeforeCompiled, OutputRemoved, PdbRemoved, PdbSeen, AllSteps
  <2>10. NothingFromTheFuture'
    BY <2>1, <2>4, <2>9 DEF NothingFromTheFuture
  <2>11. RemovedForGood'
    BY <2>1, <2>2, <2>4, <2>9 DEF RemovedForGood
  <2>12. SavedInOrder'
    BY <2>1 DEF SavedInOrder
  <2>13. OwnArtifacts'
    BY <2>1, <2>2, <2>4, <2>9 DEF OwnArtifacts
  <2>14. StartsLate'
    BY <2>3, <2>4 DEF StartsLate
  <2>15. NothingStaleStarts'
    BY <2>1, <2>4, <2>6 DEF NothingStaleStarts, RemovedForGood
  <2>16. StartsOwnBuild'
    BY <2>1, <2>2, <2>4, <2>6 DEF StartsOwnBuild, OwnArtifacts
  <2>. QED
    BY <2>7, <2>8, <2>10, <2>11, <2>12, <2>13, <2>14, <2>15, <2>16
<1>. QED
  BY <1>1, <1>2 DEF startProgram, startDebugging

-----------------------------------------------------------------------------

\* Every turn of every command, and every edit, keeps the invariant.
LEMMA CommandInvStep == CommandAssumption /\ CommandInv /\ [Next]_vars => CommandInv'
<1>. SUFFICES ASSUME CommandAssumption, CommandInv, [Next]_vars PROVE CommandInv'
  OBVIOUS
<1>1. CASE UNCHANGED vars
  <2>1. /\ UNCHANGED <<scenario, pc, result, buffer, source, output, pdb, saved, seen, started>>
        /\ File' = File /\ Files' = Files
    BY <1>1, ScenarioKept DEF vars
  <2>2. \A d \in Commands : /\ WantsPdb(d)' <=> WantsPdb(d)
                            /\ OnlyDebugger(d)' <=> OnlyDebugger(d)
                            /\ Alone(d)' <=> Alone(d)
                            /\ Steps(d)' = Steps(d)
    BY <2>1, ScenarioKept
  <2>3. Shape' /\ TypeOK' /\ SavedInOrder'
    BY <2>1, <2>2 DEF CommandInv, Shape, TypeOK, SavedInOrder
  <2>4. NothingFromTheFuture' /\ RemovedForGood' /\ OwnArtifacts'
    BY <2>1, <2>2 DEF CommandInv, NothingFromTheFuture, RemovedForGood, OwnArtifacts
  <2>5. StartsLate' /\ NothingStaleStarts' /\ StartsOwnBuild'
    BY <2>1, <2>2 DEF CommandInv, StartsLate, NothingStaleStarts, StartsOwnBuild
  <2>. QED
    BY <2>3, <2>4, <2>5 DEF CommandInv
<1>2. ASSUME NEW c \in Commands, Build(c) PROVE CommandInv'
  BY <1>2, SaveKeeps, RemoveOutputKeeps, RemovePdbKeeps, CompilationKeeps, WaitsKeep DEF Build
<1>3. ASSUME NEW c \in Commands, RunOrDebug(c) PROVE CommandInv'
  BY <1>3, StartKeeps, WaitsKeep DEF RunOrDebug
<1>4. ASSUME NEW f \in Files, Edit(f) \/ Save(f) PROVE CommandInv'
  BY <1>4, UserKeeps
<1>5. CASE Idle
  BY <1>1, <1>5 DEF Idle
<1>. QED
  BY <1>1, <1>2, <1>3, <1>4, <1>5 DEF Next

\* A debug session on Windows that is about to start has a PDB that it did not
\* find there, or none; the only debug command of a file has its own.
LEMMA PdbIsNew ==
    ASSUME CommandInv, NEW c \in Commands, At(c, "start_debugging"), WantsPdb(c)
    PROVE  /\ pdb[File[c]] # NoFile => pdb[File[c]] \notin seen[c].pdb
           /\ OnlyDebugger(c) => pdb[File[c]].by = c
<1>1. pc[c] \in PdbRemoved /\ pc[c] \in PdbSeen
  BY DEF At, PdbRemoved, OutputRemoved, PdbSeen, AllSteps
<1>. QED
  BY <1>1 DEF CommandInv, RemovedForGood, OwnArtifacts

\* The inductive invariant of the commands: what they removed, what they may find
\* at their paths, and in which order sources and files get newer.
THEOREM CommandInvariance == ASSUME CommandAssumption PROVE Spec => []CommandInv
<1>1. Init => CommandInv
  BY CommandInvInit
<1>2. CommandInv /\ [Next]_vars => CommandInv'
  BY CommandInvStep
<1>. QED
  BY <1>1, <1>2, PTL DEF Spec

\* However many commands work on one path, no command starts a program that was
\* there before it removed its output.
THEOREM NothingStale == ASSUME CommandAssumption PROVE Spec => []NothingStaleStarts
<1>1. CommandInv => NothingStaleStarts
  BY DEF CommandInv
<1>. QED
  BY <1>1, CommandInvariance, PTL

\* A command that is alone on its file starts its own build, from a source no
\* older than the one it saved, whatever the user edits meanwhile.
THEOREM OwnBuild == ASSUME CommandAssumption PROVE Spec => []StartsOwnBuild
<1>1. CommandInv => StartsOwnBuild
  BY DEF CommandInv
<1>. QED
  BY <1>1, CommandInvariance, PTL

\* No debug session starts with symbols that its command meant to remove; the
\* only debug command of a file starts with its own.
THEOREM SymbolsAreNew == ASSUME CommandAssumption PROVE Spec => NoStalePdb
<1>1. CommandInv /\ [Next]_vars =>
         [\A c \in Commands : /\ At(c, "start_debugging") /\ result'[c].ok
                              /\ WantsPdb(c)
                              => /\ pdb[File[c]] # NoFile => pdb[File[c]] \notin seen[c].pdb
                                 /\ OnlyDebugger(c) => pdb[File[c]].by = c]_vars
  BY PdbIsNew
<1>. QED
  BY <1>1, CommandInvariance, PTL DEF Spec, NoStalePdb

=============================================================================
