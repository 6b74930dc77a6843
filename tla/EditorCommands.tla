--------------------------- MODULE EditorCommands ---------------------------
(***************************************************************************)
(* The commands Build, Run and Debug Current File of the VS Code extension *)
(* (workflows.js, debugWorkflow.js).  Every command is one asynchronous    *)
(* function; two commands interleave at each await, and nothing stops the  *)
(* user from starting a second command while the first one waits.  What    *)
(* they share is the file system: a source file has one output path and,   *)
(* on Windows, one PDB path.                                               *)
(*                                                                         *)
(* executeProcessTask appears by what it promises (module TaskRunner shows *)
(* how): it rejects, or tells that no process started, that it ended       *)
(* without an exit code, or its exit code.                                 *)
(***************************************************************************)
EXTENDS Naturals, Sequences

CONSTANTS
    Commands,      \* the commands the user gives, each once
    Scenarios,     \* [kind, file, platform]: of each command "build", "run" or
                   \* "debug" and the active source file; where the editor runs
    MaxVersion     \* bound on the edits of a source file

\* Commands are told from who else may have written a file.
CommandAssumption ==
    /\ Commands \cap {"earlier", "nobody"} = {}
    /\ \A s \in Scenarios : s.kind \in [Commands -> {"build", "run", "debug"}]
    /\ MaxVersion \in Nat

VARIABLES
    scenario,  \* what the user does and where, fixed at the start
    pc,        \* of a command: the await it is at
    result,    \* of a command: the stage it returned with, and whether ok
    buffer,    \* of a file: version in the editor
    source,    \* of a file: version saved on disk
    output,    \* of a file: what is at its output path
    pdb,       \* of a file: what is at its PDB path
    saved,     \* of a command: the version on disk when it was validated
    seen,      \* of a command: what it found at its output and PDB path and removed
    started    \* of a command: what its run or debug task executed

vars == <<scenario, pc, result, buffer, source, output, pdb, saved, seen, started>>
disk == <<output, pdb, scenario>>

Kind == scenario.kind
File == scenario.file
platform == scenario.platform
Files == {File[c] : c \in Commands}

sources == <<buffer, source>>

NoFile == [by |-> "nobody", version |-> 0, runnable |-> FALSE]
Artifact == [by : Commands \cup {"earlier"}, version : 0..MaxVersion, runnable : BOOLEAN]

Init ==
    /\ scenario \in Scenarios
    /\ pc = [c \in Commands |-> "idle"]
    /\ result = [c \in Commands |-> [ok |-> FALSE, stage |-> "none"]]
    /\ buffer = [f \in Files |-> 0]
    /\ source = [f \in Files |-> 0]
    /\ output \in [Files -> {NoFile, [by |-> "earlier", version |-> 0, runnable |-> TRUE]}]
    /\ pdb = output
    /\ saved = [c \in Commands |-> 0]
    /\ seen = [c \in Commands |-> [output |-> {}, pdb |-> {}]]
    /\ started = [c \in Commands |-> NoFile]

At(c, where) == pc[c] = where

Goto(c, where) ==
    /\ pc' = [pc EXCEPT ![c] = where]
    /\ UNCHANGED result

\* The function returns; `failed` shows the message.
Return(c, isOk, stage) ==
    /\ pc' = [pc EXCEPT ![c] = "returned"]
    /\ result' = [result EXCEPT ![c] = [ok |-> isOk, stage |-> stage]]

failed(c, stage) == Return(c, FALSE, stage)

\* Debug builds on Windows have a PDB.
WantsPdb(c) == Kind[c] = "debug" /\ platform = "win32"

-----------------------------------------------------------------------------
(* buildCurrentFile.                                                       *)

\* The checks of resolveActiveContext before the first await: an editor, a
\* saved document in HitSimple mode, a trusted workspace that contains it, a
\* file system path that ends in .hs; and those of createBuildPlan on the
\* settings.  Which of them fails is the user's situation.
ContextRejected(c) ==
    /\ At(c, "idle")
    /\ failed(c, "validation")
    /\ UNCHANGED <<sources, disk, saved, seen, started>>

\* Mutant: a dirty document is not saved.
resolveActiveContext_SkipsSave(c) ==
    /\ At(c, "idle")
    /\ saved' = [saved EXCEPT ![c] = buffer[File[c]]]
    /\ Goto(c, "locate")
    /\ UNCHANGED <<sources, disk, seen, started>>

\* A dirty document is saved first; the plan is made in the same turn.
resolveActiveContext(c) ==
    LET f == File[c] IN
    /\ At(c, "idle")
    /\ source' = [source EXCEPT ![f] = buffer[f]]
    /\ saved' = [saved EXCEPT ![c] = buffer[f]]
    /\ Goto(c, "locate")
    /\ UNCHANGED <<buffer, disk, seen, started>>

locateCompiler(c) ==
    /\ At(c, "locate")
    /\ Goto(c, "remove_output") \/ failed(c, "start-build")
    /\ UNCHANGED <<sources, disk, saved, seen, started>>

\* Mutant: the old output is not removed.
removeOutput_Keeps(c) ==
    LET f == File[c] IN
    /\ At(c, "remove_output")
    /\ seen' = [seen EXCEPT ![c].output = @ \cup {output[f]}]
    /\ Goto(c, IF WantsPdb(c) THEN "remove_pdb" ELSE "make_directory")
    /\ UNCHANGED <<sources, disk, saved, started>>

\* Mutant: every command on Windows removes a PDB.
removeOutput_AlwaysPdb(c) ==
    LET f == File[c] IN
    /\ At(c, "remove_output")
    /\ output' = [output EXCEPT ![f] = NoFile]
    /\ Goto(c, IF platform = "win32" THEN "remove_pdb" ELSE "make_directory")
    /\ UNCHANGED <<scenario, sources, pdb, saved, seen, started>>

removeOutput(c) ==
    LET f == File[c] IN
    /\ At(c, "remove_output")
    /\ \/ /\ output' = [output EXCEPT ![f] = NoFile]
          /\ seen' = [seen EXCEPT ![c].output = @ \cup {output[f]}]
          /\ Goto(c, IF WantsPdb(c) THEN "remove_pdb" ELSE "make_directory")
       \/ failed(c, "prepare-output") /\ UNCHANGED <<output, seen>>
    /\ UNCHANGED <<scenario, sources, pdb, saved, started>>

\* Mutant: the old PDB is not removed.
removePdb_Keeps(c) ==
    /\ At(c, "remove_pdb")
    /\ seen' = [seen EXCEPT ![c].pdb = @ \cup {pdb[File[c]]}]
    /\ Goto(c, "make_directory")
    /\ UNCHANGED <<sources, disk, saved, started>>

removePdb(c) ==
    LET f == File[c] IN
    /\ At(c, "remove_pdb")
    /\ \/ /\ pdb' = [pdb EXCEPT ![f] = NoFile]
          /\ seen' = [seen EXCEPT ![c].pdb = @ \cup {pdb[f]}]
          /\ Goto(c, "make_directory")
       \/ failed(c, "prepare-output") /\ UNCHANGED <<pdb, seen>>
    /\ UNCHANGED <<scenario, sources, output, saved, started>>

makeDirectory(c) ==
    /\ At(c, "make_directory")
    /\ Goto(c, "build_task") \/ failed(c, "prepare-output")
    /\ UNCHANGED <<sources, disk, saved, seen, started>>

\* The build task starts hsc, or does not.
startBuild(c) ==
    /\ At(c, "build_task")
    /\ Goto(c, "compiling") \/ failed(c, "start-build")
    /\ UNCHANGED <<sources, disk, saved, seen, started>>

\* External: hsc ends with exit code zero after writing its output from the
\* source as it is now, or writes nothing; the file may not be executable.
compilerSucceeds(c) ==
    LET f == File[c] IN
    /\ At(c, "compiling")
    /\ \/ \E runnable \in BOOLEAN :
             LET written == [by |-> c, version |-> source[f], runnable |-> runnable] IN
             /\ output' = [output EXCEPT ![f] = written]
             /\ pdb' = IF WantsPdb(c) THEN [pdb EXCEPT ![f] = written] ELSE pdb
       \/ UNCHANGED <<output, pdb>>
    /\ Goto(c, "check_output")
    /\ UNCHANGED <<scenario, sources, saved, seen, started>>

\* hsc is terminated, or ends with another exit code; a linker that fails may
\* leave something behind.
compilerFails(c) ==
    LET f == File[c] IN
    /\ At(c, "compiling")
    /\ \E left \in {output[f], [by |-> c, version |-> source[f], runnable |-> FALSE]} :
          output' = [output EXCEPT ![f] = left]
    /\ failed(c, "build-cancelled") \/ failed(c, "compile")
    /\ UNCHANGED <<scenario, sources, pdb, saved, seen, started>>

missing(c) == IF WantsPdb(c) THEN "missing-debug-symbols" ELSE "missing-output"

\* stat: a regular file is there.
checkOutput(c) ==
    /\ At(c, "check_output")
    /\ IF output[File[c]] = NoFile THEN failed(c, missing(c))
       ELSE Goto(c, IF platform # "win32" THEN "check_access"
                    ELSE IF WantsPdb(c) THEN "check_pdb" ELSE "built")
    /\ UNCHANGED <<sources, disk, saved, seen, started>>

\* access, not on Windows: it is still there and executable.
checkAccess(c) ==
    /\ At(c, "check_access")
    /\ IF output[File[c]].runnable THEN Goto(c, "built") ELSE failed(c, missing(c))
    /\ UNCHANGED <<sources, disk, saved, seen, started>>

\* Mutant: waits for a missing PDB.
checkPdb_Polls(c) ==
    /\ At(c, "check_pdb")
    /\ IF pdb[File[c]] # NoFile THEN Goto(c, "built") ELSE UNCHANGED <<pc, result>>
    /\ UNCHANGED <<sources, disk, saved, seen, started>>

checkPdb(c) ==
    /\ At(c, "check_pdb")
    /\ IF pdb[File[c]] # NoFile THEN Goto(c, "built") ELSE failed(c, missing(c))
    /\ UNCHANGED <<sources, disk, saved, seen, started>>

\* A build announces its output; the other commands go on.
buildReturns(c) ==
    /\ At(c, "built")
    /\ CASE Kind[c] = "build" -> Return(c, TRUE, "build")
         [] Kind[c] = "run" -> Goto(c, "run_task")
         [] Kind[c] = "debug" -> Goto(c, "debug_checks")
    /\ UNCHANGED <<sources, disk, saved, seen, started>>

-----------------------------------------------------------------------------
(* runCurrentFile and debugCurrentFile after the build.                    *)

\* External: the run task executes what is at the path now.
startProgram(c) ==
    LET f == File[c] IN
    /\ At(c, "run_task")
    /\ \/ /\ output[f].runnable
          /\ started' = [started EXCEPT ![c] = output[f]]
          /\ Goto(c, "running")
       \/ failed(c, "start-run") /\ UNCHANGED started
    /\ UNCHANGED <<sources, disk, saved, seen>>

programEnds(c) ==
    /\ At(c, "running")
    /\ Return(c, FALSE, "run-cancelled") \/ Return(c, FALSE, "run") \/ Return(c, TRUE, "run")
    /\ UNCHANGED <<sources, disk, saved, seen, started>>

adapterType == IF platform \in {"linux", "darwin"} THEN "cppdbg"
               ELSE IF platform = "win32" THEN "cppvsdbg" ELSE "none"

\* Platform, installed debugger, arguments and, for cppdbg, the path of the
\* debugger are checked in this order; only looking for gdb or lldb awaits.
debugChecks(c) ==
    /\ At(c, "debug_checks")
    /\ IF adapterType = "none" THEN failed(c, "unsupported-platform")
       ELSE \/ failed(c, "debugger-check")
            \/ failed(c, "debug-validation")
            \/ Goto(c, IF adapterType = "cppdbg" THEN "locate_debugger" ELSE "start_debugging")
    /\ UNCHANGED <<sources, disk, saved, seen, started>>

locateDebugger(c) ==
    /\ At(c, "locate_debugger")
    /\ Goto(c, "start_debugging") \/ failed(c, "debugger-check")
    /\ UNCHANGED <<sources, disk, saved, seen, started>>

\* External: VS Code starts the session on the file at the path now.
startDebugging(c) ==
    LET f == File[c] IN
    /\ At(c, "start_debugging")
    /\ \/ /\ output[f].runnable
          /\ started' = [started EXCEPT ![c] = output[f]]
          /\ Return(c, TRUE, "debug")
       \/ failed(c, "start-debug") /\ UNCHANGED started
    /\ UNCHANGED <<sources, disk, saved, seen>>

-----------------------------------------------------------------------------
(* The user (external) edits, and saves without giving a command.          *)

Edit(f) ==
    /\ buffer[f] < MaxVersion
    /\ buffer' = [buffer EXCEPT ![f] = @ + 1]
    /\ UNCHANGED <<pc, result, source, disk, saved, seen, started>>

Save(f) ==
    /\ source[f] # buffer[f]
    /\ source' = [source EXCEPT ![f] = buffer[f]]
    /\ UNCHANGED <<pc, result, buffer, disk, saved, seen, started>>

Build(c) ==
    \/ ContextRejected(c) \/ resolveActiveContext(c) \/ locateCompiler(c)
    \/ removeOutput(c) \/ removePdb(c) \/ makeDirectory(c) \/ startBuild(c)
    \/ compilerSucceeds(c) \/ compilerFails(c)
    \/ checkOutput(c) \/ checkAccess(c) \/ checkPdb(c) \/ buildReturns(c)

RunOrDebug(c) ==
    startProgram(c) \/ programEnds(c) \/ debugChecks(c) \/ locateDebugger(c) \/ startDebugging(c)

Idle == (\A c \in Commands : At(c, "returned")) /\ UNCHANGED vars

Next ==
    \/ \E c \in Commands : Build(c) \/ RunOrDebug(c)
    \/ \E f \in Files : Edit(f) \/ Save(f)
    \/ Idle

\* Awaited file operations and promises settle; a compiler or a program may
\* run for ever.
Settles(c) ==
    \/ locateCompiler(c) \/ removeOutput(c) \/ removePdb(c) \/ makeDirectory(c)
    \/ startBuild(c) \/ checkOutput(c) \/ checkAccess(c) \/ checkPdb(c) \/ buildReturns(c)
    \/ startProgram(c) \/ debugChecks(c) \/ locateDebugger(c) \/ startDebugging(c)

Fairness == \A c \in Commands : WF_vars(Settles(c))

Spec == Init /\ [][Next]_vars /\ Fairness

-----------------------------------------------------------------------------
(* Properties.                                                             *)

Steps(c) ==
    {"idle", "locate", "remove_output", "make_directory", "build_task", "compiling",
     "check_output", "built", "returned"}
    \cup (IF platform # "win32" THEN {"check_access"} ELSE {})
    \cup (IF WantsPdb(c) THEN {"remove_pdb", "check_pdb"} ELSE {})
    \cup (IF Kind[c] = "run" THEN {"run_task", "running"} ELSE {})
    \cup (IF Kind[c] = "debug" THEN {"debug_checks", "locate_debugger", "start_debugging"}
         ELSE {})

\* Type invariant; only a debug command on Windows is ever at a PDB step, and no
\* command on Windows tests that its output is executable.
TypeOK ==
    /\ DOMAIN result = Commands
    /\ \A c \in Commands : pc[c] \in Steps(c)
    /\ buffer \in [Files -> 0..MaxVersion] /\ source \in [Files -> 0..MaxVersion]
    /\ output \in [Files -> Artifact \cup {NoFile}]
    /\ pdb \in [Files -> Artifact \cup {NoFile}]
    /\ saved \in [Commands -> 0..MaxVersion]
    /\ seen \in [Commands -> [output : SUBSET (Artifact \cup {NoFile}),
                           pdb : SUBSET (Artifact \cup {NoFile})]]
    /\ started \in [Commands -> Artifact \cup {NoFile}]

\* No command starts a program that was at the output path before the command
\* removed it, even if other commands work on the same path: what it starts was
\* compiled after that (the rm of buildCurrentFile comes before its task).
NothingStaleStarts ==
    \A c \in Commands : started[c] # NoFile => started[c] \notin seen[c].output

\* Where no other debug command works on the file, only this one writes its PDB.
OnlyDebugger(c) ==
    \A d \in Commands \ {c} : Kind[d] = "debug" => File[d] # File[c]

\* A debug session on Windows starts only while the PDB, too, is newer than the
\* command's removal of the old one, or gone because another debug command has
\* removed it since; where this is the only debug command of the file it is
\* there and the command's own (the rm and the stat of pdbPath).
NoStalePdb ==
    [][\A c \in Commands : /\ At(c, "start_debugging") /\ result'[c].ok
                           /\ WantsPdb(c)
                           => /\ pdb[File[c]] # NoFile => pdb[File[c]] \notin seen[c].pdb
                              /\ OnlyDebugger(c) => pdb[File[c]].by = c]_vars

\* Where no other command works on the file, a command starts its own
\* compiler's output, from a source at least as new as the one it saved.
Alone(c) == \A d \in Commands \ {c} : File[d] # File[c]

StartsOwnBuild ==
    \A c \in Commands :
        Alone(c) /\ started[c] # NoFile =>
            started[c].by = c /\ started[c].version >= saved[c]

\* A command that is past its validation returns or waits for the compiler or
\* the program: no combination of failures leaves it hanging.
CommandsReturn ==
    \A c \in Commands :
        ~At(c, "idle") ~> (At(c, "returned") \/ At(c, "compiling") \/ At(c, "running"))
=============================================================================
