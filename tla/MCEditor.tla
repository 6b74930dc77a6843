------------------------------ MODULE MCEditor ------------------------------
(***************************************************************************)
(* The extension in one run: either two tasks at once (TaskRunner) or two  *)
(* commands at once (EditorCommands), whichever `part' says; the other     *)
(* stays in its initial state.  The scenarios of the commands are a run or *)
(* a debug command beside a debug command on one file on Windows, and a    *)
(* build and a debug command on different files elsewhere.                 *)
(***************************************************************************)
EXTENDS TaskRunner, TLC

CONSTANTS Parts, first, second, MaxVersion

VARIABLES part, scenario, pc, returned, buffer, source, output, pdb, saved, seen, started

Commands == {first, second}

Scenario(kinds, files, platform) ==
    [kind |-> (first :> kinds[1]) @@ (second :> kinds[2]),
     file |-> (first :> files[1]) @@ (second :> files[2]), platform |-> platform]

Shared(kind) == Scenario(<<kind, "debug">>, <<"a.hs", "a.hs">>, "win32")
Separate(platform) == Scenario(<<"build", "debug">>, <<"a.hs", "b.hs">>, platform)
Scenarios == {Shared("run"), Shared("debug"), Separate("linux"), Separate("freebsd")}

Editor == INSTANCE EditorCommandsProofs WITH result <- returned

ASSUME EditorAssumption == Parts \subseteq {"tasks", "commands"} /\ Editor!CommandAssumption

commandVars ==
    <<scenario, pc, returned, buffer, source, output, pdb, saved, seen, started>>
mcVars == <<part, vars, commandVars>>

EditorInit ==
    /\ part \in Parts
    /\ Init
    /\ Editor!Init
    /\ part = "tasks" => scenario = Shared("run") /\ \A f \in DOMAIN output : output[f] = Editor!NoFile

TaskStep == part = "tasks" /\ Next /\ UNCHANGED <<part, commandVars>>
CommandStep == part = "commands" /\ Editor!Next /\ UNCHANGED <<part, vars>>

EditorNext == TaskStep \/ CommandStep

EditorSpec == EditorInit /\ [][EditorNext]_mcVars /\ Fairness /\ Editor!Fairness

-----------------------------------------------------------------------------

\* Type invariant of tasks and commands: a timer runs only for a call that waits
\* (executeProcessTask), and only a debug command on Windows is ever at a PDB
\* step (buildCurrentFile).
EditorTypeOK == TypeOK /\ Editor!TypeOK

\* A command never starts what it did not see built: nothing that was at the
\* output path before the command removed it, even if another command works on
\* the same path; its own compiler's output, from a source at least as new as
\* the one it saved, where it is alone on its file; and on Windows no debug
\* session while the PDB is an old one, or, where it is the only debug command of
\* the file, not the command's own (workflows.js, debugWorkflow.js).
StartsWhatItBuilt ==
    [](Editor!NothingStaleStarts /\ Editor!StartsOwnBuild) /\ Editor!NoStalePdb

\* Nobody waits for ever: a call settles once VS Code has reported an end of its
\* execution (executeProcessTask), and a command past its validation returns or
\* waits for the compiler or the program, whatever fails (workflows.js).
AllReturn == EndedCallsSettle /\ Editor!CommandsReturn
=============================================================================
