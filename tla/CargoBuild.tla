----------------------------- MODULE CargoBuild -----------------------------
(***************************************************************************)
(* buildCargoStaticLibrary (Cargo.cpp): cargo is started twice, each time  *)
(* with its output in a file of a temporary directory; runProcess          *)
(* (Process.cpp) forks, the child redirects and executes, the parent waits. *)
(* The build's messages are then read for the one static library and for   *)
(* what must be linked with it.                                            *)
(*                                                                         *)
(* A message of cargo is abstracted to the name of what parseCargoOutput   *)
(* does with it, see Messages.                                             *)
(***************************************************************************)
EXTENDS Integers, Sequences, SequencesExt, FiniteSets

CONSTANTS
    Outputs,        \* the sequences of messages a build of cargo may print
    Projects        \* the projects: manifest, workspace, package option

Messages ==
    {"text",            \* not JSON
     "diagnostic",      \* a compiler message
     "rlib",            \* an artifact without a staticlib target
     "archive1", "archive2", "nofile",    \* a staticlib, with its file name
     "script",          \* a build script with a library and a directory
     "badscript"}       \* one with a requirement hsc cannot pass on

CargoAssumption ==
    /\ \A o \in Outputs : o \in Seq(Messages)
    /\ \A p \in Projects : DOMAIN p = {"tool", "manifest", "virtual", "package"}

None == "none"
Tasks == {"metadata", "build"}

\* Where buildCargoStaticLibrary is while it forks, waits for and checks a task.
Forking == [metadata |-> "fork_metadata", build |-> "fork_build"]
Waiting == [metadata |-> "wait_metadata", build |-> "wait_build"]
Checking == [metadata |-> "check_metadata", build |-> "check_build"]

VARIABLES
    project,    \* what hsc was asked to build
    phase,      \* where buildCargoStaticLibrary is
    temp,       \* the temporary directory: "none", "there" or "removed"
    child,      \* the child process: its task, its state and how it ended
    file,       \* the output file of each task: None or the messages in it
    waited,     \* what runProcess returned
    forwarded,  \* the messages forwarded to standard error
    next,       \* the next message parseCargoOutput reads
    archive,    \* the archive found so far
    linked,     \* the number of requirements passed on
    result      \* None, "error", or the archive

vars == <<project, phase, temp, child, file, waited, forwarded, next, archive, linked, result>>

NoChild == [task |-> None, state |-> "none", code |-> 0]
NoWait == [launched |-> FALSE, code |-> -1]

Init ==
    /\ project \in Projects
    /\ phase = "begin" /\ temp = "none" /\ child = NoChild
    /\ file = [t \in Tasks |-> <<>>]
    /\ waited = NoWait /\ forwarded = <<>>
    /\ next = 1 /\ archive = None /\ linked = 0 /\ result = None

reading == <<forwarded, next, archive, linked>>

\* Every return destroys the TemporaryDirectory.
Return(value) ==
    /\ phase' = "returned" /\ result' = value
    /\ temp' = IF temp = "there" THEN "removed" ELSE temp

Continue(p) == phase' = p /\ UNCHANGED <<result, temp>>

-----------------------------------------------------------------------------

\* resolveCargo, the manifest and the temporary directory.
Begin ==
    /\ phase = "begin"
    /\ \/ (~project.tool \/ ~project.manifest) /\ Return("error")
       \/ /\ project.tool /\ project.manifest
          /\ \/ Return("error")
             \/ phase' = "fork_metadata" /\ temp' = "there" /\ UNCHANGED result
    /\ UNCHANGED <<project, child, file, waited, reading>>

\* runProcess: fork.
Fork(task) ==
    /\ phase = Forking[task]
    /\ \/ /\ child' = [task |-> task, state |-> "forked", code |-> 0]
          /\ Continue(Waiting[task]) /\ UNCHANGED waited
       \/ waited' = NoWait /\ Continue(Checking[task]) /\ UNCHANGED child
    /\ UNCHANGED <<project, file, reading>>

Exits(code) == child' = [task |-> child.task, state |-> "ended", code |-> code]

\* The child redirects its output to the files of the task, then executes.
Redirect ==
    /\ child.state = "forked"
    /\ \/ child' = [child EXCEPT !.state = "redirected"]
       \/ Exits(126)
    /\ UNCHANGED <<project, phase, temp, file, waited, reading, result>>

Execute ==
    /\ child.state = "redirected"
    /\ \/ child' = [child EXCEPT !.state = "running"]
       \/ \E code \in {126, 127} : Exits(code)
    /\ UNCHANGED <<project, phase, temp, file, waited, reading, result>>

\* External: cargo prints its messages and ends, or is killed between two.
RunCargo ==
    LET printed == file[child.task] IN
    /\ child.state = "running"
    /\ \/ \E o \in IF child.task = "build" THEN Outputs ELSE {<<"metadata">>} :
            /\ IsPrefix(printed, o)
            /\ \/ printed # o /\ file' = [file EXCEPT ![child.task] = SubSeq(o, 1, Len(@) + 1)]
                    /\ UNCHANGED child
               \/ printed = o /\ (\E code \in {0, 101} : Exits(code)) /\ UNCHANGED file
       \/ Exits(128 + 9) /\ UNCHANGED file
    /\ UNCHANGED <<project, phase, temp, waited, reading, result>>

\* Mutant: an interrupted waitpid ends the wait.
WaitPid_Interrupted(task) ==
    /\ phase = Waiting[task]
    /\ waited' = [launched |-> TRUE, code |-> child.code]
    /\ child' = IF child.state = "ended" THEN NoChild ELSE child
    /\ Continue(Checking[task])
    /\ UNCHANGED <<project, file, reading>>

\* Mutant: a child that a signal ended is waited for again.
WaitPid_ExitedOnly(task) ==
    /\ phase = Waiting[task]
    /\ child.state = "ended" /\ child.code < 128
    /\ child' = NoChild
    /\ waited' = [launched |-> TRUE, code |-> child.code]
    /\ Continue(Checking[task])
    /\ UNCHANGED <<project, file, reading>>

\* waitpid is repeated when a signal interrupts it; a child that was reaped
\* elsewhere makes it fail.
WaitPid(task) ==
    /\ phase = Waiting[task]
    /\ child.state = "ended"
    /\ child' = NoChild
    /\ waited' \in {[launched |-> TRUE, code |-> child.code], NoWait}
    /\ Continue(Checking[task])
    /\ UNCHANGED <<project, file, reading>>

\* Mutant: the exit code of cargo metadata is not tested.
validateCargoManifest_AnyCode ==
    /\ phase = "check_metadata"
    /\ IF waited.launched /\ (project.package \/ ~project.virtual)
       THEN Return("error") \/ Continue("fork_build")
       ELSE Return("error")
    /\ UNCHANGED <<project, child, file, waited, reading>>

\* Its output must be a JSON object that lists the manifest's own package,
\* unless --cargo-package names one.
validateCargoManifest ==
    /\ phase = "check_metadata"
    /\ \/ Return("error")
       \/ /\ waited.launched /\ waited.code = 0 /\ file["metadata"] # <<>>
          /\ project.package \/ ~project.virtual
          /\ Continue("fork_build")
    /\ UNCHANGED <<project, child, file, waited, reading>>

\* The messages are forwarded before the result of the process is looked at.
checkBuild ==
    LET rendered == SelectSeq(file["build"], LAMBDA m : m \in {"text", "diagnostic"}) IN
    /\ phase = "check_build"
    /\ \/ /\ forwarded' = rendered
          /\ IF waited = [launched |-> TRUE, code |-> 0] THEN Continue("parse") ELSE Return("error")
       \/ Return("error") /\ UNCHANGED forwarded      \* the file cannot be read
    /\ UNCHANGED <<project, child, file, waited, next, archive, linked>>

\* Mutant: the last archive wins.
parseArtifact_Last(m) ==
    IF m = "nofile" THEN Return("error") /\ UNCHANGED <<archive, next>>
    ELSE archive' = m /\ next' = next + 1 /\ Continue("parse")

parseArtifact(m) ==
    IF m = "nofile" \/ archive \notin {None, m} THEN Return("error") /\ UNCHANGED <<archive, next>>
    ELSE archive' = m /\ next' = next + 1 /\ Continue("parse")

\* appendNativeSearchPath and appendNativeLibrary for a build script.
parseScript(m) ==
    IF m = "badscript" THEN Return("error") /\ UNCHANGED <<linked, next>>
    ELSE linked' = linked + 2 /\ next' = next + 1 /\ Continue("parse")

\* parseCargoOutput: one message.
parseMessage ==
    LET m == file["build"][next] IN
    /\ phase = "parse" /\ next <= Len(file["build"])
    /\ \/ m \in {"archive1", "archive2", "nofile"} /\ parseArtifact(m) /\ UNCHANGED linked
       \/ m \in {"script", "badscript"} /\ parseScript(m) /\ UNCHANGED archive
       \/ /\ m \in {"text", "diagnostic", "rlib"}
          /\ next' = next + 1 /\ Continue("parse") /\ UNCHANGED <<archive, linked>>
    /\ UNCHANGED <<project, child, file, waited, forwarded>>

\* parseCargoOutput after the last message: the archive must be a file.
takeArchive ==
    /\ phase = "parse" /\ next > Len(file["build"])
    /\ Return("error") \/ (archive # None /\ Return(archive))
    /\ UNCHANGED <<project, child, file, waited, reading>>

Next ==
    \/ Begin
    \/ \E t \in Tasks : Fork(t) \/ WaitPid(t)
    \/ Redirect \/ Execute \/ RunCargo
    \/ validateCargoManifest \/ checkBuild \/ parseMessage \/ takeArchive

Spec == Init /\ [][Next]_vars

-----------------------------------------------------------------------------

\* Type invariant.  While hsc is between two tasks there is no child, and when
\* buildCargoStaticLibrary has returned nothing of it is left: no process, no
\* temporary directory.
TypeOK ==
    /\ child.state \in {"none", "forked", "redirected", "running", "ended"}
    /\ result \in {None, "error", "archive1", "archive2"}
    /\ child # NoChild => phase = Waiting[child.task]
    /\ phase = "returned" => child = NoChild /\ temp # "there"

Count(S) == Cardinality({i \in DOMAIN file["build"] : file["build"][i] \in S})

\* A library that is returned was built by a cargo that ended with code 0, is
\* the only static library of the whole output, and comes with every library
\* and directory its build scripts asked for.
LibraryIsTheBuilds ==
    (result \notin {None, "error"}) =>
        /\ waited = [launched |-> TRUE, code |-> 0]
        /\ file["build"] \in Outputs
        /\ {m \in ToSet(file["build"]) : m \in {"archive1", "archive2", "nofile"}} = {result}
        /\ linked = 2 * Count({"script"}) /\ Count({"badscript"}) = 0

\* A step that starts cargo build: it only runs after cargo metadata has ended well.
BuildsAfterMetadata ==
    (child.task # "build" /\ child'.task = "build") =>
        file["metadata"] # <<>> /\ waited = [launched |-> TRUE, code |-> 0]
=============================================================================
