---------------------------- MODULE FileHandles ----------------------------
(***************************************************************************)
(* The checked-mode file-handle registry of runtime/hitsimple_runtime.c:   *)
(* a growing table that remembers, for every FILE address it has seen,     *)
(* whether a checked fclose has consumed it.  Streams are identified by    *)
(* their address; the C library may give the address of a closed stream to *)
(* the next stream it opens.  A formatted call validates its handle before *)
(* its arguments are evaluated and again when the runtime performs it, and *)
(* the arguments may call any other operation in between.                  *)
(***************************************************************************)
EXTENDS Naturals, Sequences

CONSTANTS
    Streams,          \* FILE addresses
    stderr,           \* the diagnostic stream, one of them
    Std,              \* the streams the C library opens at startup
    NULL,             \* the null handle
    InitialCapacity,  \* entries of the first table (16)
    CapacityMax,      \* the largest table SIZE_MAX allows
    MaxNesting        \* bound on formatted calls nested in their arguments

ASSUME StreamAssumption ==
    /\ stderr \in Std
    /\ Std \subseteq Streams
    /\ NULL \notin Streams

ASSUME CapacityAssumption ==
    /\ InitialCapacity \in Nat \ {0}
    /\ CapacityMax \in Nat
    /\ MaxNesting \in Nat

VARIABLES
    hs_files,          \* the table: a sequence of [address, closed]
    hs_file_capacity,
    hs_stderr_closed,
    libc,              \* what a stream really is: "unused", "native", "checked" or "closed"
    pending,           \* handles of the formatted calls whose arguments are being evaluated
    touched,           \* what the stream was that the last step passed to the C library,
                       \* or "none"
    status             \* "running", or how the process ended

vars == <<hs_files, hs_file_capacity, hs_stderr_closed, libc, pending, touched, status>>
tableVars == <<hs_files, hs_file_capacity, hs_stderr_closed>>

StreamStates == {"unused", "native", "checked", "closed"}

Endings ==
    {"invalid file handle", "closed file handle", "file handle registry is full",
     "cannot grow file handle registry", "panic", "invalid operand"}

FileState == [address : Streams, closed : BOOLEAN]

Open == {f \in Streams : libc[f] \in {"native", "checked"}}

\* Addresses for which the program may hold a handle.
Handles == {f \in Streams : libc[f] # "unused"} \cup {NULL}

Init ==
    /\ hs_files = << >>
    /\ hs_file_capacity = 0
    /\ hs_stderr_closed = FALSE
    /\ libc = [f \in Streams |-> IF f \in Std THEN "native" ELSE "unused"]
    /\ pending = << >>
    /\ touched = "none"
    /\ status = "running"

-----------------------------------------------------------------------------

Known(f) == \E i \in DOMAIN hs_files : hs_files[i].address = f

ObservedClosed(f) == \E i \in DOMAIN hs_files : hs_files[i].address = f /\ hs_files[i].closed

\* hs_fail and hs_panic print their diagnostic unless stderr is observed closed.
Diagnose(message) ==
    /\ status' = message
    /\ touched' = IF hs_stderr_closed THEN "none" ELSE libc[stderr]

NewCapacity ==
    IF Len(hs_files) < hs_file_capacity THEN hs_file_capacity
    ELSE IF hs_file_capacity = 0 THEN InitialCapacity ELSE hs_file_capacity * 2

\* Mutant: every fopen and fclose adds an entry.
hs_track_file_Appends(f, closed) ==
    /\ NewCapacity <= CapacityMax
    /\ hs_files' = Append(hs_files, [address |-> f, closed |-> closed])
    /\ hs_file_capacity' = NewCapacity

\* hs_track_file followed by the assignment of its `closed` field.  The table
\* is full, or cannot be grown, only when f has no entry yet.
hs_track_file(f, closed) ==
    IF Known(f)
      THEN /\ hs_files' = [i \in DOMAIN hs_files |->
                 IF hs_files[i].address = f THEN [address |-> f, closed |-> closed]
                                            ELSE hs_files[i]]
           /\ UNCHANGED hs_file_capacity
      ELSE /\ NewCapacity <= CapacityMax
           /\ hs_files' = Append(hs_files, [address |-> f, closed |-> closed])
           /\ hs_file_capacity' = NewCapacity

\* The table needs to grow and cannot: its size would overflow, or realloc fails.
TrackFails(f, message) ==
    /\ ~Known(f)
    /\ \/ NewCapacity > CapacityMax /\ message = "file handle registry is full"
       \/ /\ NewCapacity <= CapacityMax
          /\ NewCapacity # hs_file_capacity
          /\ message = "cannot grow file handle registry"

RequireAccepts(f) == f # NULL /\ ~ObservedClosed(f)

hs_require_file_fails(f) ==
    /\ ~RequireAccepts(f)
    /\ Diagnose(IF f = NULL THEN "invalid file handle" ELSE "closed file handle")
    /\ UNCHANGED <<hs_files, hs_file_capacity, hs_stderr_closed, libc, pending>>

-----------------------------------------------------------------------------

\* Mutant: a reused address keeps the state of the stream that was closed.
hs_fopen_KeepsClosed(f) ==
    /\ status = "running"
    /\ f \notin Open
    /\ libc' = [libc EXCEPT ![f] = "checked"]
    /\ hs_track_file(f, ObservedClosed(f))
    /\ hs_stderr_closed' = (hs_stderr_closed /\ f # stderr)
    /\ touched' = "none"
    /\ UNCHANGED <<pending, status>>

\* Mutant: reopening the diagnostic stream leaves it marked closed.
hs_fopen_StderrStaysClosed(f) ==
    /\ status = "running"
    /\ f \notin Open
    /\ libc' = [libc EXCEPT ![f] = "checked"]
    /\ hs_track_file(f, FALSE)
    /\ touched' = "none"
    /\ UNCHANGED <<hs_stderr_closed, pending, status>>

\* fopen returns any stream that is not open, or fails with a null handle.
hs_fopen(f) ==
    /\ status = "running"
    /\ f \notin Open
    /\ libc' = [libc EXCEPT ![f] = "checked"]
    /\ \/ /\ hs_track_file(f, FALSE)
          /\ hs_stderr_closed' = (hs_stderr_closed /\ f # stderr)
          /\ touched' = "none"
          /\ UNCHANGED status
       \/ \E message \in {"file handle registry is full", "cannot grow file handle registry"} :
             TrackFails(f, message) /\ Diagnose(message) /\ UNCHANGED tableVars
    /\ UNCHANGED pending

\* The handle is recorded as closed before the C library consumes it.
hs_fclose(f) ==
    /\ status = "running"
    /\ RequireAccepts(f)
    /\ \/ /\ hs_track_file(f, TRUE)
          /\ hs_stderr_closed' = (hs_stderr_closed \/ f = stderr)
          /\ libc' = [libc EXCEPT ![f] = "closed"]
          /\ touched' = libc[f]
          /\ UNCHANGED status
       \/ \E message \in {"file handle registry is full", "cannot grow file handle registry"} :
             /\ TrackFails(f, message)
             /\ Diagnose(message)
             /\ UNCHANGED <<hs_files, hs_file_capacity, hs_stderr_closed, libc>>
    /\ UNCHANGED pending

\* hs_get, hs_fget, hs_put, hs_fput, hs_fflush, hs_feof, hs_ferror, hs_fseek,
\* hs_ftell, hs_fread and hs_fwrite: validate, then operate on the stream.  A
\* transfer of no bytes validates the handle and stops there.
StreamOperation(f, transfers) ==
    /\ status = "running"
    /\ RequireAccepts(f)
    /\ touched' = IF transfers THEN libc[f] ELSE "none"
    /\ UNCHANGED <<hs_files, hs_file_capacity, hs_stderr_closed, libc, pending, status>>

InvalidHandle(f) == status = "running" /\ hs_require_file_fails(f)

\* Generated code calls hs_check_file_handle before it evaluates the arguments
\* of a formatted read or write.
BeginFormatted(f) ==
    /\ status = "running"
    /\ Len(pending) < MaxNesting
    /\ RequireAccepts(f)
    /\ pending' = Append(pending, f)
    /\ touched' = "none"
    /\ UNCHANGED <<hs_files, hs_file_capacity, hs_stderr_closed, libc, status>>

\* Mutant: the handle is not validated again after the arguments.
PerformFormatted_TrustsPrecheck ==
    /\ status = "running"
    /\ pending # << >>
    /\ touched' = libc[pending[Len(pending)]]
    /\ pending' = SubSeq(pending, 1, Len(pending) - 1)
    /\ UNCHANGED <<hs_files, hs_file_capacity, hs_stderr_closed, libc, status>>

\* hs_format_output and hs_scan_input, once the arguments are evaluated.
PerformFormatted ==
    /\ status = "running"
    /\ pending # << >>
    /\ LET f == pending[Len(pending)] IN
       \/ /\ RequireAccepts(f)
          /\ touched' = libc[f]
          /\ pending' = SubSeq(pending, 1, Len(pending) - 1)
          /\ UNCHANGED <<hs_files, hs_file_capacity, hs_stderr_closed, libc, status>>
       \/ hs_require_file_fails(f)

\* hs_panic, hs_assert, and every checked operation whose memory operands are
\* rejected once its handle was accepted.
Abort(message) ==
    /\ status = "running"
    /\ Diagnose(message)
    /\ UNCHANGED <<hs_files, hs_file_capacity, hs_stderr_closed, libc, pending>>

\* External: native code opens a stream the registry does not see.
NativeOpen(f) ==
    /\ status = "running"
    /\ f \notin Open
    /\ libc' = [libc EXCEPT ![f] = "native"]
    /\ touched' = "none"
    /\ UNCHANGED <<hs_files, hs_file_capacity, hs_stderr_closed, pending, status>>

Exited == status # "running" /\ UNCHANGED vars

Next ==
    \/ \E f \in Streams : hs_fopen(f)
    \/ \E f \in Handles : hs_fclose(f)
    \/ \E f \in Handles, transfers \in BOOLEAN : StreamOperation(f, transfers)
    \/ \E f \in Handles : InvalidHandle(f)
    \/ \E f \in Handles : BeginFormatted(f)
    \/ PerformFormatted
    \/ \E message \in {"panic", "invalid operand"} : Abort(message)
    \/ \E f \in Streams : NativeOpen(f)
    \/ Exited

Spec == Init /\ [][Next]_vars

-----------------------------------------------------------------------------
(* Properties.                                                             *)

\* Type invariant; the table holds at most one entry per address and never
\* more entries than its capacity.
TypeOK ==
    /\ hs_files \in Seq(FileState)
    /\ \A i, j \in DOMAIN hs_files : hs_files[i].address = hs_files[j].address => i = j
    /\ hs_file_capacity \in Nat
    /\ Len(hs_files) <= hs_file_capacity
    /\ hs_stderr_closed \in BOOLEAN
    /\ libc \in [Streams -> StreamStates]
    /\ pending \in Seq(Streams)
    /\ touched \in StreamStates \cup {"none"}
    /\ status \in Endings \cup {"running"}

\* A stream that a checked fclose has consumed never reaches the C library
\* again: not through a copy of its handle, not through a formatted call that
\* validated the handle before one of its arguments closed it, not through the
\* diagnostics of hs_fail and hs_panic.
OnlyOpenStreamsTouched == touched # "closed"

\* The registry accepts every stream opened by a checked fopen and rejects
\* every stream that is closed, through any number of close and reopen cycles,
\* growth of the table and address reuse.
RegistryMatchesStreams ==
    status = "running" =>
        \A f \in Streams : /\ libc[f] = "checked" => RequireAccepts(f)
                           /\ libc[f] = "closed" => ~RequireAccepts(f)

\* The flag that keeps diagnostics off a closed stderr and the table entry of
\* stderr say the same.
StderrFlagMatchesTable ==
    status = "running" => (hs_stderr_closed <=> ObservedClosed(stderr))

\* The table of file handles and the streams of the C library agree: what the
\* registry accepts is open, what is closed is not touched, and diagnostics go
\* to stderr only while it is open (hs_require_file, hs_fclose, hs_fail).
HandlesAgree == OnlyOpenStreamsTouched /\ RegistryMatchesStreams /\ StderrFlagMatchesTable
=============================================================================
