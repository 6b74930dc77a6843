------------------------- MODULE FileHandlesProofs -------------------------
(***************************************************************************)
(* Proofs about the file-handle registry, for every set of streams, every  *)
(* capacity of the table and every nesting of formatted calls.  TypeOK and *)
(* HandlesAgree are inductive together: the table says of an address what  *)
(* the last checked operation on it did, and the flag of stderr says the   *)
(* same of one address.                                                    *)
(***************************************************************************)
EXTENDS FileHandles, TLAPS

\* The table is well formed: one entry for an address, and room for all.
TableOK ==
    /\ hs_files \in Seq(FileState)
    /\ \A i, j \in DOMAIN hs_files : hs_files[i].address = hs_files[j].address => i = j
    /\ hs_file_capacity \in Nat
    /\ Len(hs_files) <= hs_file_capacity

-----------------------------------------------------------------------------
(* The table.                                                              *)

\* Growth by doubling makes room for one more entry.
LEMMA GrowthMakesRoom ==
    ASSUME TableOK
    PROVE  NewCapacity \in Nat /\ Len(hs_files) + 1 <= NewCapacity
BY CapacityAssumption DEF TableOK, NewCapacity

\* hs_track_file keeps the table well formed, by reuse of an entry or by growth.
LEMMA TrackKeepsTable ==
    ASSUME TableOK, NEW f \in Streams, NEW closed \in BOOLEAN, hs_track_file(f, closed)
    PROVE  TableOK'
<1>. DEFINE e == [address |-> f, closed |-> closed]
<1>1. e \in FileState
  BY DEF FileState
<1>2. CASE Known(f)
  <2>1. hs_files' = [i \in DOMAIN hs_files |-> IF hs_files[i].address = f THEN e ELSE hs_files[i]]
        /\ hs_file_capacity' = hs_file_capacity
    BY <1>2 DEF hs_track_file
  <2>2. hs_files' \in Seq(FileState) /\ Len(hs_files') = Len(hs_files)
    BY <1>1, <2>1 DEF TableOK
  <2>3. DOMAIN hs_files' = DOMAIN hs_files
        /\ \A i \in DOMAIN hs_files : hs_files'[i].address = hs_files[i].address
    BY <2>1
  <2>. QED
    BY <2>1, <2>2, <2>3 DEF TableOK
<1>3. CASE ~Known(f)
  <2>1. hs_files' = Append(hs_files, e) /\ hs_file_capacity' = NewCapacity
    BY <1>3 DEF hs_track_file
  <2>2. hs_files' \in Seq(FileState) /\ Len(hs_files') = Len(hs_files) + 1
    BY <1>1, <2>1 DEF TableOK
  <2>3. \A i \in DOMAIN hs_files' : IF i \in DOMAIN hs_files THEN hs_files'[i] = hs_files[i]
                                    ELSE hs_files'[i] = e /\ i = Len(hs_files) + 1
    BY <2>1 DEF TableOK
  <2>4. \A i \in DOMAIN hs_files : hs_files[i].address # f
    BY <1>3 DEF Known
  <2>5. \A i, j \in DOMAIN hs_files' : hs_files'[i].address = hs_files'[j].address => i = j
    BY <2>3, <2>4 DEF TableOK
  <2>. QED
    BY <2>1, <2>2, <2>5, GrowthMakesRoom DEF TableOK
<1>. QED
  BY <1>2, <1>3

\* hs_track_file changes what the table says of f and of nothing else.
LEMMA TrackObserved ==
    ASSUME TableOK, NEW f \in Streams, NEW closed \in BOOLEAN, hs_track_file(f, closed)
    PROVE  /\ ObservedClosed(f)' <=> closed
           /\ \A g \in Streams : g # f => (ObservedClosed(g)' <=> ObservedClosed(g))
<1>. DEFINE e == [address |-> f, closed |-> closed]
<1>2. CASE Known(f)
  <2>1. DOMAIN hs_files' = DOMAIN hs_files
        /\ \A i \in DOMAIN hs_files : hs_files'[i] = IF hs_files[i].address = f THEN e ELSE hs_files[i]
    BY <1>2 DEF hs_track_file
  <2>2. \E i \in DOMAIN hs_files : hs_files[i].address = f
    BY <1>2 DEF Known
  <2>. QED
    BY <2>1, <2>2 DEF ObservedClosed
<1>3. CASE ~Known(f)
  <2>1. hs_files' = Append(hs_files, e)
    BY <1>3 DEF hs_track_file
  <2>2. \A i \in DOMAIN hs_files : hs_files[i].address # f
    BY <1>3 DEF Known
  <2>3. /\ DOMAIN hs_files' = DOMAIN hs_files \cup {Len(hs_files) + 1}
        /\ \A i \in DOMAIN hs_files : hs_files'[i] = hs_files[i]
        /\ hs_files'[Len(hs_files) + 1] = e
    BY <2>1 DEF TableOK
  <2>. QED
    BY <2>2, <2>3 DEF ObservedClosed
<1>. QED
  BY <1>2, <1>3

-----------------------------------------------------------------------------
(* Type correctness.                                                       *)

\* Every operation keeps the table well formed and every stream in one state.
LEMMA TypeStep == TypeOK /\ [Next]_vars => TypeOK'
<1>. SUFFICES ASSUME TypeOK, [Next]_vars PROVE TypeOK'
  OBVIOUS
<1>0. TableOK /\ stderr \in Streams /\ libc[stderr] \in StreamStates
  BY StreamAssumption DEF TypeOK, TableOK
<1>d. ASSUME NEW m \in Endings, Diagnose(m)
      PROVE  touched' \in StreamStates \cup {"none"} /\ status' \in Endings \cup {"running"}
  BY <1>0, <1>d DEF Diagnose
<1>1. ASSUME NEW f \in Streams, hs_fopen(f) PROVE TypeOK'
  <2>0. libc' \in [Streams -> StreamStates] /\ pending' = pending
    BY <1>1 DEF hs_fopen, TypeOK, StreamStates
  <2>1. CASE /\ hs_track_file(f, FALSE)
             /\ hs_stderr_closed' = (hs_stderr_closed /\ f # stderr)
             /\ touched' = "none"
             /\ UNCHANGED status
    <3>1. TableOK'
      BY <1>0, <2>1, TrackKeepsTable
    <3>. QED
      BY <2>0, <2>1, <3>1 DEF TypeOK, TableOK
  <2>2. CASE \E m \in {"file handle registry is full", "cannot grow file handle registry"} :
                TrackFails(f, m) /\ Diagnose(m) /\ UNCHANGED tableVars
    BY <2>0, <2>2, <1>d DEF tableVars, Endings, TypeOK
  <2>. QED
    BY <1>1, <2>1, <2>2 DEF hs_fopen
<1>2. ASSUME NEW f \in Handles, hs_fclose(f) PROVE TypeOK'
  <2>0. f \in Streams /\ pending' = pending
    BY <1>2 DEF hs_fclose, RequireAccepts, Handles
  <2>1. CASE /\ hs_track_file(f, TRUE)
             /\ hs_stderr_closed' = (hs_stderr_closed \/ f = stderr)
             /\ libc' = [libc EXCEPT ![f] = "closed"]
             /\ touched' = libc[f]
             /\ UNCHANGED status
    <3>1. TableOK'
      BY <1>0, <2>0, <2>1, TrackKeepsTable
    <3>2. libc' \in [Streams -> StreamStates]
      BY <2>1 DEF TypeOK, StreamStates
    <3>. QED
      BY <2>0, <2>1, <3>1, <3>2 DEF TypeOK, TableOK
  <2>2. CASE \E m \in {"file handle registry is full", "cannot grow file handle registry"} :
                /\ TrackFails(f, m) /\ Diagnose(m)
                /\ UNCHANGED <<hs_files, hs_file_capacity, hs_stderr_closed, libc>>
    BY <2>0, <2>2, <1>d DEF Endings, TypeOK
  <2>. QED
    BY <1>2, <2>1, <2>2 DEF hs_fclose
<1>3. ASSUME NEW f \in Handles, NEW transfers \in BOOLEAN, StreamOperation(f, transfers)
      PROVE  TypeOK'
  <2>1. f \in Streams
    BY <1>3 DEF StreamOperation, RequireAccepts, Handles
  <2>. QED
    BY <1>3, <2>1 DEF StreamOperation, TypeOK
<1>4. ASSUME NEW f, hs_require_file_fails(f) PROVE TypeOK'
  <2>1. PICK m \in Endings : Diagnose(m)
    BY <1>4 DEF hs_require_file_fails, Endings
  <2>. QED
    BY <1>4, <2>1, <1>d DEF hs_require_file_fails, TypeOK
<1>5. ASSUME NEW f \in Handles, BeginFormatted(f) PROVE TypeOK'
  <2>1. f \in Streams
    BY <1>5 DEF BeginFormatted, RequireAccepts, Handles
  <2>. QED
    BY <1>5, <2>1 DEF BeginFormatted, TypeOK
<1>6. ASSUME PerformFormatted PROVE TypeOK'
  <2>. DEFINE f == pending[Len(pending)]
  <2>1. f \in Streams /\ SubSeq(pending, 1, Len(pending) - 1) \in Seq(Streams)
    BY <1>6 DEF PerformFormatted, TypeOK
  <2>2. CASE hs_require_file_fails(f)
    BY <2>2, <1>4
  <2>3. CASE /\ touched' = libc[f]
             /\ pending' = SubSeq(pending, 1, Len(pending) - 1)
             /\ UNCHANGED <<hs_files, hs_file_capacity, hs_stderr_closed, libc, status>>
    <3>. HIDE DEF f
    <3>. QED
      BY <2>1, <2>3 DEF TypeOK
  <2>. QED
    BY <1>6, <2>2, <2>3 DEF PerformFormatted
<1>7. ASSUME NEW m \in {"panic", "invalid operand"}, Abort(m) PROVE TypeOK'
  BY <1>7, <1>d DEF Abort, Endings, TypeOK
<1>8. ASSUME NEW f \in Streams, NativeOpen(f) PROVE TypeOK'
  BY <1>8 DEF NativeOpen, TypeOK, StreamStates
<1>9. ASSUME UNCHANGED vars PROVE TypeOK'
  BY <1>9 DEF vars, TypeOK
<1>10. ASSUME NEW f \in Handles, InvalidHandle(f) PROVE TypeOK'
  BY <1>10, <1>4 DEF InvalidHandle
<1>11. ASSUME Exited PROVE TypeOK'
  BY <1>11, <1>9 DEF Exited
<1>. QED
  BY <1>1, <1>2, <1>3, <1>5, <1>6, <1>7, <1>8, <1>9, <1>10, <1>11 DEF Next

\* The table of handles stays a partial function of addresses that fits its
\* capacity, whatever is opened, closed and reopened (hs_track_file).
THEOREM TypeCorrect == Spec => []TypeOK
<1>1. ASSUME Init PROVE TypeOK
  <2>1. hs_files \in Seq(FileState) /\ Len(hs_files) = 0 /\ DOMAIN hs_files = {}
    BY <1>1 DEF Init
  <2>2. libc \in [Streams -> StreamStates] /\ pending \in Seq(Streams)
    BY <1>1 DEF Init, StreamStates
  <2>3. hs_file_capacity \in Nat /\ Len(hs_files) <= hs_file_capacity
    BY <1>1, <2>1 DEF Init
  <2>4. hs_stderr_closed \in BOOLEAN /\ touched \in StreamStates \cup {"none"}
        /\ status \in Endings \cup {"running"}
    BY <1>1 DEF Init
  <2>. QED
    BY <2>1, <2>2, <2>3, <2>4 DEF TypeOK
<1>. QED
  BY <1>1, TypeStep, PTL DEF Spec

-----------------------------------------------------------------------------
(* The registry and the streams.                                           *)

\* A diagnostic is printed on a stream that is not closed (hs_fail, hs_panic).
LEMMA DiagnosticReachesStderr ==
    ASSUME TypeOK, HandlesAgree, status = "running", NEW m, m # "running", Diagnose(m)
    PROVE  touched' # "closed" /\ status' # "running"
<1>1. stderr \in Streams
  BY StreamAssumption
<1>2. ~hs_stderr_closed => libc[stderr] # "closed"
  BY <1>1, StreamAssumption
     DEF HandlesAgree, StderrFlagMatchesTable, RegistryMatchesStreams, RequireAccepts
<1>. QED
  BY <1>2 DEF Diagnose

\* What hs_require_file accepts is not closed.
LEMMA AcceptedIsNotClosed ==
    ASSUME HandlesAgree, status = "running", NEW f \in Streams, RequireAccepts(f)
    PROVE  libc[f] # "closed"
BY DEF HandlesAgree, RegistryMatchesStreams

\* Once the program has stopped nothing is left to show but the last diagnostic.
LEMMA StoppedAgrees ==
    ASSUME touched' # "closed", status' # "running"
    PROVE  HandlesAgree'
BY DEF HandlesAgree, OnlyOpenStreamsTouched, RegistryMatchesStreams, StderrFlagMatchesTable

\* A step that leaves the table and the streams alone, and touches nothing closed.
LEMMA SameTableAgrees ==
    ASSUME HandlesAgree, touched' # "closed", status' = status,
           UNCHANGED <<hs_files, hs_stderr_closed, libc>>
    PROVE  HandlesAgree'
BY DEF HandlesAgree, OnlyOpenStreamsTouched, RegistryMatchesStreams, StderrFlagMatchesTable,
       RequireAccepts, ObservedClosed

\* Each operation keeps table, flag and streams in agreement: a close and a reopen
\* change the entry, the flag and the stream together.
LEMMA AgreeStep == TypeOK /\ HandlesAgree /\ [Next]_vars => HandlesAgree'
<1>. SUFFICES ASSUME TypeOK, HandlesAgree, [Next]_vars PROVE HandlesAgree'
  OBVIOUS
<1>0. TableOK /\ stderr \in Streams
  BY StreamAssumption DEF TypeOK, TableOK
<1>f. ASSUME NEW m \in Endings, status = "running", Diagnose(m) PROVE HandlesAgree'
  <2>1. m # "running"
    BY DEF Endings
  <2>. QED
    BY <1>f, <2>1, DiagnosticReachesStderr, StoppedAgrees
<1>1. ASSUME NEW f \in Streams, hs_fopen(f) PROVE HandlesAgree'
  <2>1. CASE /\ hs_track_file(f, FALSE)
             /\ hs_stderr_closed' = (hs_stderr_closed /\ f # stderr)
             /\ touched' = "none"
             /\ UNCHANGED status
    <3>1. /\ ~ObservedClosed(f)'
          /\ \A g \in Streams : g # f => (ObservedClosed(g)' <=> ObservedClosed(g))
      BY <1>0, <2>1, TrackObserved
    <3>2. /\ libc'[f] = "checked"
          /\ \A g \in Streams : g # f => libc'[g] = libc[g]
      BY <1>1 DEF hs_fopen, TypeOK
    <3>3. RegistryMatchesStreams'
      BY <1>1, <2>1, <3>1, <3>2, StreamAssumption
         DEF hs_fopen, HandlesAgree, RegistryMatchesStreams, RequireAccepts
    <3>4. StderrFlagMatchesTable'
      BY <1>0, <1>1, <2>1, <3>1 DEF hs_fopen, HandlesAgree, StderrFlagMatchesTable
    <3>. QED
      BY <2>1, <3>3, <3>4 DEF HandlesAgree, OnlyOpenStreamsTouched
  <2>2. CASE \E m \in {"file handle registry is full", "cannot grow file handle registry"} :
                TrackFails(f, m) /\ Diagnose(m) /\ UNCHANGED tableVars
    BY <1>1, <2>2, <1>f DEF Endings, hs_fopen
  <2>. QED
    BY <1>1, <2>1, <2>2 DEF hs_fopen
<1>2. ASSUME NEW f \in Handles, hs_fclose(f) PROVE HandlesAgree'
  <2>0. f \in Streams /\ status = "running" /\ RequireAccepts(f)
    BY <1>2 DEF hs_fclose, RequireAccepts, Handles
  <2>1. CASE /\ hs_track_file(f, TRUE)
             /\ hs_stderr_closed' = (hs_stderr_closed \/ f = stderr)
             /\ libc' = [libc EXCEPT ![f] = "closed"]
             /\ touched' = libc[f]
             /\ UNCHANGED status
    <3>1. /\ ObservedClosed(f)'
          /\ \A g \in Streams : g # f => (ObservedClosed(g)' <=> ObservedClosed(g))
      BY <1>0, <2>0, <2>1, TrackObserved
    <3>2. /\ libc'[f] = "closed"
          /\ \A g \in Streams : g # f => libc'[g] = libc[g]
      BY <2>0, <2>1 DEF TypeOK
    <3>3. RegistryMatchesStreams'
      BY <2>0, <2>1, <3>1, <3>2 DEF HandlesAgree, RegistryMatchesStreams, RequireAccepts
    <3>4. StderrFlagMatchesTable'
      BY <1>0, <2>0, <2>1, <3>1 DEF HandlesAgree, StderrFlagMatchesTable
    <3>. QED
      BY <2>0, <2>1, <3>3, <3>4, AcceptedIsNotClosed DEF HandlesAgree, OnlyOpenStreamsTouched
  <2>2. CASE \E m \in {"file handle registry is full", "cannot grow file handle registry"} :
                /\ TrackFails(f, m) /\ Diagnose(m)
                /\ UNCHANGED <<hs_files, hs_file_capacity, hs_stderr_closed, libc>>
    BY <2>0, <2>2, <1>f DEF Endings
  <2>. QED
    BY <1>2, <2>1, <2>2 DEF hs_fclose
<1>3. ASSUME NEW f \in Handles, NEW transfers \in BOOLEAN, StreamOperation(f, transfers)
      PROVE  HandlesAgree'
  <2>1. f \in Streams
    BY <1>3 DEF StreamOperation, RequireAccepts, Handles
  <2>2. touched' # "closed"
    BY <1>3, <2>1, AcceptedIsNotClosed DEF StreamOperation
  <2>. QED
    BY <1>3, <2>2, SameTableAgrees DEF StreamOperation
<1>4. ASSUME NEW f, status = "running", hs_require_file_fails(f) PROVE HandlesAgree'
  BY <1>4, <1>f DEF hs_require_file_fails, Endings
<1>5. ASSUME NEW f \in Handles, BeginFormatted(f) PROVE HandlesAgree'
  BY <1>5, SameTableAgrees DEF BeginFormatted
<1>6. ASSUME PerformFormatted PROVE HandlesAgree'
  <2>. DEFINE f == pending[Len(pending)]
  <2>1. f \in Streams /\ status = "running"
    BY <1>6 DEF PerformFormatted, TypeOK
  <2>2. CASE hs_require_file_fails(f)
    BY <2>1, <2>2, <1>4
  <2>3. CASE /\ RequireAccepts(f)
             /\ touched' = libc[f]
             /\ pending' = SubSeq(pending, 1, Len(pending) - 1)
             /\ UNCHANGED <<hs_files, hs_file_capacity, hs_stderr_closed, libc, status>>
    <3>. HIDE DEF f
    <3>. QED
      BY <2>1, <2>3, AcceptedIsNotClosed, SameTableAgrees
  <2>. QED
    BY <1>6, <2>2, <2>3 DEF PerformFormatted
<1>7. ASSUME NEW m \in {"panic", "invalid operand"}, Abort(m) PROVE HandlesAgree'
  BY <1>7, <1>f DEF Abort, Endings
<1>8. ASSUME NEW f \in Streams, NativeOpen(f) PROVE HandlesAgree'
  <2>1. \A g \in Streams : IF g = f THEN libc'[g] = "native" ELSE libc'[g] = libc[g]
    BY <1>8 DEF NativeOpen, TypeOK
  <2>2. \A g \in Streams : ObservedClosed(g)' <=> ObservedClosed(g)
    BY <1>8 DEF NativeOpen, ObservedClosed
  <2>. QED
    BY <1>0, <1>8, <2>1, <2>2 DEF NativeOpen, HandlesAgree, OnlyOpenStreamsTouched,
       RegistryMatchesStreams, StderrFlagMatchesTable, RequireAccepts
<1>9. ASSUME UNCHANGED vars PROVE HandlesAgree'
  BY <1>9, SameTableAgrees DEF vars, HandlesAgree, OnlyOpenStreamsTouched
<1>10. ASSUME NEW f \in Handles, InvalidHandle(f) PROVE HandlesAgree'
  BY <1>10, <1>4 DEF InvalidHandle
<1>11. ASSUME Exited PROVE HandlesAgree'
  BY <1>11, <1>9 DEF Exited
<1>. QED
  BY <1>1, <1>2, <1>3, <1>5, <1>6, <1>7, <1>8, <1>9, <1>10, <1>11 DEF Next

\* The registry and the C library agree about every stream: a closed stream is
\* rejected and never touched again, a stream of a checked fopen is accepted, and
\* no diagnostic goes to a closed stderr (hs_require_file, hs_fclose, hs_fail).
THEOREM HandlesStayInAgreement == Spec => []HandlesAgree
<1>1. Init => HandlesAgree
  BY StreamAssumption DEF Init, HandlesAgree, OnlyOpenStreamsTouched, RegistryMatchesStreams,
     StderrFlagMatchesTable, RequireAccepts, ObservedClosed
<1>. QED
  BY <1>1, AgreeStep, TypeCorrect, PTL DEF Spec

=============================================================================
