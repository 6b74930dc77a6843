---------------------------- MODULE EditorProofs ----------------------------
(***************************************************************************)
(* Proofs about the VS Code extension: first about executeProcessTask      *)
(* (TaskRunner), for any number of calls at once and every order of the    *)
(* events of their executions; then about the extension as a whole, with   *)
(* the results of EditorCommandsProofs for its commands.                   *)
(***************************************************************************)
EXTENDS MCEditor, TLAPS

\* A call that knows its execution and has no outcome has missed no process end.
NoEndMissed ==
    \A c \in Calls : phase[c] = "waiting" /\ outcome[c] = "none" => "process" \notin ended[c]

\* While the execution is unknown every end reported of it is in the buffer; what
\* is in a buffer has been reported.
BufferComplete ==
    \A c \in Calls :
        /\ phase[c] = "starting" => \A kind \in ended[c] : [kind |-> kind, execution |-> c] \in early[c]
        /\ \A e \in early[c] : e.kind \in ended[e.execution]

\* The timer runs because the own task has ended.
TimerHasReason == \A c \in Calls : taskEndTimer[c] => "task" \in ended[c]

\* Nothing is reported of an execution before it is launched, and nothing is
\* launched before the call subscribes.
SubscribedFirst ==
    \A c \in Calls : /\ phase[c] = "idle" => launched[c] = "no"
                     /\ launched[c] = "no" => ended[c] = {}

\* The inductive invariant: ResultIsOwn rests on the buffer and the timer, the
\* exit code on the buffer being complete.
IInv ==
    /\ TypeOK
    /\ SubscribedFirst
    /\ BufferComplete
    /\ TimerHasReason
    /\ NoEndMissed
    /\ ResultIsOwn

-----------------------------------------------------------------------------

\* Every handler keeps the calls' records in range, and arms a timer only for a
\* call that waits.
LEMMA TypeStep == TypeOK /\ [Next]_vars => TypeOK'
<1>. SUFFICES ASSUME TypeOK, [Next]_vars PROVE TypeOK'
  OBVIOUS
<1>1. ASSUME NEW c \in Calls, Start(c) PROVE TypeOK'
  BY <1>1 DEF Start, TypeOK
<1>2. ASSUME NEW c \in Calls, Resolve(c) PROVE TypeOK'
  BY <1>2 DEF Resolve, TypeOK
<1>3. ASSUME NEW c \in Calls, Reject(c) PROVE TypeOK'
  BY <1>3 DEF Reject, TypeOK
<1>4. ASSUME NEW c \in Calls, TimerExpires(c) PROVE TypeOK'
  BY <1>4 DEF TimerExpires, TypeOK
<1>5. ASSUME NEW c \in Calls, Settle(c) PROVE TypeOK'
  BY <1>5 DEF Settle, TypeOK
<1>6. ASSUME NEW c \in Calls, Launch(c) PROVE TypeOK'
  <2>1. launched' \in [Calls -> {"no", "process", "no process"}]
    BY <1>6 DEF Launch, TypeOK
  <2>. QED
    BY <1>6, <2>1 DEF Launch, TypeOK
<1>7. ASSUME NEW e \in Event, Report(e) PROVE TypeOK'
  <2>1. e.kind \in {"process", "task"} /\ e.execution \in Calls
    BY DEF Event
  <2>2. early' \in [Calls -> SUBSET Event]
    BY <1>7 DEF Report, Deliver, TypeOK
  <2>3. outcome' \in [Calls -> {"none", "process", "task"}]
    BY <1>7 DEF Report, Deliver, TypeOK
  <2>4. /\ taskEndTimer' \in [Calls -> BOOLEAN]
        /\ \A c \in Calls : taskEndTimer'[c] => phase[c] = "waiting"
    BY <1>7 DEF Report, Deliver, TypeOK, arms, handles
  <2>5. ended' \in [Calls -> SUBSET {"process", "task"}]
    BY <1>7, <2>1 DEF Report, TypeOK
  <2>. QED
    BY <1>7, <2>2, <2>3, <2>4, <2>5 DEF Report, Deliver, TypeOK
<1>8. ASSUME UNCHANGED vars PROVE TypeOK'
  BY <1>8 DEF vars, TypeOK
<1>9. ASSUME Idle PROVE TypeOK'
  BY <1>8, <1>9 DEF Idle
<1>. QED
  BY <1>1, <1>2, <1>3, <1>4, <1>5, <1>6, <1>7, <1>8, <1>9 DEF Next

\* The records of every call stay in range (executeProcessTask).
THEOREM TypeCorrect == Spec => []TypeOK
<1>1. Init => TypeOK
  BY DEF Init, TypeOK
<1>. QED
  BY <1>1, TypeStep, PTL DEF Spec

-----------------------------------------------------------------------------

\* An event is delivered to all calls; only the call of its execution acts on it.
LEMMA ReportStep ==
    ASSUME IInv, NEW e \in Event, Report(e)
    PROVE  SubscribedFirst' /\ BufferComplete' /\ TimerHasReason' /\ NoEndMissed' /\ ResultIsOwn'
<1>1. e.kind \in {"process", "task"} /\ e.execution \in Calls
      /\ e = [kind |-> e.kind, execution |-> e.execution]
  BY DEF Event
<1>2. \A c \in Calls : ended'[c] = IF c = e.execution THEN ended[c] \cup {e.kind} ELSE ended[c]
  BY <1>1 DEF Report, IInv, TypeOK
<1>3. UNCHANGED <<phase, launched>> /\ launched[e.execution] # "no"
  BY DEF Report, Deliver
<1>4. SubscribedFirst'
  BY <1>2, <1>3 DEF IInv, SubscribedFirst
<1>5. BufferComplete'
  <2>. SUFFICES ASSUME NEW c \in Calls
                PROVE  /\ phase'[c] = "starting" =>
                             \A kind \in ended'[c] : [kind |-> kind, execution |-> c] \in early'[c]
                       /\ \A x \in early'[c] : x.kind \in ended'[x.execution]
    BY DEF BufferComplete
  <2>1. early'[c] = IF phase[c] = "starting" THEN early[c] \cup {e} ELSE early[c]
    BY DEF Report, Deliver
  <2>2. early[c] \subseteq Event
    BY DEF IInv, TypeOK
  <2>3. ASSUME NEW x \in early'[c] PROVE x.kind \in ended'[x.execution]
    <3>1. x \in Event /\ x.execution \in Calls
      BY <2>1, <2>2 DEF Event
    <3>2. CASE x = e
      BY <1>1, <1>2, <3>2
    <3>3. CASE x \in early[c]
      BY <1>2, <3>1, <3>3 DEF IInv, BufferComplete
    <3>. QED
      BY <2>1, <3>2, <3>3
  <2>4. ASSUME phase'[c] = "starting", NEW kind \in ended'[c]
        PROVE  [kind |-> kind, execution |-> c] \in early'[c]
    BY <1>1, <1>2, <1>3, <2>1, <2>4 DEF IInv, BufferComplete
  <2>. QED
    BY <2>3, <2>4
<1>6. TimerHasReason'
  BY <1>2 DEF Report, Deliver, IInv, TypeOK, TimerHasReason, arms, handles
<1>7. \A c \in Calls : outcome'[c] = IF finishes(c, e) THEN "process" ELSE outcome[c]
  BY DEF Report, Deliver
<1>8. NoEndMissed'
  BY <1>1, <1>2, <1>3, <1>7 DEF IInv, NoEndMissed, finishes, handles
<1>9. ResultIsOwn'
  BY <1>1, <1>2, <1>7 DEF IInv, ResultIsOwn, finishes, handles
<1>. QED
  BY <1>4, <1>5, <1>6, <1>8, <1>9

\* A step without events: it may forget a timer, let one expire, or leave the
\* phases in their order.
LEMMA QuietStep ==
    ASSUME IInv, UNCHANGED <<early, ended>>,
           \A c \in Calls : /\ phase'[c] = "starting" => phase[c] = "starting" \/ ended[c] = {}
                            /\ phase'[c] = "waiting" => phase[c] = "waiting"
                            /\ phase'[c] = "idle" => launched'[c] = "no"
                            /\ launched'[c] = "no" => launched[c] = "no"
                            /\ taskEndTimer'[c] => taskEndTimer[c]
                            /\ outcome'[c] = outcome[c] \/ (taskEndTimer[c] /\ outcome'[c] = "task")
    PROVE  SubscribedFirst' /\ BufferComplete' /\ TimerHasReason' /\ NoEndMissed' /\ ResultIsOwn'
<1>1. SubscribedFirst'
  BY DEF IInv, SubscribedFirst
<1>2. BufferComplete'
  BY DEF IInv, BufferComplete
<1>3. TimerHasReason'
  BY DEF IInv, TimerHasReason
<1>4. NoEndMissed'
  BY DEF IInv, NoEndMissed
<1>5. ResultIsOwn'
  BY DEF IInv, TimerHasReason, ResultIsOwn
<1>. QED
  BY <1>1, <1>2, <1>3, <1>4, <1>5

\* Every handler keeps the inductive invariant.
LEMMA InvStep == IInv /\ [Next]_vars => IInv'
<1>. SUFFICES ASSUME IInv, [Next]_vars PROVE IInv'
  OBVIOUS
<1>0. TypeOK
  BY DEF IInv
<1>01. TypeOK'
  BY TypeStep DEF IInv
<1>02. /\ phase \in [Calls -> {"idle", "starting", "waiting", "settled"}]
       /\ launched \in [Calls -> {"no", "process", "no process"}]
       /\ outcome \in [Calls -> {"none", "process", "task"}]
       /\ DOMAIN taskEndTimer = Calls
  BY DEF IInv, TypeOK
<1>03. SubscribedFirst
  BY DEF IInv
<1>. DEFINE Rest == SubscribedFirst /\ BufferComplete /\ TimerHasReason /\ NoEndMissed /\ ResultIsOwn
<1>1. ASSUME NEW c \in Calls, Start(c) PROVE Rest'
  <2>1. UNCHANGED <<early, ended, outcome, taskEndTimer>>
    BY <1>1 DEF Start
  <2>2. \A d \in Calls : /\ phase'[d] = "starting" => phase[d] = "starting" \/ ended[d] = {}
                         /\ phase'[d] = "waiting" => phase[d] = "waiting"
                         /\ phase'[d] = "idle" => launched'[d] = "no"
                         /\ launched'[d] = "no" => launched[d] = "no"
    BY <1>02, <1>03, <1>1 DEF Start, SubscribedFirst
  <2>. QED
    BY <2>1, <2>2, QuietStep
<1>2. ASSUME NEW c \in Calls, Resolve(c) PROVE Rest'
  <2>. DEFINE has(kind) == [kind |-> kind, execution |-> c] \in early[c]
  <2>1. /\ has("process") <=> "process" \in ended[c]
        /\ has("task") <=> "task" \in ended[c]
    BY <1>2 DEF IInv, BufferComplete, Resolve
  <2>2. /\ \A d \in Calls : phase'[d] = IF d = c THEN "waiting" ELSE phase[d]
        /\ \A d \in Calls : outcome'[d] = IF d = c /\ has("process") THEN "process" ELSE outcome[d]
        /\ \A d \in Calls : taskEndTimer'[d] = IF d = c THEN has("task") /\ ~has("process")
                                                        ELSE taskEndTimer[d]
        /\ UNCHANGED <<early, result, ended, launched>>
    <3>1. /\ phase' = [phase EXCEPT ![c] = "waiting"]
          /\ outcome' = [outcome EXCEPT ![c] = IF has("process") THEN "process" ELSE outcome[c]]
          /\ taskEndTimer' = [taskEndTimer EXCEPT ![c] = has("task") /\ ~has("process")]
          /\ UNCHANGED <<early, result, ended, launched>>
      BY <1>2 DEF Resolve
    <3>. HIDE DEF has
    <3>2. \A d \in Calls : phase'[d] = IF d = c THEN "waiting" ELSE phase[d]
      BY <1>02, <3>1
    <3>3. \A d \in Calls : outcome'[d] = IF d = c /\ has("process") THEN "process" ELSE outcome[d]
      BY <1>02, <3>1
    <3>4. \A d \in Calls : taskEndTimer'[d] = IF d = c THEN has("task") /\ ~has("process")
                                                        ELSE taskEndTimer[d]
      BY <1>02, <3>1
    <3>. QED
      BY <3>1, <3>2, <3>3, <3>4
  <2>. HIDE DEF has
  <2>3. SubscribedFirst' /\ BufferComplete'
    BY <2>2 DEF IInv, SubscribedFirst, BufferComplete
  <2>4. TimerHasReason'
    BY <2>1, <2>2 DEF IInv, TimerHasReason
  <2>5. NoEndMissed'
    BY <2>1, <2>2 DEF IInv, NoEndMissed
  <2>6. ResultIsOwn'
    BY <2>1, <2>2 DEF IInv, ResultIsOwn
  <2>. QED
    BY <2>3, <2>4, <2>5, <2>6
<1>3. ASSUME NEW c \in Calls, Reject(c) PROVE Rest'
  <2>1. UNCHANGED <<early, ended, outcome, taskEndTimer>>
    BY <1>3 DEF Reject
  <2>2. \A d \in Calls : /\ phase'[d] = "starting" => phase[d] = "starting" \/ ended[d] = {}
                         /\ phase'[d] = "waiting" => phase[d] = "waiting"
                         /\ phase'[d] = "idle" => launched'[d] = "no"
                         /\ launched'[d] = "no" => launched[d] = "no"
    BY <1>02, <1>03, <1>3 DEF Reject, SubscribedFirst
  <2>. QED
    BY <2>1, <2>2, QuietStep
<1>4. ASSUME NEW c \in Calls, TimerExpires(c) PROVE Rest'
  <2>1. UNCHANGED <<early, ended, phase, launched>>
    BY <1>4 DEF TimerExpires
  <2>2. \A d \in Calls : taskEndTimer'[d] => taskEndTimer[d]
    BY <1>02, <1>4 DEF TimerExpires
  <2>3. \A d \in Calls : outcome'[d] = outcome[d] \/ (taskEndTimer[d] /\ outcome'[d] = "task")
    BY <1>02, <1>4 DEF TimerExpires
  <2>. QED
    BY <2>1, <2>2, <2>3, QuietStep DEF IInv, SubscribedFirst
<1>5. ASSUME NEW c \in Calls, Settle(c) PROVE Rest'
  <2>1. UNCHANGED <<early, ended, outcome, launched>>
    BY <1>5 DEF Settle
  <2>2. \A d \in Calls : taskEndTimer'[d] => taskEndTimer[d]
    BY <1>02, <1>5 DEF Settle
  <2>3. \A d \in Calls : phase'[d] = phase[d] \/ phase'[d] = "settled"
    BY <1>02, <1>5 DEF Settle
  <2>. QED
    BY <2>1, <2>2, <2>3, QuietStep DEF IInv, SubscribedFirst
<1>6. ASSUME NEW c \in Calls, Launch(c) PROVE Rest'
  <2>1. UNCHANGED <<early, ended, outcome, taskEndTimer>>
    BY <1>6 DEF Launch
  <2>2. \A d \in Calls : /\ phase'[d] = "starting" => phase[d] = "starting" \/ ended[d] = {}
                         /\ phase'[d] = "waiting" => phase[d] = "waiting"
                         /\ phase'[d] = "idle" => launched'[d] = "no"
                         /\ launched'[d] = "no" => launched[d] = "no"
    BY <1>02, <1>03, <1>6 DEF Launch, SubscribedFirst
  <2>. QED
    BY <2>1, <2>2, QuietStep
<1>7. ASSUME NEW e \in Event, Report(e) PROVE Rest'
  BY <1>7, ReportStep
<1>8. ASSUME UNCHANGED vars PROVE Rest'
  BY <1>8 DEF vars, IInv, SubscribedFirst, BufferComplete, TimerHasReason, NoEndMissed, ResultIsOwn
<1>9. ASSUME Idle PROVE Rest'
  BY <1>8, <1>9 DEF Idle
<1>10. Rest'
  BY <1>1, <1>2, <1>3, <1>4, <1>5, <1>6, <1>7, <1>8, <1>9 DEF Next
<1>. QED
  BY <1>01, <1>10 DEF IInv

\* Before the first task nothing has been reported (executeProcessTask).
LEMMA InvInit == Init => IInv
BY DEF Init, IInv, TypeOK, SubscribedFirst, BufferComplete, TimerHasReason, NoEndMissed, ResultIsOwn

\* The inductive invariant holds: in particular a call has buffered every end of
\* its execution that came before executeTask's promise (handleProcessEnd).
THEOREM Invariance == Spec => []IInv
BY InvInit, InvStep, PTL DEF Spec

\* A call reports only ends of its own execution that VS Code has reported,
\* whatever was broadcast to it before it knew its execution.
THEOREM ResultsAreOwn == Spec => []ResultIsOwn
<1>1. IInv => ResultIsOwn
  BY DEF IInv
<1>. QED
  BY <1>1, Invariance, PTL

\* The 50 ms timer never turns a reported exit code into "could not be started".
THEOREM ExitCodesKept == Spec => ExitCodeNotLost
<1>. DEFINE A == \A c \in Calls : outcome[c] = "none" /\ outcome'[c] = "task"
                                    => "process" \notin ended[c]
<1>1. IInv /\ [Next]_vars => [A]_vars
  <2>. SUFFICES ASSUME IInv, Next, NEW d \in Calls, outcome[d] = "none", outcome'[d] = "task"
                PROVE  "process" \notin ended[d]
    OBVIOUS
  <2>0. TypeOK
    BY DEF IInv
  <2>1. \E c \in Calls : TimerExpires(c)
    <3>1. ASSUME NEW c \in Calls, Start(c) \/ Resolve(c) \/ Reject(c) \/ Settle(c) \/ Launch(c)
          PROVE  FALSE
      BY <2>0, <3>1 DEF TypeOK, Start, Resolve, Reject, Settle, Launch
    <3>2. ASSUME NEW e \in Event, Report(e) PROVE FALSE
      BY <2>0, <3>2 DEF TypeOK, Report, Deliver
    <3>3. ASSUME Idle PROVE FALSE
      BY <3>3 DEF Idle, vars
    <3>. QED
      BY <3>1, <3>2, <3>3 DEF Next
  <2>2. PICK c \in Calls : TimerExpires(c)
    BY <2>1
  <2>3. c = d
    BY <2>0, <2>2 DEF TimerExpires, TypeOK
  <2>4. phase[d] = "waiting"
    BY <2>0, <2>2, <2>3 DEF TimerExpires, TypeOK
  <2>. QED
    BY <2>4 DEF IInv, NoEndMissed
<1>2. ExitCodeNotLost <=> [][A]_vars
  BY DEF ExitCodeNotLost
<1>. QED
  BY <1>1, <1>2, Invariance, PTL DEF Spec

-----------------------------------------------------------------------------
(* The extension: tasks or commands.                                       *)

\* Where the calls run, the commands stand still, and the other way round.
LEMMA PartsStep ==
    [EditorNext]_mcVars => [Next]_vars /\ [Editor!Next]_(Editor!vars)
BY DEF mcVars, EditorNext, TaskStep, CommandStep, commandVars, Editor!vars

\* The invariants of the two parts hold of the extension.
LEMMA ExtensionInvariance == EditorSpec => [](IInv /\ Editor!CommandInv)
<1>1. EditorInit => IInv
  BY InvInit DEF EditorInit
<1>2. EditorInit => Editor!CommandInv
  <2>1. Editor!Init => Editor!CommandInv
    BY EditorAssumption, Editor!CommandInvInit
  <2>. QED
    BY <2>1 DEF EditorInit
<1>3. IInv /\ [EditorNext]_mcVars => IInv'
  BY PartsStep, InvStep
<1>4. Editor!CommandInv /\ [EditorNext]_mcVars => Editor!CommandInv'
  BY PartsStep, EditorAssumption, Editor!CommandInvStep
<1>. QED
  BY <1>1, <1>2, <1>3, <1>4, PTL DEF EditorSpec

\* The records of every call and of every command stay in range: a timer runs only
\* for a call that waits, and only a debug command on Windows is at a PDB step.
THEOREM ExtensionTypeCorrect == EditorSpec => []EditorTypeOK
<1>1. IInv /\ Editor!CommandInv => EditorTypeOK
  BY DEF IInv, Editor!CommandInv, EditorTypeOK
<1>. QED
  BY <1>1, ExtensionInvariance, PTL

\* A command starts only what was built after it removed the old files, its own
\* build where it is alone on its file, and a debug session never with old
\* symbols (buildCurrentFile, runCurrentFile, debugCurrentFile).
THEOREM StartsWhatWasBuilt == EditorSpec => StartsWhatItBuilt
<1>1. Editor!CommandInv => Editor!NothingStaleStarts /\ Editor!StartsOwnBuild
  BY DEF Editor!CommandInv
<1>2. Editor!CommandInv /\ [EditorNext]_mcVars =>
         [\A c \in Commands :
             /\ Editor!At(c, "start_debugging") /\ returned'[c].ok
             /\ Editor!WantsPdb(c)
             => /\ pdb[Editor!File[c]] # Editor!NoFile => pdb[Editor!File[c]] \notin seen[c].pdb
                /\ Editor!OnlyDebugger(c) => pdb[Editor!File[c]].by = c]_(Editor!vars)
  BY Editor!PdbIsNew
<1>. QED
  BY <1>1, <1>2, ExtensionInvariance, PTL DEF EditorSpec, StartsWhatItBuilt, Editor!NoStalePdb

=============================================================================
