----------------------------- MODULE TaskRunner -----------------------------
(***************************************************************************)
(* executeProcessTask of the VS Code extension (taskRunner.js): it starts  *)
(* a task and waits for the outcome of its process.  VS Code reports the   *)
(* end of a process and the end of a task by separate events, broadcast to *)
(* every subscriber, possibly before executeTask's promise has delivered   *)
(* the execution they belong to.  A process end settles a call at once; a  *)
(* task end alone (the process never started) settles it when a 50 ms      *)
(* timer expires first.                                                    *)
(*                                                                         *)
(* Every call runs one task, and the execution of call c is named c.       *)
(***************************************************************************)
CONSTANT Calls

VARIABLES
    phase,         \* of a call: "idle", "starting", "waiting" or "settled"
    early,         \* events a call buffered before it knew its execution
    taskEndTimer,  \* TRUE while the timer of a call is armed
    outcome,       \* what finish was called with first: "none", "process" or "task"
    result,        \* how the promise of the call settled
    ended,         \* of an execution: the events VS Code has reported
    launched       \* of an execution: "no", "process" or "no process"

vars == <<phase, early, taskEndTimer, outcome, result, ended, launched>>

Event == [kind : {"process", "task"}, execution : Calls]

Subscribed(c) == phase[c] \in {"starting", "waiting"}

Init ==
    /\ phase = [c \in Calls |-> "idle"]
    /\ early = [c \in Calls |-> {}]
    /\ taskEndTimer = [c \in Calls |-> FALSE]
    /\ outcome = [c \in Calls |-> "none"]
    /\ result = [c \in Calls |-> "none"]
    /\ ended = [c \in Calls |-> {}]
    /\ launched = [c \in Calls |-> "no"]

-----------------------------------------------------------------------------
(* The extension.                                                          *)

\* Both event sources are subscribed to before executeTask is called.
Start(c) ==
    /\ phase[c] = "idle"
    /\ phase' = [phase EXCEPT ![c] = "starting"]
    /\ UNCHANGED <<early, taskEndTimer, outcome, result, ended, launched>>

\* Mutant: the execution of an event is not compared.
handles_AnyExecution(c, e) == phase[c] = "waiting"

\* What handleProcessEnd and handleTaskEnd do in call c with an event: buffer
\* it while the execution is unknown; finish on the end of the own process;
\* arm the timer on the end of the own task unless the call has finished.
handles(c, e) == phase[c] = "waiting" /\ e.execution = c

finishes(c, e) == handles(c, e) /\ e.kind = "process" /\ outcome[c] = "none"

\* Mutant: a task end is not buffered while the execution is unknown.
arms_WithoutExecution(c, e) ==
    Subscribed(c) /\ e.execution = c /\ e.kind = "task" /\ outcome[c] = "none"

arms(c, e) == handles(c, e) /\ e.kind = "task" /\ outcome[c] = "none"

\* Mutant: only task ends are kept while the execution is unknown.
Deliver_DropsEarlyProcessEnd(e) ==
    /\ early' = [c \in Calls |->
          IF phase[c] = "starting" /\ e.kind = "task" THEN early[c] \cup {e} ELSE early[c]]
    /\ outcome' = [c \in Calls |-> IF finishes(c, e) THEN "process" ELSE outcome[c]]
    /\ taskEndTimer' = [c \in Calls |->
          (taskEndTimer[c] \/ arms(c, e)) /\ ~finishes(c, e)]
    /\ UNCHANGED <<phase, result>>

\* finish("process") also disarms the timer.
Deliver(e) ==
    /\ early' = [c \in Calls |->
          IF phase[c] = "starting" THEN early[c] \cup {e} ELSE early[c]]
    /\ outcome' = [c \in Calls |-> IF finishes(c, e) THEN "process" ELSE outcome[c]]
    /\ taskEndTimer' = [c \in Calls |->
          (taskEndTimer[c] \/ arms(c, e)) /\ ~finishes(c, e)]
    /\ UNCHANGED <<phase, result>>

\* Mutant: events that came before the execution was known are forgotten.
Resolve_IgnoresBuffer(c) ==
    /\ phase[c] = "starting"
    /\ launched[c] # "no"
    /\ phase' = [phase EXCEPT ![c] = "waiting"]
    /\ UNCHANGED <<early, taskEndTimer, outcome, result, ended, launched>>

\* executeTask delivers the execution; a buffered process end is preferred to
\* a buffered task end.
Resolve(c) ==
    LET has(kind) == [kind |-> kind, execution |-> c] \in early[c] IN
    /\ phase[c] = "starting"
    /\ launched[c] # "no"
    /\ phase' = [phase EXCEPT ![c] = "waiting"]
    /\ outcome' = [outcome EXCEPT ![c] = IF has("process") THEN "process" ELSE @]
    /\ taskEndTimer' = [taskEndTimer EXCEPT ![c] = has("task") /\ ~has("process")]
    /\ UNCHANGED <<early, result, ended, launched>>

\* executeTask rejects; `finally` disposes of the subscriptions.
Reject(c) ==
    /\ phase[c] = "starting"
    /\ launched[c] = "no"
    /\ phase' = [phase EXCEPT ![c] = "settled"]
    /\ result' = [result EXCEPT ![c] = "rejected"]
    /\ UNCHANGED <<early, taskEndTimer, outcome, ended, launched>>

TimerExpires(c) ==
    /\ taskEndTimer[c]
    /\ taskEndTimer' = [taskEndTimer EXCEPT ![c] = FALSE]
    /\ outcome' = [outcome EXCEPT ![c] = IF @ = "none" THEN "task" ELSE @]
    /\ UNCHANGED <<phase, early, result, ended, launched>>

\* The awaited completion continues, and `finally` clears what is left.
Settle(c) ==
    /\ phase[c] = "waiting"
    /\ outcome[c] # "none"
    /\ phase' = [phase EXCEPT ![c] = "settled"]
    /\ result' = [result EXCEPT ![c] = outcome[c]]
    /\ taskEndTimer' = [taskEndTimer EXCEPT ![c] = FALSE]
    /\ UNCHANGED <<early, outcome, ended, launched>>

-----------------------------------------------------------------------------
(* VS Code (external): it launches the task, and reports the ends of the   *)
(* process and of the task in either order, each at most once.             *)

Launch(c) ==
    /\ phase[c] = "starting"
    /\ launched[c] = "no"
    /\ \E how \in {"process", "no process"} : launched' = [launched EXCEPT ![c] = how]
    /\ UNCHANGED <<phase, early, taskEndTimer, outcome, result, ended>>

Report(e) ==
    /\ launched[e.execution] # "no"
    /\ e.kind = "process" => launched[e.execution] = "process"
    /\ e.kind \notin ended[e.execution]
    /\ ended' = [ended EXCEPT ![e.execution] = @ \cup {e.kind}]
    /\ Deliver(e)
    /\ UNCHANGED launched

Idle == (\A c \in Calls : phase[c] = "settled") /\ UNCHANGED vars

Next ==
    \/ \E c \in Calls :
          Start(c) \/ Resolve(c) \/ Reject(c) \/ TimerExpires(c) \/ Settle(c) \/ Launch(c)
    \/ \E e \in Event : Report(e)
    \/ Idle

\* Promises settle and timers expire; VS Code owes no event, since a process
\* may run for ever.
Fairness ==
    \A c \in Calls : /\ WF_vars(Resolve(c) \/ Reject(c))
                     /\ WF_vars(TimerExpires(c))
                     /\ WF_vars(Settle(c))

Spec == Init /\ [][Next]_vars /\ Fairness

-----------------------------------------------------------------------------
(* Properties.                                                             *)

\* Type invariant; a timer runs only for a call that knows its execution and
\* has not settled.
TypeOK ==
    /\ phase \in [Calls -> {"idle", "starting", "waiting", "settled"}]
    /\ early \in [Calls -> SUBSET Event]
    /\ taskEndTimer \in [Calls -> BOOLEAN]
    /\ outcome \in [Calls -> {"none", "process", "task"}]
    /\ result \in [Calls -> {"none", "process", "task", "rejected"}]
    /\ ended \in [Calls -> SUBSET {"process", "task"}]
    /\ launched \in [Calls -> {"no", "process", "no process"}]
    /\ \A c \in Calls : taskEndTimer[c] => phase[c] = "waiting"

\* A call never reports the end of another call's execution, and reports one
\* only after VS Code has: whatever was buffered or broadcast, a process
\* result means that the own process ended.
ResultIsOwn == \A c \in Calls : outcome[c] # "none" => outcome[c] \in ended[c]

\* "The process could not be started" is decided only while no end of the
\* process has been reported: an exit code that arrived, early or before the
\* timer expired, is never lost.
ExitCodeNotLost ==
    [][\A c \in Calls : outcome[c] = "none" /\ outcome'[c] = "task"
                          => "process" \notin ended[c]]_vars

\* Once VS Code has reported any end of its execution, a call settles.
EndedCallsSettle ==
    \A c \in Calls : ended[c] # {} ~> phase[c] = "settled"
=============================================================================
