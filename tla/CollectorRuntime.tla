--------------------------- MODULE CollectorRuntime ---------------------------
(***************************************************************************)
(* The process that collects forward evidence: run_forward_collector_      *)
(* runtime (live/forward_runtime.py) supervises one collector task,        *)
(* publishes its status to a file and obeys the stop file                  *)
(* (live/runtime.py) and the signals; the task, collect_current_market_    *)
(* windows (scripts/btc_forward_collector.py), runs one BtcForwardCollector*)
(* after another, a market window each.  An observer judges the status     *)
(* file alone.                                                             *)
(*                                                                         *)
(* The supervisor, the task and the collector it awaits are coroutines; an *)
(* action is what one of them does between two awaits.                     *)
(***************************************************************************)
EXTENDS Integers

CONSTANTS
    WindowSize,     \* ticks of a market window
    HandoffDelay,   \* opening_handoff_delay_seconds, in ticks
    MaxAge,         \* max_age_seconds of the health check
    MaxTime,        \* bound: the clock
    MaxFaults       \* bound: crashes, failures and cancellations

ASSUME RuntimeAssumption ==
    /\ WindowSize \in Nat \ {0} /\ HandoffDelay \in 1 .. WindowSize - 1
    /\ MaxAge \in Nat /\ MaxTime \in Nat /\ MaxFaults \in Nat

VARIABLES
    time,
    stopFile,   \* "none", "present" or "unreadable"
    status,     \* the status file, and the ticks since it was written
    stop,       \* the event service_stop
    supervisor, \* where run_forward_collector_runtime is
    task,       \* where collect_current_market_windows is, and its window
    collector,  \* collect_forever, or the flush its cancellation left behind
    used,       \* history: the windows this process has had a collector for
    lost,       \* history: a collector of this process has raised
    gone,       \* history: the ticks since no task runs
    faults      \* history: the faults so far

vars == <<time, stopFile, status, stop, supervisor, task, collector, used, lost,
          gone, faults>>

Window == time \div WindowSize

Ended == task.state \in {"none", "done", "raised", "cancelled"}

NoTask == [state |-> "none", market |-> 0, lookahead |-> FALSE]

Init ==
    /\ time = 0 /\ stopFile = "none"
    /\ status = [state |-> "missing", healthy |-> FALSE, age |-> 0]
    /\ stop = FALSE /\ supervisor = "off" /\ task = NoTask /\ collector = "none"
    /\ used = {} /\ lost = FALSE /\ gone = 0 /\ faults = 0

Suffers == faults < MaxFaults /\ faults' = faults + 1
-----------------------------------------------------------------------------
(* The supervisor *)

(* _write_status; only "running" asks the feeds for their health.          *)
Publish(state, healthy) == status' = [state |-> state, healthy |-> healthy, age |-> 0]

(* The kill switch holds across restarts; a stop file that cannot be read  *)
(* is raised before anything is published.  The process before waited for  *)
(* its threads.                                                            *)
Start ==
    /\ supervisor = "off" /\ collector # "abandoned"
    /\ collector' = "none" /\ used' = {} /\ lost' = FALSE
    /\ CASE stopFile = "unreadable" ->
              task' = NoTask /\ UNCHANGED <<status, stop, supervisor, gone>>
         [] stopFile = "present" ->
              /\ task' = NoTask /\ Publish("stopped", TRUE)
              /\ UNCHANGED <<stop, supervisor, gone>>
         [] OTHER ->
              /\ Publish("starting", TRUE)
              /\ stop' = FALSE /\ supervisor' = "polling" /\ gone' = 0
              /\ task' = [state |-> "discovering", market |-> Window, lookahead |-> FALSE]
    /\ UNCHANGED <<time, stopFile, faults>>

Leave(state, healthy) == supervisor' = "off" /\ Publish(state, healthy)

(* except Exception: stop the task, publish the failure when it has ended. *)
Fail ==
    /\ stop' = TRUE
    /\ IF Ended THEN Leave("failed", FALSE) ELSE supervisor' = "failing" /\ UNCHANGED status

(* Mutant of DrainFailed: the error is swallowed.                          *)
DrainFailedQuietly == FALSE

DrainFailed == task.state = "raised"

(* await collector_task, of a task that has ended: its error is a failure; *)
(* its cancellation goes to the handler that publishes "stopped" as well.  *)
Stopped ==
    stop' = TRUE /\ IF DrainFailed THEN Leave("failed", FALSE) ELSE Leave("stopped", TRUE)

(* Mutant of TaskGone: nobody looks.                                       *)
TaskGoneUnseen == FALSE

(* collector_task.done() *)
TaskGone == Ended

(* One turn of the loop, up to its next await.                             *)
Poll ==
    /\ supervisor = "polling"
    /\ CASE stopFile = "unreadable" -> Fail
         [] stop \/ stopFile = "present" ->
              IF Ended THEN Stopped
              ELSE stop' = TRUE /\ supervisor' = "stopping" /\ Publish("stopping", TRUE)
         [] ~stop /\ stopFile = "none" /\ TaskGone -> Fail
         [] OTHER ->
              /\ \E healthy \in BOOLEAN : Publish("running", healthy)
              /\ supervisor' = "waiting" /\ UNCHANGED stop
    /\ UNCHANGED <<time, stopFile, task, collector, used, lost, gone, faults>>

(* _wait_for_activity *)
Wake ==
    /\ supervisor = "waiting" /\ supervisor' = "polling"
    /\ UNCHANGED <<time, stopFile, status, stop, task, collector, used, lost, gone,
                   faults>>

(* The task ends while it is awaited.                                      *)
DrainAwaited ==
    /\ supervisor = "stopping" /\ Ended /\ Stopped
    /\ UNCHANGED <<time, stopFile, task, collector, used, lost, gone, faults>>

(* _await_shutdown, in one of the handlers: the task's error is dropped,   *)
(* its cancellation is not and leaves no status.                           *)
Shutdown ==
    /\ Ended
    /\ \/ /\ supervisor \in {"failing", "cancelled"} /\ task.state = "cancelled"
          /\ supervisor' = "off" /\ UNCHANGED status
       \/ supervisor = "failing" /\ task.state # "cancelled" /\ Leave("failed", FALSE)
       \/ supervisor = "cancelled" /\ task.state # "cancelled" /\ Leave("stopped", TRUE)
    /\ UNCHANGED <<time, stopFile, stop, task, collector, used, lost, gone, faults>>

(* The status cannot be written: in the loop, in the handler as well, or   *)
(* only after "stopping" of a task that had ended.                         *)
PublishFails ==
    /\ Suffers
    /\ \/ /\ \/ supervisor = "polling"
             \/ supervisor = "stopping" /\ task.state = "done"
          /\ Fail
       \/ /\ supervisor \in {"polling", "stopping", "failing", "cancelled"} /\ Ended
          /\ stop' = TRUE /\ supervisor' = "off" /\ UNCHANGED status
       \/ /\ supervisor = "polling" /\ Ended /\ (stop \/ stopFile = "present")
          /\ stop' = TRUE /\ Leave("stopping", TRUE)
    /\ UNCHANGED <<time, stopFile, task, collector, used, lost, gone>>

(* Where a cancelled collect_forever is: at its sockets, from where its    *)
(* last flush still follows; in that flush, which its thread goes on with; *)
(* or before the sockets or between the two, where no flush follows.       *)
Interrupted ==
    {"abandoned", "cancelled"} \cup (IF collector = "running" THEN {"leaving"} ELSE {})

(* The task the supervisor awaits is cancelled with it, and so is the      *)
(* collector the task awaits; a worker that has ended is not asked again.  *)
TaskCancelled ==
    IF task.state \in {"draining", "cancelling"} /\ collector \in {"running", "leaving"}
    THEN collector' \in Interrupted /\ UNCHANGED task
    ELSE /\ task' = [task EXCEPT !.state =
                       IF @ = "collecting" THEN "cancelling" ELSE "cancelled"]
         /\ UNCHANGED collector

(* The supervisor is cancelled: asyncio.wait leaves the task alone, an     *)
(* await of the task passes the cancellation on, unless the task has ended *)
(* and its supervisor has not gone on yet.                                 *)
Cancel ==
    /\ Suffers /\ stop' = TRUE
    /\ \/ /\ \/ supervisor = "waiting"
             \/ supervisor = "stopping" /\ Ended /\ task.state # "cancelled"
          /\ supervisor' = "cancelled" /\ UNCHANGED <<task, collector>>
       \/ /\ supervisor = "failing" /\ Ended
          /\ supervisor' = "off" /\ UNCHANGED <<task, collector>>
       \/ /\ supervisor \in {"stopping", "failing", "cancelled"} /\ ~Ended
          /\ TaskCancelled /\ UNCHANGED supervisor
    /\ UNCHANGED <<time, stopFile, status, used, lost, gone>>
-----------------------------------------------------------------------------
(* The task *)

(* Mutant of NextTurn: the loop asks again whatever was requested.         *)
NextTurnAlways == [state |-> "discovering", market |-> Window, lookahead |-> FALSE]

(* while not stop_event.is_set(), and the slug of the time.                *)
NextTurn ==
    IF stop THEN [task EXCEPT !.state = "done"]
    ELSE [state |-> "discovering", market |-> Window, lookahead |-> FALSE]

(* discover_catalog: nothing yet, or the market and perhaps the next one.  *)
(* Stop is not asked again.                                                *)
Discover ==
    /\ task.state = "discovering"
    /\ \/ /\ task' = [task EXCEPT !.state = "retrying"]
          /\ UNCHANGED <<collector, used>>
       \/ /\ \E lookahead \in BOOLEAN :
                task' = [task EXCEPT !.state = "collecting", !.lookahead = lookahead]
          /\ collector' = "running" /\ used' = used \cup {task.market}
    /\ UNCHANGED <<time, stopFile, status, stop, supervisor, lost, gone, faults>>

(* A catalogue that conflicts with the stored one, or with its neighbour.  *)
DiscoverRaises ==
    /\ Suffers /\ task.state = "discovering"
    /\ task' = [task EXCEPT !.state = "raised"]
    /\ UNCHANGED <<time, stopFile, status, stop, supervisor, collector, used, lost, gone>>

(* _wait_or_stop *)
Retry ==
    /\ task.state = "retrying" /\ task' = NextTurn
    /\ UNCHANGED <<time, stopFile, status, stop, supervisor, collector, used, lost,
                   gone, faults>>

(* Mutant of HandoffEnd: the delay is counted from the window's start.     *)
HandoffEndOfOpening == task.market * WindowSize + HandoffDelay

HandoffEnd ==
    (task.market + 1) * WindowSize + (IF task.lookahead THEN HandoffDelay ELSE 0)

(* _wait_for_market_rotation returns or raises, and collector_stop is set. *)
Rotate ==
    /\ task.state = "collecting"
    /\ stop \/ time >= HandoffEnd \/ collector # "running"
    /\ task' = [task EXCEPT !.state = "draining"]
    /\ UNCHANGED <<time, stopFile, status, stop, supervisor, collector, used, lost,
                   gone, faults>>

(* await worker: its error or cancellation is the task's, and so is the    *)
(* cancellation that ended the wait for the rotation.                      *)
Drained ==
    /\ task.state \in {"draining", "cancelling"}
    /\ \/ collector = "raised" /\ task' = [task EXCEPT !.state = "raised"]
       \/ /\ \/ collector \in {"abandoned", "cancelled"}
             \/ collector = "done" /\ task.state = "cancelling"
          /\ task' = [task EXCEPT !.state = "cancelled"]
       \/ collector = "done" /\ task.state = "draining" /\ task' = NextTurn
    /\ UNCHANGED <<time, stopFile, status, stop, supervisor, collector, used, lost,
                   gone, faults>>

(* The collector ends when it is told to, and its last flush, awaited or   *)
(* left behind, comes to its end.                                          *)
CollectorEnds ==
    /\ \/ /\ task.state \in {"draining", "cancelling"} /\ collector = "running"
          /\ collector' = "done"
       \/ collector \in {"leaving", "abandoned"} /\ collector' = "cancelled"
    /\ UNCHANGED <<time, stopFile, status, stop, supervisor, task, used, lost, gone,
                   faults>>

CollectorRaises ==
    /\ Suffers /\ collector \in {"running", "leaving"}
    /\ collector' = "raised" /\ lost' = TRUE
    /\ UNCHANGED <<time, stopFile, status, stop, supervisor, task, used, gone>>
-----------------------------------------------------------------------------
(* The world *)

(* request_stop, clear_stop, or a file that is damaged by hand.            *)
Operator ==
    /\ \/ stopFile = "none" /\ stopFile' = "present" /\ UNCHANGED faults
       \/ stopFile # "none" /\ stopFile' = "none" /\ UNCHANGED faults
       \/ stopFile = "present" /\ stopFile' = "unreadable" /\ Suffers
    /\ UNCHANGED <<time, status, stop, supervisor, task, collector, used, lost, gone>>

Signal ==
    /\ supervisor # "off" /\ stop' = TRUE
    /\ UNCHANGED <<time, stopFile, status, supervisor, task, collector, used, lost,
                   gone, faults>>

Crash ==
    /\ Suffers /\ supervisor # "off" /\ supervisor' = "off"
    /\ task' = NoTask /\ collector' = "none"
    /\ UNCHANGED <<time, stopFile, status, stop, used, lost, gone>>

Older(age) == IF age > MaxAge THEN age ELSE age + 1

Tick ==
    /\ time < MaxTime /\ time' = time + 1
    /\ status' = [status EXCEPT !.age = Older(@)]
    /\ gone' = IF supervisor # "off" /\ ~Ended THEN 0 ELSE Older(gone)
    /\ UNCHANGED <<stopFile, stop, supervisor, task, collector, used, lost, faults>>
-----------------------------------------------------------------------------
Supervisor == Poll \/ Wake \/ DrainAwaited \/ Shutdown
Task == Discover \/ Retry \/ Rotate \/ Drained
World ==
    \/ Start \/ Operator \/ Signal \/ Crash \/ Tick
    \/ PublishFails \/ Cancel \/ DiscoverRaises \/ CollectorRaises

Next == Supervisor \/ Task \/ CollectorEnds \/ World

(* The event loop goes on, requests time out and a drain comes to its end. *)
Fairness == WF_vars(Supervisor) /\ WF_vars(Task) /\ WF_vars(CollectorEnds)

Spec == Init /\ [][Next]_vars /\ Fairness
-----------------------------------------------------------------------------
TypeOK ==
    /\ time \in Nat /\ stopFile \in {"none", "present", "unreadable"}
    /\ status \in [state : {"missing", "starting", "running", "stopping", "stopped",
                            "failed"}, healthy : BOOLEAN, age : Nat]
    /\ stop \in BOOLEAN
    /\ supervisor \in {"off", "polling", "waiting", "stopping", "failing", "cancelled"}
    /\ task \in [state : {"none", "discovering", "retrying", "collecting", "draining",
                          "cancelling", "done", "raised", "cancelled"}, market : Nat, lookahead : BOOLEAN]
    /\ collector \in {"none", "running", "done", "raised", "leaving", "abandoned",
                      "cancelled"}
    /\ used \subseteq Nat /\ lost \in BOOLEAN /\ gone \in Nat /\ faults \in Nat

(* check_runtime_health *)
LooksHealthy ==
    status.age <= MaxAge /\ status.state = "running" /\ status.healthy

(* "Fail closed when a service is absent, stale, failed" (live/runtime.py):*)
(* a service whose task ended, or whose process died, looks healthy no     *)
(* longer than the age allowed, though nobody may have written since.      *)
HealthyMeansAlive == LooksHealthy => gone <= MaxAge

(* "stopped" is published when no collector takes evidence in any more,    *)
(* and not when one has failed or was cut short, before the stop or in its *)
(* drain, but where a cancellation of the supervisor or its task hides it. *)
StoppedIsClean ==
    [][supervisor # "off" /\ status' # status /\ status'.state = "stopped" =>
         /\ collector \notin {"running", "leaving"}
         /\ lost \/ collector \in {"abandoned", "cancelled"} =>
                supervisor = "cancelled" \/ task.state = "cancelled"]_vars

(* No two collectors of a process are numbered from the same window, or    *)
(* the epochs of the second one would continue those of the first.         *)
WindowsOnce == [][collector' = "running" /\ collector # "running" =>
                    task'.market \notin used]_vars

(* A request to stop ends the process, however Gamma answers and whichever *)
(* collector is running, unless the request is withdrawn before it is seen.*)
StopEnds ==
    (stop \/ stopFile = "present") /\ supervisor # "off" ~>
        supervisor = "off" \/ (~stop /\ stopFile = "none")
=============================================================================
