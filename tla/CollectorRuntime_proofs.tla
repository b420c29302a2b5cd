----------------------- MODULE CollectorRuntime_proofs -----------------------
(***************************************************************************)
(* The supervised collector, for windows, delays and ages of any length    *)
(* and any number of faults: a dead service does not look healthy longer   *)
(* than allowed, "stopped" is never published of a collector that writes   *)
(* or was lost, and no window has two collectors.                          *)
(***************************************************************************)
EXTENDS CollectorRuntime, TLAPS

Tasks ==
    [state : {"none", "discovering", "retrying", "collecting", "draining", "cancelling",
              "done", "raised", "cancelled"},
     market : Nat, lookahead : BOOLEAN]

Collectors ==
    {"none", "running", "done", "raised", "leaving", "abandoned", "cancelled"}

(* A running collector is the one its task waits for; one that raised, or  *)
(* was cancelled, shows in the task until the process ends.                *)
CollectorFits ==
    /\ collector = "running" => task.state \in {"collecting", "draining", "cancelling"}
    /\ collector = "leaving" => task.state \in {"draining", "cancelling"}
    /\ task.state = "collecting" => collector \in {"running", "raised"}
    /\ supervisor # "off" /\ lost =>
        /\ collector = "raised"
        /\ task.state \in {"collecting", "draining", "cancelling", "raised", "cancelled"}
    /\ supervisor # "off" /\ collector \in {"abandoned", "cancelled"} =>
        task.state \in {"draining", "cancelling", "cancelled"}

(* The process that runs has not published its end.                        *)
StatusFits == supervisor # "off" => status.state # "stopped"

(* While a task runs nothing has been gone, and the last "running" is as   *)
(* old as the time the task is gone for, or older.                         *)
GoneFits ==
    /\ supervisor # "off" /\ ~Ended => gone = 0
    /\ status.state = "running" => gone <= status.age

(* The windows that had a collector lie behind the one asked for next.     *)
UsedFits ==
    /\ task.state \in {"discovering", "retrying"} =>
        task.market <= Window /\ \A u \in used : u < task.market
    /\ task.state \in {"collecting", "draining"} => \A u \in used : u <= task.market
    /\ task.state = "draining" =>
        stop \/ collector = "raised" \/ task.market < Window

IInv == TypeOK /\ CollectorFits /\ StatusFits /\ GoneFits /\ UsedFits
-----------------------------------------------------------------------------
(* Windows *)

LEMMA Quotients ==
    ASSUME NEW t \in Nat, NEW w \in Nat, w > 0
    PROVE  t \div w \in Nat /\ t \div w <= (t + 1) \div w
  OBVIOUS

LEMMA QuotientReaches ==
    ASSUME NEW t \in Nat, NEW w \in Nat, w > 0, NEW m \in Nat, t >= (m + 1) * w
    PROVE  t \div w > m
  OBVIOUS

(* A later time is in no earlier window.                                   *)
LEMMA TickWindow ==
    ASSUME time \in Nat
    PROVE  Window \in Nat /\ (time' = time + 1 => Window <= Window')
<1>1. WindowSize \in Nat /\ WindowSize > 0
  BY RuntimeAssumption
<1> QED  BY <1>1, Quotients DEF Window

(* A rotation that waits for the hand-off ends in a later window.          *)
LEMMA HandoffIsLater ==
    ASSUME TypeOK, time >= HandoffEnd
    PROVE  task.market < Window
<1>1. task.market \in Nat /\ time \in Nat
  BY DEF TypeOK
<1>2. WindowSize \in Nat /\ WindowSize > 0 /\ HandoffDelay \in Nat
  BY RuntimeAssumption
<1> DEFINE end == (task.market + 1) * WindowSize
<1>3. end \in Nat
  BY <1>1, <1>2
<1>4. HandoffEnd = end \/ HandoffEnd = end + HandoffDelay
  BY <1>1, <1>2 DEF HandoffEnd
<1> HIDE DEF end
<1>5. time >= end
  BY <1>1, <1>2, <1>3, <1>4
<1> QED  BY <1>1, <1>2, <1>5, QuotientReaches DEF Window, end
-----------------------------------------------------------------------------
(* The invariant *)

LEMMA InitHolds == Init => IInv
<1> SUFFICES ASSUME Init PROVE IInv
  OBVIOUS
<1>1. TypeOK
  BY DEF Init, TypeOK, NoTask
<1>2. CollectorFits /\ StatusFits /\ GoneFits /\ UsedFits
  BY DEF Init, CollectorFits, StatusFits, GoneFits, UsedFits, NoTask
<1> QED  BY <1>1, <1>2 DEF IInv

(* The ages only grow to one beyond the allowed one.                       *)
LEMMA OlderKeeps ==
    ASSUME NEW a \in Nat, NEW b \in Nat, a <= b
    PROVE  Older(a) \in Nat /\ Older(b) \in Nat /\ Older(a) <= Older(b)
  BY RuntimeAssumption DEF Older

(* What the invariant says of a task that the supervisor does not touch.   *)
LEMMA SupervisorKeeps ==
    ASSUME IInv, Supervisor \/ PublishFails
    PROVE  IInv'
<1> USE DEF IInv
<1>1. /\ UNCHANGED <<time, stopFile, task, collector, used, lost, gone>>
      /\ faults' \in Nat
  <2>1. CASE Supervisor
    BY <2>1 DEF Supervisor, Poll, Wake, DrainAwaited, Shutdown, TypeOK
  <2>2. CASE PublishFails
    BY <2>2 DEF PublishFails, Suffers, TypeOK
  <2> QED  BY <2>1, <2>2
<1>2. /\ supervisor # "off" /\ stop' \in BOOLEAN /\ (stop => stop')
      /\ supervisor' \in {"off", "polling", "waiting", "stopping", "failing", "cancelled"}
      /\ \/ UNCHANGED status
         \/ \E s \in {"running", "stopping"}, h \in BOOLEAN :
                /\ status' = [state |-> s, healthy |-> h, age |-> 0]
                /\ s = "running" => ~Ended
         \/ \E s \in {"stopping", "stopped", "failed"}, h \in BOOLEAN :
                /\ status' = [state |-> s, healthy |-> h, age |-> 0]
                /\ supervisor' = "off"
  <2>1. CASE Poll
    <3>1. CASE Fail
      BY <2>1, <3>1 DEF Poll, Fail, Leave, Publish, TypeOK
    <3>2. CASE Stopped
      BY <2>1, <3>2 DEF Poll, Stopped, Leave, Publish, TypeOK
    <3>3. CASE stop' = TRUE /\ supervisor' = "stopping" /\ Publish("stopping", TRUE)
      BY <2>1, <3>3 DEF Poll, Publish, TypeOK
    <3>4. CASE /\ \E healthy \in BOOLEAN : Publish("running", healthy)
               /\ supervisor' = "waiting" /\ UNCHANGED stop /\ ~Ended
      BY <2>1, <3>4 DEF Poll, Publish, TypeOK
    <3> QED  BY <2>1, <3>1, <3>2, <3>3, <3>4 DEF Poll, TaskGone, TypeOK
  <2>2. CASE Wake
    BY <2>2 DEF Wake, TypeOK
  <2>3. CASE DrainAwaited
    BY <2>3 DEF DrainAwaited, Stopped, Leave, Publish, TypeOK
  <2>4. CASE Shutdown
    BY <2>4 DEF Shutdown, Leave, Publish, TypeOK
  <2>5. CASE PublishFails
    <3>1. CASE supervisor \in {"polling", "stopping"} /\ Fail
      BY <3>1 DEF Fail, Leave, Publish
    <3>2. CASE /\ supervisor \in {"polling", "stopping", "failing", "cancelled"}
               /\ stop' = TRUE /\ supervisor' = "off" /\ UNCHANGED status
      BY <3>2
    <3>3. CASE supervisor = "polling" /\ stop' = TRUE /\ Leave("stopping", TRUE)
      BY <3>3 DEF Leave, Publish
    <3> QED  BY <2>5, <3>1, <3>2, <3>3 DEF PublishFails
  <2> QED  BY <2>1, <2>2, <2>3, <2>4, <2>5, Zenon DEF Supervisor
<1>3. TypeOK'
  BY <1>1, <1>2 DEF TypeOK
<1>4. CollectorFits' /\ StatusFits' /\ UsedFits'
  BY <1>1, <1>2 DEF CollectorFits, StatusFits, UsedFits, Window
<1>5. GoneFits'
  BY <1>1, <1>2 DEF GoneFits, Ended, TypeOK
<1> QED  BY <1>3, <1>4, <1>5

LEMMA StartKeeps ==
    ASSUME IInv, Start
    PROVE  IInv'
<1> USE DEF IInv
<1>1. /\ supervisor = "off" /\ collector' = "none" /\ used' = {} /\ lost' = FALSE
      /\ UNCHANGED <<time, stopFile, faults>>
  BY DEF Start
<1>2. Window \in Nat /\ Window' = Window
  BY <1>1, TickWindow DEF TypeOK, Window
<1>3. \/ /\ task' = NoTask /\ UNCHANGED <<stop, supervisor, gone>>
         /\ \/ UNCHANGED status
            \/ status' = [state |-> "stopped", healthy |-> TRUE, age |-> 0]
      \/ /\ status' = [state |-> "starting", healthy |-> TRUE, age |-> 0]
         /\ stop' = FALSE /\ supervisor' = "polling" /\ gone' = 0
         /\ task' = [state |-> "discovering", market |-> Window, lookahead |-> FALSE]
  BY DEF Start, Publish, TypeOK
<1>4. TypeOK'
  <2>1. CASE /\ task' = NoTask /\ UNCHANGED <<stop, supervisor, gone>>
             /\ \/ UNCHANGED status
                \/ status' = [state |-> "stopped", healthy |-> TRUE, age |-> 0]
    <3>1. status' \in [state : {"missing", "starting", "running", "stopping", "stopped",
                               "failed"}, healthy : BOOLEAN, age : Nat]
      <4>1. CASE UNCHANGED status
        BY <4>1 DEF TypeOK
      <4>2. CASE status' = [state |-> "stopped", healthy |-> TRUE, age |-> 0]
        BY <4>2
      <4> QED  BY <2>1, <4>1, <4>2
    <3> QED  BY <1>1, <2>1, <3>1 DEF TypeOK, NoTask
  <2>2. CASE /\ status' = [state |-> "starting", healthy |-> TRUE, age |-> 0]
             /\ stop' = FALSE /\ supervisor' = "polling" /\ gone' = 0
             /\ task' = [state |-> "discovering", market |-> Window, lookahead |-> FALSE]
    BY <1>1, <1>2, <2>2 DEF TypeOK
  <2> QED  BY <1>3, <2>1, <2>2, Zenon
<1>5. CollectorFits' /\ StatusFits' /\ UsedFits'
  BY <1>1, <1>2, <1>3 DEF CollectorFits, StatusFits, UsedFits, NoTask
<1>6. GoneFits'
  BY <1>1, <1>3 DEF GoneFits, NoTask, Ended, TypeOK
<1> QED  BY <1>4, <1>5, <1>6

LEMMA CancelKeeps ==
    ASSUME IInv, Cancel
    PROVE  IInv'
<1> USE DEF IInv
<1>1. /\ UNCHANGED <<time, stopFile, status, used, lost, gone>> /\ stop' = TRUE
      /\ faults' \in Nat /\ supervisor # "off"
      /\ supervisor' \in {"off", "stopping", "failing", "cancelled"}
  BY DEF Cancel, Suffers, TypeOK
<1>2. \/ UNCHANGED <<task, collector>>
      \/ TaskCancelled /\ ~Ended
  BY DEF Cancel
<1>3. CASE UNCHANGED <<task, collector>>
  BY <1>1, <1>3 DEF TypeOK, CollectorFits, StatusFits, GoneFits, UsedFits, Window, Ended
<1>4. CASE /\ task.state \in {"draining", "cancelling"} /\ UNCHANGED task
           /\ collector \in {"running", "leaving"} /\ collector' \in Interrupted
  <2>1. collector' \in {"leaving", "abandoned", "cancelled"}
    BY <1>4 DEF Interrupted
  <2>2. ~lost
    BY <1>1, <1>4 DEF CollectorFits, TypeOK
  <2> QED  BY <1>1, <1>4, <2>1, <2>2
      DEF TypeOK, CollectorFits, StatusFits, GoneFits, UsedFits, Window, Ended
<1>5. CASE /\ task' = [task EXCEPT !.state =
                         IF @ = "collecting" THEN "cancelling" ELSE "cancelled"]
           /\ ~Ended /\ UNCHANGED collector
           /\ ~(task.state \in {"draining", "cancelling"} /\ collector \in {"running", "leaving"})
  <2>1. PICK s \in {"cancelling", "cancelled"} :
          /\ task' \in Tasks /\ task'.state = s /\ task'.market = task.market
          /\ s = "cancelling" <=> task.state = "collecting"
    BY <1>5 DEF TypeOK, Tasks
  <2>2. TypeOK'
    BY <1>1, <1>5, <2>1 DEF TypeOK, Tasks
  <2>3. CollectorFits'
    <3>1. lost => s = "cancelling" \/ task.state \in {"draining", "cancelling", "raised", "cancelled"}
      BY <1>1, <2>1 DEF CollectorFits
    <3> QED  BY <1>1, <1>5, <2>1, <3>1 DEF CollectorFits, TypeOK
  <2>4. StatusFits' /\ GoneFits' /\ UsedFits'
    BY <1>1, <1>5, <2>1 DEF StatusFits, GoneFits, UsedFits, Window, Ended
  <2> QED  BY <2>2, <2>3, <2>4
<1> QED  BY <1>2, <1>3, <1>4, <1>5 DEF TaskCancelled

LEMMA NextTurnFits ==
    ASSUME TypeOK
    PROVE  /\ NextTurn.state = IF stop THEN "done" ELSE "discovering"
           /\ NextTurn.market = IF stop THEN task.market ELSE Window
           /\ NextTurn \in Tasks
<1>1. Window \in Nat
  BY TickWindow DEF TypeOK
<1> QED  BY <1>1 DEF NextTurn, TypeOK, Tasks

LEMMA TaskKeeps ==
    ASSUME IInv, Task \/ DiscoverRaises
    PROVE  IInv'
<1> USE DEF IInv
<1>1. /\ UNCHANGED <<time, stopFile, status, stop, supervisor, lost, gone>>
      /\ faults' \in Nat
  <2>1. CASE Task
    BY <2>1 DEF Task, Discover, Retry, Rotate, Drained, TypeOK
  <2>2. CASE DiscoverRaises
    BY <2>2 DEF DiscoverRaises, Suffers, TypeOK
  <2> QED  BY <2>1, <2>2
<1>2. Window \in Nat /\ Window' = Window
  BY <1>1, TickWindow DEF TypeOK, Window
<1>3. StatusFits'
  BY <1>1 DEF StatusFits
<1>4. CASE Discover
  <2>1. PICK s \in {"retrying", "collecting"} :
          /\ task.state = "discovering" /\ task'.state = s /\ task'.market = task.market
          /\ task' \in Tasks
          /\ s = "retrying" => UNCHANGED <<collector, used>>
          /\ s = "collecting" => collector' = "running" /\ used' = used \cup {task.market}
    <3>1. CASE task' = [task EXCEPT !.state = "retrying"] /\ UNCHANGED <<collector, used>>
      BY <1>4, <3>1 DEF Discover, TypeOK, Tasks
    <3>2. CASE /\ \E lookahead \in BOOLEAN :
                    task' = [task EXCEPT !.state = "collecting", !.lookahead = lookahead]
               /\ collector' = "running" /\ used' = used \cup {task.market}
      BY <1>4, <3>2 DEF Discover, TypeOK, Tasks
    <3> QED  BY <1>4, <3>1, <3>2 DEF Discover
  <2>2. TypeOK' /\ CollectorFits' /\ GoneFits'
    <3>1. task.market \in Nat /\ used \subseteq Nat
      BY DEF TypeOK
    <3>2. collector \in Collectors /\ used' \subseteq Nat
      BY <2>1, <3>1 DEF TypeOK, Collectors
    <3>3. collector' \in Collectors
      BY <2>1, <3>2 DEF Collectors
    <3>4. TypeOK'
      BY <1>1, <2>1, <3>2, <3>3 DEF TypeOK, Tasks, Collectors
    <3>5. CollectorFits' /\ GoneFits'
      BY <1>1, <2>1 DEF CollectorFits, GoneFits, Ended
    <3> QED  BY <3>4, <3>5
  <2>3. UsedFits'
    <3>1. /\ task.market \in Nat /\ used \subseteq Nat
          /\ task.market <= Window /\ \A u \in used : u < task.market
      BY <2>1 DEF TypeOK, UsedFits
    <3>2. CASE s = "retrying"
      BY <1>1, <1>2, <2>1, <3>1, <3>2 DEF UsedFits
    <3>3. CASE s = "collecting"
      <4>1. ASSUME NEW u \in used' PROVE u <= task.market
        <5>1. u \in used \/ u = task.market
          BY <2>1, <3>3, <4>1
        <5>2. task.market \in Nat /\ used \subseteq Nat /\ \A v \in used : v < task.market
          BY <3>1
        <5>3. u \in used => u \in Nat /\ u < task.market
          BY <5>2
        <5> QED  BY <5>1, <5>2, <5>3
      <4> QED  BY <2>1, <3>3, <4>1 DEF UsedFits
    <3> QED  BY <2>1, <3>2, <3>3
  <2> QED  BY <1>3, <2>2, <2>3
<1>5. CASE Retry
  <2>1. task.state = "retrying" /\ task' = NextTurn /\ UNCHANGED <<collector, used>>
    BY <1>5 DEF Retry
  <2>2. TypeOK' /\ CollectorFits' /\ GoneFits'
    BY <1>1, <2>1, NextTurnFits DEF TypeOK, CollectorFits, GoneFits, Ended, Tasks
  <2>3. UsedFits'
    BY <1>1, <1>2, <2>1, NextTurnFits DEF TypeOK, UsedFits
  <2> QED  BY <1>3, <2>2, <2>3
<1>6. CASE Rotate
  <2>1. /\ task.state = "collecting" /\ UNCHANGED <<collector, used>>
        /\ task'.state = "draining" /\ task'.market = task.market
        /\ task' \in Tasks
        /\ stop \/ time >= HandoffEnd \/ collector # "running"
    BY <1>6 DEF Rotate, TypeOK, Tasks
  <2>2. stop \/ collector = "raised" \/ task.market < Window
    BY <2>1, HandoffIsLater DEF CollectorFits
  <2>3. TypeOK' /\ CollectorFits' /\ GoneFits'
    BY <1>1, <2>1 DEF TypeOK, CollectorFits, GoneFits, Ended, Tasks
  <2>4. UsedFits'
    BY <1>1, <1>2, <2>1, <2>2 DEF UsedFits
  <2> QED  BY <1>3, <2>3, <2>4
<1>7. CASE Drained
  <2>1. /\ task.state \in {"draining", "cancelling"} /\ UNCHANGED <<collector, used>>
        /\ collector \notin {"running", "leaving"}
    BY <1>7 DEF Drained
  <2>2. ASSUME NEW s \in {"raised", "cancelled"}, task' = [task EXCEPT !.state = s],
               s = "raised" => collector = "raised",
               s = "cancelled" => collector # "raised"
        PROVE  IInv'
    <3>1. task'.state = s /\ task' \in Tasks
      BY <2>2 DEF TypeOK, Tasks
    <3>2. TypeOK' /\ CollectorFits'
      BY <1>1, <2>1, <2>2, <3>1 DEF TypeOK, CollectorFits, Tasks
    <3> QED  BY <1>1, <1>3, <2>1, <3>1, <3>2 DEF GoneFits, UsedFits, Ended
  <2>3. CASE collector = "done" /\ task.state = "draining" /\ task' = NextTurn
    <3>1. TypeOK' /\ CollectorFits' /\ GoneFits'
      BY <1>1, <2>1, <2>3, NextTurnFits DEF TypeOK, CollectorFits, GoneFits, Ended, Tasks
    <3>2. UsedFits'
      BY <1>1, <1>2, <2>1, <2>3, NextTurnFits DEF TypeOK, UsedFits
    <3> QED  BY <1>3, <3>1, <3>2
  <2>4. CASE collector = "raised" /\ task' = [task EXCEPT !.state = "raised"]
    BY <2>2, <2>4
  <2>5. CASE /\ collector \in {"abandoned", "cancelled", "done"}
             /\ task' = [task EXCEPT !.state = "cancelled"]
    BY <2>2, <2>5
  <2> QED  BY <1>7, <2>3, <2>4, <2>5 DEF Drained
<1>8. CASE DiscoverRaises
  <2>1. /\ task.state = "discovering" /\ UNCHANGED <<collector, used>>
        /\ task'.state = "raised" /\ task'.market = task.market
        /\ task' \in Tasks
    BY <1>8 DEF DiscoverRaises, TypeOK, Tasks
  <2> QED  BY <1>1, <1>3, <2>1 DEF TypeOK, CollectorFits, GoneFits, UsedFits, Ended, Tasks
<1> QED  BY <1>4, <1>5, <1>6, <1>7, <1>8 DEF Task

LEMMA CollectorKeeps ==
    ASSUME IInv, CollectorEnds \/ CollectorRaises
    PROVE  IInv'
<1> USE DEF IInv
<1>1. /\ UNCHANGED <<time, stopFile, status, stop, supervisor, task, used, gone>>
      /\ faults' \in Nat
      /\ \/ /\ task.state \in {"draining", "cancelling"} /\ collector = "running"
            /\ collector' = "done" /\ UNCHANGED lost
         \/ /\ collector \in {"leaving", "abandoned"} /\ collector' = "cancelled"
            /\ UNCHANGED lost
         \/ /\ collector \in {"running", "leaving"} /\ collector' = "raised"
            /\ lost' = TRUE
  BY DEF CollectorEnds, CollectorRaises, Suffers, TypeOK
<1>2. TypeOK'
  <2>1. collector' \in Collectors
    BY <1>1 DEF Collectors
  <2>2. lost' \in BOOLEAN
    BY <1>1, Zenon DEF TypeOK
  <2> QED  BY <1>1, <2>1, <2>2 DEF TypeOK, Collectors
<1>3. CollectorFits' /\ StatusFits' /\ GoneFits'
  BY <1>1 DEF CollectorFits, StatusFits, GoneFits, Ended
<1>4. UsedFits'
  BY <1>1 DEF CollectorFits, UsedFits, Window
<1> QED  BY <1>2, <1>3, <1>4

LEMMA OutsideKeeps ==
    ASSUME IInv, Operator \/ Signal \/ Crash
    PROVE  IInv'
<1> USE DEF IInv
<1>1. CASE Operator
  BY <1>1 DEF Operator, Suffers, TypeOK, CollectorFits, StatusFits, GoneFits, UsedFits,
              Window, Ended
<1>2. CASE Signal
  BY <1>2 DEF Signal, TypeOK, CollectorFits, StatusFits, GoneFits, UsedFits, Window, Ended
<1>3. CASE Crash
  BY <1>3 DEF Crash, Suffers, NoTask, TypeOK, CollectorFits, StatusFits, GoneFits,
              UsedFits, Ended
<1> QED  BY <1>1, <1>2, <1>3

LEMMA TickKeeps ==
    ASSUME IInv, Tick
    PROVE  IInv'
<1> USE DEF IInv
<1>1. /\ time' = time + 1 /\ time \in Nat
      /\ status' = [status EXCEPT !.age = Older(@)]
      /\ gone' = IF supervisor # "off" /\ ~Ended THEN 0 ELSE Older(gone)
      /\ UNCHANGED <<stopFile, stop, supervisor, task, collector, used, lost, faults>>
  BY DEF Tick, TypeOK
<1>2. Window \in Nat /\ Window' \in Nat /\ Window <= Window'
  <2>1. time' \in Nat /\ WindowSize \in Nat /\ WindowSize > 0
    BY <1>1, RuntimeAssumption
  <2>2. Window' \in Nat
    BY <2>1, Quotients DEF Window
  <2> QED  BY <1>1, <2>2, TickWindow
<1>3. /\ Older(gone) \in Nat /\ Older(status.age) \in Nat
      /\ gone <= status.age => Older(gone) <= Older(status.age)
  <2>1. gone \in Nat /\ status.age \in Nat
    BY DEF TypeOK
  <2> QED  BY <2>1, OlderKeeps, RuntimeAssumption DEF Older
<1>4. /\ status'.state = status.state /\ status'.age = Older(status.age)
      /\ status' \in [state : {"missing", "starting", "running", "stopping", "stopped",
                               "failed"}, healthy : BOOLEAN, age : Nat]
  BY <1>1, <1>3 DEF TypeOK
<1>5. TypeOK'
  BY <1>1, <1>3, <1>4 DEF TypeOK
<1>6. CollectorFits' /\ StatusFits'
  BY <1>1, <1>4 DEF CollectorFits, StatusFits
<1>7. GoneFits'
  BY <1>1, <1>3, <1>4 DEF GoneFits, Ended, TypeOK
<1>8. UsedFits'
  BY <1>1, <1>2 DEF UsedFits, TypeOK
<1> QED  BY <1>5, <1>6, <1>7, <1>8

LEMMA StepKeeps ==
    ASSUME IInv, [Next]_vars
    PROVE  IInv'
<1>1. CASE UNCHANGED vars
  BY <1>1 DEF vars, IInv, TypeOK, CollectorFits, StatusFits, GoneFits, UsedFits, Window,
              Ended
<1> QED  BY <1>1, SupervisorKeeps, StartKeeps, CancelKeeps, TaskKeeps, CollectorKeeps,
            OutsideKeeps, TickKeeps DEF Next, World

LEMMA RuntimeInvariant == Spec => []IInv
  BY InitHolds, StepKeeps, PTL DEF Spec
-----------------------------------------------------------------------------
(* The theorems *)

(* HealthyMeansAlive for every value of the constants: the status of a     *)
(* service whose task has ended, or whose process died, is at least as old *)
(* as that, because only a running task lets "running" be published.       *)
THEOREM DeadLooksUnhealthy == Spec => []HealthyMeansAlive
<1>1. IInv => HealthyMeansAlive
  BY RuntimeAssumption DEF IInv, GoneFits, TypeOK, HealthyMeansAlive, LooksHealthy
<1> QED  BY <1>1, RuntimeInvariant, PTL

(* What may never happen when "stopped" is published.                      *)
Clean ==
    supervisor # "off" /\ status' # status /\ status'.state = "stopped" =>
        /\ collector \notin {"running", "leaving"}
        /\ lost \/ collector \in {"abandoned", "cancelled"} =>
               supervisor = "cancelled" \/ task.state = "cancelled"

LEMMA StepIsClean ==
    ASSUME IInv, [Next]_vars
    PROVE  Clean
<1> SUFFICES ASSUME supervisor # "off", status' # status, status'.state = "stopped"
             PROVE  /\ collector \notin {"running", "leaving"}
                    /\ lost \/ collector \in {"abandoned", "cancelled"} =>
                           supervisor = "cancelled" \/ task.state = "cancelled"
  BY DEF Clean
<1>1. status.state # "stopped"
  BY DEF IInv, StatusFits
<1>2. CASE Ended /\ Stopped
  BY <1>2 DEF Stopped, DrainFailed, Leave, Publish, Ended, IInv, CollectorFits
<1>3. CASE Shutdown
  BY <1>3 DEF Shutdown, Leave, Publish, Ended, IInv, CollectorFits
<1>4. CASE Poll \/ DrainAwaited
  BY <1>2, <1>4 DEF Poll, Publish, Fail, Leave, DrainAwaited
<1>5. CASE Wake \/ PublishFails \/ Cancel \/ DiscoverRaises \/ CollectorRaises
  BY <1>5 DEF Wake, PublishFails, Fail, Leave, Publish, Cancel, DiscoverRaises, CollectorRaises
<1>6. CASE Task \/ CollectorEnds
  BY <1>6 DEF Task, Discover, Retry, Rotate, Drained, CollectorEnds
<1>7. CASE Start \/ Operator \/ Signal \/ Crash
  BY <1>7 DEF Start, Operator, Signal, Crash
<1>8. CASE Tick
  <2>1. status'.state = status.state
    BY <1>8 DEF Tick, IInv, TypeOK
  <2> QED  BY <1>1, <2>1
<1>9. CASE UNCHANGED vars
  BY <1>9 DEF vars
<1> QED  BY <1>3, <1>4, <1>5, <1>6, <1>7, <1>8, <1>9 DEF Next, Supervisor, World

(* The type invariant, for every value of the constants: supervisor, task, *)
(* collector and status are in states the program names.                   *)
THEOREM ServiceTypes == Spec => []TypeOK
<1>1. IInv => TypeOK
  BY DEF IInv
<1> QED  BY <1>1, RuntimeInvariant, PTL

(* StoppedIsClean for every value of the constants: run_forward_collector_ *)
(* runtime waits for its task before it publishes "stopped", and a         *)
(* collector that raised, or was cut short, shows in it.                   *)
THEOREM StopIsClean == Spec => StoppedIsClean
<1>1. IInv /\ [Next]_vars => [Clean]_vars
  BY StepIsClean
<1> QED  BY <1>1, RuntimeInvariant, PTL DEF Spec, StoppedIsClean, Clean

OnlyNewWindows ==
    collector' = "running" /\ collector # "running" => task'.market \notin used

(* WindowsOnce for every window size and hand-off delay: a collector is    *)
(* only left when the time of its window is over, a stop was requested or  *)
(* it raised, and in the last two cases no other one follows.              *)
THEOREM WindowIsUsedOnce == Spec => WindowsOnce
<1>1. ASSUME IInv, [Next]_vars
      PROVE  OnlyNewWindows
  <2> SUFFICES ASSUME collector' = "running", collector # "running"
               PROVE  task'.market \notin used
    BY DEF OnlyNewWindows
  <2>1. Discover
    BY <1>1 DEF Next, Supervisor, Poll, Wake, DrainAwaited, Shutdown, Task, Retry, Rotate,
                Drained, CollectorEnds, World, Start, Operator, Signal, Crash, Tick,
                PublishFails, Cancel, TaskCancelled, Interrupted, DiscoverRaises,
                CollectorRaises, vars
  <2>2. task.state = "discovering" /\ task'.market = task.market
    BY <1>1, <2>1 DEF Discover, IInv, TypeOK
  <2> QED  BY <1>1, <2>2 DEF IInv, TypeOK, UsedFits
<1>2. IInv /\ [Next]_vars => [OnlyNewWindows]_vars
  BY <1>1
<1> QED  BY <1>2, RuntimeInvariant, PTL DEF Spec, WindowsOnce, OnlyNewWindows
=============================================================================
