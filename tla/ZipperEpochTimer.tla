----------------------------- MODULE ZipperEpochTimer -----------------------------
(***************************************************************************)
(* The two threads of impl/zipper/zipper_epoch_timer.h: the timer thread   *)
(* sleeps until three quarters of an epoch and until its end, raises a     *)
(* flag each time and notifies; the worker thread sleeps until a flag is   *)
(* up and calls on_allocate_ or on_epoch_end_ without the mutex.  Both     *)
(* sleep on the same condition variable, which stop() notifies as well.    *)
(*                                                                         *)
(* A step is what a thread does under work_mu_, or one access outside it.  *)
(* Time is abstracted: a sleep of the timer thread may end at any moment.  *)
(* running_ is no atomic and is also read without the mutex; an old value  *)
(* is the one the same step would have read earlier, before stop() wrote   *)
(* it, and the next wait under the mutex sees the new one.                 *)
(* Names say Timer where Zipper, whose process this is, has the plain ones.*)
(***************************************************************************)
EXTENDS Integers

VARIABLES
    running,
    pending,        \* allocate_pending_ and epoch_end_pending_
    timer_pc, half, \* half: which of the two the timer thread waits for
    worker_pc,
    stop_pc,        \* the thread inside stop()
    allocations     \* how often slots were allocated for the current next_epoch_

timerVars == << running, pending, timer_pc, half, worker_pc, stop_pc, allocations >>

Halves == {"allocate", "epoch_end"}

\* After start().
TimerInit ==
    /\ running = TRUE
    /\ pending = [h \in Halves |-> FALSE]
    /\ timer_pc = "loop"
    /\ half = "allocate"
    /\ worker_pc = "loop"
    /\ stop_pc = "idle"
    /\ allocations = 0

----------------------------------------------------------------------------
(* The timer thread: run(). *)

TimerLoop ==
    /\ timer_pc = "loop"
    /\ timer_pc' = IF running THEN "wait" ELSE "done"
    /\ UNCHANGED << running, pending, half, worker_pc, stop_pc, allocations >>

\* cv_.wait_until evaluates !running_ before it sleeps and when it is woken.
TimerWait ==
    /\ timer_pc \in {"wait", "woken"}
    /\ timer_pc' = IF running THEN "asleep" ELSE "check"
    /\ UNCHANGED << running, pending, half, worker_pc, stop_pc, allocations >>

TimerTimesOut ==
    /\ timer_pc = "asleep"
    /\ timer_pc' = "check"
    /\ UNCHANGED << running, pending, half, worker_pc, stop_pc, allocations >>

TimerCheck ==
    /\ timer_pc = "check"
    /\ timer_pc' = IF running THEN "set" ELSE "done"
    /\ UNCHANGED << running, pending, half, worker_pc, stop_pc, allocations >>

\* Mutant: nobody is notified of the flag.
TimerSetsSilently ==
    /\ timer_pc = "set"
    /\ pending' = [pending EXCEPT ![half] = TRUE]
    /\ half' = IF half = "allocate" THEN "epoch_end" ELSE "allocate"
    /\ timer_pc' = IF half = "allocate" THEN "wait" ELSE "advance"
    /\ UNCHANGED << running, worker_pc, stop_pc, allocations >>

TimerSets ==
    /\ timer_pc = "set"
    /\ pending' = [pending EXCEPT ![half] = TRUE]
    /\ timer_pc' = "notify"
    /\ UNCHANGED << running, half, worker_pc, stop_pc, allocations >>

\* cv_.notify_one() from the timer thread can only reach the worker.
NotifyWorker == worker_pc' = IF worker_pc = "asleep" THEN "woken" ELSE worker_pc

TimerNotifies ==
    /\ timer_pc = "notify"
    /\ NotifyWorker
    /\ half' = IF half = "allocate" THEN "epoch_end" ELSE "allocate"
    /\ timer_pc' = IF half = "allocate" THEN "wait" ELSE "advance"
    /\ UNCHANGED << running, pending, stop_pc, allocations >>

\* next_epoch_ += epoch_duration_
TimerAdvances ==
    /\ timer_pc = "advance"
    /\ allocations' = 0
    /\ timer_pc' = "loop"
    /\ UNCHANGED << running, pending, half, worker_pc, stop_pc >>

----------------------------------------------------------------------------
(* The worker thread: work_loop(). *)

WorkerLoop ==
    /\ worker_pc = "loop"
    /\ worker_pc' = IF running THEN "wait" ELSE "done"
    /\ UNCHANGED << running, pending, timer_pc, half, stop_pc, allocations >>

\* Mutant: the end of an epoch is served before an allocation.
EpochEndFirst(p) == IF p["epoch_end"] THEN "epoch_end" ELSE "allocate"

\* An allocation is served before the end of an epoch.
Served(p) == IF p["allocate"] THEN "allocate" ELSE "epoch_end"

\* Mutant: the flag stays up.
WorkerKeepsFlag ==
    /\ worker_pc \in {"wait", "woken"}
    /\ worker_pc' = IF ~running THEN "done"
                    ELSE IF \E h \in Halves : pending[h] THEN Served(pending) ELSE "asleep"
    /\ UNCHANGED << running, pending, timer_pc, half, stop_pc, allocations >>

\* cv_.wait evaluates its predicate before it sleeps and when it is woken;
\* the flag is cleared under the same lock.
WorkerWait ==
    /\ worker_pc \in {"wait", "woken"}
    /\ IF ~running
       THEN worker_pc' = "done" /\ UNCHANGED pending
       ELSE IF \E h \in Halves : pending[h]
       THEN /\ worker_pc' = Served(pending)
            /\ pending' = [pending EXCEPT ![Served(pending)] = FALSE]
       ELSE worker_pc' = "asleep" /\ UNCHANGED pending
    /\ UNCHANGED << running, timer_pc, half, stop_pc, allocations >>

\* on_allocate_() reads next_epoch() for the window it allocates.
CallbackReadsEpoch ==
    /\ worker_pc = "allocate"
    /\ allocations' = allocations + 1
    /\ worker_pc' = "allocated"
    /\ UNCHANGED << running, pending, timer_pc, half, stop_pc >>

\* on_allocate_() or on_epoch_end_() returns.
CallbackReturns ==
    /\ worker_pc \in {"allocated", "epoch_end"}
    /\ worker_pc' = "loop"
    /\ UNCHANGED << running, pending, timer_pc, half, stop_pc, allocations >>

----------------------------------------------------------------------------
(* stop(), in the thread that destroys the timer. *)

CallStop ==
    /\ stop_pc = "idle"
    /\ stop_pc' = "set"
    /\ UNCHANGED << running, pending, timer_pc, half, worker_pc, allocations >>

StopClears ==
    /\ stop_pc = "set"
    /\ running' = FALSE
    /\ stop_pc' = "notify"
    /\ UNCHANGED << pending, timer_pc, half, worker_pc, allocations >>

\* Mutant: notify_one where the code has notify_all.
StopNotifiesOne ==
    /\ stop_pc = "notify"
    /\ IF timer_pc = "asleep"
       THEN timer_pc' = "woken" /\ UNCHANGED worker_pc
       ELSE NotifyWorker /\ UNCHANGED timer_pc
    /\ stop_pc' = "join_timer"
    /\ UNCHANGED << running, pending, half, allocations >>

StopNotifiesAll ==
    /\ stop_pc = "notify"
    /\ timer_pc' = IF timer_pc = "asleep" THEN "woken" ELSE timer_pc
    /\ NotifyWorker
    /\ stop_pc' = "join_timer"
    /\ UNCHANGED << running, pending, half, allocations >>

StopJoinsTimer ==
    /\ stop_pc = "join_timer" /\ timer_pc = "done"
    /\ stop_pc' = "join_worker"
    /\ UNCHANGED << running, pending, timer_pc, half, worker_pc, allocations >>

StopJoinsWorker ==
    /\ stop_pc = "join_worker" /\ worker_pc = "done"
    /\ stop_pc' = "returned"
    /\ UNCHANGED << running, pending, timer_pc, half, worker_pc, allocations >>

TimerThread ==
    TimerLoop \/ TimerWait \/ TimerTimesOut \/ TimerCheck \/ TimerSets
        \/ TimerNotifies \/ TimerAdvances

WorkerThread == WorkerLoop \/ WorkerWait \/ CallbackReadsEpoch \/ CallbackReturns

Stopped == stop_pc = "returned" /\ UNCHANGED timerVars

StopStep == StopClears \/ StopNotifiesAll \/ StopJoinsTimer \/ StopJoinsWorker

TimerNext == TimerThread \/ WorkerThread \/ CallStop \/ StopStep \/ Stopped

(***************************************************************************)
(* The threads are scheduled, a sleep ends at its time, and the callbacks  *)
(* return: allocate_slots and introduce_proxies send to other nodes and    *)
(* wait for no answer.                                                     *)
(***************************************************************************)
TimerFairness ==
    /\ WF_timerVars(TimerThread)
    /\ WF_timerVars(WorkerThread)
    /\ WF_timerVars(StopStep)

TimerSpec == TimerInit /\ [][TimerNext]_timerVars /\ TimerFairness

----------------------------------------------------------------------------
TimerTypeOK ==
    /\ running \in BOOLEAN /\ (running <=> stop_pc \in {"idle", "set"})
    /\ pending \in [Halves -> BOOLEAN]
    /\ timer_pc \in {"loop", "wait", "asleep", "woken", "check", "set", "notify",
                    "advance", "done"}
    /\ half \in Halves
    /\ worker_pc \in {"loop", "wait", "asleep", "woken", "allocated", "done"} \cup Halves
    /\ stop_pc \in {"idle", "set", "notify", "join_timer", "join_worker", "returned"}
    /\ allocations \in Nat

(***************************************************************************)
(* A callback that is late reads a later next_epoch_, so that windows are  *)
(* skipped and others allocated more than once; but never more than three  *)
(* times: a callback still under way, one trigger left over and the        *)
(* trigger of the epoch itself.                                            *)
(***************************************************************************)
AtMostThreePerWindow == allocations <= 3

(***************************************************************************)
(* The worker never sleeps through a trigger or through stop(): while it   *)
(* is asleep with something to do, the thread that gave it to do is still  *)
(* about to notify.  The variables keep their types.                       *)
(***************************************************************************)
WorkerNotForgotten ==
    /\ TimerTypeOK
    /\ worker_pc = "asleep" =>
        /\ (\E h \in Halves : pending[h]) => timer_pc = "notify" \/ stop_pc = "notify"
        /\ ~running => stop_pc = "notify"

(***************************************************************************)
(* A trigger for an allocation is followed by the callback, however long   *)
(* the callback before it took and whatever else is pending, unless the    *)
(* timer is stopped.  (The end of an epoch has no such guarantee: a worker *)
(* that is always late finds an allocation pending every time.)            *)
(***************************************************************************)
AllocationServed == pending["allocate"] ~> (worker_pc = "allocate" \/ ~running)

\* stop() returns, wherever the two threads are when it is called, and no
\* callback runs after it.
TimerStops ==
    /\ (stop_pc = "set") ~> (stop_pc = "returned")
    /\ [](stop_pc = "returned" => worker_pc = "done")
=============================================================================
