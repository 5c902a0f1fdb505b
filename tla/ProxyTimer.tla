------------------------------- MODULE ProxyTimer -------------------------------
(***************************************************************************)
(* The timer side of a proxy: the thread of ProxyEpochTimer                *)
(* (impl/proxy/proxy_epoch_timer.h), the SlotScheduler it works on         *)
(* (impl/proxy/slot_scheduler.h), the self-assigned slots of               *)
(* Proxy::update_slot_estimate, and the FREEZE and INCLUDE_PROXY handlers  *)
(* that pause and start the timer from a connection thread                 *)
(* (impl/proxy/proxy.cpp).                                                 *)
(*                                                                         *)
(* Time is counted in EpochDurationUnits and kept relative to the current  *)
(* instant: a timestamp t of the code appears as t - now(), and Tick       *)
(* decrements all of them, so that the system runs for ever in a finite    *)
(* state space.  Sequence numbers are kept modulo SeqMod for the same      *)
(* reason.  next_send_ = 0, "no slot", is << >> here.                      *)
(***************************************************************************)
EXTENDS Integers, Sequences, FiniteSets

CONSTANTS
    EpochDuration,  \* ProxyConfig::epoch_duration
    MaxLag,         \* bound on how late a thread, or replicate_bytes, may be
    SeqMod          \* sequence numbers are uint64_t; here modulo SeqMod

ASSUME TimerAssumption ==
    /\ EpochDuration \in Nat \ {0}
    /\ MaxLag \in Nat
    /\ SeqMod \in Nat \ {0, 1}

VARIABLES
    pc,             \* where the timer thread is in run()
    epoch_end,      \* epoch_end_tp
    batch,          \* the popped slot, << >> or <<[ts, seq]>>
    timeouts, sequences, next_send,     \* SlotScheduler
    next_seq,       \* Proxy::next_seq_
    last_sent,      \* history: the sequence number handed to send_out_batch last
    running, paused,
    joinable,       \* thread_ holds a thread that was not joined
    stopping,       \* where the destructor is: in the stop() of ~Proxy, or of the timer
    registered,     \* Proxy::registered_
    after_pause,    \* history: slots assigned since paused_ was set, up to 2
    terminated      \* std::terminate was called

sched == << timeouts, sequences, next_send >>
life == << running, paused, joinable, stopping, registered, terminated >>
vars == << pc, epoch_end, batch, sched, next_seq, last_sent, life, after_pause >>

Inc(n) == (n + 1) % SeqMod
FrontOrNone(q) == IF q = << >> THEN << >> ELSE << Head(q) >>

----------------------------------------------------------------------------
(***************************************************************************)
(* Both constructors of Proxy start the timer: the one for a registered    *)
(* proxy, and the one for a proxy that still has to join.                  *)
(***************************************************************************)
Init ==
    /\ pc = "begin"
    /\ epoch_end = 0
    /\ batch = << >>
    /\ timeouts = << >> /\ sequences = << >> /\ next_send = << >>
    /\ next_seq = 1
    /\ last_sent = 0
    /\ running = TRUE /\ paused = FALSE /\ joinable = TRUE /\ stopping = "no"
    /\ terminated = FALSE
    /\ registered \in BOOLEAN
    /\ after_pause = 0

----------------------------------------------------------------------------
(***************************************************************************)
(* SlotScheduler, each operation under its mutex.                          *)
(***************************************************************************)
load_slots(ts, seq) ==
    /\ timeouts' = Append(timeouts, ts)
    /\ sequences' = Append(sequences, seq)
    /\ next_send' = << Head(timeouts') >>

CanPop == next_send # << >> /\ sequences # << >>

\* Mutant: next_send_ is not advanced.
PopKeepsNextSend ==
    /\ CanPop
    /\ batch' = << [ts |-> Head(timeouts), seq |-> Head(sequences)] >>
    /\ timeouts' = Tail(timeouts)
    /\ sequences' = Tail(sequences)
    /\ UNCHANGED next_send

pop_next_slot ==
    /\ CanPop
    /\ batch' = << [ts |-> Head(timeouts), seq |-> Head(sequences)] >>
    /\ timeouts' = Tail(timeouts)
    /\ sequences' = Tail(sequences)
    /\ next_send' = FrontOrNone(timeouts')

\* Mutant: the slot goes to the end of the deques.
PushBack(ts, seq) ==
    /\ timeouts' = Append(timeouts, ts)
    /\ sequences' = Append(sequences, seq)
    /\ next_send' = << Head(timeouts') >>

push_front(ts, seq) ==
    /\ timeouts' = << ts >> \o timeouts
    /\ sequences' = << seq >> \o sequences
    /\ next_send' = << ts >>

----------------------------------------------------------------------------
(***************************************************************************)
(* ProxyEpochTimer::run                                                    *)
(***************************************************************************)
Begin ==
    /\ pc = "begin"
    /\ epoch_end' = EpochDuration
    /\ pc' = "top"
    /\ UNCHANGED << batch, sched, next_seq, last_sent, life, after_pause >>

\* Mutant: paused_ is not looked at.
LoopTopIgnoresPause ==
    /\ pc = "top"
    /\ pc' = IF running THEN "epoch" ELSE "exited"
    /\ UNCHANGED << epoch_end, batch, sched, next_seq, last_sent, life, after_pause >>

\* while (running_) { if (paused_) break; ...
LoopTop ==
    /\ pc = "top"
    /\ pc' = IF running /\ ~paused THEN "epoch" ELSE "exited"
    /\ UNCHANGED << epoch_end, batch, sched, next_seq, last_sent, life, after_pause >>

\* on_epoch_end_ is update_slot_estimate: one slot, one epoch from now.
update_slot_estimate ==
    /\ pc = "epoch"
    /\ load_slots(EpochDuration, next_seq)
    /\ next_seq' = Inc(next_seq)
    /\ after_pause' = IF paused /\ after_pause < 2 THEN after_pause + 1 ELSE after_pause
    /\ pc' = "drain"
    /\ UNCHANGED << epoch_end, batch, last_sent, life >>

\* while (next_batch_info_(batch_ts, batch_seq))
NextBatchInfo ==
    /\ pc = "drain"
    /\ \/ pop_next_slot /\ pc' = "popped"
       \/ ~CanPop /\ pc' = "sleep_epoch" /\ UNCHANGED << batch, sched >>
    /\ UNCHANGED << epoch_end, next_seq, last_sent, life, after_pause >>

\* Mutant: the break after push_front_slot_ is missing.
PutBackNoBreak ==
    /\ pc = "popped"
    /\ batch[1].ts > epoch_end
    /\ push_front(batch[1].ts, batch[1].seq)
    /\ batch' = << >>
    /\ pc' = "drain"
    /\ UNCHANGED << epoch_end, next_seq, last_sent, life, after_pause >>

\* The slot belongs to the next epoch and goes back to the scheduler.
PutBack ==
    /\ pc = "popped"
    /\ batch[1].ts > epoch_end
    /\ push_front(batch[1].ts, batch[1].seq)
    /\ batch' = << >>
    /\ pc' = "sleep_epoch"
    /\ UNCHANGED << epoch_end, next_seq, last_sent, life, after_pause >>

KeepSlot ==
    /\ pc = "popped"
    /\ batch[1].ts <= epoch_end
    /\ pc' = "sleep_slot"
    /\ UNCHANGED << epoch_end, batch, sched, next_seq, last_sent, life, after_pause >>

\* sleep_until(batch_send_tp), then on_send_batch_ starts
SendStart ==
    /\ pc = "sleep_slot"
    /\ batch[1].ts <= 0
    /\ last_sent' = batch[1].seq
    /\ batch' = << >>
    /\ pc' = "sending"
    /\ UNCHANGED << epoch_end, sched, next_seq, life, after_pause >>

\* send_out_batch returns
SendDone ==
    /\ pc = "sending"
    /\ pc' = "drain"
    /\ UNCHANGED << epoch_end, batch, sched, next_seq, last_sent, life, after_pause >>

\* sleep_until(epoch_end_tp); epoch_end_tp += epoch_duration
EpochEnds ==
    /\ pc = "sleep_epoch"
    /\ epoch_end <= 0
    /\ epoch_end' = epoch_end + EpochDuration
    /\ pc' = "top"
    /\ UNCHANGED << batch, sched, next_seq, last_sent, life, after_pause >>

TimerStep ==
    /\ ~terminated
    /\ \/ Begin \/ LoopTop \/ update_slot_estimate \/ NextBatchInfo
       \/ PutBack \/ KeepSlot \/ SendStart \/ SendDone \/ EpochEnds

----------------------------------------------------------------------------
(***************************************************************************)
(* The connection thread's handlers, which run until ~Proxy has shut the   *)
(* node down, after its stop() and before the timer's own destructor.      *)
(***************************************************************************)
work == << epoch_end, batch, sched, next_seq, last_sent, after_pause >>

Freeze ==
    /\ ~terminated /\ stopping # "again"
    /\ registered' = FALSE
    /\ paused' = TRUE
    /\ UNCHANGED << pc, work, running, joinable, stopping, terminated >>

(***************************************************************************)
(* start() assigns a new std::thread to thread_.  thread_ has been         *)
(* joinable since the constructor, also when run() has returned, and the   *)
(* assignment to a joinable std::thread calls std::terminate.  Only after  *)
(* the join in stop() does it start another run().                         *)
(***************************************************************************)
IncludeProxy ==
    /\ ~terminated /\ stopping # "again"
    /\ ~registered
    /\ registered' = TRUE
    /\ running' = TRUE
    /\ joinable' = TRUE
    /\ terminated' = joinable
    /\ pc' = IF joinable THEN pc ELSE "begin"
    /\ UNCHANGED << work, paused, stopping >>

\* stop() clears running_: called by ~Proxy, and again by ~ProxyEpochTimer ...
Stop ==
    /\ ~terminated /\ stopping \in {"no", "stopped"}
    /\ stopping' = IF stopping = "no" THEN "join" ELSE "again"
    /\ running' = FALSE
    /\ UNCHANGED << pc, work, paused, joinable, registered, terminated >>

\* ... and joins the thread.
Joined ==
    /\ ~terminated /\ stopping = "join" /\ pc = "exited"
    /\ stopping' = "stopped"
    /\ joinable' = FALSE
    /\ UNCHANGED << pc, work, running, paused, registered, terminated >>

(***************************************************************************)
(* Time passes, for as long as nothing that is due is later than MaxLag.   *)
(***************************************************************************)
OnTime(t) == t > -MaxLag

Tick ==
    /\ ~terminated
    /\ pc \notin {"begin", "exited"}
    /\ OnTime(epoch_end)
    /\ \A i \in 1..Len(timeouts) : OnTime(timeouts[i])
    /\ batch # << >> => OnTime(batch[1].ts)
    /\ epoch_end' = epoch_end - 1
    /\ timeouts' = [i \in 1..Len(timeouts) |-> timeouts[i] - 1]
    /\ next_send' = FrontOrNone(timeouts')
    /\ batch' = IF batch = << >> THEN << >> ELSE << [batch[1] EXCEPT !.ts = @ - 1] >>
    /\ UNCHANGED << pc, sequences, next_seq, last_sent, life, after_pause >>

Halted ==
    /\ terminated \/ pc = "exited"
    /\ UNCHANGED vars

Next == TimerStep \/ Freeze \/ IncludeProxy \/ Stop \/ Joined \/ Tick \/ Halted

\* The timer thread is scheduled and time passes; send_out_batch returns.
Spec == Init /\ [][Next]_vars /\ WF_vars(TimerStep) /\ WF_vars(Tick)

----------------------------------------------------------------------------
\* No queue is longer than the epochs a thread may lag behind.
MaxSlots == (MaxLag \div EpochDuration) + 3

TypeOK ==
    /\ pc \in {"begin", "top", "epoch", "drain", "popped", "sleep_slot", "sending",
               "sleep_epoch", "exited"}
    /\ epoch_end \in (-MaxLag)..EpochDuration
    /\ Len(batch) <= 1 /\ Len(timeouts) <= MaxSlots
    /\ next_seq \in 0..(SeqMod - 1) /\ last_sent \in 0..(SeqMod - 1)

(***************************************************************************)
(* Slots are neither lost nor repeated nor reordered while they move       *)
(* between the deques and the timer thread: after last_sent come the       *)
(* popped slot, then the deque, then next_seq, consecutively.              *)
(***************************************************************************)
Outstanding == [i \in 1..Len(batch) |-> batch[i].seq] \o sequences

SlotsConsecutive ==
    \A i \in 1..(Len(Outstanding) + 1) :
        (Outstanding \o << next_seq >>)[i] = (last_sent + i) % SeqMod

(***************************************************************************)
(* The assertion of load_slots, timeouts_.size() == sequences_.size(),     *)
(* holds at every step; next_send_ is the first timeout or 0; and slots    *)
(* wait in the order of their timestamps, also after push_front.  The      *)
(* variables keep their types.                                             *)
(***************************************************************************)
SchedulerConsistent ==
    /\ TypeOK
    /\ Len(timeouts) = Len(sequences)
    /\ next_send = FrontOrNone(timeouts)
    /\ \A i \in 1..(Len(timeouts) - 1) : timeouts[i] <= timeouts[i + 1]
    /\ (batch # << >> /\ timeouts # << >>) => batch[1].ts <= timeouts[1]

(***************************************************************************)
(* After FREEZE has set paused_ the timer assigns at most one more         *)
(* sequence number: the one of a thread already past its check.            *)
(***************************************************************************)
AtMostOneSlotAfterPause == after_pause <= 1

\* Every slot of a proxy that is not frozen is sent in the end: the timer
\* keeps sending for ever, however often a slot is put back.
KeepsSending ==
    \A n \in 0..(SeqMod - 1) : []<>(last_sent = n \/ ~running \/ paused \/ terminated)
=============================================================================
