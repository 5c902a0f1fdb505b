------------------------------- MODULE LogTracker -------------------------------
(***************************************************************************)
(* One LogTracker driven by the connection threads of its subscriber       *)
(* (impl/subscriber/subscriber.cpp, one thread per server, each calling    *)
(* observe for every APPEND and SKIP it receives, in any interleaving) and *)
(* by reader threads that block in wait_for_size and wait_for_seq.         *)
(*                                                                         *)
(* Nothing is assumed of the messages: any server may report any batch for *)
(* any sequence number, several times and in any order.                    *)
(***************************************************************************)
EXTENDS LogTrackerOps

CONSTANTS
    Senders,    \* ids of the servers
    Batches,    \* the batches a message may carry; a SKIP carries << >>
    Readers     \* threads calling the blocking waits

ASSUME SendersAssumption == IsFiniteSet(Senders)

VARIABLES
    trk,        \* the LogTracker
    heard,      \* history: the <<sender, batch>> pairs observed per number
    reader      \* the state of each reader thread

vars == << trk, heard, reader >>

(***************************************************************************)
(* A reader is idle, asleep on cv_, woken and about to evaluate the        *)
(* predicate again, or returned from its wait.                             *)
(***************************************************************************)
Waits == [kind : {"size", "seq"}, arg : SeqNums]
ReaderStates == [pc : {"idle", "asleep", "woken", "returned"}, wait : Waits]

\* log_.size() counts the placeholder: log_.size() > count.
wait_for_size_done(t, count) == Len(t.log) + 1 > count
wait_for_seq_done(t, seq) == t.next_seq > seq

Satisfied(t, w) ==
    \/ w.kind = "size" /\ wait_for_size_done(t, w.arg)
    \/ w.kind = "seq" /\ wait_for_seq_done(t, w.arg)

AfterWait(t, w) == [pc |-> IF Satisfied(t, w) THEN "returned" ELSE "asleep", wait |-> w]

\* Mutant: notify_one where the code has notify_all.
NotifyOne(r) ==
    LET asleep == {x \in DOMAIN r : r[x].pc = "asleep"}
        one == CHOOSE x \in asleep : TRUE
    IN  IF asleep = {} THEN r ELSE [r EXCEPT ![one].pc = "woken"]

\* cv_.notify_all() wakes every thread asleep on the condition variable.
notify_all(r) ==
    [x \in DOMAIN r |-> IF r[x].pc = "asleep" THEN [r[x] EXCEPT !.pc = "woken"] ELSE r[x]]

----------------------------------------------------------------------------
Init ==
    /\ trk = EmptyTracker
    /\ heard = [s \in SeqNums |-> {}]
    /\ reader \in [Readers -> {[pc |-> "idle", wait |-> w] : w \in Waits}]

\* Subscriber::handle_connection: one APPEND or SKIP reaches the tracker.
Observe(sender, seq, batch) ==
    /\ trk' = observe(trk, sender, seq, batch)
    /\ heard' = [heard EXCEPT ![seq] = @ \cup {<<sender, batch>>}]
    /\ reader' = IF Notifies(trk, sender, seq) THEN notify_all(reader) ELSE reader

\* wait_for_size or wait_for_seq takes mu_ and evaluates its predicate.
CallWait(r) ==
    /\ reader[r].pc = "idle"
    /\ reader' = [reader EXCEPT ![r] = AfterWait(trk, reader[r].wait)]
    /\ UNCHANGED << trk, heard >>

\* A woken reader has mu_ again and evaluates its predicate once more.
Recheck(r) ==
    /\ reader[r].pc = "woken"
    /\ reader' = [reader EXCEPT ![r] = AfterWait(trk, reader[r].wait)]
    /\ UNCHANGED << trk, heard >>

Next ==
    \/ \E sender \in Senders, seq \in SeqNums, batch \in Batches : Observe(sender, seq, batch)
    \/ \E r \in Readers : CallWait(r) \/ Recheck(r)

\* A woken thread is scheduled: std::condition_variable::wait returns once
\* the mutex is free, and observe holds the mutex for a bounded time.
Fairness == \A r \in Readers : WF_vars(Recheck(r))

Spec == Init /\ [][Next]_vars /\ Fairness

----------------------------------------------------------------------------
Trackers ==
    [log            : Seq(Batches),
     out_of_order   : UNION {[D -> Batches] : D \in SUBSET SeqNums},
     next_seq       : 1..(MaxSeq + 1),
     pending_quorum : [SeqNums -> SUBSET Senders],
     applied        : SUBSET SeqNums]

TypeOK ==
    /\ trk \in Trackers
    /\ heard \in [SeqNums -> SUBSET (Senders \X Batches)]
    /\ reader \in [Readers -> ReaderStates]

HeardFrom(s) == {h[1] : h \in heard[s]}
HasQuorum(s) == Cardinality(HeardFrom(s)) >= Quorum

(***************************************************************************)
(* A sequence number counts as applied exactly when Quorum distinct        *)
(* servers have reported it: not by a server repeating itself, and not     *)
(* missed because pending_quorum_ was erased or an early return taken.     *)
(***************************************************************************)
AppliedIffQuorum == \A s \in SeqNums : s \in trk.applied <=> HasQuorum(s)

(***************************************************************************)
(* The log a reader sees is the longest prefix of the sequence numbers     *)
(* that have their quorum: no hole is skipped, and nothing ready is held   *)
(* back in out_of_order_ however the numbers arrived.                      *)
(***************************************************************************)
LogIsQuorumPrefix ==
    /\ Len(trk.log) = trk.next_seq - 1
    /\ \A s \in 1..Len(trk.log) : HasQuorum(s)
    /\ trk.next_seq \in SeqNums => ~HasQuorum(trk.next_seq)

(***************************************************************************)
(* An applied number is in exactly one place, the log or out_of_order_,    *)
(* and a number still counting votes is in neither.                        *)
(***************************************************************************)
Partition ==
    /\ trk.applied = 1..(trk.next_seq - 1) \cup DOMAIN trk.out_of_order
    /\ \A s \in DOMAIN trk.out_of_order : s > trk.next_seq
    /\ \A s \in SeqNums :
          trk.pending_quorum[s] = IF s \in trk.applied THEN {} ELSE HeardFrom(s)

SentFor(s, batch, votes) == \E snd \in Senders : <<snd, batch>> \in votes[s]

\* A batch in the log, or parked for it, at s is one some server sent for s.
EntriesWereSent ==
    /\ \A s \in 1..Len(trk.log) : SentFor(s, trk.log[s], heard)
    /\ \A s \in DOMAIN trk.out_of_order : SentFor(s, trk.out_of_order[s], heard)

(***************************************************************************)
(* What a reader has seen stays: every step keeps the log as a prefix of   *)
(* the new one.                                                            *)
(***************************************************************************)
LogAppendOnly == [][IsPrefix(trk.log, trk.log')]_trk

(***************************************************************************)
(* No wakeup is lost: a reader is never asleep while what it waits for is  *)
(* already there.                                                          *)
(***************************************************************************)
NoLostWakeup ==
    \A r \in Readers : reader[r].pc = "asleep" => ~Satisfied(trk, reader[r].wait)

\* A reader whose wait is satisfied returns from it.
WaitersReturn ==
    \A r \in Readers :
        (reader[r].pc \in {"asleep", "woken"} /\ Satisfied(trk, reader[r].wait))
            ~> reader[r].pc = "returned"
=============================================================================
