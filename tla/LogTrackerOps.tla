------------------------------ MODULE LogTrackerOps ------------------------------
(***************************************************************************)
(* The state of a subscriber's LogTracker (impl/subscriber/log_tracker.h)  *)
(* as a record, and the operations on it as operators on that record.      *)
(* Every public operation of the class runs under the mutex mu_, so one    *)
(* application of an operator is one atomic step of a component.           *)
(*                                                                         *)
(*   log            log_ without its placeholder at index 0, so that       *)
(*                  log[i] here is log_[i] in C++                          *)
(*   out_of_order   the std::map out_of_order_, a function on its keys     *)
(*   next_seq       next_seq_                                              *)
(*   pending_quorum pending_quorum_; an absent (erased) entry is {}        *)
(*   applied        applied_                                               *)
(*                                                                         *)
(* A batch is the sequence of commands that CommandBatch::deserialize      *)
(* returns; a SKIP carries no data and deserializes to the empty batch.    *)
(***************************************************************************)
EXTENDS Integers, Sequences, FiniteSets, SequencesExt

CONSTANTS
    Quorum,     \* BaseNode::quorum(), f + 1
    MaxSeq      \* bound on SequenceNumber (uint64_t in the code)

ASSUME QuorumAssumption == Quorum \in Nat \ {0}
ASSUME MaxSeqAssumption == MaxSeq \in Nat \ {0}

SeqNums == 1..MaxSeq

EmptyTracker ==
    [log            |-> << >>,
     out_of_order   |-> [s \in {} |-> << >>],
     next_seq       |-> 1,
     pending_quorum |-> [s \in SeqNums |-> {}],
     applied        |-> {}]

\* Mutant: the batch is not copied, only its key.
WithKeyNoCopy(map, seq, data) ==
    [s \in DOMAIN map \cup {seq} |-> IF s = seq THEN << >> ELSE map[s]]

\* out_of_order_[seq] = data: inserts or overwrites one key of the map.
WithKey(map, seq, data) ==
    [s \in DOMAIN map \cup {seq} |-> IF s = seq THEN data ELSE map[s]]

\* Mutant: the loop is an if: one entry is moved at most.
FirstGapOnce(map, from) == IF from \in DOMAIN map THEN from + 1 ELSE from

\* Where the loop "while (out_of_order_.count(next_seq_))" started at from
\* stops: the first sequence number that is not a key of the map.
FirstGap(map, from) ==
    CHOOSE m \in from..(MaxSeq + 1) :
        m \notin DOMAIN map /\ from..(m - 1) \subseteq DOMAIN map

\* Mutant: log_ is assigned the drained run instead of being extended by it.
ApplyReplacesLog(t, seq, data) ==
    LET ooo == WithKey(t.out_of_order, seq, data)
        gap == FirstGap(ooo, t.next_seq)
    IN  [t EXCEPT !.log = [i \in 1..(gap - t.next_seq) |-> ooo[t.next_seq + i - 1]],
                  !.out_of_order = [s \in DOMAIN ooo \ (t.next_seq..(gap - 1)) |-> ooo[s]],
                  !.next_seq = gap]

\* The batch joins out_of_order_, and the run of consecutive entries that
\* starts at next_seq_ moves from there to the end of the log.
apply_locked(t, seq, data) ==
    LET ooo == WithKey(t.out_of_order, seq, data)
        gap == FirstGap(ooo, t.next_seq)
    IN  [t EXCEPT !.log = [i \in 1..(gap - 1) |->
                             IF i < t.next_seq THEN t.log[i] ELSE ooo[i]],
                  !.out_of_order = [s \in DOMAIN ooo \ (t.next_seq..(gap - 1)) |-> ooo[s]],
                  !.next_seq = gap]

\* Mutant: > where the code has >=.
QuorumExceededBy(t, sender, seq) ==
    Cardinality(t.pending_quorum[seq] \cup {sender}) > Quorum

\* The vote of sender is the one that completes the quorum of seq.
QuorumReachedBy(t, sender, seq) ==
    Cardinality(t.pending_quorum[seq] \cup {sender}) >= Quorum

\* Mutant: the number after seq is marked as applied.
ObserveAppliesNext(t, sender, seq, data) ==
    IF seq \in t.applied
    THEN t
    ELSE IF QuorumReachedBy(t, sender, seq)
         THEN [apply_locked(t, seq, data) EXCEPT !.applied = @ \cup {seq + 1},
                                                 !.pending_quorum[seq] = {}]
         ELSE [t EXCEPT !.pending_quorum[seq] = @ \cup {sender}]

observe(t, sender, seq, data) ==
    IF seq \in t.applied
    THEN t
    ELSE IF QuorumReachedBy(t, sender, seq)
         THEN [apply_locked(t, seq, data) EXCEPT !.applied = @ \cup {seq},
                                                 !.pending_quorum[seq] = {}]
         ELSE [t EXCEPT !.pending_quorum[seq] = @ \cup {sender}]

\* observe reaches apply_locked, whose last statement is cv_.notify_all().
Notifies(t, sender, seq) ==
    seq \notin t.applied /\ QuorumReachedBy(t, sender, seq)
=============================================================================
