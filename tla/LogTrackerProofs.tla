---------------------------- MODULE LogTrackerProofs ----------------------------
(***************************************************************************)
(* Proofs about LogTracker, for any finite set of servers, any quorum, any *)
(* bound on sequence numbers, any batches and any readers.                 *)
(***************************************************************************)
EXTENDS LogTracker, LogTrackerOpsProofs

----------------------------------------------------------------------------
(***************************************************************************)
(* The lemmas of LogTrackerOpsProofs for this component's servers and      *)
(* batches.                                                                *)
(***************************************************************************)
Maps == MapsOf(Batches)

LEMMA MapsFacts ==
    ASSUME NEW f
    PROVE  f \in Maps <=> DOMAIN f \subseteq SeqNums /\ f \in [DOMAIN f -> Batches]
BY MapsOfFacts DEF Maps

Ready(t) ==
    /\ t \in Trackers
    /\ Len(t.log) = t.next_seq - 1
    /\ \A s \in DOMAIN t.out_of_order : s > t.next_seq

LEMMA ReadyIs ==
    ASSUME NEW t
    PROVE  Ready(t) <=> ReadyOf(t, Senders, Batches)
<1>1. Trackers = TrackersOf(Senders, Batches)
  BY DEF Trackers, TrackersOf, MapsOf
<1> QED
  BY <1>1 DEF Ready, ReadyOf

LEMMA ApplyLocked ==
    ASSUME NEW t, Ready(t),
           NEW seq \in SeqNums, seq >= t.next_seq, seq \notin DOMAIN t.out_of_order,
           NEW data \in Batches,
           NEW r, r = apply_locked(t, seq, data)
    PROVE  /\ Ready(r)
           /\ r.pending_quorum = t.pending_quorum
           /\ r.applied = t.applied
           /\ r.next_seq >= t.next_seq
           /\ 1..(r.next_seq - 1) \cup DOMAIN r.out_of_order
                = 1..(t.next_seq - 1) \cup DOMAIN t.out_of_order \cup {seq}
           /\ \A i \in 1..(t.next_seq - 1) : r.log[i] = t.log[i]
           /\ \A i \in t.next_seq..(r.next_seq - 1) :
                 \/ i = seq /\ r.log[i] = data
                 \/ i \in DOMAIN t.out_of_order /\ r.log[i] = t.out_of_order[i]
           /\ \A s \in DOMAIN r.out_of_order :
                 \/ s = seq /\ r.out_of_order[s] = data
                 \/ s \in DOMAIN t.out_of_order /\ r.out_of_order[s] = t.out_of_order[s]
BY ReadyIs, ApplyLockedOf

----------------------------------------------------------------------------
(***************************************************************************)
(* The inductive invariant.  AppliedIffQuorum alone is not inductive: it   *)
(* needs Partition, by which pending_quorum_ holds exactly the votes heard *)
(* for a number not applied yet, and Partition needs the tracker Ready.    *)
(***************************************************************************)
TrackerInv ==
    /\ TypeOK
    /\ Len(trk.log) = trk.next_seq - 1
    /\ Partition
    /\ AppliedIffQuorum
    /\ EntriesWereSent
    /\ NoLostWakeup

LEMMA TrackerFields ==
    ASSUME TypeOK
    PROVE  /\ trk = [log |-> trk.log, out_of_order |-> trk.out_of_order,
                     next_seq |-> trk.next_seq, pending_quorum |-> trk.pending_quorum,
                     applied |-> trk.applied]
           /\ trk.log \in Seq(Batches)
           /\ trk.next_seq \in 1..(MaxSeq + 1)
           /\ trk.pending_quorum \in [SeqNums -> SUBSET Senders]
           /\ trk.applied \in SUBSET SeqNums
           /\ trk.out_of_order \in Maps
           /\ DOMAIN trk.out_of_order \subseteq SeqNums
<1>1. trk \in Trackers
  BY DEF TypeOK
<1>2. trk.out_of_order \in Maps
  BY <1>1 DEF Trackers, Maps, MapsOf
<1> QED
  BY <1>1, <1>2, MapsFacts DEF Trackers

\* The servers heard for a number are among the servers, hence finitely many.
LEMMA HeardFromFinite ==
    ASSUME TypeOK, NEW s \in SeqNums
    PROVE  /\ HeardFrom(s) \subseteq Senders
           /\ IsFiniteSet(HeardFrom(s))
           /\ Cardinality(HeardFrom(s)) \in Nat
<1>1. HeardFrom(s) \subseteq Senders
  BY DEF TypeOK, HeardFrom
<1> QED
  BY <1>1, SendersAssumption, FS_Subset, FS_CardinalityType

\* An observed message adds its sender's vote to its own number only.
LEMMA ObserveHears ==
    ASSUME TypeOK, NEW sender \in Senders, NEW seq \in SeqNums, NEW batch \in Batches,
           Observe(sender, seq, batch)
    PROVE  /\ heard' \in [SeqNums -> SUBSET (Senders \X Batches)]
           /\ HeardFrom(seq)' = HeardFrom(seq) \cup {sender}
           /\ \A s \in SeqNums \ {seq} : HeardFrom(s)' = HeardFrom(s)
           /\ \A s \in SeqNums : heard[s] \subseteq heard'[s]
           /\ <<sender, batch>> \in heard'[seq]
<1>1. /\ heard' = [heard EXCEPT ![seq] = @ \cup {<<sender, batch>>}]
      /\ heard \in [SeqNums -> SUBSET (Senders \X Batches)]
  BY DEF Observe, TypeOK
<1>2. /\ heard' \in [SeqNums -> SUBSET (Senders \X Batches)]
      /\ heard'[seq] = heard[seq] \cup {<<sender, batch>>}
      /\ \A s \in SeqNums \ {seq} : heard'[s] = heard[s]
  BY <1>1
<1>3. HeardFrom(seq)' = HeardFrom(seq) \cup {sender}
  <2>1. HeardFrom(seq)' = {h[1] : h \in heard[seq] \cup {<<sender, batch>>}}
    BY <1>2 DEF HeardFrom
  <2>2. \A x : x \in HeardFrom(seq)' <=>
              \E h \in heard[seq] \cup {<<sender, batch>>} : x = h[1]
    BY <2>1
  <2>3. \A x : x \in HeardFrom(seq) <=> \E h \in heard[seq] : x = h[1]
    BY DEF HeardFrom
  <2>4. <<sender, batch>>[1] = sender
    OBVIOUS
  <2> QED
    BY <2>2, <2>3, <2>4
<1>4. \A s \in SeqNums \ {seq} : HeardFrom(s)' = HeardFrom(s)
  BY <1>2 DEF HeardFrom
<1> QED
  BY <1>2, <1>3, <1>4

\* A quorum once heard stays heard.
LEMMA QuorumStays ==
    ASSUME TypeOK, NEW s \in SeqNums, HasQuorum(s),
           HeardFrom(s)' \subseteq Senders, HeardFrom(s) \subseteq HeardFrom(s)'
    PROVE  HasQuorum(s)'
<1>1. IsFiniteSet(HeardFrom(s)') /\ Cardinality(HeardFrom(s)') \in Nat
  BY SendersAssumption, FS_Subset, FS_CardinalityType
<1>2. Cardinality(HeardFrom(s)) <= Cardinality(HeardFrom(s)')
  BY <1>1, FS_Subset
<1> QED
  BY <1>1, <1>2, HeardFromFinite, QuorumAssumption DEF HasQuorum

----------------------------------------------------------------------------
LEMMA InitTracker == Init => TrackerInv
<1> SUFFICES ASSUME Init PROVE TrackerInv
  OBVIOUS
<1>1. /\ trk.log = << >> /\ trk.next_seq = 1 /\ trk.applied = {}
      /\ trk.out_of_order = [s \in {} |-> << >>]
      /\ trk.pending_quorum = [s \in SeqNums |-> {}]
  BY DEF Init, EmptyTracker
<1>2. trk.out_of_order \in Maps
  BY <1>1, MapsFacts
<1>3. TypeOK
  <2>1. trk \in Trackers
    <3>1. trk = [log |-> trk.log, out_of_order |-> trk.out_of_order,
                 next_seq |-> trk.next_seq, pending_quorum |-> trk.pending_quorum,
                 applied |-> trk.applied]
      BY DEF Init, EmptyTracker
    <3>2. trk.log \in Seq(Batches) /\ trk.next_seq \in 1..(MaxSeq + 1)
      BY <1>1, MaxSeqAssumption
    <3>3. trk.pending_quorum \in [SeqNums -> SUBSET Senders] /\ trk.applied \in SUBSET SeqNums
      BY <1>1
    <3> QED
      BY <1>2, <3>1, <3>2, <3>3 DEF Trackers, Maps, MapsOf
  <2>2. reader \in [Readers -> ReaderStates]
    BY DEF Init, ReaderStates
  <2> QED
    BY <2>1, <2>2 DEF TypeOK, Init
<1>4. \A s \in SeqNums : HeardFrom(s) = {}
  BY DEF Init, HeardFrom
<1>5. AppliedIffQuorum
  BY <1>1, <1>4, FS_EmptySet, QuorumAssumption DEF AppliedIffQuorum, HasQuorum
<1>6. Partition
  BY <1>1, <1>4 DEF Partition
<1>7. EntriesWereSent
  BY <1>1 DEF EntriesWereSent
<1>8. NoLostWakeup
  BY DEF Init, NoLostWakeup
<1> QED
  BY <1>1, <1>3, <1>5, <1>6, <1>7, <1>8 DEF TrackerInv

\* What one call of observe does to the tracker, the log included.
LEMMA ObserveTracker ==
    ASSUME TrackerInv, NEW sender \in Senders, NEW seq \in SeqNums, NEW batch \in Batches,
           Observe(sender, seq, batch)
    PROVE  /\ trk' \in Trackers
           /\ Len(trk'.log) = trk'.next_seq - 1
           /\ Partition' /\ AppliedIffQuorum' /\ EntriesWereSent'
           /\ IsPrefix(trk.log, trk'.log)
           /\ Notifies(trk, sender, seq) \/ (trk'.log = trk.log /\ trk'.next_seq = trk.next_seq)
<1> DEFINE votes == trk.pending_quorum[seq] \cup {sender}
<1>0. /\ trk' = observe(trk, sender, seq, batch) /\ TypeOK /\ Partition
      /\ AppliedIffQuorum /\ EntriesWereSent /\ trk \in Trackers
      /\ Len(trk.log) = trk.next_seq - 1
  BY DEF Observe, TrackerInv, TypeOK
<1>1. /\ heard' \in [SeqNums -> SUBSET (Senders \X Batches)]
      /\ HeardFrom(seq)' = HeardFrom(seq) \cup {sender}
      /\ \A s \in SeqNums \ {seq} : HeardFrom(s)' = HeardFrom(s)
      /\ \A s \in SeqNums : heard[s] \subseteq heard'[s]
      /\ <<sender, batch>> \in heard'[seq]
  BY <1>0, ObserveHears
<1>2. \A s \in SeqNums \ {seq} : HasQuorum(s)' <=> HasQuorum(s)
  BY <1>1 DEF HasQuorum
<1>3. \A s \in SeqNums : \A b : SentFor(s, b, heard) => SentFor(s, b, heard')
  BY <1>1 DEF SentFor
<1>4. SentFor(seq, batch, heard')
  BY <1>1 DEF SentFor
<1>5. CASE seq \in trk.applied
  <2>1. trk' = trk
    BY <1>0, <1>5 DEF observe
  <2>2. HasQuorum(seq)'
    <3>1. HasQuorum(seq)
      BY <1>0, <1>5 DEF AppliedIffQuorum
    <3>2. HeardFrom(seq)' \subseteq Senders
      BY <1>1 DEF HeardFrom
    <3> QED
      BY <1>0, <1>1, <3>1, <3>2, QuorumStays
  <2>3. AppliedIffQuorum'
    BY <1>0, <1>2, <1>5, <2>1, <2>2 DEF AppliedIffQuorum
  <2>4. Partition'
    BY <1>0, <1>1, <1>5, <2>1 DEF Partition
  <2>5. EntriesWereSent'
    <3>1. 1..Len(trk.log) \subseteq SeqNums /\ DOMAIN trk.out_of_order \subseteq SeqNums
      BY <1>0, TrackerFields, MaxSeqAssumption DEF SeqNums
    <3> QED
      BY <1>0, <1>3, <2>1, <3>1 DEF EntriesWereSent
  <2>6. IsPrefix(trk.log, trk'.log)
    BY <1>0, <2>1, TrackerFields DEF IsPrefix
  <2> QED
    BY <1>0, <2>1, <2>3, <2>4, <2>5, <2>6
<1>6. CASE seq \notin trk.applied /\ ~QuorumReachedBy(trk, sender, seq)
  <2>1. trk' = [trk EXCEPT !.pending_quorum[seq] = votes]
    BY <1>0, <1>6 DEF observe
  <2>2. trk' = [log |-> trk.log, out_of_order |-> trk.out_of_order,
                next_seq |-> trk.next_seq, applied |-> trk.applied,
                pending_quorum |-> [trk.pending_quorum EXCEPT ![seq] = votes]]
    BY <1>0, <2>1, TrackerFields
  <2>3. votes = HeardFrom(seq)'
    BY <1>0, <1>1, <1>6 DEF Partition
  <2>4. ~HasQuorum(seq)'
    BY <1>6, <2>3 DEF QuorumReachedBy, HasQuorum
  <2>5. trk' \in Trackers
    <3>1. [trk.pending_quorum EXCEPT ![seq] = votes] \in [SeqNums -> SUBSET Senders]
      BY <1>0, TrackerFields
    <3> QED
      BY <1>0, <2>2, <3>1, TrackerFields DEF Trackers, Maps, MapsOf
  <2>6. AppliedIffQuorum'
    BY <1>0, <1>2, <1>6, <2>2, <2>4 DEF AppliedIffQuorum
  <2>7. Partition'
    <3>1. /\ trk'.applied = trk.applied /\ trk'.next_seq = trk.next_seq
          /\ trk'.out_of_order = trk.out_of_order
          /\ trk'.pending_quorum = [trk.pending_quorum EXCEPT ![seq] = votes]
      BY <2>2
    <3>2. \A s \in SeqNums :
            trk'.pending_quorum[s] = IF s \in trk.applied THEN {} ELSE HeardFrom(s)'
      BY <1>0, <1>1, <1>6, <2>3, <3>1, TrackerFields DEF Partition
    <3> QED
      BY <1>0, <3>1, <3>2 DEF Partition
  <2>8. EntriesWereSent'
    <3>1. 1..Len(trk.log) \subseteq SeqNums /\ DOMAIN trk.out_of_order \subseteq SeqNums
      BY <1>0, TrackerFields, MaxSeqAssumption DEF SeqNums
    <3> QED
      BY <1>0, <1>3, <2>2, <3>1 DEF EntriesWereSent
  <2>9. IsPrefix(trk.log, trk'.log)
    BY <1>0, <2>2, TrackerFields DEF IsPrefix
  <2> QED
    BY <1>0, <2>2, <2>5, <2>6, <2>7, <2>8, <2>9
<1>7. CASE seq \notin trk.applied /\ QuorumReachedBy(trk, sender, seq)
  <2> DEFINE r == apply_locked(trk, seq, batch)
             pending == [trk.pending_quorum EXCEPT ![seq] = {}]
  <2>1. trk' = [r EXCEPT !.applied = r.applied \cup {seq}, !.pending_quorum[seq] = {}]
    BY <1>0, <1>7 DEF observe
  <2>2. /\ Ready(trk) /\ seq >= trk.next_seq /\ seq \notin DOMAIN trk.out_of_order
    BY <1>0, <1>7, TrackerFields, MaxSeqAssumption DEF Ready, Partition, SeqNums
  <2>3. /\ Ready(r)
        /\ r.pending_quorum = trk.pending_quorum
        /\ r.applied = trk.applied
        /\ r.next_seq >= trk.next_seq
        /\ 1..(r.next_seq - 1) \cup DOMAIN r.out_of_order
             = 1..(trk.next_seq - 1) \cup DOMAIN trk.out_of_order \cup {seq}
        /\ \A i \in 1..(trk.next_seq - 1) : r.log[i] = trk.log[i]
        /\ \A i \in trk.next_seq..(r.next_seq - 1) :
              \/ i = seq /\ r.log[i] = batch
              \/ i \in DOMAIN trk.out_of_order /\ r.log[i] = trk.out_of_order[i]
        /\ \A s \in DOMAIN r.out_of_order :
              \/ s = seq /\ r.out_of_order[s] = batch
              \/ s \in DOMAIN trk.out_of_order /\ r.out_of_order[s] = trk.out_of_order[s]
    BY <2>2, ApplyLocked
  <2> HIDE DEF r
  <2>4. /\ r = [log |-> r.log, out_of_order |-> r.out_of_order, next_seq |-> r.next_seq,
                pending_quorum |-> r.pending_quorum, applied |-> r.applied]
        /\ r.log \in Seq(Batches) /\ r.next_seq \in 1..(MaxSeq + 1)
        /\ r.out_of_order \in Maps
        /\ Len(r.log) = r.next_seq - 1
        /\ \A s \in DOMAIN r.out_of_order : s > r.next_seq
    BY <2>3 DEF Ready, Trackers, Maps, MapsOf
  <2>5. trk' = [log |-> r.log, out_of_order |-> r.out_of_order, next_seq |-> r.next_seq,
                applied |-> trk.applied \cup {seq}, pending_quorum |-> pending]
    BY <2>1, <2>3, <2>4
  <2>6. pending \in [SeqNums -> SUBSET Senders]
    BY <1>0, TrackerFields
  <2>7. HasQuorum(seq)'
    <3>1. votes = HeardFrom(seq)'
      BY <1>0, <1>1, <1>7 DEF Partition
    <3> QED
      BY <1>7, <3>1 DEF QuorumReachedBy, HasQuorum
  <2>8. trk' \in Trackers
    <3> HIDE DEF pending
    <3>1. trk.applied \cup {seq} \in SUBSET SeqNums
      BY <1>0, TrackerFields
    <3> QED
      BY <2>4, <2>5, <2>6, <3>1 DEF Trackers, Maps, MapsOf
  <2>9. AppliedIffQuorum'
    BY <1>0, <1>2, <2>5, <2>7 DEF AppliedIffQuorum
  <2>10. Partition'
    <3>1. trk'.applied = 1..(trk'.next_seq - 1) \cup DOMAIN trk'.out_of_order
      BY <1>0, <2>3, <2>5 DEF Partition
    <3>2. \A s \in SeqNums :
            trk'.pending_quorum[s] = IF s \in trk'.applied THEN {} ELSE HeardFrom(s)'
      BY <1>0, <1>1, <2>5, TrackerFields DEF Partition
    <3> QED
      BY <2>4, <2>5, <3>1, <3>2 DEF Partition
  <2>11. EntriesWereSent'
    <3>1. \A i \in 1..(trk.next_seq - 1) : SentFor(i, r.log[i], heard')
      BY <1>0, <1>3, <2>3, TrackerFields, MaxSeqAssumption DEF EntriesWereSent, SeqNums
    <3>2. \A i \in trk.next_seq..(r.next_seq - 1) : SentFor(i, r.log[i], heard')
      BY <1>0, <1>3, <1>4, <2>3, TrackerFields DEF EntriesWereSent
    <3>3. \A i \in 1..(r.next_seq - 1) : SentFor(i, r.log[i], heard')
      BY <3>1, <3>2, <2>4, <1>0, TrackerFields, MaxSeqAssumption
    <3>4. \A s \in DOMAIN r.out_of_order : SentFor(s, r.out_of_order[s], heard')
      BY <1>0, <1>3, <1>4, <2>3, TrackerFields DEF EntriesWereSent
    <3> QED
      BY <2>4, <2>5, <3>3, <3>4 DEF EntriesWereSent
  <2>12. IsPrefix(trk.log, r.log)
    <3>1. Len(trk.log) <= Len(r.log) /\ trk.log \in Seq(Batches) /\ r.log \in Seq(Batches)
      BY <1>0, <2>3, <2>4, TrackerFields, MaxSeqAssumption
    <3>2. \A i \in 1..Len(trk.log) : r.log[i] = trk.log[i]
      BY <1>0, <2>3
    <3> QED
      BY <3>1, <3>2 DEF IsPrefix
  <2>13. Notifies(trk, sender, seq)
    BY <1>7 DEF Notifies
  <2> QED
    BY <2>4, <2>5, <2>8, <2>9, <2>10, <2>11, <2>12, <2>13
<1> QED
  BY <1>5, <1>6, <1>7

\* A step of a reader thread evaluates a predicate and changes nothing else.
LEMMA ReaderStep ==
    ASSUME TypeOK, NoLostWakeup, NEW r \in Readers, CallWait(r) \/ Recheck(r)
    PROVE  /\ reader' \in [Readers -> ReaderStates]
           /\ NoLostWakeup'
           /\ UNCHANGED << trk, heard >>
<1>1. /\ reader' = [reader EXCEPT ![r] = AfterWait(trk, reader[r].wait)]
      /\ UNCHANGED << trk, heard >>
  BY DEF CallWait, Recheck
<1>2. /\ reader \in [Readers -> ReaderStates]
      /\ reader[r].wait \in Waits
  BY DEF TypeOK, ReaderStates
<1>3. /\ AfterWait(trk, reader[r].wait) \in ReaderStates
      /\ AfterWait(trk, reader[r].wait).wait = reader[r].wait
      /\ AfterWait(trk, reader[r].wait).pc = "asleep" => ~Satisfied(trk, reader[r].wait)
  BY <1>2 DEF AfterWait, ReaderStates
<1>4. reader' \in [Readers -> ReaderStates]
  BY <1>1, <1>2, <1>3
<1>5. \A x \in Readers : reader'[x].pc = "asleep" => ~Satisfied(trk, reader'[x].wait)
  BY <1>1, <1>2, <1>3 DEF NoLostWakeup
<1> QED
  BY <1>1, <1>4, <1>5 DEF NoLostWakeup

LEMMA NextTracker == TrackerInv /\ [Next]_vars => TrackerInv'
<1> SUFFICES ASSUME TrackerInv, [Next]_vars PROVE TrackerInv'
  OBVIOUS
<1> USE DEF TrackerInv
<1>1. ASSUME NEW sender \in Senders, NEW seq \in SeqNums, NEW batch \in Batches,
             Observe(sender, seq, batch)
      PROVE  TrackerInv'
  <2>1. /\ trk' \in Trackers /\ Len(trk'.log) = trk'.next_seq - 1
        /\ Partition' /\ AppliedIffQuorum' /\ EntriesWereSent'
        /\ Notifies(trk, sender, seq) \/ (trk'.log = trk.log /\ trk'.next_seq = trk.next_seq)
    BY <1>1, ObserveTracker
  <2>2. heard' \in [SeqNums -> SUBSET (Senders \X Batches)]
    BY <1>1, ObserveHears
  <2>3. reader \in [Readers -> ReaderStates]
    BY DEF TypeOK
  <2>4. CASE Notifies(trk, sender, seq)
    <3>1. reader' = notify_all(reader)
      BY <1>1, <2>4 DEF Observe
    <3>2. reader' \in [Readers -> ReaderStates]
      BY <2>3, <3>1 DEF notify_all, ReaderStates
    <3>3. \A r \in Readers : reader'[r].pc # "asleep"
      BY <2>3, <3>1 DEF notify_all, ReaderStates
    <3> QED
      BY <2>1, <2>2, <3>2, <3>3 DEF TypeOK, NoLostWakeup
  <2>5. CASE ~Notifies(trk, sender, seq)
    <3>1. reader' = reader /\ trk'.log = trk.log /\ trk'.next_seq = trk.next_seq
      BY <1>1, <2>1, <2>5 DEF Observe
    <3>2. NoLostWakeup'
      BY <3>1 DEF NoLostWakeup, Satisfied, wait_for_size_done, wait_for_seq_done
    <3> QED
      BY <2>1, <2>2, <2>3, <3>1, <3>2 DEF TypeOK
  <2> QED
    BY <2>4, <2>5
<1>2. ASSUME NEW r \in Readers, CallWait(r) \/ Recheck(r)
      PROVE  TrackerInv'
  <2>1. /\ reader' \in [Readers -> ReaderStates] /\ NoLostWakeup'
        /\ trk' = trk /\ heard' = heard
    BY <1>2, ReaderStep
  <2>2. TypeOK'
    BY <2>1 DEF TypeOK
  <2>3. \A s : HeardFrom(s)' = HeardFrom(s) /\ HasQuorum(s)' = HasQuorum(s)
    BY <2>1 DEF HeardFrom, HasQuorum
  <2> QED
    BY <2>1, <2>2, <2>3 DEF Partition, AppliedIffQuorum, EntriesWereSent
<1>3. CASE UNCHANGED vars
  BY <1>3 DEF vars, TypeOK, Partition, AppliedIffQuorum, EntriesWereSent, NoLostWakeup,
              HeardFrom, HasQuorum
<1> QED
  BY <1>1, <1>2, <1>3 DEF Next

----------------------------------------------------------------------------
(***************************************************************************)
(* The inductive invariant holds of LogTracker in every reachable state.   *)
(***************************************************************************)
THEOREM TrackerInvariant == Spec => []TrackerInv
<1>1. Init => TrackerInv
  BY InitTracker
<1>2. TrackerInv /\ [Next]_vars => TrackerInv'
  BY NextTracker
<1> QED
  BY <1>1, <1>2, PTL DEF Spec

\* Type correctness of the tracker, its history and the reader threads.
THEOREM TypeCorrect == Spec => []TypeOK
<1>1. TrackerInv => TypeOK
  BY DEF TrackerInv
<1> QED
  BY <1>1, TrackerInvariant, PTL

(***************************************************************************)
(* observe applies a number exactly when Quorum distinct servers have      *)
(* reported it, for every number of servers and every quorum.              *)
(***************************************************************************)
THEOREM QuorumExact == Spec => []AppliedIffQuorum
<1>1. TrackerInv => AppliedIffQuorum
  BY DEF TrackerInv
<1> QED
  BY <1>1, TrackerInvariant, PTL

(***************************************************************************)
(* The log is the longest prefix of the numbers that have their quorum:    *)
(* the loop of apply_locked neither skips a hole nor stops early.          *)
(***************************************************************************)
THEOREM LongestPrefix == Spec => []LogIsQuorumPrefix
<1>1. TrackerInv => LogIsQuorumPrefix
  <2> SUFFICES ASSUME TrackerInv PROVE LogIsQuorumPrefix
    OBVIOUS
  <2>1. /\ TypeOK /\ Len(trk.log) = trk.next_seq - 1
        /\ trk.applied = 1..(trk.next_seq - 1) \cup DOMAIN trk.out_of_order
        /\ \A s \in DOMAIN trk.out_of_order : s > trk.next_seq
        /\ \A s \in SeqNums : s \in trk.applied <=> HasQuorum(s)
    BY DEF TrackerInv, Partition, AppliedIffQuorum
  <2>2. trk.next_seq \in 1..(MaxSeq + 1)
    BY <2>1, TrackerFields
  <2>3. \A s \in 1..Len(trk.log) : s \in SeqNums /\ s \in trk.applied
    BY <2>1, <2>2, MaxSeqAssumption DEF SeqNums
  <2>4. trk.next_seq \notin trk.applied
    BY <2>1, <2>2, MaxSeqAssumption
  <2> QED
    BY <2>1, <2>3, <2>4 DEF LogIsQuorumPrefix
<1> QED
  BY <1>1, TrackerInvariant, PTL

\* Whatever is in the log or parked for it was sent by a server for that place.
THEOREM NothingInvented == Spec => []EntriesWereSent
<1>1. TrackerInv => EntriesWereSent
  BY DEF TrackerInv
<1> QED
  BY <1>1, TrackerInvariant, PTL

\* No reader sleeps through the notification of what it waits for.
THEOREM WakeupsArrive == Spec => []NoLostWakeup
<1>1. TrackerInv => NoLostWakeup
  BY DEF TrackerInv
<1> QED
  BY <1>1, TrackerInvariant, PTL

\* No step changes or removes an entry of the log.
THEOREM AppendOnly == Spec => LogAppendOnly
<1>1. TrackerInv /\ [Next]_vars => [IsPrefix(trk.log, trk.log')]_trk
  <2> SUFFICES ASSUME TrackerInv, [Next]_vars, trk' # trk
               PROVE  IsPrefix(trk.log, trk.log')
    OBVIOUS
  <2>1. PICK sender \in Senders, seq \in SeqNums, batch \in Batches :
           Observe(sender, seq, batch)
    BY DEF Next, CallWait, Recheck, vars
  <2> QED
    BY <2>1, ObserveTracker
<1> QED
  BY <1>1, TrackerInvariant, PTL DEF Spec, LogAppendOnly
=============================================================================
