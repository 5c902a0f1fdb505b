--------------------------- MODULE LogTrackerOpsProofs ---------------------------
(***************************************************************************)
(* Lemmas about the operations of a LogTracker that hears from a set S of  *)
(* senders batches from a set B, whatever these sets are.                  *)
(***************************************************************************)
EXTENDS LogTrackerOps, FiniteSetTheorems, WellFoundedInduction, TLAPS

----------------------------------------------------------------------------
(***************************************************************************)
(* The loop of apply_locked stops: some number at or above next_seq_ is    *)
(* not a key of out_of_order_, and FirstGap is the least one.              *)
(***************************************************************************)
LEMMA FirstGapIsLeast ==
    ASSUME NEW map, NEW from \in 1..(MaxSeq + 1), DOMAIN map \subseteq SeqNums
    PROVE  /\ FirstGap(map, from) \in from..(MaxSeq + 1)
           /\ FirstGap(map, from) \notin DOMAIN map
           /\ from..(FirstGap(map, from) - 1) \subseteq DOMAIN map
<1> DEFINE Gaps == {m \in from..(MaxSeq + 1) : m \notin DOMAIN map}
           Below == OpToRel(<, Nat)
<1>1. MaxSeq + 1 \in Gaps
  BY MaxSeqAssumption DEF SeqNums
<1>2. Gaps \subseteq Nat
  BY MaxSeqAssumption
<1>3. PICK g \in Gaps : \A m \in Gaps : <<m, g>> \notin Below
  <2> HIDE DEF Gaps, Below
  <2>1. IsWellFoundedOn(Below, Nat)
    BY NatLessThanWellFounded DEF Below
  <2> QED
    BY <1>1, <1>2, <2>1, WFMin
<1>4. \A m \in Gaps : ~(m < g)
  BY <1>2, <1>3 DEF OpToRel
<1>5. from..(g - 1) \subseteq DOMAIN map
  BY <1>4, MaxSeqAssumption
<1> QED
  BY <1>5 DEF FirstGap

\* A map of batches is a function on a set of sequence numbers.
MapsOf(B) == UNION {[D -> B] : D \in SUBSET SeqNums}

LEMMA MapsOfFacts ==
    ASSUME NEW B, NEW f
    PROVE  f \in MapsOf(B) <=> DOMAIN f \subseteq SeqNums /\ f \in [DOMAIN f -> B]
BY DEF MapsOf

----------------------------------------------------------------------------
(***************************************************************************)
(* What apply_locked does to a tracker whose log ends just below next_seq_ *)
(* and whose parked batches all lie above it, for a number seq that is in  *)
(* neither: the log keeps its entries and grows by the parked run, and no  *)
(* batch is lost or duplicated on the way.                                 *)
(***************************************************************************)
TrackersOf(S, B) ==
    [log            : Seq(B),
     out_of_order   : MapsOf(B),
     next_seq       : 1..(MaxSeq + 1),
     pending_quorum : [SeqNums -> SUBSET S],
     applied        : SUBSET SeqNums]

ReadyOf(t, S, B) ==
    /\ t \in TrackersOf(S, B)
    /\ Len(t.log) = t.next_seq - 1
    /\ \A s \in DOMAIN t.out_of_order : s > t.next_seq

LEMMA ApplyLockedOf ==
    ASSUME NEW S, NEW B, NEW t, ReadyOf(t, S, B),
           NEW seq \in SeqNums, seq >= t.next_seq, seq \notin DOMAIN t.out_of_order,
           NEW data \in B,
           NEW r, r = apply_locked(t, seq, data)
    PROVE  /\ ReadyOf(r, S, B)
           /\ r.pending_quorum = t.pending_quorum
           /\ r.applied = t.applied
           /\ r.next_seq >= t.next_seq
           /\ 1..(r.next_seq - 1) \cup DOMAIN r.out_of_order
                = 1..(t.next_seq - 1) \cup DOMAIN t.out_of_order \cup {seq}
           /\ \A i \in 1..(t.next_seq - 1) : r.log[i] = t.log[i]
           /\ \A i \in t.next_seq..(r.next_seq - 1) :
                 \/ i = seq /\ r.log[i] = data
                 \/ i \in DOMAIN t.out_of_order /\ r.log[i] = t.out_of_order[i]
           /\ \A s \in DOMAIN r.out_of_order :
                 \/ s = seq /\ r.out_of_order[s] = data
                 \/ s \in DOMAIN t.out_of_order /\ r.out_of_order[s] = t.out_of_order[s]
<1> DEFINE ooo == WithKey(t.out_of_order, seq, data)
           gap == FirstGap(ooo, t.next_seq)
           log == [i \in 1..(gap - 1) |-> IF i < t.next_seq THEN t.log[i] ELSE ooo[i]]
           left == [s \in DOMAIN ooo \ (t.next_seq..(gap - 1)) |-> ooo[s]]
<1>1. /\ t = [log |-> t.log, out_of_order |-> t.out_of_order, next_seq |-> t.next_seq,
              pending_quorum |-> t.pending_quorum, applied |-> t.applied]
      /\ t.log \in Seq(B)
      /\ t.next_seq \in 1..(MaxSeq + 1)
      /\ t.pending_quorum \in [SeqNums -> SUBSET S]
      /\ t.applied \in SUBSET SeqNums
      /\ t.out_of_order \in MapsOf(B)
  BY DEF ReadyOf, TrackersOf, MapsOf
<1>2. /\ DOMAIN t.out_of_order \subseteq SeqNums
      /\ \A s \in DOMAIN t.out_of_order : t.out_of_order[s] \in B
  BY <1>1, MapsOfFacts
<1>3. /\ DOMAIN ooo = DOMAIN t.out_of_order \cup {seq}
      /\ DOMAIN ooo \subseteq SeqNums
      /\ \A s \in DOMAIN ooo : ooo[s] \in B
      /\ ooo[seq] = data
      /\ \A s \in DOMAIN t.out_of_order : ooo[s] = t.out_of_order[s]
  BY <1>2 DEF WithKey
<1> HIDE DEF ooo
<1>4. /\ gap \in t.next_seq..(MaxSeq + 1)
      /\ gap \notin DOMAIN ooo
      /\ t.next_seq..(gap - 1) \subseteq DOMAIN ooo
  BY <1>1, <1>3, FirstGapIsLeast
<1> HIDE DEF gap
<1>5. r = [log |-> log, out_of_order |-> left, next_seq |-> gap,
           pending_quorum |-> t.pending_quorum, applied |-> t.applied]
  <2>1. r = [t EXCEPT !.log = log, !.out_of_order = left, !.next_seq = gap]
    BY DEF apply_locked, ooo, gap
  <2> HIDE DEF log, left
  <2> QED
    BY <1>1, <2>1
<1>6. /\ log \in Seq(B)
      /\ Len(log) = gap - 1
  <2>1. \A i \in 1..(gap - 1) : log[i] \in B
    BY <1>1, <1>3, <1>4, MaxSeqAssumption DEF ReadyOf, SeqNums
  <2>2. gap - 1 \in Nat
    BY <1>1, <1>4, MaxSeqAssumption
  <2>3. log \in [1..(gap - 1) -> B]
    BY <2>1
  <2> HIDE DEF log
  <2> QED
    BY <2>2, <2>3
<1>7. left \in MapsOf(B)
  BY <1>3, MapsOfFacts
<1>8. \A s \in DOMAIN left : s > gap
  BY <1>1, <1>3, <1>4, MaxSeqAssumption DEF ReadyOf, SeqNums
<1>9. ReadyOf(r, S, B)
  <2> HIDE DEF log, left
  <2>1. gap \in 1..(MaxSeq + 1)
    BY <1>1, <1>4, MaxSeqAssumption
  <2> QED
    BY <1>1, <1>5, <1>6, <1>7, <1>8, <2>1 DEF ReadyOf, TrackersOf, MapsOf
<1>10. 1..(gap - 1) \cup DOMAIN left
          = 1..(t.next_seq - 1) \cup DOMAIN t.out_of_order \cup {seq}
  BY <1>1, <1>3, <1>4, MaxSeqAssumption DEF SeqNums
<1>11. \A i \in 1..(t.next_seq - 1) : log[i] = t.log[i]
  BY <1>1, <1>4, MaxSeqAssumption
<1>12. \A i \in t.next_seq..(gap - 1) :
          \/ i = seq /\ log[i] = data
          \/ i \in DOMAIN t.out_of_order /\ log[i] = t.out_of_order[i]
  BY <1>1, <1>3, <1>4, MaxSeqAssumption
<1>13. \A s \in DOMAIN left :
          \/ s = seq /\ left[s] = data
          \/ s \in DOMAIN t.out_of_order /\ left[s] = t.out_of_order[s]
  BY <1>3
<1>14. gap >= t.next_seq
  BY <1>1, <1>4, MaxSeqAssumption
<1> HIDE DEF log, left
<1> QED
  BY <1>5, <1>9, <1>10, <1>11, <1>12, <1>13, <1>14

----------------------------------------------------------------------------
(***************************************************************************)
(* A tracker as observe leaves it: what is applied is in the log or parked *)
(* above it.  EntryOf is the batch it holds for an applied number.         *)
(***************************************************************************)
WellFormed(t, S, B) ==
    /\ ReadyOf(t, S, B)
    /\ t.applied = 1..(t.next_seq - 1) \cup DOMAIN t.out_of_order

EntryOf(t, s) == IF s < t.next_seq THEN t.log[s] ELSE t.out_of_order[s]

\* Nothing is lost: r has all of t's numbers and entries, and t's log before its own.
Grows(t, r) ==
    /\ r.next_seq >= t.next_seq
    /\ \A i \in 1..Len(t.log) : r.log[i] = t.log[i]
    /\ t.applied \subseteq r.applied
    /\ \A s \in t.applied : EntryOf(r, s) = EntryOf(t, s)

\* The tracker has ignored the message, counted its vote, or applied its batch.
Observed(t, r, sender, seq, data) ==
    \/ r = t
    \/ /\ seq \notin t.applied /\ ~QuorumReachedBy(t, sender, seq)
       /\ r.applied = t.applied /\ r.log = t.log /\ r.next_seq = t.next_seq
       /\ r.out_of_order = t.out_of_order
       /\ r.pending_quorum = [t.pending_quorum EXCEPT ![seq] = @ \cup {sender}]
    \/ /\ seq \notin t.applied /\ QuorumReachedBy(t, sender, seq)
       /\ r.applied = t.applied \cup {seq}
       /\ EntryOf(r, seq) = data
       /\ r.pending_quorum = [t.pending_quorum EXCEPT ![seq] = {}]

LEMMA ObserveWellFormed ==
    ASSUME NEW S, NEW B, NEW t, WellFormed(t, S, B),
           NEW sender \in S, NEW seq \in SeqNums, NEW data \in B,
           NEW r, r = observe(t, sender, seq, data)
    PROVE  WellFormed(r, S, B) /\ Grows(t, r) /\ Observed(t, r, sender, seq, data)
<1>1. /\ t = [log |-> t.log, out_of_order |-> t.out_of_order, next_seq |-> t.next_seq,
              pending_quorum |-> t.pending_quorum, applied |-> t.applied]
      /\ t.log \in Seq(B) /\ t.next_seq \in 1..(MaxSeq + 1)
      /\ t.pending_quorum \in [SeqNums -> SUBSET S] /\ t.applied \in SUBSET SeqNums
      /\ t.out_of_order \in MapsOf(B) /\ DOMAIN t.out_of_order \subseteq SeqNums
      /\ ReadyOf(t, S, B) /\ Len(t.log) = t.next_seq - 1
      /\ t.applied = 1..(t.next_seq - 1) \cup DOMAIN t.out_of_order
      /\ \A s \in DOMAIN t.out_of_order : s > t.next_seq
  BY MapsOfFacts DEF WellFormed, ReadyOf, TrackersOf
<1>2. CASE seq \in t.applied
  <2>1. r = t
    BY <1>2 DEF observe
  <2> QED
    BY <1>1, <2>1, MaxSeqAssumption DEF Grows, Observed
<1>3. CASE seq \notin t.applied /\ ~QuorumReachedBy(t, sender, seq)
  <2> DEFINE votes == [t.pending_quorum EXCEPT ![seq] = @ \cup {sender}]
  <2>1. r = [log |-> t.log, out_of_order |-> t.out_of_order, next_seq |-> t.next_seq,
             pending_quorum |-> votes, applied |-> t.applied]
    <3>1. r = [t EXCEPT !.pending_quorum[seq] = @ \cup {sender}]
      BY <1>3 DEF observe
    <3> QED
      BY <1>1, <3>1
  <2>2. votes \in [SeqNums -> SUBSET S]
    BY <1>1
  <2> HIDE DEF votes
  <2>3. WellFormed(r, S, B)
    BY <1>1, <2>1, <2>2 DEF WellFormed, ReadyOf, TrackersOf
  <2>4. Grows(t, r)
    BY <1>1, <2>1, MaxSeqAssumption DEF Grows, EntryOf
  <2>5. Observed(t, r, sender, seq, data)
    BY <1>3, <2>1 DEF Observed, votes
  <2> QED
    BY <2>3, <2>4, <2>5
<1>4. CASE seq \notin t.applied /\ QuorumReachedBy(t, sender, seq)
  <2> DEFINE a == apply_locked(t, seq, data)
             votes == [t.pending_quorum EXCEPT ![seq] = {}]
  <2>1. seq >= t.next_seq /\ seq \notin DOMAIN t.out_of_order
    BY <1>1, <1>4, MaxSeqAssumption DEF SeqNums
  <2>2. /\ ReadyOf(a, S, B)
        /\ a.pending_quorum = t.pending_quorum
        /\ a.applied = t.applied
        /\ a.next_seq >= t.next_seq
        /\ 1..(a.next_seq - 1) \cup DOMAIN a.out_of_order
             = 1..(t.next_seq - 1) \cup DOMAIN t.out_of_order \cup {seq}
        /\ \A i \in 1..(t.next_seq - 1) : a.log[i] = t.log[i]
        /\ \A i \in t.next_seq..(a.next_seq - 1) :
              \/ i = seq /\ a.log[i] = data
              \/ i \in DOMAIN t.out_of_order /\ a.log[i] = t.out_of_order[i]
        /\ \A s \in DOMAIN a.out_of_order :
              \/ s = seq /\ a.out_of_order[s] = data
              \/ s \in DOMAIN t.out_of_order /\ a.out_of_order[s] = t.out_of_order[s]
    BY <1>1, <2>1, ApplyLockedOf
  <2>3. r = [a EXCEPT !.applied = a.applied \cup {seq}, !.pending_quorum[seq] = {}]
    BY <1>4 DEF observe
  <2> HIDE DEF a
  <2>4. /\ a = [log |-> a.log, out_of_order |-> a.out_of_order, next_seq |-> a.next_seq,
                pending_quorum |-> a.pending_quorum, applied |-> a.applied]
        /\ a.log \in Seq(B) /\ a.next_seq \in 1..(MaxSeq + 1)
        /\ a.out_of_order \in MapsOf(B) /\ DOMAIN a.out_of_order \subseteq SeqNums
        /\ Len(a.log) = a.next_seq - 1
        /\ \A s \in DOMAIN a.out_of_order : s > a.next_seq
    BY <2>2, MapsOfFacts DEF ReadyOf, TrackersOf
  <2>5. r = [log |-> a.log, out_of_order |-> a.out_of_order, next_seq |-> a.next_seq,
             pending_quorum |-> votes, applied |-> t.applied \cup {seq}]
    <3>1. r = [log |-> a.log, out_of_order |-> a.out_of_order, next_seq |-> a.next_seq,
               pending_quorum |-> [a.pending_quorum EXCEPT ![seq] = {}],
               applied |-> a.applied \cup {seq}]
      <4>1. /\ a = [log |-> a.log, out_of_order |-> a.out_of_order, next_seq |-> a.next_seq,
                    pending_quorum |-> a.pending_quorum, applied |-> a.applied]
        BY <2>4
      <4> QED
        BY <2>3, <4>1
    <3> QED
      BY <2>2, <3>1
  <2>6. votes \in [SeqNums -> SUBSET S]
    BY <1>1
  <2> HIDE DEF votes
  <2>7. r.applied = 1..(r.next_seq - 1) \cup DOMAIN r.out_of_order
    BY <1>1, <2>2, <2>5
  <2>8. WellFormed(r, S, B)
    BY <1>1, <2>4, <2>5, <2>6, <2>7 DEF WellFormed, ReadyOf, TrackersOf
  <2>9. ASSUME NEW s \in t.applied PROVE EntryOf(r, s) = EntryOf(t, s)
    <3>1. s \in SeqNums /\ s # seq /\ s \in r.applied
      BY <1>1, <1>4, <2>5
    <3>2. CASE s < t.next_seq
      BY <1>1, <2>2, <2>4, <2>5, <3>1, <3>2, MaxSeqAssumption DEF EntryOf, SeqNums
    <3>3. CASE ~(s < t.next_seq)
      <4>1. s \in DOMAIN t.out_of_order
        BY <1>1, <3>1, <3>3, MaxSeqAssumption DEF SeqNums
      <4>2. CASE s < a.next_seq
        <5>1. s \in t.next_seq..(a.next_seq - 1)
          BY <1>1, <2>4, <3>1, <3>3, <4>2, MaxSeqAssumption DEF SeqNums
        <5> QED
          BY <2>2, <2>5, <3>1, <3>3, <4>2, <5>1 DEF EntryOf
      <4>3. CASE ~(s < a.next_seq)
        <5>1. s \in DOMAIN a.out_of_order
          BY <2>4, <2>5, <2>7, <3>1, <4>3, MaxSeqAssumption DEF SeqNums
        <5> QED
          BY <2>2, <2>5, <3>1, <3>3, <4>3, <5>1 DEF EntryOf
      <4> QED
        BY <4>2, <4>3
    <3> QED
      BY <3>2, <3>3
  <2>10. Grows(t, r)
    <3>1. r.next_seq >= t.next_seq /\ \A i \in 1..Len(t.log) : r.log[i] = t.log[i]
      BY <1>1, <2>2, <2>5
    <3>2. t.applied \subseteq r.applied
      BY <2>5
    <3> QED
      BY <2>9, <3>1, <3>2 DEF Grows
  <2>11. EntryOf(r, seq) = data
    <3>1. CASE seq < a.next_seq
      <4>1. seq \in t.next_seq..(a.next_seq - 1)
        BY <1>1, <2>1, <2>4, <3>1, MaxSeqAssumption DEF SeqNums
      <4> QED
        BY <2>1, <2>2, <2>5, <3>1, <4>1 DEF EntryOf
    <3>2. CASE ~(seq < a.next_seq)
      <4>1. seq \in DOMAIN a.out_of_order
        BY <2>4, <2>5, <2>7, <3>2, MaxSeqAssumption DEF SeqNums
      <4> QED
        BY <2>1, <2>2, <2>5, <3>2, <4>1 DEF EntryOf
    <3> QED
      BY <3>1, <3>2
  <2>12. Observed(t, r, sender, seq, data)
    BY <1>4, <2>5, <2>11 DEF Observed, votes
  <2> QED
    BY <2>8, <2>10, <2>12
<1> QED
  BY <1>2, <1>3, <1>4

LEMMA EmptyWellFormed ==
    ASSUME NEW S, NEW B
    PROVE  WellFormed(EmptyTracker, S, B)
<1>1. EmptyTracker.out_of_order \in MapsOf(B)
  <2>1. DOMAIN EmptyTracker.out_of_order = {}
    BY DEF EmptyTracker
  <2> QED
    BY <2>1, MapsOfFacts DEF EmptyTracker
<1>2. EmptyTracker \in TrackersOf(S, B)
  <2>1. /\ EmptyTracker.log \in Seq(B) /\ EmptyTracker.next_seq \in 1..(MaxSeq + 1)
        /\ EmptyTracker.pending_quorum \in [SeqNums -> SUBSET S]
        /\ EmptyTracker.applied \in SUBSET SeqNums
    BY MaxSeqAssumption DEF EmptyTracker
  <2>2. EmptyTracker = [log |-> EmptyTracker.log, out_of_order |-> EmptyTracker.out_of_order,
                        next_seq |-> EmptyTracker.next_seq,
                        pending_quorum |-> EmptyTracker.pending_quorum,
                        applied |-> EmptyTracker.applied]
    BY DEF EmptyTracker
  <2> QED
    BY <1>1, <2>1, <2>2 DEF TrackersOf
<1> QED
  BY <1>2 DEF WellFormed, ReadyOf, EmptyTracker
=============================================================================
