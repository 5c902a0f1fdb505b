----------------------------- MODULE ProxyTimerProofs -----------------------------
(***************************************************************************)
(* Theorems about ProxyTimer, for every epoch duration, every lag and      *)
(* every modulus of the sequence numbers.                                  *)
(***************************************************************************)
EXTENDS ProxyTimer, SequenceTheorems, TLAPS

----------------------------------------------------------------------------
(***************************************************************************)
(* Arithmetic with a constant modulus.                                     *)
(***************************************************************************)

\* Quotient and remainder.
LEMMA ModRest ==
    ASSUME NEW m \in Nat \ {0}, NEW a \in Int
    PROVE  /\ a % m \in 0..(m - 1) /\ a \div m \in Int
           /\ a = (a \div m) * m + (a % m)
  OBVIOUS

\* The remainder is determined by the equation.
LEMMA ModUnique ==
    ASSUME NEW m \in Nat \ {0}, NEW q \in Int, NEW r \in 0..(m - 1)
    PROVE  (q * m + r) % m = r
  BY SMTT(30)

\* A summand may be reduced first, which is what next_seq_ and last_sent do.
LEMMA ModShift ==
    ASSUME NEW m \in Nat \ {0}, NEW a \in Int, NEW i \in Int
    PROVE  ((a % m) + i) % m = (a + i) % m
<1> DEFINE q == a \div m
           r == a % m
           p == (r + i) \div m
           s == (r + i) % m
<1>1. q \in Int /\ r \in 0..(m - 1) /\ a = q * m + r
  BY ModRest
<1>2. p \in Int /\ s \in 0..(m - 1) /\ r + i = p * m + s
  BY <1>1, ModRest
<1> HIDE DEF q, r, p, s
<1>3. a + i = (q + p) * m + s
  BY <1>1, <1>2
<1>4. ((q + p) * m + s) % m = s
  BY <1>1, <1>2, ModUnique
<1> QED BY <1>3, <1>4 DEF s, r

\* A slot n epochs behind the newest that is still ahead of the epoch's end
\* bounds n: this is why the deques stay short.
LEMMA FewEpochsBehind ==
    ASSUME NEW n \in Nat, NEW e \in Int, NEW t \in Int,
           t > e, t <= e + MaxLag + EpochDuration - n * EpochDuration
    PROVE  n <= (MaxLag \div EpochDuration) + 1
<1> DEFINE q == MaxLag \div EpochDuration
           r == MaxLag % EpochDuration
<1>1. q \in Int /\ r \in 0..(EpochDuration - 1) /\ MaxLag = q * EpochDuration + r
  BY ModRest, TimerAssumption
<1> HIDE DEF q, r
<1>2. SUFFICES ASSUME n > q + 1 PROVE FALSE
  BY <1>1 DEF q
<1>3. EpochDuration \in Int /\ EpochDuration > 0
  BY TimerAssumption
<1>4. (n - q - 2) * EpochDuration >= 0
  BY <1>1, <1>2, <1>3
<1>5. (n - q - 2) * EpochDuration = n * EpochDuration - q * EpochDuration - 2 * EpochDuration
  BY <1>1, <1>3
<1>6. n * EpochDuration \in Int /\ q * EpochDuration \in Int
  BY <1>1, <1>3
<1> QED BY <1>1, <1>3, <1>4, <1>5, <1>6, TimerAssumption

----------------------------------------------------------------------------
(***************************************************************************)
(* The inductive invariant.                                                *)
(***************************************************************************)
Seqs == 0..(SeqMod - 1)
Slot == [ts : Int, seq : Seqs]
Places == {"begin", "top", "epoch", "drain", "popped", "sleep_slot", "sending",
           "sleep_epoch", "exited"}

\* The types, and the thread holds a slot exactly between pop and send.
ShapeInv ==
    /\ pc \in Places
    /\ batch \in Seq(Slot) /\ Len(batch) <= 1
    /\ batch # << >> <=> pc \in {"popped", "sleep_slot"}
    /\ timeouts \in Seq(Int) /\ sequences \in Seq(Seqs)
    /\ Len(timeouts) = Len(sequences)
    /\ next_send = FrontOrNone(timeouts)
    /\ next_seq \in Seqs /\ last_sent \in Seqs

\* Slots wait in the order of their timestamps.
OrderInv ==
    /\ \A i \in 1..Len(timeouts) : timeouts[i] <= EpochDuration
    /\ \A i, j \in 1..Len(timeouts) : i < j => timeouts[i] <= timeouts[j]
    /\ batch # << >> => /\ batch[1].ts <= EpochDuration
                        /\ \A i \in 1..Len(timeouts) : batch[1].ts <= timeouts[i]

\* The sequence numbers, first the popped slot's, then the deque's.
SeqInv ==
    /\ batch # << >> => batch[1].seq = (last_sent + 1) % SeqMod
    /\ \A i \in 1..Len(sequences) : sequences[i] = (last_sent + Len(batch) + i) % SeqMod
    /\ next_seq = (last_sent + Len(batch) + Len(sequences) + 1) % SeqMod

\* The end of the epoch that the newest slot was assigned in: the current
\* one, once update_slot_estimate has run in it.
AssignedEnd ==
    IF pc \in {"begin", "top", "epoch", "exited"} THEN epoch_end - EpochDuration ELSE epoch_end
Behind(t, n) == t <= AssignedEnd + MaxLag + EpochDuration - n * EpochDuration

\* One slot per epoch: the slot with n slots behind it was assigned n epochs
\* before the newest one; and what is left after a drain is ahead.
LagInv ==
    /\ epoch_end \in (-MaxLag)..EpochDuration
    /\ \A i \in 1..Len(timeouts) : Behind(timeouts[i], Len(timeouts) - i)
    /\ batch # << >> => Behind(batch[1].ts, Len(timeouts))
    /\ Len(timeouts) + Len(batch) <= MaxSlots
    /\ pc \in {"sleep_epoch", "begin", "top", "epoch", "exited"} => Len(timeouts) <= MaxSlots - 1

\* paused_ is never reset, and a thread that counted a slot after the pause
\* leaves its loop at the next check.
PauseInv ==
    /\ after_pause \in {0, 1}
    /\ after_pause = 1 => paused /\ pc # "epoch"

\* stop() joins a thread that has left run().
JoinInv == joinable \in BOOLEAN /\ (~joinable => pc = "exited")

TimerInv == ShapeInv /\ OrderInv /\ SeqInv /\ LagInv /\ PauseInv

\* MaxSlots is a positive number.
LEMMA SlotsPositive == MaxSlots \in Nat /\ MaxSlots >= 3
<1> DEFINE q == MaxLag \div EpochDuration
           r == MaxLag % EpochDuration
<1>1. q \in Int /\ r \in 0..(EpochDuration - 1) /\ MaxLag = q * EpochDuration + r
  BY ModRest, TimerAssumption
<1>2. MaxSlots = q + 3
  BY DEF MaxSlots
<1> HIDE DEF q, r
<1>3. EpochDuration \in Int /\ EpochDuration > 0 /\ MaxLag >= 0
  BY TimerAssumption
<1>4. q >= 0
  <2>1. SUFFICES ASSUME q <= -1 PROVE FALSE
    BY <1>1
  <2>2. (-1 - q) * EpochDuration >= 0
    BY <2>1, <1>1, <1>3
  <2>3. (-1 - q) * EpochDuration = -EpochDuration - q * EpochDuration
    BY <1>1, <1>3
  <2> QED BY <2>2, <2>3, <1>1, <1>3
<1> QED BY <1>1, <1>2, <1>4

----------------------------------------------------------------------------
LEMMA InitTimer == Init => TimerInv
<1> SUFFICES ASSUME Init PROVE TimerInv
  OBVIOUS
<1> USE TimerAssumption DEF Init
<1>1. ShapeInv
  BY DEF ShapeInv, Places, Seqs, Slot, FrontOrNone
<1>2. OrderInv
  BY DEF OrderInv
<1>3. SeqInv
  <2>1. 1 = 0 * SeqMod + 1 /\ 1 \in 0..(SeqMod - 1)
    OBVIOUS
  <2>2. 1 % SeqMod = 1
    BY <2>1, ModUnique, SMTT(30)
  <2> QED BY <2>2 DEF SeqInv
<1>4. LagInv
  BY SlotsPositive DEF LagInv, Behind, AssignedEnd
<1>5. PauseInv
  BY DEF PauseInv
<1> QED BY <1>1, <1>2, <1>3, <1>4, <1>5 DEF TimerInv

\* A step that moves no slot and leaves the epoch's end alone.
LEMMA MoveStep ==
    ASSUME TimerInv, Begin \/ LoopTop \/ KeepSlot \/ SendDone \/ EpochEnds
    PROVE  TimerInv'
<1> USE TimerAssumption
<1>0. UNCHANGED << batch, timeouts, sequences, next_send, next_seq, last_sent, paused, after_pause >>
  BY DEF Begin, LoopTop, KeepSlot, SendDone, EpochEnds, sched, life
<1>1. ShapeInv'
  BY <1>0 DEF TimerInv, ShapeInv, Places, FrontOrNone,
              Begin, LoopTop, KeepSlot, SendDone, EpochEnds
<1>2. OrderInv' /\ SeqInv'
  BY <1>0 DEF TimerInv, OrderInv, SeqInv
<1>3. LagInv'
  <2>1. epoch_end \in (-MaxLag)..EpochDuration /\ MaxLag \in Nat /\ EpochDuration \in Nat
    BY DEF TimerInv, LagInv
  <2>2. AssignedEnd' >= AssignedEnd /\ AssignedEnd \in Int /\ AssignedEnd' \in Int
    BY <2>1 DEF AssignedEnd, Begin, LoopTop, KeepSlot, SendDone, EpochEnds
  <2>3. epoch_end' \in (-MaxLag)..EpochDuration
    BY <2>1 DEF Begin, LoopTop, KeepSlot, SendDone, EpochEnds
  <2>4. pc' \in {"sleep_epoch", "begin", "top", "epoch", "exited"}
          => pc \in {"sleep_epoch", "begin", "top", "epoch", "exited"}
    BY DEF Begin, LoopTop, KeepSlot, SendDone, EpochEnds
  <2>5. ASSUME NEW t \in Int, NEW n \in Int, Behind(t, n)
        PROVE  t <= AssignedEnd' + MaxLag + EpochDuration - n * EpochDuration
    <3> DEFINE m == n * EpochDuration
    <3>1. m \in Int
      BY <2>1
    <3>2. t <= AssignedEnd + MaxLag + EpochDuration - m
      BY <2>5 DEF Behind
    <3> HIDE DEF m
    <3>3. ASSUME NEW a \in Int, NEW b \in Int, b >= a, t <= a + MaxLag + EpochDuration - m
          PROVE  t <= b + MaxLag + EpochDuration - m
      BY <2>1, <2>5, <3>1, <3>3
    <3>4. t <= AssignedEnd' + MaxLag + EpochDuration - m
      BY <2>2, <3>2, <3>3
    <3> QED BY <3>4 DEF m
  <2>6. \A i \in 1..Len(timeouts) : Behind(timeouts[i], Len(timeouts) - i)'
    <3> SUFFICES ASSUME NEW i \in 1..Len(timeouts)
                 PROVE  Behind(timeouts[i], Len(timeouts) - i)'
      OBVIOUS
    <3>1. timeouts[i] \in Int /\ Len(timeouts) - i \in Int
      BY DEF TimerInv, ShapeInv
    <3>2. Behind(timeouts[i], Len(timeouts) - i)
      BY DEF TimerInv, LagInv
    <3> QED BY <1>0, <3>1, <3>2, <2>5 DEF Behind
  <2>7. batch # << >> => Behind(batch[1].ts, Len(timeouts))'
    <3> SUFFICES ASSUME batch # << >> PROVE Behind(batch[1].ts, Len(timeouts))'
      OBVIOUS
    <3>1. batch[1] \in Slot /\ batch[1].ts \in Int /\ Len(timeouts) \in Int
      <4>1. batch \in Seq(Slot) /\ Len(batch) \in Nat /\ Len(batch) # 0 /\ timeouts \in Seq(Int)
        BY DEF TimerInv, ShapeInv
      <4>2. batch[1] \in Slot
        BY <4>1
      <4> QED BY <4>1, <4>2 DEF Slot
    <3>2. Behind(batch[1].ts, Len(timeouts))
      BY DEF TimerInv, LagInv
    <3> QED BY <1>0, <3>1, <3>2, <2>5 DEF Behind
  <2> QED BY <1>0, <2>3, <2>4, <2>6, <2>7 DEF TimerInv, LagInv
<1>4. PauseInv'
  BY <1>0 DEF TimerInv, PauseInv, Begin, LoopTop, KeepSlot, SendDone, EpochEnds
<1> QED BY <1>1, <1>2, <1>3, <1>4 DEF TimerInv

LEMMA AssignStep == ASSUME TimerInv, update_slot_estimate PROVE TimerInv'
<1> USE TimerAssumption
<1>0. /\ batch = << >> /\ Len(timeouts) = Len(sequences) /\ pc = "epoch"
      /\ timeouts \in Seq(Int) /\ sequences \in Seq(Seqs)
      /\ next_seq \in Seqs /\ last_sent \in Seqs /\ EpochDuration \in Int
  BY DEF TimerInv, ShapeInv, update_slot_estimate
<1>1. /\ timeouts' = Append(timeouts, EpochDuration)
      /\ sequences' = Append(sequences, next_seq)
      /\ next_send' = << Head(timeouts') >>
      /\ next_seq' = (next_seq + 1) % SeqMod
      /\ pc' = "drain"
      /\ UNCHANGED << batch, epoch_end, last_sent, paused >>
  BY DEF update_slot_estimate, load_slots, Inc, life
<1>2. /\ timeouts' \in Seq(Int) /\ Len(timeouts') = Len(timeouts) + 1
      /\ timeouts'[Len(timeouts) + 1] = EpochDuration
      /\ \A i \in 1..Len(timeouts) : timeouts'[i] = timeouts[i]
  BY <1>0, <1>1
<1>3. /\ sequences' \in Seq(Seqs) /\ Len(sequences') = Len(sequences) + 1
      /\ sequences'[Len(sequences) + 1] = next_seq
      /\ \A i \in 1..Len(sequences) : sequences'[i] = sequences[i]
  BY <1>0, <1>1
<1>4. ShapeInv'
  <2>1. next_seq' \in Seqs
    BY <1>0, <1>1, ModRest DEF Seqs
  <2>2. next_send' = FrontOrNone(timeouts')
    BY <1>1, <1>2, <1>0 DEF FrontOrNone
  <2> QED BY <1>0, <1>1, <1>2, <1>3, <2>1, <2>2 DEF TimerInv, ShapeInv, Places
<1>5. OrderInv'
  BY <1>0, <1>1, <1>2 DEF TimerInv, OrderInv
<1>6. SeqInv'
  <2>1. next_seq = (last_sent + 0 + Len(sequences) + 1) % SeqMod
    BY <1>0 DEF TimerInv, SeqInv
  <2>2. (next_seq + 1) % SeqMod = (last_sent + Len(sequences) + 1 + 1) % SeqMod
    <3>1. last_sent + Len(sequences) + 1 \in Int
      BY <1>0 DEF Seqs
    <3>2. (((last_sent + Len(sequences) + 1) % SeqMod) + 1) % SeqMod
             = (last_sent + Len(sequences) + 1 + 1) % SeqMod
      <4>1. SeqMod \in Nat \ {0} /\ 1 \in Int
        OBVIOUS
      <4> QED BY <3>1, <4>1, ModShift, Zenon
    <3>3. last_sent + 0 + Len(sequences) + 1 = last_sent + Len(sequences) + 1
      BY <1>0 DEF Seqs
    <3> QED BY <2>1, <3>2, <3>3
  <2>3. Len(batch) = 0
    BY <1>0
  <2>4. \A i \in 1..Len(sequences) : sequences[i] = (last_sent + Len(batch) + i) % SeqMod
    BY DEF TimerInv, SeqInv
  <2>5. \A i \in 1..Len(sequences') : sequences'[i] = (last_sent + 0 + i) % SeqMod
    <3> SUFFICES ASSUME NEW i \in 1..Len(sequences')
                 PROVE  sequences'[i] = (last_sent + 0 + i) % SeqMod
      OBVIOUS
    <3>1. CASE i \in 1..Len(sequences)
      BY <3>1, <2>3, <2>4, <1>3
    <3>2. CASE i = Len(sequences) + 1
      <4>1. last_sent + 0 + i = last_sent + 0 + Len(sequences) + 1
        BY <3>2, <1>0 DEF Seqs
      <4> QED BY <3>2, <4>1, <2>1, <1>3
    <3> QED BY <3>1, <3>2, <1>3
  <2>6. next_seq' = (last_sent + 0 + Len(sequences') + 1) % SeqMod
    <3>1. last_sent + 0 + Len(sequences') + 1 = last_sent + Len(sequences) + 1 + 1
      BY <1>0, <1>3 DEF Seqs
    <3> QED BY <3>1, <2>2, <1>1
  <2> QED BY <2>3, <2>5, <2>6, <1>0, <1>1 DEF SeqInv
<1>7. LagInv'
  <2>1. AssignedEnd = epoch_end - EpochDuration /\ AssignedEnd' = epoch_end
    BY <1>0, <1>1 DEF AssignedEnd
  <2>2. epoch_end \in Int /\ epoch_end >= -MaxLag
    BY DEF TimerInv, LagInv
  <2>3. ASSUME NEW i \in 1..Len(timeouts)
        PROVE  timeouts'[i] <= epoch_end + MaxLag + EpochDuration
                                  - (Len(timeouts') - i) * EpochDuration
    <3>1. timeouts[i] <= epoch_end - EpochDuration + MaxLag + EpochDuration
                            - (Len(timeouts) - i) * EpochDuration
      BY <2>1 DEF TimerInv, LagInv, Behind
    <3>2. (Len(timeouts') - i) * EpochDuration
             = (Len(timeouts) - i) * EpochDuration + EpochDuration
      BY <1>2, <1>0
    <3>3. (Len(timeouts) - i) * EpochDuration \in Int
      BY <1>0
    <3> QED BY <3>1, <3>2, <3>3, <2>2, <1>2, <1>0
  <2>4. timeouts'[Len(timeouts) + 1] <= epoch_end + MaxLag + EpochDuration
                  - (Len(timeouts') - (Len(timeouts) + 1)) * EpochDuration
    <3>1. (Len(timeouts') - (Len(timeouts) + 1)) * EpochDuration = 0
      BY <1>2, <1>0
    <3> QED BY <3>1, <1>2, <2>2, <1>0
  <2>5. ASSUME NEW i \in 1..Len(timeouts')
        PROVE  timeouts'[i] <= AssignedEnd' + MaxLag + EpochDuration
                                  - (Len(timeouts') - i) * EpochDuration
    <3>1. CASE i \in 1..Len(timeouts)
      BY <3>1, <2>1, <2>3
    <3>2. CASE i = Len(timeouts) + 1
      BY <3>2, <2>1, <2>4
    <3> QED BY <3>1, <3>2, <1>2
  <2>6. Len(timeouts) <= MaxSlots - 1
    BY <1>0 DEF TimerInv, LagInv
  <2>7. Len(timeouts') + Len(batch') <= MaxSlots
    BY <2>6, <1>2, <1>1, <1>0, SlotsPositive
  <2> QED BY <2>5, <2>7, <1>0, <1>1 DEF TimerInv, LagInv, Behind
<1>8. PauseInv'
  BY <1>0, <1>1 DEF TimerInv, PauseInv, update_slot_estimate
<1> QED BY <1>4, <1>5, <1>6, <1>7, <1>8 DEF TimerInv

LEMMA PopStep == ASSUME TimerInv, NextBatchInfo PROVE TimerInv'
<1> USE TimerAssumption
<1>0. /\ batch = << >> /\ Len(timeouts) = Len(sequences) /\ pc = "drain"
      /\ timeouts \in Seq(Int) /\ sequences \in Seq(Seqs)
      /\ next_send = FrontOrNone(timeouts)
      /\ UNCHANGED << epoch_end, next_seq, last_sent, paused, after_pause >>
      /\ next_seq \in Seqs /\ last_sent \in Seqs /\ EpochDuration \in Int
      /\ epoch_end \in (-MaxLag)..EpochDuration
  BY DEF TimerInv, ShapeInv, LagInv, NextBatchInfo, life
<1>1. CASE ~CanPop /\ pc' = "sleep_epoch" /\ UNCHANGED << batch, sched >>
  <2>1. timeouts = << >>
    BY <1>0, <1>1 DEF CanPop, FrontOrNone
  <2>2. UNCHANGED << batch, timeouts, sequences, next_send >> /\ pc' = "sleep_epoch"
    BY <1>1 DEF sched
  <2>3. ShapeInv'
    BY <1>0, <2>2 DEF TimerInv, ShapeInv, Places, FrontOrNone
  <2>4. OrderInv' /\ SeqInv' /\ PauseInv'
    BY <1>0, <2>2 DEF TimerInv, OrderInv, SeqInv, PauseInv
  <2>5. LagInv'
    BY <1>0, <2>1, <2>2, SlotsPositive DEF LagInv
  <2> QED BY <2>3, <2>4, <2>5 DEF TimerInv
<1>2. CASE pop_next_slot /\ pc' = "popped"
  <2>1. timeouts # << >> /\ sequences # << >> /\ Len(timeouts) >= 1
    BY <1>0, <1>2 DEF pop_next_slot, CanPop, FrontOrNone
  <2>2. PICK s \in Slot : s.ts = timeouts[1] /\ s.seq = sequences[1] /\ batch' = << s >>
    <3>1. [ts |-> Head(timeouts), seq |-> Head(sequences)] \in Slot
      BY <1>0, <2>1 DEF Slot
    <3> QED BY <3>1, <1>2, <1>0, <2>1 DEF pop_next_slot
  <2>3. /\ timeouts' \in Seq(Int) /\ Len(timeouts') = Len(timeouts) - 1
        /\ \A i \in 1..Len(timeouts') : timeouts'[i] = timeouts[i + 1]
    BY <1>0, <1>2, <2>1 DEF pop_next_slot
  <2>4. /\ sequences' \in Seq(Seqs) /\ Len(sequences') = Len(sequences) - 1
        /\ \A i \in 1..Len(sequences') : sequences'[i] = sequences[i + 1]
    BY <1>0, <1>2, <2>1 DEF pop_next_slot
  <2>5. batch' \in Seq(Slot) /\ Len(batch') = 1 /\ batch'[1] = s /\ batch' # << >>
    BY <2>2
  <2>6. ShapeInv'
    BY <1>0, <1>2, <2>3, <2>4, <2>5 DEF TimerInv, ShapeInv, Places, pop_next_slot, FrontOrNone
  <2>7. OrderInv'
    <3>1. \A i \in 1..Len(timeouts) : timeouts[1] <= timeouts[i]
      BY <1>0, <2>1 DEF TimerInv, OrderInv
    <3>2. \A i \in 1..Len(timeouts) : timeouts[i] <= EpochDuration
      BY DEF TimerInv, OrderInv
    <3>3. \A i, j \in 1..Len(timeouts) : i < j => timeouts[i] <= timeouts[j]
      BY DEF TimerInv, OrderInv
    <3>4. \A i \in 1..Len(timeouts') : timeouts'[i] <= EpochDuration /\ timeouts[1] <= timeouts'[i]
      <4> SUFFICES ASSUME NEW i \in 1..Len(timeouts')
                   PROVE  timeouts'[i] <= EpochDuration /\ timeouts[1] <= timeouts'[i]
        OBVIOUS
      <4>1. i + 1 \in 1..Len(timeouts) /\ timeouts'[i] = timeouts[i + 1]
        BY <2>3, <1>0
      <4> QED BY <4>1, <3>1, <3>2
    <3>5. \A i, j \in 1..Len(timeouts') : i < j => timeouts'[i] <= timeouts'[j]
      <4> SUFFICES ASSUME NEW i \in 1..Len(timeouts'), NEW j \in 1..Len(timeouts'), i < j
                   PROVE  timeouts'[i] <= timeouts'[j]
        OBVIOUS
      <4>1. timeouts'[i] = timeouts[i + 1] /\ timeouts'[j] = timeouts[j + 1]
        BY <2>3
      <4>2. i + 1 \in 1..Len(timeouts) /\ j + 1 \in 1..Len(timeouts) /\ i + 1 < j + 1
        <5>1. Len(timeouts') = Len(timeouts) - 1 /\ Len(timeouts) \in Nat
          BY <2>3, <1>0
        <5> QED BY <5>1
      <4> QED BY <4>1, <4>2, <3>3
    <3>6. timeouts[1] <= EpochDuration
      BY <3>2, <2>1, <1>0
    <3> QED BY <3>4, <3>5, <3>6, <2>2, <2>5 DEF OrderInv
  <2>8. SeqInv'
    <3>1. Len(batch) = 0 /\ Len(batch') = 1
      BY <1>0, <2>5
    <3>2. /\ \A i \in 1..Len(sequences) : sequences[i] = (last_sent + 0 + i) % SeqMod
          /\ next_seq = (last_sent + 0 + Len(sequences) + 1) % SeqMod
      BY <3>1 DEF TimerInv, SeqInv
    <3>3. s.seq = (last_sent + 1) % SeqMod
      <4>1. sequences[1] = (last_sent + 0 + 1) % SeqMod
        BY <3>2, <2>1, <1>0
      <4>2. last_sent + 0 + 1 = last_sent + 1
        BY <1>0 DEF Seqs
      <4> QED BY <4>1, <4>2, <2>2
    <3>4. ASSUME NEW i \in 1..Len(sequences')
          PROVE  sequences'[i] = (last_sent + 1 + i) % SeqMod
      <4>1. sequences[i + 1] = (last_sent + 0 + (i + 1)) % SeqMod
        BY <3>2, <2>4, <1>0
      <4>2. last_sent + 0 + (i + 1) = last_sent + 1 + i
        BY <1>0 DEF Seqs
      <4> QED BY <4>1, <4>2, <2>4
    <3>5. next_seq = (last_sent + 1 + Len(sequences') + 1) % SeqMod
      <4>1. last_sent + 0 + Len(sequences) + 1 = last_sent + 1 + Len(sequences') + 1
        BY <1>0, <2>4 DEF Seqs
      <4> QED BY <4>1, <3>2
    <3> QED BY <3>1, <3>3, <3>4, <3>5, <2>5, <1>0 DEF SeqInv
  <2>9. LagInv'
    <3>1. AssignedEnd = epoch_end /\ AssignedEnd' = epoch_end
      BY <1>0, <1>2 DEF AssignedEnd
    <3>2. ASSUME NEW i \in 1..Len(timeouts)
          PROVE  timeouts[i] <= epoch_end + MaxLag + EpochDuration
                                   - (Len(timeouts) - i) * EpochDuration
      BY <3>1 DEF TimerInv, LagInv, Behind
    <3>3. timeouts[1] <= epoch_end + MaxLag + EpochDuration - Len(timeouts') * EpochDuration
      <4>1. Len(timeouts) - 1 = Len(timeouts') /\ 1 \in 1..Len(timeouts)
        BY <2>1, <2>3, <1>0
      <4>2. timeouts[1] <= epoch_end + MaxLag + EpochDuration - (Len(timeouts) - 1) * EpochDuration
        BY <4>1, <3>2
      <4> QED BY <4>1, <4>2
    <3>4. ASSUME NEW i \in 1..Len(timeouts')
          PROVE  timeouts'[i] <= epoch_end + MaxLag + EpochDuration
                                    - (Len(timeouts') - i) * EpochDuration
      <4>1. Len(timeouts) - (i + 1) = Len(timeouts') - i /\ i + 1 \in 1..Len(timeouts)
        BY <2>3, <1>0
      <4> QED BY <4>1, <3>2, <2>3
    <3>5. Len(timeouts') + Len(batch') <= MaxSlots
      <4>1. Len(timeouts) + Len(batch) <= MaxSlots /\ Len(batch) = 0
        BY <1>0 DEF TimerInv, LagInv
      <4> QED BY <4>1, <2>3, <2>5, <1>0, SlotsPositive
    <3> QED BY <3>1, <3>3, <3>4, <3>5, <1>0, <1>2, <2>2, <2>5 DEF LagInv, Behind
  <2>10. PauseInv'
    BY <1>0, <1>2 DEF TimerInv, PauseInv
  <2> QED BY <2>6, <2>7, <2>8, <2>9, <2>10 DEF TimerInv
<1> QED BY <1>1, <1>2 DEF NextBatchInfo

\* The slot between pop and send.
LEMMA PoppedSlot ==
    ASSUME ShapeInv, batch # << >>
    PROVE  /\ Len(batch) = 1 /\ batch[1] \in Slot
           /\ batch[1].ts \in Int /\ batch[1].seq \in Seqs
<1>1. batch \in Seq(Slot) /\ Len(batch) <= 1
  BY DEF ShapeInv
<1>2. Len(batch) = 1
  <2>1. Len(batch) # 0
    BY <1>1, EmptySeq
  <2>2. Len(batch) \in Nat
    BY <1>1
  <2> QED BY <2>1, <2>2, <1>1
<1>3. batch[1] \in Slot
  BY <1>1, <1>2
<1> QED BY <1>2, <1>3 DEF Slot

LEMMA PutBackStep == ASSUME TimerInv, PutBack PROVE TimerInv'
<1> USE TimerAssumption
<1>0. /\ Len(timeouts) = Len(sequences) /\ pc = "popped" /\ pc' = "sleep_epoch"
      /\ timeouts \in Seq(Int) /\ sequences \in Seq(Seqs)
      /\ UNCHANGED << epoch_end, next_seq, last_sent, paused, after_pause >>
      /\ next_seq \in Seqs /\ last_sent \in Seqs /\ EpochDuration \in Int
      /\ epoch_end \in (-MaxLag)..EpochDuration
  BY DEF TimerInv, ShapeInv, LagInv, PutBack, life
<1>1. /\ batch # << >> /\ Len(batch) = 1 /\ batch[1].ts \in Int /\ batch[1].seq \in Seqs
      /\ batch[1].ts > epoch_end /\ batch' = << >>
  <2>1. batch # << >> /\ ShapeInv
    BY <1>0 DEF TimerInv, ShapeInv
  <2> QED BY <2>1, PoppedSlot DEF PutBack
<1>2. /\ timeouts' \in Seq(Int) /\ Len(timeouts') = Len(timeouts) + 1
      /\ timeouts'[1] = batch[1].ts
      /\ \A i \in 1..Len(timeouts) : timeouts'[i + 1] = timeouts[i]
  BY <1>0, <1>1 DEF PutBack, push_front
<1>3. /\ sequences' \in Seq(Seqs) /\ Len(sequences') = Len(sequences) + 1
      /\ sequences'[1] = batch[1].seq
      /\ \A i \in 1..Len(sequences) : sequences'[i + 1] = sequences[i]
  BY <1>0, <1>1 DEF PutBack, push_front
<1>4. \A i \in 1..Len(timeouts') : i = 1 \/ (i - 1 \in 1..Len(timeouts) /\ timeouts'[i] = timeouts[i - 1])
  <2> SUFFICES ASSUME NEW i \in 1..Len(timeouts'), i # 1
               PROVE  i - 1 \in 1..Len(timeouts) /\ timeouts'[i] = timeouts[i - 1]
    OBVIOUS
  <2>1. i - 1 \in 1..Len(timeouts) /\ (i - 1) + 1 = i
    BY <1>0, <1>2
  <2>2. timeouts'[(i - 1) + 1] = timeouts[i - 1]
    BY <2>1, <1>2
  <2> QED BY <2>1, <2>2
<1>5. \A i \in 1..Len(sequences') : i = 1 \/ (i - 1 \in 1..Len(sequences) /\ sequences'[i] = sequences[i - 1])
  <2> SUFFICES ASSUME NEW i \in 1..Len(sequences'), i # 1
               PROVE  i - 1 \in 1..Len(sequences) /\ sequences'[i] = sequences[i - 1]
    OBVIOUS
  <2>1. i - 1 \in 1..Len(sequences) /\ (i - 1) + 1 = i
    BY <1>0, <1>3
  <2>2. sequences'[(i - 1) + 1] = sequences[i - 1]
    BY <2>1, <1>3
  <2> QED BY <2>1, <2>2
<1>6. ShapeInv'
  <2>1. next_send' = FrontOrNone(timeouts')
    BY <1>0, <1>1, <1>2 DEF PutBack, push_front, FrontOrNone
  <2> QED BY <2>1, <1>0, <1>1, <1>2, <1>3 DEF ShapeInv, Places
<1>7. OrderInv'
  <2>1. batch[1].ts <= EpochDuration /\ \A i \in 1..Len(timeouts) : batch[1].ts <= timeouts[i]
    BY <1>1 DEF TimerInv, OrderInv
  <2>2. \A i \in 1..Len(timeouts) : timeouts[i] <= EpochDuration
    BY DEF TimerInv, OrderInv
  <2>3. \A i, j \in 1..Len(timeouts) : i < j => timeouts[i] <= timeouts[j]
    BY DEF TimerInv, OrderInv
  <2>4. \A i \in 1..Len(timeouts') : timeouts'[i] <= EpochDuration
    BY <2>1, <2>2, <1>2, <1>4
  <2>5. \A i, j \in 1..Len(timeouts') : i < j => timeouts'[i] <= timeouts'[j]
    <3> SUFFICES ASSUME NEW i \in 1..Len(timeouts'), NEW j \in 1..Len(timeouts'), i < j
                 PROVE  timeouts'[i] <= timeouts'[j]
      OBVIOUS
    <3>1. j # 1 /\ i \in Int /\ j \in Int
      BY <1>2
    <3>2. j - 1 \in 1..Len(timeouts) /\ timeouts'[j] = timeouts[j - 1]
      BY <3>1, <1>4
    <3>3. CASE i = 1
      BY <3>2, <3>3, <2>1, <1>2
    <3>4. CASE i - 1 \in 1..Len(timeouts) /\ timeouts'[i] = timeouts[i - 1]
      <4>1. i - 1 < j - 1
        BY <3>1
      <4> QED BY <3>2, <3>4, <4>1, <2>3
    <3> QED BY <3>3, <3>4, <1>4
  <2> QED BY <2>4, <2>5, <1>1 DEF OrderInv
<1>8. SeqInv'
  <2>1. /\ batch[1].seq = (last_sent + 1) % SeqMod
        /\ \A i \in 1..Len(sequences) : sequences[i] = (last_sent + 1 + i) % SeqMod
        /\ next_seq = (last_sent + 1 + Len(sequences) + 1) % SeqMod
    BY <1>1 DEF TimerInv, SeqInv
  <2>2. ASSUME NEW i \in 1..Len(sequences')
        PROVE  sequences'[i] = (last_sent + 0 + i) % SeqMod
    <3>1. CASE i = 1
      <4>1. last_sent + 0 + i = last_sent + 1
        BY <3>1, <1>0 DEF Seqs
      <4> QED BY <3>1, <4>1, <2>1, <1>3
    <3>2. CASE i - 1 \in 1..Len(sequences) /\ sequences'[i] = sequences[i - 1]
      <4>1. last_sent + 1 + (i - 1) = last_sent + 0 + i
        BY <1>0, <1>3 DEF Seqs
      <4> QED BY <3>2, <4>1, <2>1
    <3> QED BY <3>1, <3>2, <1>5
  <2>3. next_seq' = (last_sent + 0 + Len(sequences') + 1) % SeqMod
    <3>1. last_sent + 0 + Len(sequences') + 1 = last_sent + 1 + Len(sequences) + 1
      BY <1>0, <1>3 DEF Seqs
    <3> QED BY <3>1, <2>1, <1>0
  <2>4. Len(batch') = 0
    BY <1>1
  <2> QED BY <2>2, <2>3, <2>4, <1>0, <1>1 DEF SeqInv
<1>9. LagInv'
  <2>1. AssignedEnd = epoch_end /\ AssignedEnd' = epoch_end
    BY <1>0 DEF AssignedEnd
  <2>2. batch[1].ts <= epoch_end + MaxLag + EpochDuration - Len(timeouts) * EpochDuration
    BY <1>1, <2>1 DEF TimerInv, LagInv, Behind
  <2>3. Len(timeouts) <= (MaxLag \div EpochDuration) + 1
    <3>1. Len(timeouts) \in Nat /\ epoch_end \in Int
      BY <1>0
    <3> QED BY <3>1, <1>1, <2>2, FewEpochsBehind
  <2>4. Len(timeouts') <= MaxSlots - 1
    <3>1. MaxLag \div EpochDuration \in Int
      BY ModRest, <1>0
    <3>2. MaxLag \div EpochDuration = MaxSlots - 3
      BY <3>1 DEF MaxSlots
    <3> QED BY <2>3, <3>2, <1>2, <1>0, SlotsPositive
  <2>5. ASSUME NEW i \in 1..Len(timeouts')
        PROVE  timeouts'[i] <= epoch_end + MaxLag + EpochDuration
                                  - (Len(timeouts') - i) * EpochDuration
    <3>1. CASE i = 1
      <4>1. Len(timeouts') - i = Len(timeouts)
        BY <3>1, <1>2, <1>0
      <4> QED BY <3>1, <4>1, <2>2, <1>2
    <3>2. CASE i - 1 \in 1..Len(timeouts) /\ timeouts'[i] = timeouts[i - 1]
      <4>1. Len(timeouts') - i = Len(timeouts) - (i - 1)
        BY <1>2, <1>0
      <4>2. timeouts[i - 1] <= epoch_end + MaxLag + EpochDuration
                                  - (Len(timeouts) - (i - 1)) * EpochDuration
        BY <3>2, <2>1 DEF TimerInv, LagInv, Behind
      <4> QED BY <3>2, <4>1, <4>2
    <3> QED BY <3>1, <3>2, <1>4
  <2> QED BY <2>1, <2>4, <2>5, <1>0, <1>1, <1>2, SlotsPositive DEF LagInv, Behind
<1>10. PauseInv'
  BY <1>0 DEF TimerInv, PauseInv
<1> QED BY <1>6, <1>7, <1>8, <1>9, <1>10 DEF TimerInv

LEMMA SendStep == ASSUME TimerInv, SendStart PROVE TimerInv'
<1> USE TimerAssumption
<1>0. /\ pc = "sleep_slot" /\ pc' = "sending" /\ batch # << >> /\ Len(batch) = 1 /\ batch' = << >>
      /\ timeouts \in Seq(Int) /\ sequences \in Seq(Seqs)
      /\ UNCHANGED << epoch_end, timeouts, sequences, next_send, next_seq, paused, after_pause >>
      /\ last_sent' = batch[1].seq /\ batch[1].seq \in Seqs /\ last_sent \in Seqs
  <2>1. pc = "sleep_slot" /\ ShapeInv /\ batch # << >>
    BY DEF TimerInv, ShapeInv, SendStart
  <2>2. Len(batch) = 1 /\ batch[1].seq \in Seqs
    BY <2>1, PoppedSlot
  <2> QED BY <2>1, <2>2 DEF ShapeInv, SendStart, sched, life
<1>1. ShapeInv'
  BY <1>0 DEF TimerInv, ShapeInv, Places, FrontOrNone
<1>2. OrderInv' /\ PauseInv'
  BY <1>0 DEF TimerInv, OrderInv, PauseInv
<1>3. SeqInv'
  <2>1. /\ last_sent' = (last_sent + 1) % SeqMod
        /\ \A i \in 1..Len(sequences) : sequences[i] = (last_sent + 1 + i) % SeqMod
        /\ next_seq = (last_sent + 1 + Len(sequences) + 1) % SeqMod
    BY <1>0 DEF TimerInv, SeqInv
  <2>2. \A i \in Int : (last_sent' + i) % SeqMod = (last_sent + 1 + i) % SeqMod
    <3>1. SeqMod \in Nat \ {0} /\ last_sent + 1 \in Int
      BY <1>0 DEF Seqs
    <3> QED BY <2>1, <3>1, ModShift, Zenon
  <2>0. last_sent' \in Int /\ last_sent \in Int
    BY <1>0 DEF Seqs
  <2>3. ASSUME NEW i \in 1..Len(sequences)
        PROVE  sequences[i] = (last_sent' + 0 + i) % SeqMod
    <3>1. last_sent' + 0 + i = last_sent' + i /\ i \in Int
      BY <2>0
    <3> QED BY <3>1, <2>1, <2>2
  <2>4. next_seq = (last_sent' + 0 + Len(sequences) + 1) % SeqMod
    <3>3. Len(sequences) \in Int /\ Len(sequences) + 1 \in Int
      BY <1>0
    <3>1. last_sent' + 0 + Len(sequences) + 1 = last_sent' + (Len(sequences) + 1)
      BY <2>0, <3>3
    <3>2. last_sent + 1 + (Len(sequences) + 1) = last_sent + 1 + Len(sequences) + 1
      BY <2>0, <3>3
    <3> QED BY <3>1, <3>2, <3>3, <2>1, <2>2
  <2>5. Len(batch') = 0
    BY <1>0
  <2> QED BY <2>3, <2>4, <2>5, <1>0 DEF SeqInv
<1>4. LagInv'
  <2>1. AssignedEnd' = AssignedEnd
    BY <1>0 DEF AssignedEnd
  <2>2. Len(batch') = 0
    BY <1>0
  <2>3. Len(timeouts) + 0 <= MaxSlots
    <3>1. Len(timeouts) + 1 <= MaxSlots
      BY <1>0 DEF TimerInv, LagInv
    <3> QED BY <3>1, <1>0, SlotsPositive
  <2> QED BY <2>1, <2>2, <2>3, <1>0 DEF TimerInv, LagInv, Behind
<1> QED BY <1>1, <1>2, <1>3, <1>4 DEF TimerInv

LEMMA TickStep == ASSUME TimerInv, Tick PROVE TimerInv'
<1> USE TimerAssumption
<1>0. /\ timeouts \in Seq(Int) /\ EpochDuration \in Int /\ epoch_end \in Int
      /\ UNCHANGED << pc, sequences, next_seq, last_sent, paused, after_pause >>
      /\ epoch_end' = epoch_end - 1 /\ epoch_end > -MaxLag /\ epoch_end <= EpochDuration
      /\ pc # "begin"
  BY DEF TimerInv, ShapeInv, LagInv, Tick, OnTime, life
<1>1. /\ timeouts' \in Seq(Int) /\ Len(timeouts') = Len(timeouts)
      /\ \A i \in 1..Len(timeouts) : timeouts'[i] = timeouts[i] - 1
  BY <1>0 DEF Tick
<1>2. /\ batch' \in Seq(Slot) /\ Len(batch') = Len(batch) /\ Len(batch) <= 1
      /\ batch' # << >> <=> batch # << >>
      /\ batch # << >> => /\ batch'[1].ts = batch[1].ts - 1 /\ batch'[1].seq = batch[1].seq
                          /\ batch[1].ts \in Int
  <2>1. CASE batch = << >>
    BY <2>1 DEF Tick
  <2>2. CASE batch # << >>
    <3>1. batch \in Seq(Slot) /\ Len(batch) = 1 /\ batch[1] \in Slot
      BY <2>2, PoppedSlot DEF TimerInv, ShapeInv
    <3>2. PICK s \in Slot : s = [batch[1] EXCEPT !.ts = @ - 1]
      <4>1. PICK s : s = [batch[1] EXCEPT !.ts = @ - 1]
        OBVIOUS
      <4>2. s \in Slot
        BY <3>1, <4>1 DEF Slot
      <4> QED BY <4>1, <4>2
    <3>3. s.ts = batch[1].ts - 1 /\ s.seq = batch[1].seq /\ batch[1].ts \in Int
      BY <3>1, <3>2 DEF Slot
    <3>4. batch' = << s >>
      BY <2>2, <3>2 DEF Tick
    <3> QED BY <3>1, <3>3, <3>4, <2>2
  <2> QED BY <2>1, <2>2
<1>3. ShapeInv'
  <2>1. next_send' = FrontOrNone(timeouts')
    BY DEF Tick
  <2> QED BY <2>1, <1>0, <1>1, <1>2 DEF TimerInv, ShapeInv, Places
<1>4. OrderInv'
  <2>1. \A i \in 1..Len(timeouts) : timeouts[i] \in Int
    BY <1>0
  <2>2. \A i \in 1..Len(timeouts) : timeouts'[i] <= EpochDuration
    BY <2>1, <1>0, <1>1 DEF TimerInv, OrderInv
  <2>3. \A i, j \in 1..Len(timeouts) : i < j => timeouts'[i] <= timeouts'[j]
    BY <2>1, <1>1 DEF TimerInv, OrderInv
  <2>4. batch' # << >> => /\ batch'[1].ts <= EpochDuration
                          /\ \A i \in 1..Len(timeouts) : batch'[1].ts <= timeouts'[i]
    BY <2>1, <1>0, <1>1, <1>2 DEF TimerInv, OrderInv
  <2> QED BY <1>1, <2>2, <2>3, <2>4 DEF OrderInv
<1>5. SeqInv'
  BY <1>0, <1>2 DEF TimerInv, SeqInv
<1>6. LagInv'
  <2>1. AssignedEnd' = AssignedEnd - 1 /\ AssignedEnd \in Int
    BY <1>0 DEF AssignedEnd
  <2>2. ASSUME NEW t \in Int, NEW n \in Int, Behind(t, n)
        PROVE  t - 1 <= AssignedEnd' + MaxLag + EpochDuration - n * EpochDuration
    <3>1. n * EpochDuration \in Int
      BY <1>0
    <3> QED BY <3>1, <2>1, <2>2, <1>0 DEF Behind
  <2>3. ASSUME NEW i \in 1..Len(timeouts)
        PROVE  timeouts'[i] <= AssignedEnd' + MaxLag + EpochDuration
                                  - (Len(timeouts) - i) * EpochDuration
    <3>1. Behind(timeouts[i], Len(timeouts) - i)
      BY DEF TimerInv, LagInv
    <3>2. timeouts[i] \in Int /\ Len(timeouts) - i \in Int
      BY <1>0
    <3> QED BY <3>1, <3>2, <2>2, <1>1
  <2>4. batch # << >> => batch'[1].ts <= AssignedEnd' + MaxLag + EpochDuration
                                            - Len(timeouts) * EpochDuration
    <3> SUFFICES ASSUME batch # << >>
                 PROVE  batch'[1].ts <= AssignedEnd' + MaxLag + EpochDuration
                                           - Len(timeouts) * EpochDuration
      OBVIOUS
    <3>1. Behind(batch[1].ts, Len(timeouts)) /\ Len(timeouts) \in Int
      BY <1>0 DEF TimerInv, LagInv
    <3> QED BY <3>1, <2>2, <1>2
  <2> QED BY <2>3, <2>4, <1>0, <1>1, <1>2 DEF TimerInv, LagInv, Behind
<1>7. PauseInv'
  BY <1>0 DEF TimerInv, PauseInv
<1> QED BY <1>3, <1>4, <1>5, <1>6, <1>7 DEF TimerInv

\* The handlers of the connection threads and stop() set flags and may start the
\* thread again, and paused_ is never set back.
LEMMA LifeStep ==
    ASSUME TimerInv, Freeze \/ IncludeProxy \/ Stop \/ Joined \/ Halted \/ UNCHANGED vars,
           ~joinable => pc = "exited"
    PROVE  TimerInv'
<1>1. /\ UNCHANGED << epoch_end, batch, timeouts, sequences, next_send, next_seq,
                      last_sent, after_pause >>
      /\ pc' = pc \/ (pc = "exited" /\ pc' = "begin")
      /\ paused' = TRUE \/ paused' = paused
  BY DEF Freeze, IncludeProxy, Stop, Joined, Halted, vars, sched, life, work
<1>2. ShapeInv' /\ OrderInv' /\ SeqInv' /\ LagInv'
  BY <1>1 DEF TimerInv, ShapeInv, OrderInv, SeqInv, LagInv, Behind, AssignedEnd, FrontOrNone, Places
<1>3. PauseInv'
  BY <1>1 DEF TimerInv, PauseInv
<1> QED BY <1>2, <1>3 DEF TimerInv

\* Every step of the thread, of the handlers and of the clock keeps TimerInv.
THEOREM TimerInvariant == Spec => []TimerInv
<1>1. ASSUME TimerInv, JoinInv, [Next]_vars PROVE TimerInv'
  <2>1. CASE TimerStep
    BY <2>1, <1>1, MoveStep, AssignStep, PopStep, PutBackStep, SendStep DEF TimerStep
  <2>2. CASE Tick
    BY <2>2, <1>1, TickStep
  <2>3. CASE Freeze \/ IncludeProxy \/ Stop \/ Joined \/ Halted \/ UNCHANGED vars
    BY <2>3, <1>1, LifeStep DEF JoinInv
  <2> QED BY <1>1, <2>1, <2>2, <2>3 DEF Next
<1>2. ASSUME JoinInv, [Next]_vars PROVE JoinInv'
  <2>1. CASE TimerStep
    BY <1>2, <2>1 DEF JoinInv, TimerStep, Begin, LoopTop, update_slot_estimate, NextBatchInfo,
                      PutBack, KeepSlot, SendStart, SendDone, EpochEnds, life
  <2>2. CASE Tick
    BY <1>2, <2>2 DEF JoinInv, Tick, life
  <2>3. CASE Freeze \/ IncludeProxy \/ Stop \/ Joined \/ Halted \/ UNCHANGED vars
    BY <1>2, <2>3 DEF JoinInv, Freeze, IncludeProxy, Stop, Joined, Halted, vars, life
  <2> QED BY <1>2, <2>1, <2>2, <2>3 DEF Next
<1>3. Init => JoinInv
  BY DEF Init, JoinInv
<1> QED BY InitTimer, <1>1, <1>2, <1>3, PTL DEF Spec

----------------------------------------------------------------------------
(***************************************************************************)
(* No slot is lost, repeated or reordered on its way from                  *)
(* update_slot_estimate through the deques, pop_next_slot and              *)
(* push_front_slot to send_out_batch.                                      *)
(***************************************************************************)
THEOREM SlotsCorrect == Spec => []SlotsConsecutive
<1>1. ASSUME TimerInv PROVE SlotsConsecutive
  <2> DEFINE popped == [i \in 1..Len(batch) |-> batch[i].seq]
  <2>1. /\ batch \in Seq(Slot) /\ Len(batch) <= 1 /\ Len(batch) \in Nat
        /\ sequences \in Seq(Seqs) /\ next_seq \in Seqs /\ last_sent \in Seqs
    BY <1>1 DEF TimerInv, ShapeInv
  <2>2. popped \in Seq(Seqs) /\ Len(popped) = Len(batch)
        /\ \A i \in 1..Len(batch) : popped[i] = batch[1].seq
    <3>1. \A i \in 1..Len(batch) : i = 1
      BY <2>1
    <3>2. \A i \in 1..Len(batch) : batch[i] \in Slot
      BY <2>1
    <3>3. \A b \in Slot : b.seq \in Seqs
      BY DEF Slot
    <3> QED BY <3>1, <3>2, <3>3, <2>1
  <2>3. Outstanding = popped \o sequences
    BY DEF Outstanding
  <2> HIDE DEF popped
  <2>4. /\ Outstanding \in Seq(Seqs) /\ Len(Outstanding) = Len(batch) + Len(sequences)
        /\ \A i \in 1..Len(Outstanding) :
              Outstanding[i] = IF i <= Len(batch) THEN popped[i] ELSE sequences[i - Len(batch)]
    BY <2>1, <2>2, <2>3
  <2> DEFINE all == Outstanding \o << next_seq >>
  <2>5. /\ \A i \in 1..Len(Outstanding) : all[i] = Outstanding[i]
        /\ all[Len(Outstanding) + 1] = next_seq
    BY <2>1, <2>4
  <2> HIDE DEF all
  <2>6. SUFFICES ASSUME NEW i \in 1..(Len(Outstanding) + 1)
                 PROVE  all[i] = (last_sent + i) % SeqMod
    BY DEF SlotsConsecutive, all
  <2>7. CASE i <= Len(batch)
    <3>1. i = 1 /\ batch # << >> /\ i \in 1..Len(batch) /\ i \in 1..Len(Outstanding)
      BY <2>7, <2>1, <2>4
    <3> QED BY <3>1, <2>2, <2>4, <2>5, <1>1 DEF TimerInv, SeqInv
  <2>8. CASE i > Len(batch) /\ i <= Len(Outstanding)
    <3>1. i - Len(batch) \in 1..Len(sequences) /\ i \in 1..Len(Outstanding) /\ ~(i <= Len(batch))
      BY <2>8, <2>1, <2>4
    <3>2. last_sent + Len(batch) + (i - Len(batch)) = last_sent + i
      BY <2>1, <2>4 DEF Seqs
    <3>3. sequences[i - Len(batch)] = (last_sent + Len(batch) + (i - Len(batch))) % SeqMod
      BY <3>1, <1>1 DEF TimerInv, SeqInv
    <3> QED BY <3>1, <3>2, <3>3, <2>4, <2>5
  <2>9. CASE i = Len(Outstanding) + 1
    <3>1. last_sent + Len(batch) + Len(sequences) + 1 = last_sent + i
      BY <2>9, <2>1, <2>4 DEF Seqs
    <3> QED BY <3>1, <2>9, <2>5, <1>1 DEF TimerInv, SeqInv
  <2> QED BY <2>1, <2>4, <2>7, <2>8, <2>9
<1> QED BY <1>1, TimerInvariant, PTL

(***************************************************************************)
(* The assertion of load_slots, next_send_ and the order of the deques, in *)
(* which no more slots wait than epochs the thread lags behind.            *)
(***************************************************************************)
THEOREM SchedulerCorrect == Spec => []SchedulerConsistent
<1>1. ASSUME TimerInv PROVE SchedulerConsistent
  <2>0. Len(timeouts) \in Nat /\ Len(batch) \in Nat /\ timeouts \in Seq(Int)
    BY <1>1 DEF TimerInv, ShapeInv
  <2>1. Len(timeouts) <= MaxSlots
    <3>1. Len(timeouts) + Len(batch) <= MaxSlots
      BY <1>1 DEF TimerInv, LagInv
    <3> QED BY <3>1, <2>0, SlotsPositive
  <2>2. TypeOK
    BY <2>1, <1>1 DEF TypeOK, TimerInv, ShapeInv, LagInv, Places, Seqs
  <2>3. \A i \in 1..(Len(timeouts) - 1) : timeouts[i] <= timeouts[i + 1]
    BY <1>1, <2>0 DEF TimerInv, OrderInv
  <2>4. timeouts # << >> => 1 \in 1..Len(timeouts)
    BY <2>0
  <2> QED BY <1>1, <2>2, <2>3, <2>4 DEF SchedulerConsistent, TimerInv, ShapeInv, OrderInv
<1> QED BY <1>1, TimerInvariant, PTL

(***************************************************************************)
(* FREEZE may race with a timer thread that has passed its check of        *)
(* paused_; that thread assigns one sequence number and no more.           *)
(***************************************************************************)
THEOREM PauseCorrect == Spec => []AtMostOneSlotAfterPause
<1>1. TimerInv => AtMostOneSlotAfterPause
  BY DEF TimerInv, PauseInv, AtMostOneSlotAfterPause
<1> QED BY <1>1, TimerInvariant, PTL
=============================================================================
