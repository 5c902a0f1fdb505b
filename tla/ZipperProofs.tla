------------------------------- MODULE ZipperProofs -------------------------------
(***************************************************************************)
(* Proofs about the zipper, for any servers, quorum, proxies and bounds,   *)
(* and about its epoch timer.                                              *)
(***************************************************************************)
EXTENDS Zipper, ZipperEpochTimer, FiniteSetTheorems, FunctionTheorems, SequenceTheorems, TLAPS

----------------------------------------------------------------------------
(***************************************************************************)
(* The inductive invariant of the freeze protocol.  It is stated over the  *)
(* values of one proxy's state, one thread and one message, so that what   *)
(* holds of a value stays true while the history grows.                    *)
(***************************************************************************)
Addresses == Range(InitialProxies) \cup Newcomers

States ==
    [address : Addresses, status : {"ACTIVE", "RECONFIGURING", "BLOCKED"},
     allocated_sequences : SUBSET Nat, freeze_round : 0..MaxRound,
     freeze_responders : SUBSET Servers, reporters : SUBSET Servers,
     last_sequences : SUBSET (0..MaxLast)]

Responses == [proxy : Suspects, round : 0..MaxRound, last : 0..MaxLast]

\* Server v answered round r of proxy p with l.
Gave(v, p, r, l) ==
    [server |-> v, answer |-> [proxy |-> p, round |-> r, last |-> l]] \in answers

Allocated(p, n) ==
    n \in Nat \ {0} /\ n < global_seq_num /\ \E d \in delivered : d.proxy = p /\ d.seq = n

\* A responder of the current round gave one of the numbers in last_sequences.
StateOK(p, s) ==
    /\ s \in States
    /\ \A n \in s.allocated_sequences : Allocated(p, n)
    /\ \A v \in s.freeze_responders : \E l \in s.last_sequences : Gave(v, p, s.freeze_round, l)

Fields(t) == t \in [pc : {t.pc}, proxy : {t.proxy}, last : {t.last}, skip : {t.skip}]

\* A thread that completes the freeze of its proxy has the agreement of a quorum.
ThreadOK(t) ==
    /\ Fields(t)
    /\ t.pc \in {"idle", "round", "read", "block", "skip", "acks"}
    /\ t.pc # "idle" => t.proxy \in Ids \cap Suspects
    /\ t.pc \in {"block", "skip", "acks"} => t.last \in 0..MaxLast /\ Agreed(t.proxy, t.last)
    /\ t.pc \in {"skip", "acks"} => \A n \in t.skip : Allocated(t.proxy, n) /\ n > t.last

MessageOK(m) ==
    /\ m \in FreezeMessages /\ m.proxy \in Ids
    /\ m.type = "FREEZE_COMPLETE" => Agreed(m.proxy, m.last)
    /\ m.type = "SKIP" =>
          Allocated(m.proxy, m.seq) /\ \E last \in 0..(m.seq - 1) : Agreed(m.proxy, last)

ResponseOK(v, m) ==
    m \in Responses /\ m.proxy \in Ids /\ Gave(v, m.proxy, m.round, m.last)

RegistryInv ==
    /\ Ids \subseteq Nat /\ registry = [p \in Ids |-> registry[p]]
    /\ \A p \in Ids : StateOK(p, registry[p])

ThreadInv ==
    /\ thread = [v \in Servers |-> thread[v]]
    /\ \A v \in Servers : ThreadOK(thread[v])

FreezerInv ==
    /\ freezer \in [Suspects -> [start : Nat, read : Nat]]
    /\ \A p \in Suspects : freezer[p].start + freezer[p].read > 0 => p \in Ids

ServerInv ==
    /\ last_seq \in [Servers -> [Suspects -> 0..MaxLast]]
    /\ inbox \in [Servers -> Seq(Responses)]
    /\ \A v \in Servers : \A i \in 1..Len(inbox[v]) : ResponseOK(v, inbox[v][i])

WorkerInv ==
    worker \in [pc : {"idle", "gather", "assign", "introduce"},
                snapshot : {worker.snapshot}, slots : {worker.slots}]

FreezeInv ==
    /\ global_seq_num \in Nat \ {0}
    /\ RegistryInv /\ ThreadInv /\ FreezerInv /\ ServerInv /\ WorkerInv
    /\ \A m \in broadcasts : MessageOK(m)

(***************************************************************************)
(* The inductive invariant of the admission: a task that has its id has    *)
(* its place in config_.proxies, and there are tasks only while the worker *)
(* of the epoch timer waits for them.                                      *)
(***************************************************************************)
TaskOK(t) ==
    /\ t \in [task : Nat, address : Addresses, id : Nat \cup {NoId}]
    /\ t.id # NoId => t.id < Len(proxies) /\ proxies[t.id + 1] = t.address

AdmissionInv ==
    /\ proxies \in Seq(Addresses) /\ joining_proxies \in Seq(Addresses)
    /\ including \subseteq Addresses
    /\ introducing # {} => worker.pc = "introduce"
    /\ \A t \in introducing : TaskOK(t)
    /\ RegistryMatchesConfig

ZipperInv == FreezeInv /\ AdmissionInv

----------------------------------------------------------------------------
(***************************************************************************)
(* What holds of a value stays true while the history grows.               *)
(***************************************************************************)
Grown ==
    /\ Ids \subseteq Ids' /\ answers \subseteq answers' /\ delivered \subseteq delivered'
    /\ global_seq_num \in Nat \ {0} /\ global_seq_num' \in Nat \ {0}
    /\ global_seq_num <= global_seq_num'

LEMMA AgreedKept ==
    ASSUME answers \subseteq answers', NEW p, NEW last, Agreed(p, last)
    PROVE  Agreed(p, last)'
<1>1. PICK r \in 0..MaxRound :
         Cardinality({v \in Servers : Gave(v, p, r, last)}) >= Quorum
  BY DEF Agreed, Gave
<1> DEFINE G == {v \in Servers : Gave(v, p, r, last)}
           H == {v \in Servers : Gave(v, p, r, last)'}
<1>2. G \subseteq H /\ H \subseteq Servers
  BY DEF Gave
<1> HIDE DEF G, H
<1>3. IsFiniteSet(H) /\ IsFiniteSet(G)
  BY <1>2, ZipperAssumption, FS_Subset
<1>4. Cardinality(G) <= Cardinality(H) /\ Cardinality(G) \in Nat /\ Cardinality(H) \in Nat
  BY <1>2, <1>3, FS_Subset, FS_CardinalityType
<1>5. Cardinality(Servers) \in Nat /\ Quorum \in Nat
  BY ZipperAssumption, FS_CardinalityType
<1>6. Cardinality(G) >= Quorum
  BY <1>1 DEF G
<1>7. Cardinality(H) >= Quorum
  BY <1>4, <1>5, <1>6
<1>8. r \in 0..MaxRound /\ Cardinality({v \in Servers : Gave(v, p, r, last)'}) >= Quorum
  BY <1>7 DEF H
<1> QED
  BY <1>8, Zenon DEF Agreed, Gave

LEMMA AllocatedKept ==
    ASSUME Grown, NEW p, NEW n, Allocated(p, n)
    PROVE  Allocated(p, n)'
<1>1. n \in Nat \ {0} /\ n < global_seq_num'
  BY DEF Grown, Allocated
<1>2. \E d \in delivered' : d.proxy = p /\ d.seq = n
  BY DEF Grown, Allocated
<1> QED
  BY <1>1, <1>2 DEF Allocated

LEMMA StateKept ==
    ASSUME Grown, NEW p, NEW s, StateOK(p, s)
    PROVE  StateOK(p, s)'
<1>1. \A n \in s.allocated_sequences : Allocated(p, n)'
  BY AllocatedKept DEF StateOK
<1>2. \A v \in s.freeze_responders :
          \E l \in s.last_sequences : Gave(v, p, s.freeze_round, l)'
  BY DEF StateOK, Gave, Grown
<1> QED
  BY <1>1, <1>2 DEF StateOK

LEMMA ThreadKept ==
    ASSUME Grown, NEW t, ThreadOK(t)
    PROVE  ThreadOK(t)'
<1>1. t.pc \in {"block", "skip", "acks"} => Agreed(t.proxy, t.last)'
  BY AgreedKept DEF ThreadOK, Grown
<1>2. t.pc \in {"skip", "acks"} => \A n \in t.skip : Allocated(t.proxy, n)' /\ n > t.last
  BY AllocatedKept DEF ThreadOK
<1>3. t.pc # "idle" => t.proxy \in Ids' \cap Suspects
  BY DEF ThreadOK, Grown
<1> QED
  BY <1>1, <1>2, <1>3 DEF ThreadOK

LEMMA MessageKept ==
    ASSUME Grown, NEW m, MessageOK(m)
    PROVE  MessageOK(m)'
<1>1. m \in FreezeMessages /\ m.proxy \in Ids'
  BY DEF MessageOK, Grown
<1>2. m.type = "FREEZE_COMPLETE" => Agreed(m.proxy, m.last)'
  BY AgreedKept DEF MessageOK, Grown
<1>3. m.type = "SKIP" => Allocated(m.proxy, m.seq)'
  BY AllocatedKept DEF MessageOK
<1>4. ASSUME m.type = "SKIP" PROVE \E last \in 0..(m.seq - 1) : Agreed(m.proxy, last)'
  <2>1. PICK last \in 0..(m.seq - 1) : Agreed(m.proxy, last)
    BY <1>4 DEF MessageOK
  <2>2. Agreed(m.proxy, last)'
    BY <2>1, AgreedKept DEF Grown
  <2> QED
    BY <2>2
<1> QED
  BY <1>1, <1>2, <1>3, <1>4 DEF MessageOK

LEMMA ResponseKept ==
    ASSUME Grown, NEW v, NEW m, ResponseOK(v, m)
    PROVE  ResponseOK(v, m)'
BY DEF ResponseOK, Grown, Gave

\* What a step leaves alone.
Kept ==
    /\ UNCHANGED registry => RegistryInv'
    /\ UNCHANGED thread => ThreadInv'
    /\ UNCHANGED << registry, freezer >> => FreezerInv'
    /\ UNCHANGED << last_seq, inbox >> => ServerInv'
    /\ UNCHANGED worker => WorkerInv'
    /\ \A m \in broadcasts : MessageOK(m)'

LEMMA InvKept ==
    ASSUME FreezeInv, Grown
    PROVE  Kept
<1>1. ASSUME UNCHANGED registry PROVE RegistryInv'
  <2>1. ASSUME NEW p \in Ids PROVE StateOK(p, registry[p])'
    <3>1. PICK s : s = registry[p]
      OBVIOUS
    <3>2. StateOK(p, s)'
      BY <3>1, StateKept DEF FreezeInv, RegistryInv
    <3> QED
      BY <1>1, <3>1, <3>2 DEF StateOK
  <2> QED
    BY <1>1, <2>1 DEF FreezeInv, RegistryInv, Ids
<1>2. ASSUME UNCHANGED thread PROVE ThreadInv'
  <2>1. ASSUME NEW v \in Servers PROVE ThreadOK(thread[v])'
    <3>1. PICK t : t = thread[v]
      OBVIOUS
    <3>2. ThreadOK(t)'
      BY <3>1, ThreadKept DEF FreezeInv, ThreadInv
    <3> QED
      BY <1>2, <3>1, <3>2 DEF ThreadOK
  <2> QED
    BY <1>2, <2>1 DEF FreezeInv, ThreadInv
<1>3. ASSUME UNCHANGED << registry, freezer >> PROVE FreezerInv'
  BY <1>3 DEF FreezeInv, FreezerInv, Ids
<1>4. ASSUME UNCHANGED << last_seq, inbox >> PROVE ServerInv'
  <2>1. ASSUME NEW v \in Servers, NEW i \in 1..Len(inbox[v]) PROVE ResponseOK(v, inbox[v][i])'
    <3>1. PICK m : m = inbox[v][i]
      OBVIOUS
    <3>2. ResponseOK(v, m)'
      BY <3>1, ResponseKept DEF FreezeInv, ServerInv
    <3> QED
      BY <1>4, <3>1, <3>2 DEF ResponseOK, Gave
  <2> QED
    BY <1>4, <2>1 DEF FreezeInv, ServerInv
<1>5. ASSUME UNCHANGED worker PROVE WorkerInv'
  BY <1>5 DEF FreezeInv, WorkerInv
<1>6. ASSUME NEW m \in broadcasts PROVE MessageOK(m)'
  BY MessageKept DEF FreezeInv
<1> QED
  BY <1>1, <1>2, <1>3, <1>4, <1>5, <1>6, Zenon DEF Kept

\* Only the state of p is new in the registry.
OnlyNew(p) ==
    /\ p \in Nat /\ Ids' = Ids \cup {p} /\ registry' = [q \in Ids' |-> registry'[q]]
    /\ \A q \in Ids \ {p} : registry'[q] = registry[q]

LEMMA RegistryUpdated ==
    ASSUME FreezeInv, Grown, NEW p, NEW s, StateOK(p, s)', OnlyNew(p), registry'[p] = s
    PROVE  RegistryInv'
<1>1. Ids \subseteq Nat /\ registry = [q \in Ids |-> registry[q]] /\ \A q \in Ids : StateOK(q, registry[q])
  BY DEF FreezeInv, RegistryInv
<1>2. /\ Ids' = Ids \cup {p} /\ registry' = [q \in Ids' |-> registry'[q]] /\ p \in Nat
      /\ registry'[p] = s /\ \A q \in Ids \ {p} : registry'[q] = registry[q]
  BY DEF OnlyNew
<1>3. ASSUME NEW q \in Ids' PROVE StateOK(q, registry[q])'
  <2>1. CASE q = p
    BY <1>2, <2>1 DEF StateOK
  <2>2. CASE q # p
    <3>1. PICK r : r = registry[q]
      OBVIOUS
    <3>2. q \in Ids /\ registry'[q] = r
      BY <1>2, <2>2, <3>1
    <3>3. StateOK(q, r)'
      BY <1>1, <3>1, <3>2, StateKept
    <3> QED
      BY <3>2, <3>3 DEF StateOK
  <2> QED
    BY <2>1, <2>2
<1> QED
  BY <1>1, <1>2, <1>3 DEF RegistryInv

\* Only the thread of v has moved.
OnlyThread(v) ==
    /\ DOMAIN thread' = DOMAIN thread /\ thread' = [w \in DOMAIN thread |-> thread'[w]]
    /\ \A w \in DOMAIN thread \ {v} : thread'[w] = thread[w]

LEMMA ThreadUpdated ==
    ASSUME FreezeInv, Grown, NEW v \in Servers, NEW t, ThreadOK(t)',
           OnlyThread(v) /\ thread'[v] = t
    PROVE  ThreadInv'
<1>1. thread = [w \in Servers |-> thread[w]] /\ \A w \in Servers : ThreadOK(thread[w])
  BY DEF FreezeInv, ThreadInv
<1>2. /\ thread' = [w \in Servers |-> thread'[w]]
      /\ thread'[v] = t /\ \A w \in Servers \ {v} : thread'[w] = thread[w]
  BY <1>1 DEF OnlyThread
<1>3. ASSUME NEW w \in Servers PROVE ThreadOK(thread[w])'
  <2>1. CASE w = v
    BY <1>2, <2>1 DEF ThreadOK
  <2>2. CASE w # v
    <3>1. PICK r : r = thread[w]
      OBVIOUS
    <3>2. thread'[w] = r
      BY <1>2, <2>2, <3>1
    <3>3. ThreadOK(r)'
      BY <1>1, <3>1, ThreadKept
    <3> QED
      BY <3>2, <3>3 DEF ThreadOK
  <2> QED
    BY <2>1, <2>2
<1> QED
  BY <1>2, <1>3 DEF ThreadInv

LEMMA SameGrown ==
    ASSUME FreezeInv, Ids \subseteq Ids', UNCHANGED << answers, delivered, global_seq_num >>
    PROVE  Grown
BY DEF FreezeInv, Grown

LEMMA RegistryIs ==
    ASSUME FreezeInv
    PROVE  /\ registry = [q \in DOMAIN registry |-> registry[q]] /\ Ids = DOMAIN registry
           /\ Ids \subseteq Nat
BY DEF FreezeInv, RegistryInv, Ids

LEMMA ThreadIs ==
    ASSUME FreezeInv, NEW v \in Servers
    PROVE  /\ thread = [w \in DOMAIN thread |-> thread[w]] /\ DOMAIN thread = Servers
           /\ ThreadOK(thread[v])
           /\ \E t : t = thread[v] /\ ThreadOK(t)
BY DEF FreezeInv, ThreadInv, ThreadOK

LEMMA StateIs ==
    ASSUME FreezeInv, NEW p \in Ids
    PROVE  registry[p] \in States /\ StateOK(p, registry[p]) /\ p \in Nat
BY DEF FreezeInv, RegistryInv, StateOK

LEMMA Constants ==
    /\ MaxRound \in Nat /\ MaxLast \in Nat /\ Quorum \in Nat /\ Quorum > 0
    /\ IsFiniteSet(Servers) /\ Suspects \subseteq Nat
<1>1. Cardinality(Servers) \in Nat
  BY ZipperAssumption, FS_CardinalityType
<1> QED
  BY <1>1, ZipperAssumption

----------------------------------------------------------------------------
(***************************************************************************)
(* The freeze protocol, action by action.                                  *)
(***************************************************************************)
LEMMA ReportStep ==
    ASSUME FreezeInv, NEW v \in Servers, NEW p \in Suspects, handle_report(v, p)
    PROVE  FreezeInv'
<1>1. p \in Ids
  BY DEF handle_report
<1>2. PICK r \in States : r = registry[p] /\ StateOK(p, r) /\ p \in Nat
  BY <1>1, StateIs
<1>3. PICK st \in {"ACTIVE", "RECONFIGURING", "BLOCKED"}, c \in SUBSET Servers :
         registry' = [registry EXCEPT ![p].reporters = c, ![p].status = st]
  BY <1>2 DEF handle_report, States
<1>4. PICK s : s = [r EXCEPT !.reporters = c, !.status = st]
  OBVIOUS
<1>5. OnlyNew(p) /\ registry'[p] = s
  BY <1>1, <1>2, <1>3, <1>4, RegistryIs DEF Ids, OnlyNew
<1>6. /\ s \in States
      /\ s.allocated_sequences = r.allocated_sequences /\ s.freeze_round = r.freeze_round
      /\ s.freeze_responders = r.freeze_responders /\ s.last_sequences = r.last_sequences
  BY <1>2, <1>3, <1>4 DEF States
<1>7. StateOK(p, s)
  BY <1>2, <1>6 DEF StateOK
<1>8. Grown
  BY <1>5, SameGrown DEF OnlyNew, handle_report, admission, allocation, environment
<1>9. RegistryInv'
  BY <1>5, <1>7, <1>8, StateKept, RegistryUpdated
<1>10. FreezerInv'
  BY <1>1, <1>5 DEF OnlyNew, handle_report, FreezeInv, FreezerInv
<1>11. Kept
  BY <1>8, InvKept
<1> QED
  BY <1>8, <1>9, <1>10, <1>11
  DEF FreezeInv, Kept, Grown, handle_report, admission, allocation, environment

\* A round that begins has no responders.
LEMMA RoundStarts ==
    ASSUME FreezeInv, NEW p \in Ids, NEW n \in Nat \ {0}, StartRound(p, n),
           UNCHANGED << answers, delivered, global_seq_num >>
    PROVE  Grown /\ RegistryInv' /\ Ids \subseteq Ids'
<1>1. PICK r \in States : r = registry[p] /\ StateOK(p, r) /\ p \in Nat
  BY StateIs
<1>2. n \in 0..MaxRound
  BY Constants DEF StartRound
<1>3. PICK s : s = [r EXCEPT !.freeze_round = n, !.freeze_responders = {}, !.last_sequences = {}]
  OBVIOUS
<1>4. OnlyNew(p) /\ registry'[p] = s
  BY <1>1, <1>3, RegistryIs DEF StartRound, OnlyNew, Ids
<1>5. /\ s \in States /\ s.allocated_sequences = r.allocated_sequences
      /\ s.freeze_responders = {}
  BY <1>1, <1>2, <1>3 DEF States
<1>6. StateOK(p, s)
  BY <1>1, <1>5 DEF StateOK
<1>7. Grown
  BY <1>4, SameGrown DEF OnlyNew
<1> QED
  BY <1>4, <1>6, <1>7, StateKept, RegistryUpdated DEF OnlyNew

LEMMA FreezerStartsStep ==
    ASSUME FreezeInv, NEW p \in Suspects, FreezerStarts(p)
    PROVE  FreezeInv'
<1>1. p \in Ids
  BY DEF FreezeInv, FreezerInv, FreezerStarts
<1>2. UNCHANGED << answers, delivered, global_seq_num, thread, broadcasts, last_seq, inbox, worker >>
  BY DEF FreezerStarts, allocation, environment
<1>3. Grown /\ RegistryInv' /\ Ids \subseteq Ids'
  BY <1>1, <1>2, RoundStarts DEF FreezerStarts
<1>4. FreezerInv'
  BY <1>1, <1>3 DEF FreezeInv, FreezerInv, FreezerStarts
<1>5. Kept
  BY <1>3, InvKept
<1> QED
  BY <1>2, <1>3, <1>4, <1>5 DEF FreezeInv, Kept

LEMMA NextRoundStep ==
    ASSUME FreezeInv, NEW v \in Servers, NextRound(v)
    PROVE  FreezeInv'
<1>1. PICK t : t = thread[v] /\ ThreadOK(t)
  BY ThreadIs
<1>2. ThreadOK(t) /\ t.pc = "round"
  BY <1>1 DEF NextRound
<1>3. PICK p \in Ids : p = t.proxy
  BY <1>2 DEF ThreadOK
<1>4. /\ UNCHANGED << answers, delivered, global_seq_num, freezer, broadcasts, last_seq, inbox, worker >>
      /\ thread' = [thread EXCEPT ![v].pc = "read"]
  BY DEF NextRound, allocation, environment
<1>5. Grown /\ RegistryInv' /\ Ids \subseteq Ids'
  <2>1. PICK n : n = registry[p].freeze_round + 1
    OBVIOUS
  <2>2. n \in Nat \ {0}
    <3>1. registry[p].freeze_round \in 0..MaxRound
      BY StateIs DEF States
    <3> QED
      BY <2>1, <3>1, Constants
  <2>3. StartRound(p, n)
    BY <1>1, <1>3, <2>1 DEF NextRound
  <2> QED
    BY <1>4, <2>2, <2>3, RoundStarts
<1> PICK u : u = [t EXCEPT !.pc = "read"]
  OBVIOUS
<1>6. OnlyThread(v) /\ thread'[v] = u
  BY <1>1, <1>4, ThreadIs DEF OnlyThread
<1>7. ThreadOK(u)
  <2>1. Fields(u) /\ u.pc = "read" /\ u.proxy = t.proxy
    BY <1>2 DEF ThreadOK, Fields
  <2> QED
    BY <1>2, <2>1 DEF ThreadOK
<1>8. ThreadInv'
  BY <1>5, <1>6, <1>7, ThreadKept, ThreadUpdated
<1>9. FreezerInv'
  BY <1>4, <1>5 DEF FreezeInv, FreezerInv
<1>10. Kept
  BY <1>5, InvKept
<1> QED
  BY <1>4, <1>5, <1>8, <1>9, <1>10 DEF FreezeInv, Kept

\* FREEZE messages are about proxies of the registry and a round within the bound.
LEMMA FreezeSent ==
    ASSUME FreezeInv, Grown, NEW p \in Ids, p \in Suspects, BroadcastFreeze(p)
    PROVE  \A m \in broadcasts' : MessageOK(m)'
<1>1. registry[p].freeze_round \in 0..MaxRound
  BY StateIs DEF States
<1>2. PICK new : new = [type |-> "FREEZE", proxy |-> p, round |-> registry[p].freeze_round]
  OBVIOUS
<1>3. broadcasts' = broadcasts \cup {new}
  BY <1>2 DEF BroadcastFreeze
<1>4. MessageOK(new)
  <2>1. new \in FreezeMessages /\ new.type = "FREEZE" /\ new.proxy = p
    BY <1>1, <1>2 DEF FreezeMessages
  <2> QED
    BY <2>1 DEF MessageOK
<1>5. MessageOK(new)'
  BY <1>4, MessageKept
<1> QED
  BY <1>3, <1>5, InvKept DEF Kept

LEMMA FreezerBroadcastsStep ==
    ASSUME FreezeInv, NEW p \in Suspects, FreezerBroadcasts(p)
    PROVE  FreezeInv'
<1>1. p \in Ids
  BY DEF FreezeInv, FreezerInv, FreezerBroadcasts
<1>2. UNCHANGED << registry, answers, delivered, global_seq_num, thread, last_seq, inbox, worker >>
  BY DEF FreezerBroadcasts, allocation, environment
<1>3. Grown
  BY <1>2, SameGrown DEF Ids
<1>4. FreezerInv'
  BY <1>1, <1>2 DEF FreezeInv, FreezerInv, FreezerBroadcasts, Ids
<1>5. \A m \in broadcasts' : MessageOK(m)'
  BY <1>1, <1>3, FreezeSent DEF FreezerBroadcasts
<1>6. Kept
  BY <1>3, InvKept
<1> QED
  BY <1>2, <1>3, <1>4, <1>5, <1>6 DEF FreezeInv, Kept

LEMMA IdleOK == ThreadOK(Idle) /\ ThreadOK(Idle)'
BY DEF ThreadOK, Fields, Idle

LEMMA ThreadIdle ==
    ASSUME FreezeInv, Grown, NEW v \in Servers, thread' = [thread EXCEPT ![v] = Idle]
    PROVE  ThreadInv'
<1>1. PICK t : t = Idle
  OBVIOUS
<1>2. OnlyThread(v) /\ thread'[v] = t
  BY <1>1, ThreadIs DEF OnlyThread
<1>3. ThreadOK(t)'
  BY <1>1, IdleOK
<1> QED
  BY <1>2, <1>3, ThreadUpdated

LEMMA NextRoundBroadcastsStep ==
    ASSUME FreezeInv, NEW v \in Servers, NextRoundBroadcasts(v)
    PROVE  FreezeInv'
<1>1. PICK p : p = thread[v].proxy
  OBVIOUS
<1>2. p \in Ids /\ p \in Suspects
  BY <1>1, ThreadIs DEF ThreadOK, NextRoundBroadcasts
<1>3. /\ UNCHANGED << registry, answers, delivered, global_seq_num, freezer, last_seq, inbox, worker >>
      /\ thread' = [thread EXCEPT ![v] = Idle]
  BY DEF NextRoundBroadcasts, allocation, environment
<1>4. Grown
  BY <1>3, SameGrown DEF Ids
<1>5. ThreadInv'
  BY <1>3, <1>4, IdleOK, ThreadIdle
<1>6. \A m \in broadcasts' : MessageOK(m)'
  BY <1>1, <1>2, <1>4, FreezeSent DEF NextRoundBroadcasts
<1>7. Kept
  BY <1>4, InvKept
<1> QED
  BY <1>3, <1>4, <1>5, <1>6, <1>7 DEF FreezeInv, Kept

LEMMA BlockStep ==
    ASSUME FreezeInv, NEW v \in Servers, BlockProxy(v)
    PROVE  FreezeInv'
<1>1. PICK t : t = thread[v] /\ ThreadOK(t)
  BY ThreadIs
<1>2. t.pc = "block"
  BY <1>1 DEF BlockProxy
<1>3. PICK p \in Ids : p = t.proxy
  BY <1>1, <1>2 DEF ThreadOK
<1>4. PICK r \in States : r = registry[p] /\ StateOK(p, r) /\ p \in Nat
  BY StateIs
<1>5. PICK s : s = [r EXCEPT !.status = "BLOCKED"]
  OBVIOUS
<1>6. /\ registry' = [registry EXCEPT ![p].status = "BLOCKED"]
      /\ thread' = [thread EXCEPT ![v].pc = "skip", ![v].skip = ToSkip(p, t.last)]
      /\ UNCHANGED << answers, delivered, global_seq_num, freezer, broadcasts, last_seq, inbox, worker >>
  BY <1>1, <1>3 DEF BlockProxy, allocation, environment
<1>7. OnlyNew(p) /\ registry'[p] = s
  BY <1>4, <1>5, <1>6, RegistryIs DEF OnlyNew, Ids
<1>8. /\ s \in States
      /\ s.allocated_sequences = r.allocated_sequences /\ s.freeze_round = r.freeze_round
      /\ s.freeze_responders = r.freeze_responders /\ s.last_sequences = r.last_sequences
  BY <1>4, <1>5 DEF States
<1>9. StateOK(p, s)
  BY <1>4, <1>8 DEF StateOK
<1>10. Grown
  BY <1>6, <1>7, SameGrown DEF OnlyNew
<1>11. RegistryInv'
  BY <1>7, <1>9, <1>10, StateKept, RegistryUpdated
<1>12. PICK skip : skip = ToSkip(p, t.last)
  OBVIOUS
<1>13. PICK u : u = [t EXCEPT !.pc = "skip", !.skip = skip]
  OBVIOUS
<1>14. OnlyThread(v) /\ thread'[v] = u
  <2>1. thread' = [thread EXCEPT ![v].pc = "skip", ![v].skip = skip]
    BY <1>6, <1>12
  <2>2. /\ thread = [w \in DOMAIN thread |-> thread[w]] /\ v \in DOMAIN thread
        /\ thread[v] = t
    BY <1>1, ThreadIs
  <2>3. thread'[v] = u
    BY <1>13, <2>1, <2>2
  <2>4. OnlyThread(v)
    BY <2>1, <2>2 DEF OnlyThread
  <2> QED
    BY <2>3, <2>4
<1>15. ThreadOK(u)
  <2>1. \A n \in skip : Allocated(p, n) /\ n > t.last
    BY <1>4, <1>12 DEF ToSkip, StateOK
  <2>2. /\ Fields(u) /\ u.pc = "skip" /\ u.skip = skip
        /\ u.proxy = t.proxy /\ u.last = t.last
    BY <1>1, <1>13 DEF ThreadOK, Fields
  <2> QED
    BY <1>1, <1>2, <1>3, <2>1, <2>2 DEF ThreadOK
<1>16. ThreadInv'
  BY <1>10, <1>14, <1>15, ThreadKept, ThreadUpdated
<1>17. Kept /\ FreezerInv'
  BY <1>6, <1>7, <1>10, InvKept DEF OnlyNew, FreezeInv, FreezerInv
<1> QED
  BY <1>6, <1>10, <1>11, <1>16, <1>17 DEF FreezeInv, Kept

LEMMA SendSkipStep ==
    ASSUME FreezeInv, NEW v \in Servers, SendSkip(v)
    PROVE  FreezeInv'
<1>1. PICK t : t = thread[v] /\ ThreadOK(t)
  BY ThreadIs
<1>2. PICK n \in t.skip :
        /\ t.pc = "skip"
        /\ broadcasts' = broadcasts \cup {[type |-> "SKIP", proxy |-> t.proxy, seq |-> n]}
        /\ thread' = [thread EXCEPT ![v].pc = "acks", ![v].skip = @ \ {n}]
        /\ UNCHANGED << registry, answers, delivered, global_seq_num, freezer, last_seq, inbox, worker >>
  BY <1>1 DEF SendSkip, allocation, environment
<1>3. /\ t.proxy \in Ids \cap Suspects /\ t.last \in 0..MaxLast /\ Agreed(t.proxy, t.last)
      /\ \A k \in t.skip : Allocated(t.proxy, k) /\ k > t.last
  BY <1>1, <1>2 DEF ThreadOK
<1>4. Grown
  BY <1>2, SameGrown DEF Ids
<1>5. PICK m : m = [type |-> "SKIP", proxy |-> t.proxy, seq |-> n]
  OBVIOUS
<1>6. MessageOK(m)
  <2>1. n \in Nat /\ Allocated(t.proxy, n) /\ n > t.last
    BY <1>3 DEF Allocated
  <2>2. m \in FreezeMessages /\ m.type = "SKIP" /\ m.proxy = t.proxy /\ m.seq = n
    BY <1>3, <1>5, <2>1 DEF FreezeMessages
  <2>3. t.last \in 0..(n - 1)
    BY <1>3, <2>1, Constants
  <2> QED
    BY <1>3, <2>1, <2>2, <2>3 DEF MessageOK
<1>7. Kept
  BY <1>4, InvKept
<1>8. ASSUME NEW x \in broadcasts' PROVE MessageOK(x)'
  <2>1. x \in broadcasts \/ x = m
    BY <1>2, <1>5
  <2>2. MessageOK(m)'
    BY <1>4, <1>6, MessageKept
  <2>3. CASE x \in broadcasts
    BY <1>7, <2>3 DEF Kept
  <2>4. CASE x = m
    BY <2>2, <2>4 DEF MessageOK, Allocated, Agreed
  <2> QED
    BY <2>1, <2>3, <2>4
<1>9. PICK skip : skip = t.skip \ {n}
  OBVIOUS
<1>10. PICK u : u = [t EXCEPT !.pc = "acks", !.skip = skip]
  OBVIOUS
<1>11. OnlyThread(v) /\ thread'[v] = u
  <2>1. /\ thread = [w \in DOMAIN thread |-> thread[w]] /\ v \in DOMAIN thread
        /\ thread[v] = t
    BY <1>1, ThreadIs
  <2>2. thread' = [thread EXCEPT ![v].pc = "acks", ![v].skip = skip]
    BY <1>2, <1>9, <2>1
  <2>3. thread'[v] = u
    BY <1>10, <2>1, <2>2
  <2>4. OnlyThread(v)
    BY <2>1, <2>2 DEF OnlyThread
  <2> QED
    BY <2>3, <2>4
<1>12. ThreadOK(u)
  <2>1. /\ Fields(u) /\ u.pc = "acks" /\ u.skip = skip
        /\ u.proxy = t.proxy /\ u.last = t.last
    BY <1>1, <1>10 DEF ThreadOK, Fields
  <2> QED
    BY <1>3, <1>9, <2>1 DEF ThreadOK
<1>13. ThreadInv'
  BY <1>4, <1>11, <1>12, ThreadKept, ThreadUpdated
<1> QED
  BY <1>2, <1>4, <1>7, <1>8, <1>13 DEF FreezeInv, Kept, Ids

LEMMA SkipAckedStep ==
    ASSUME FreezeInv, NEW v \in Servers, SkipAcked(v)
    PROVE  FreezeInv'
<1>1. PICK t : t = thread[v] /\ ThreadOK(t)
  BY ThreadIs
<1>2. /\ t.pc = "acks" /\ thread' = [thread EXCEPT ![v].pc = "skip"]
      /\ UNCHANGED << registry, answers, delivered, global_seq_num, freezer, broadcasts,
                      last_seq, inbox, worker >>
  BY <1>1 DEF SkipAcked, allocation, environment
<1>3. Grown
  BY <1>2, SameGrown DEF Ids
<1>4. Kept
  BY <1>3, InvKept
<1>5. PICK u : u = [t EXCEPT !.pc = "skip"]
  OBVIOUS
<1>6. OnlyThread(v) /\ thread'[v] = u
  BY <1>1, <1>2, <1>5, ThreadIs DEF OnlyThread
<1>7. ThreadOK(u)
  <2>1. /\ Fields(u) /\ u.pc = "skip" /\ u.skip = t.skip
        /\ u.proxy = t.proxy /\ u.last = t.last
    BY <1>1, <1>5 DEF ThreadOK, Fields
  <2> QED
    BY <1>1, <1>2, <2>1 DEF ThreadOK
<1>8. ThreadInv'
  BY <1>3, <1>6, <1>7, ThreadKept, ThreadUpdated
<1> QED
  BY <1>2, <1>3, <1>4, <1>8 DEF FreezeInv, Kept, Ids

LEMMA CompleteStep ==
    ASSUME FreezeInv, NEW v \in Servers, Complete(v)
    PROVE  FreezeInv'
<1>1. PICK t : t = thread[v] /\ ThreadOK(t)
  BY ThreadIs
<1>2. PICK m : m = [type |-> "FREEZE_COMPLETE", proxy |-> t.proxy, last |-> t.last]
  OBVIOUS
<1>3. /\ t.pc = "skip" /\ broadcasts' = broadcasts \cup {m}
      /\ thread' = [thread EXCEPT ![v] = Idle]
      /\ UNCHANGED << registry, answers, delivered, global_seq_num, freezer, last_seq, inbox, worker >>
  BY <1>1, <1>2 DEF Complete, allocation, environment
<1>4. t.proxy \in Ids \cap Suspects /\ t.last \in 0..MaxLast /\ Agreed(t.proxy, t.last)
  BY <1>1, <1>3 DEF ThreadOK
<1>5. Grown
  BY <1>3, SameGrown DEF Ids
<1>6. MessageOK(m)
  <2>1. m \in FreezeMessages /\ m.type = "FREEZE_COMPLETE" /\ m.proxy = t.proxy /\ m.last = t.last
    BY <1>2, <1>4 DEF FreezeMessages
  <2> QED
    BY <1>4, <2>1 DEF MessageOK
<1>7. Kept
  BY <1>5, InvKept
<1>8. ASSUME NEW x \in broadcasts' PROVE MessageOK(x)'
  <2>1. x \in broadcasts \/ MessageOK(x)
    BY <1>3, <1>6
  <2> QED
    BY <1>5, <1>7, <2>1, MessageKept DEF Kept
<1>9. ThreadInv'
  BY <1>3, <1>5, IdleOK, ThreadIdle
<1> QED
  BY <1>3, <1>5, <1>7, <1>8, <1>9 DEF FreezeInv, Kept, Ids

\* The numbers of a round that has one value among its answers are agreed on.
LEMMA RoundAgrees ==
    ASSUME NEW p, NEW r \in 0..MaxRound, NEW l, NEW R \in SUBSET Servers,
           Cardinality(R) >= Quorum, \A v \in R : Gave(v, p, r, l)
    PROVE  Agreed(p, l)
<1> DEFINE G == {v \in Servers : Gave(v, p, r, l)}
<1>1. R \subseteq G /\ G \subseteq Servers
  OBVIOUS
<1> HIDE DEF G
<1>2. IsFiniteSet(G) /\ IsFiniteSet(R)
  BY <1>1, Constants, FS_Subset
<1>3. Cardinality(R) <= Cardinality(G) /\ Cardinality(R) \in Nat /\ Cardinality(G) \in Nat
  BY <1>1, <1>2, FS_Subset, FS_CardinalityType
<1>4. Cardinality(G) >= Quorum
  BY <1>3, Constants
<1>5. Cardinality({v \in Servers : Gave(v, p, r, l)}) >= Quorum
  BY <1>4 DEF G
<1> QED
  BY <1>5, Zenon DEF Agreed, Gave

\* A response of the current round joins its responders.
LEMMA ResponseCounts ==
    ASSUME FreezeInv, NEW v \in Servers, NEW m, ResponseOK(v, m),
           NEW r \in States, StateOK(m.proxy, r), m.round = r.freeze_round,
           NEW s \in States,
           s.allocated_sequences = r.allocated_sequences, s.freeze_round = r.freeze_round,
           s.freeze_responders = r.freeze_responders \cup {v},
           s.last_sequences = r.last_sequences \cup {m.last}
    PROVE  StateOK(m.proxy, s) /\ s.freeze_round \in 0..MaxRound
<1>1. m.proxy \in Suspects /\ m.round \in 0..MaxRound /\ m.last \in 0..MaxLast
      /\ Gave(v, m.proxy, m.round, m.last)
  BY DEF ResponseOK, Responses
<1>2. ASSUME NEW w \in s.freeze_responders
      PROVE  \E l \in s.last_sequences : Gave(w, m.proxy, s.freeze_round, l)
  <2>1. CASE w = v
    BY <1>1, <2>1
  <2>2. CASE w \in r.freeze_responders
    BY <2>2 DEF StateOK
  <2> QED
    BY <2>1, <2>2
<1>3. \A n \in s.allocated_sequences : Allocated(m.proxy, n)
  BY DEF StateOK
<1> QED
  BY <1>1, <1>2, <1>3 DEF StateOK

\* When all of its responders gave one number, a quorum agrees on it.
LEMMA OneNumber ==
    ASSUME NEW p, NEW s, StateOK(p, s), s.freeze_round \in 0..MaxRound,
           Enough(s.freeze_responders), Cardinality(s.last_sequences) = 1,
           NEW l, l = CHOOSE x \in s.last_sequences : \A k \in s.last_sequences : x <= k
    PROVE  l \in 0..MaxLast /\ Agreed(p, l)
<1>1. s.freeze_responders \in SUBSET Servers /\ s.last_sequences \in SUBSET (0..MaxLast)
  BY DEF StateOK, States
<1>2. IsFiniteSet(s.last_sequences)
  <2>1. IsFiniteSet(0..MaxLast)
    BY Constants, FS_Interval
  <2> QED
    BY <1>1, <2>1, FS_Subset
<1>3. PICK x : s.last_sequences = {x}
  BY <1>2, FS_Singleton
<1>4. l = x /\ x \in 0..MaxLast
  BY <1>1, <1>3
<1>5. \A v \in s.freeze_responders : Gave(v, p, s.freeze_round, l)
  BY <1>3, <1>4 DEF StateOK
<1> QED
  BY <1>1, <1>4, <1>5, RoundAgrees DEF Enough

\* The first response leaves the inbox of v.
LEMMA InboxTaken ==
    ASSUME FreezeInv, Grown, NEW v \in Servers, inbox[v] # << >>,
           inbox' = [inbox EXCEPT ![v] = Tail(@)], UNCHANGED last_seq
    PROVE  ServerInv'
<1>1. /\ inbox \in [Servers -> Seq(Responses)]
      /\ \A w \in Servers : \A i \in 1..Len(inbox[w]) : ResponseOK(w, inbox[w][i])
  BY DEF FreezeInv, ServerInv
<1>2. PICK q \in Seq(Responses) : q = inbox[v] /\ q # << >>
  BY <1>1
<1>3. Tail(q) \in Seq(Responses) /\ Len(Tail(q)) = Len(q) - 1
      /\ \A i \in 1..Len(Tail(q)) : Tail(q)[i] = q[i + 1] /\ i + 1 \in 1..Len(q)
  BY <1>2
<1>4. inbox' \in [Servers -> Seq(Responses)] /\ inbox'[v] = Tail(q)
      /\ \A w \in Servers \ {v} : inbox'[w] = inbox[w]
  BY <1>1, <1>2, <1>3
<1>5. ASSUME NEW w \in Servers, NEW i \in 1..Len(inbox'[w]) PROVE ResponseOK(w, inbox[w][i])'
  <2>1. PICK m : m = inbox'[w][i]
    OBVIOUS
  <2>2. ResponseOK(w, m)
    <3>1. CASE w = v
      BY <1>1, <1>2, <1>3, <1>4, <2>1, <3>1
    <3>2. CASE w # v
      BY <1>1, <1>4, <2>1, <3>2
    <3> QED
      BY <3>1, <3>2
  <2>3. ResponseOK(w, m)'
    BY <2>2, ResponseKept
  <2> QED
    BY <2>1, <2>3 DEF ResponseOK, Gave
<1> QED
  BY <1>4, <1>5 DEF FreezeInv, ServerInv

LEMMA ResponseStep ==
    ASSUME FreezeInv, NEW v \in Servers, handle_freeze_response(v)
    PROVE  FreezeInv'
<1>1. PICK m : m = Head(inbox[v])
  OBVIOUS
<1>2. ResponseOK(v, m) /\ inbox[v] # << >>
  <2>1. inbox[v] \in Seq(Responses) /\ inbox[v] # << >>
        /\ \A i \in 1..Len(inbox[v]) : ResponseOK(v, inbox[v][i])
    BY DEF FreezeInv, ServerInv, handle_freeze_response
  <2>2. 1 \in 1..Len(inbox[v]) /\ m = inbox[v][1]
    BY <1>1, <2>1
  <2> QED
    BY <2>1, <2>2
<1>3. PICK p \in Ids : p = m.proxy
  BY <1>2 DEF ResponseOK
<1>4. PICK r \in States : r = registry[p] /\ StateOK(p, r) /\ p \in Nat
  BY StateIs
<1>5. /\ inbox' = [inbox EXCEPT ![v] = Tail(@)]
      /\ UNCHANGED << answers, delivered, global_seq_num, freezer, broadcasts, last_seq, worker >>
  BY DEF handle_freeze_response, allocation
<1>6. PICK s : s = [r EXCEPT !.freeze_responders = r.freeze_responders \cup {v},
                             !.last_sequences = r.last_sequences \cup {m.last}]
  OBVIOUS
<1>7. Grown /\ RegistryInv' /\ ThreadInv' /\ Ids' = Ids
  <2>1. CASE ~SameRound(p, m.round)
    <3>1. UNCHANGED << registry, thread >>
      BY <1>1, <1>3, <2>1 DEF handle_freeze_response
    <3>2. Grown /\ Ids' = Ids
      BY <1>5, <3>1, SameGrown DEF Ids
    <3> QED
      BY <3>1, <3>2, InvKept DEF Kept
  <2>2. CASE SameRound(p, m.round)
    <3>1. m.round = r.freeze_round
      BY <1>4, <2>2 DEF SameRound
    <3>2. /\ StateOK(p, s) /\ s.freeze_round \in 0..MaxRound
          /\ s.freeze_responders = r.freeze_responders \cup {v}
          /\ s.last_sequences = r.last_sequences \cup {m.last}
      <4>1. /\ s \in States
            /\ s.allocated_sequences = r.allocated_sequences /\ s.freeze_round = r.freeze_round
            /\ s.freeze_responders = r.freeze_responders \cup {v}
            /\ s.last_sequences = r.last_sequences \cup {m.last}
        <5>1. r.freeze_responders \cup {v} \in SUBSET Servers
              /\ r.last_sequences \cup {m.last} \in SUBSET (0..MaxLast)
          BY <1>2 DEF ResponseOK, Responses, States
        <5> QED
          BY <1>6, <5>1 DEF States
      <4>2. StateOK(p, s) /\ s.freeze_round \in 0..MaxRound
        BY <1>2, <1>3, <1>4, <3>1, <4>1, ResponseCounts
      <4> QED
        BY <4>1, <4>2
    <3>3. registry' = [registry EXCEPT ![p].freeze_responders = r.freeze_responders \cup {v},
                                       ![p].last_sequences = r.last_sequences \cup {m.last}]
      BY <1>1, <1>3, <1>4, <2>2 DEF handle_freeze_response
    <3>4. OnlyNew(p) /\ registry'[p] = s
      BY <1>4, <1>6, <3>3, RegistryIs DEF OnlyNew, Ids
    <3>5. Grown /\ Ids' = Ids
      BY <1>5, <3>4, SameGrown DEF OnlyNew
    <3>6. RegistryInv'
      BY <3>2, <3>4, <3>5, StateKept, RegistryUpdated
    <3>7. ThreadInv'
      <4>1. CASE ~Enough(s.freeze_responders)
        <5>1. UNCHANGED thread
          BY <1>1, <1>3, <1>4, <2>2, <3>2, <4>1 DEF handle_freeze_response
        <5> QED
          BY <3>5, <5>1, InvKept DEF Kept
      <4>2. CASE Enough(s.freeze_responders)
        <5>1. PICK pc, l :
                 /\ pc = IF Cardinality(s.last_sequences) = 1 THEN "block" ELSE "round"
                 /\ l = CHOOSE x \in s.last_sequences : \A k \in s.last_sequences : x <= k
          OBVIOUS
        <5>2. PICK u : u = [Idle EXCEPT !.pc = pc, !.proxy = p, !.last = l]
          OBVIOUS
        <5>3. thread' = [thread EXCEPT ![v] = u]
          BY <1>1, <1>3, <1>4, <2>2, <3>2, <4>2, <5>1, <5>2 DEF handle_freeze_response
        <5>4. OnlyThread(v) /\ thread'[v] = u
          BY <5>3, ThreadIs DEF OnlyThread
        <5>5. Fields(u) /\ u.pc = pc /\ u.proxy = p /\ u.last = l
          BY <5>2, IdleOK DEF ThreadOK, Fields, Idle
        <5>6. pc = "block" => l \in 0..MaxLast /\ Agreed(p, l)
          BY <3>2, <4>2, <5>1, OneNumber
        <5>7. p \in Suspects
          BY <1>2, <1>3 DEF ResponseOK, Responses
        <5>8. ThreadOK(u)
          BY <5>1, <5>5, <5>6, <5>7 DEF ThreadOK
        <5> QED
          BY <3>5, <5>4, <5>8, ThreadKept, ThreadUpdated
      <4> QED
        BY <4>1, <4>2
    <3> QED
      BY <3>5, <3>6, <3>7
  <2> QED
    BY <2>1, <2>2
<1>8. ServerInv'
  BY <1>2, <1>5, <1>7, InboxTaken
<1>9. Kept /\ FreezerInv'
  BY <1>5, <1>7, InvKept DEF FreezeInv, FreezerInv
<1> QED
  BY <1>5, <1>7, <1>8, <1>9 DEF FreezeInv, Kept

----------------------------------------------------------------------------
(***************************************************************************)
(* The steps of the slot allocator, of the admission and of the servers.   *)
(***************************************************************************)
LEMMA QuietStep ==
    ASSUME FreezeInv, UNCHANGED << registry, freezing, environment, global_seq_num, delivered >>,
           WorkerInv'
    PROVE  FreezeInv'
<1>1. UNCHANGED << registry, freezer, thread, broadcasts, last_seq, inbox, answers,
                   global_seq_num, delivered >>
  BY DEF freezing, environment
<1>2. Grown
  BY <1>1, SameGrown DEF Ids
<1>3. Kept
  BY <1>2, InvKept
<1> QED
  BY <1>1, <1>2, <1>3 DEF FreezeInv, Kept

LEMMA WorkerMoves ==
    ASSUME FreezeInv, UNCHANGED << registry, freezing, environment, global_seq_num, delivered >>,
           \/ \E p \in Ids, n \in Estimates : update_estimate(p, n)
           \/ \E a \in Newcomers : Register(a)
           \/ \E a \in including : Included(a)
           \/ \E t \in introducing : TakeId(t)
           \/ Snapshot \/ Gather \/ AllocationDone \/ IntroduceProxies \/ Introduced
    PROVE  WorkerInv'
<1>1. CASE UNCHANGED worker
  BY <1>1 DEF FreezeInv, WorkerInv
<1>2. CASE Snapshot \/ AllocationDone \/ IntroduceProxies \/ Introduced
  <2>1. WorkerIdle \in [pc : {"idle"}, snapshot : {<< >>}, slots : {{}}]
    BY DEF WorkerIdle
  <2>2. PICK pc \in {"idle", "gather", "introduce"} :
           worker' \in {WorkerIdle, [WorkerIdle EXCEPT !.pc = pc],
                        [WorkerIdle EXCEPT !.pc = pc, !.snapshot = estimates]}
    BY <1>2 DEF Snapshot, AllocationDone, IntroduceProxies, Introduced
  <2>3. CASE worker' = WorkerIdle
    BY <2>1, <2>3 DEF WorkerInv
  <2>4. CASE worker' = [WorkerIdle EXCEPT !.pc = pc]
    BY <2>1, <2>4 DEF WorkerInv
  <2>5. CASE worker' = [WorkerIdle EXCEPT !.pc = pc, !.snapshot = estimates]
    BY <2>1, <2>5 DEF WorkerInv
  <2> QED
    BY <2>2, <2>3, <2>4, <2>5
<1>3. CASE Gather
  BY <1>3 DEF Gather, FreezeInv, WorkerInv
<1> QED
  BY <1>1, <1>2, <1>3 DEF update_estimate, Register, Included, TakeId, allocation

\* The next number goes to one slot, and no state refers to it before.
LEMMA AssignStep ==
    ASSUME FreezeInv, AssignSlot
    PROVE  FreezeInv'
<1>1. PICK slot : slot = CHOOSE s \in worker.slots : \A t \in worker.slots \ {s} : Before(s, t)
  OBVIOUS
<1>2. PICK p, g : p = slot.proxy /\ g = global_seq_num /\ g \in Nat \ {0}
  BY DEF FreezeInv
<1>3. /\ registry' = [registry EXCEPT ![p].allocated_sequences = @ \cup {g}]
      /\ delivered' = delivered \cup
            {[proxy |-> p, epoch |-> epochs, index |-> slot.index, of |-> slot.of,
              ts |-> TimePoint(slot), seq |-> g]}
      /\ worker' = [worker EXCEPT !.slots = @ \ {slot}]
      /\ global_seq_num' = g + 1
      /\ UNCHANGED << freezer, thread, broadcasts, last_seq, inbox, answers >>
  BY <1>1, <1>2, Zenon DEF AssignSlot, freezing, environment
<1>4. Ids' = Ids
  BY <1>3, RegistryIs DEF Ids
<1>5. Grown
  BY <1>2, <1>3, <1>4 DEF Grown
<1>6. Kept
  BY <1>5, InvKept
<1>7. RegistryInv'
  <2>1. CASE p \notin Ids
    <3>1. UNCHANGED registry
      BY <1>3, <2>1, RegistryIs
    <3> QED
      BY <1>6, <3>1 DEF Kept
  <2>2. CASE p \in Ids
    <3>1. PICK r \in States : r = registry[p] /\ StateOK(p, r) /\ p \in Nat
      BY <2>2, StateIs
    <3>2. PICK s : s = [r EXCEPT !.allocated_sequences = r.allocated_sequences \cup {g}]
      OBVIOUS
    <3>3. OnlyNew(p) /\ registry'[p] = s
      BY <1>3, <2>2, <3>1, <3>2, RegistryIs DEF OnlyNew, Ids
    <3>4. /\ s \in States
          /\ s.allocated_sequences = r.allocated_sequences \cup {g}
          /\ s.freeze_round = r.freeze_round
          /\ s.freeze_responders = r.freeze_responders /\ s.last_sequences = r.last_sequences
      BY <1>2, <3>1, <3>2 DEF States
    <3>5. Allocated(p, g)'
      <4>1. PICK d : d = [proxy |-> p, epoch |-> epochs, index |-> slot.index, of |-> slot.of,
                          ts |-> TimePoint(slot), seq |-> g]
        OBVIOUS
      <4>2. d \in delivered' /\ d.proxy = p /\ d.seq = g
        BY <1>3, <4>1
      <4> QED
        BY <1>2, <1>3, <4>2 DEF Allocated
    <3>6. \A n \in s.allocated_sequences : Allocated(p, n)'
      BY <1>5, <3>1, <3>4, <3>5, AllocatedKept DEF StateOK
    <3>7. StateOK(p, r)'
      BY <1>5, <3>1, StateKept
    <3>8. StateOK(p, s)'
      BY <3>4, <3>6, <3>7 DEF StateOK
    <3> QED
      BY <1>5, <3>3, <3>8, RegistryUpdated
  <2> QED
    BY <2>1, <2>2
<1>8. WorkerInv'
  BY <1>3 DEF FreezeInv, WorkerInv
<1>9. FreezerInv'
  BY <1>3, <1>4 DEF FreezeInv, FreezerInv
<1> QED
  BY <1>3, <1>5, <1>6, <1>7, <1>8, <1>9 DEF FreezeInv, Kept, Grown

LEMMA FreshStateOK ==
    ASSUME NEW p, NEW a \in Addresses
    PROVE  StateOK(p, ProxyState(a)) /\ StateOK(p, ProxyState(a))'
<1>1. PICK s : s = ProxyState(a)
  OBVIOUS
<1>2. s \in States /\ s.allocated_sequences = {} /\ s.freeze_responders = {}
  BY <1>1, Constants DEF ProxyState, States
<1> QED
  BY <1>1, <1>2 DEF StateOK

\* A fresh state for one proxy, and nothing else that the freeze is about.
LEMMA FreshStep ==
    ASSUME FreezeInv, NEW p \in Nat, NEW a \in Addresses, OnlyNew(p),
           registry'[p] = ProxyState(a), UNCHANGED << allocation, freezing, environment >>
    PROVE  FreezeInv'
<1>1. UNCHANGED << freezer, thread, broadcasts, last_seq, inbox, answers, global_seq_num,
                   delivered, worker >>
  BY DEF allocation, freezing, environment
<1>2. Ids \subseteq Ids'
  BY DEF OnlyNew
<1>3. Grown
  BY <1>1, <1>2, SameGrown
<1>4. PICK s : s = ProxyState(a)
  OBVIOUS
<1>5. StateOK(p, s)'
  BY <1>4, FreshStateOK
<1>6. RegistryInv'
  BY <1>3, <1>4, <1>5, RegistryUpdated
<1>7. FreezerInv'
  BY <1>1, <1>2 DEF FreezeInv, FreezerInv
<1>8. Kept
  BY <1>3, InvKept
<1> QED
  BY <1>1, <1>3, <1>6, <1>7, <1>8 DEF FreezeInv, Kept

LEMMA RejoinStep ==
    ASSUME FreezeInv, NEW p \in Nat, NEW b, Rejoin(p, b)
    PROVE  FreezeInv'
<1>1. CASE p \notin Ids
  <2>1. UNCHANGED << registry, freezing, environment, global_seq_num, delivered, worker >>
    BY <1>1 DEF Rejoin, allocation
  <2>2. WorkerInv'
    BY <2>1 DEF FreezeInv, WorkerInv
  <2> QED
    BY <2>1, <2>2, QuietStep
<1>2. CASE p \in Ids
  <2>1. PICK a : a = registry[p].address /\ a \in Addresses
    BY <1>2, StateIs DEF States
  <2>2. registry' = [registry EXCEPT ![p] = ProxyState(a)]
    BY <1>2, <2>1 DEF Rejoin
  <2>3. PICK s : s = ProxyState(a)
    OBVIOUS
  <2>4. OnlyNew(p) /\ registry'[p] = s
    BY <1>2, <2>2, <2>3, RegistryIs DEF OnlyNew, Ids
  <2> QED
    BY <2>1, <2>3, <2>4, FreshStep DEF Rejoin
<1> QED
  BY <1>1, <1>2

LEMMA AddStep ==
    ASSUME FreezeInv, NEW t, TaskOK(t), AddProxy(t)
    PROVE  FreezeInv'
<1>1. PICK p \in Nat, a \in Addresses : p = t.id /\ a = t.address
  BY DEF TaskOK, AddProxy
<1>2. PICK s : s = ProxyState(a)
  OBVIOUS
<1>3. registry' = [k \in DOMAIN registry \cup {p} |-> IF k = p THEN s ELSE registry[k]]
  BY <1>1, <1>2, Zenon DEF AddProxy, WithEntry
<1>4. OnlyNew(p) /\ registry'[p] = s
  BY <1>1, <1>3, RegistryIs DEF OnlyNew, Ids
<1> QED
  BY <1>1, <1>2, <1>4, FreshStep DEF AddProxy

LEMMA SeesStep ==
    ASSUME FreezeInv, NEW v \in Servers, NEW p \in Suspects, ServerSees(v, p)
    PROVE  FreezeInv'
<1>1. UNCHANGED << registry, freezer, thread, broadcasts, inbox, answers, global_seq_num,
                   delivered, worker >>
  BY DEF ServerSees, allocation, freezing
<1>2. Grown
  BY <1>1, SameGrown DEF Ids
<1>3. Kept
  BY <1>2, InvKept
<1>4. ServerInv'
  <2>1. last_seq' \in [Servers -> [Suspects -> 0..MaxLast]]
    <3>1. PICK row \in [Suspects -> 0..MaxLast], n \in 0..MaxLast :
            row = last_seq[v] /\ n = row[p] + 1
      <4>1. PICK row \in [Suspects -> 0..MaxLast] : row = last_seq[v]
        BY DEF FreezeInv, ServerInv
      <4>2. row[p] \in 0..MaxLast /\ row[p] < MaxLast
        BY <4>1 DEF ServerSees
      <4>3. row[p] + 1 \in 0..MaxLast
        BY <4>2, Constants
      <4> QED
        BY <4>1, <4>3
    <3>2. last_seq' = [last_seq EXCEPT ![v] = [row EXCEPT ![p] = n]]
      BY <3>1 DEF ServerSees
    <3>3. [row EXCEPT ![p] = n] \in [Suspects -> 0..MaxLast]
      BY <3>1
    <3> QED
      BY <3>2, <3>3 DEF FreezeInv, ServerInv
  <2>2. ASSUME NEW w \in Servers, NEW i \in 1..Len(inbox[w]) PROVE ResponseOK(w, inbox[w][i])'
    <3>1. PICK m : m = inbox[w][i]
      OBVIOUS
    <3>2. ResponseOK(w, m)'
      BY <1>2, <3>1, ResponseKept DEF FreezeInv, ServerInv
    <3> QED
      BY <1>1, <3>1, <3>2 DEF ResponseOK, Gave
  <2> QED
    BY <1>1, <2>1, <2>2 DEF FreezeInv, ServerInv
<1> QED
  BY <1>1, <1>2, <1>3, <1>4 DEF FreezeInv, Kept, Ids

LEMMA AnswerStep ==
    ASSUME FreezeInv, NEW v \in Servers, NEW m \in broadcasts, ServerAnswers(v, m)
    PROVE  FreezeInv'
<1>1. PICK p \in Suspects, n \in 0..MaxRound : p = m.proxy /\ n = m.round /\ p \in Ids
  BY DEF FreezeInv, MessageOK, FreezeMessages, ServerAnswers
<1>2. PICK l \in 0..MaxLast : l = last_seq[v][p]
  BY DEF FreezeInv, ServerInv
<1>4. PICK answer : answer = [proxy |-> p, round |-> n, last |-> l]
  OBVIOUS
<1>5. /\ inbox' = [inbox EXCEPT ![v] = Append(@, answer)]
      /\ answers' = answers \cup {[server |-> v, answer |-> answer]}
      /\ UNCHANGED << registry, freezer, thread, broadcasts, global_seq_num, delivered, worker,
                      last_seq >>
  BY <1>1, <1>2, <1>4, Zenon DEF ServerAnswers, allocation, freezing
<1>6. Grown
  BY <1>5 DEF FreezeInv, Grown, Ids
<1>7. Kept
  BY <1>6, InvKept
<1>8. answer \in Responses /\ ResponseOK(v, answer)'
  <2>1. /\ answer \in Responses /\ answer.proxy = p /\ answer.round = n /\ answer.last = l
    BY <1>4 DEF Responses
  <2>2. Gave(v, p, n, l)'
    BY <1>4, <1>5 DEF Gave
  <2>3. p \in Ids'
    BY <1>1, <1>6 DEF Grown
  <2> QED
    BY <2>1, <2>2, <2>3 DEF ResponseOK, Gave
<1>9. ServerInv'
  <2>1. last_seq' \in [Servers -> [Suspects -> 0..MaxLast]]
    BY <1>5 DEF FreezeInv, ServerInv
  <2>2. PICK q \in Seq(Responses) : q = inbox[v]
    BY DEF FreezeInv, ServerInv
  <2>3. /\ inbox' \in [Servers -> Seq(Responses)] /\ inbox'[v] = Append(q, answer)
        /\ \A w \in Servers \ {v} : inbox'[w] = inbox[w]
    BY <1>5, <1>8, <2>2 DEF FreezeInv, ServerInv
  <2>4. ASSUME NEW w \in Servers, NEW i \in 1..Len(inbox'[w]) PROVE ResponseOK(w, inbox[w][i])'
    <3>1. PICK x : x = inbox'[w][i]
      OBVIOUS
    <3>2. CASE w = v /\ i = Len(q) + 1
      BY <1>8, <2>2, <2>3, <3>2 DEF ResponseOK, Gave
    <3>3. CASE ~(w = v /\ i = Len(q) + 1)
      <4>1. x = inbox[w][i] /\ i \in 1..Len(inbox[w])
        BY <1>8, <2>2, <2>3, <3>1, <3>3
      <4>2. ResponseOK(w, x)'
        BY <1>6, <4>1, ResponseKept DEF FreezeInv, ServerInv
      <4> QED
        BY <3>1, <4>2 DEF ResponseOK, Gave
    <3> QED
      BY <3>2, <3>3
  <2> QED
    BY <2>1, <2>3, <2>4 DEF ServerInv
<1>10. FreezerInv'
  BY <1>5 DEF FreezeInv, FreezerInv, Ids
<1> QED
  BY <1>5, <1>6, <1>7, <1>9, <1>10 DEF FreezeInv, Kept, Grown

----------------------------------------------------------------------------
\* Every step keeps the invariant of the freeze; an added proxy has its id and address.
LEMMA FreezeNext ==
    ASSUME ZipperInv, Next
    PROVE  FreezeInv'
<1>1. FreezeInv /\ \A t \in introducing : TaskOK(t)
  BY DEF ZipperInv, AdmissionInv
<1>2. CASE \E v \in Servers : ReconfigStep(v) \/ SkipAcked(v)
  BY <1>1, <1>2, ResponseStep, NextRoundStep, NextRoundBroadcastsStep, BlockStep, SendSkipStep,
     SkipAckedStep, CompleteStep
  DEF ReconfigStep
<1>3. CASE \E v \in Servers, p \in Suspects : handle_report(v, p) \/ ServerSees(v, p)
  BY <1>1, <1>3, ReportStep, SeesStep
<1>4. CASE \E p \in Suspects : FreezerStarts(p) \/ FreezerBroadcasts(p)
  BY <1>1, <1>4, FreezerStartsStep, FreezerBroadcastsStep
<1>5. CASE \E v \in Servers, m \in broadcasts : ServerAnswers(v, m)
  BY <1>1, <1>5, AnswerStep
<1>6. CASE AssignSlot
  BY <1>1, <1>6, AssignStep
<1>7. CASE \/ \E p \in Ids, n \in Estimates : update_estimate(p, n)
           \/ \E a \in Newcomers : Register(a)
           \/ \E a \in including : Included(a)
           \/ \E t \in introducing : TakeId(t)
           \/ Snapshot \/ Gather \/ AllocationDone \/ IntroduceProxies \/ Introduced
  <2>1. UNCHANGED << registry, freezing, environment, global_seq_num, delivered >>
    BY <1>7 DEF update_estimate, Register, Included, TakeId, Snapshot, Gather, AllocationDone,
                IntroduceProxies, Introduced, allocation
  <2> QED
    BY <1>1, <1>7, <2>1, WorkerMoves, QuietStep
<1>8. CASE \E p \in 0..(Len(proxies) - 1), a \in Range(proxies) \cup Newcomers : Rejoin(p, a)
  BY <1>1, <1>8, RejoinStep
<1>9. CASE \E t \in introducing : AddProxy(t)
  BY <1>1, <1>9, AddStep
<1> QED
  BY <1>2, <1>3, <1>4, <1>5, <1>6, <1>7, <1>8, <1>9, Zenon DEF Next, WorkerStep

\* The steps that update states of the registry leave every proxy its address.
LEMMA AddressesStay ==
    ASSUME FreezeInv,
           \/ UNCHANGED registry
           \/ \E v \in Servers : ReconfigStep(v) \/ SkipAcked(v)
           \/ \E v \in Servers, p \in Suspects : handle_report(v, p)
           \/ \E p \in Suspects : FreezerStarts(p)
           \/ AssignSlot
           \/ \E p, a : Rejoin(p, a)
    PROVE  Ids' = Ids /\ \A q \in Ids : registry'[q].address = registry[q].address
<1> DEFINE Stays == Ids' = Ids /\ \A q \in Ids : registry'[q].address = registry[q].address
<1>1. CASE UNCHANGED registry
  BY <1>1 DEF Ids
<1>2. \A q \in Ids : registry[q] \in States
  BY StateIs
<1>3. ASSUME NEW p, NEW n, StartRound(p, n) PROVE Stays
  BY <1>2, <1>3, RegistryIs DEF StartRound, Ids, States
<1>4. ASSUME NEW v \in Servers, handle_freeze_response(v) PROVE Stays
  <2> PICK m : m = Head(inbox[v])
    OBVIOUS
  <2> PICK c, d : /\ c = registry[m.proxy].freeze_responders \cup {v}
                  /\ d = registry[m.proxy].last_sequences \cup {m.last}
    OBVIOUS
  <2>1. \/ UNCHANGED registry
        \/ registry' = [registry EXCEPT ![m.proxy].freeze_responders = c,
                                        ![m.proxy].last_sequences = d]
    BY <1>4 DEF handle_freeze_response
  <2> QED
    BY <1>1, <1>2, <2>1, RegistryIs DEF Ids, States
<1>5. ASSUME NEW v \in Servers, NEW p \in Suspects, handle_report(v, p) PROVE Stays
  <2>1. PICK c, st : registry' = [registry EXCEPT ![p].reporters = c, ![p].status = st]
    BY <1>2, <1>5 DEF handle_report, States
  <2> QED
    BY <1>2, <2>1, RegistryIs DEF Ids, States
<1>6. ASSUME NEW v \in Servers, BlockProxy(v) PROVE Stays
  <2>1. PICK p : registry' = [registry EXCEPT ![p].status = "BLOCKED"]
    BY <1>6 DEF BlockProxy
  <2> QED
    BY <1>2, <2>1, RegistryIs DEF Ids, States
<1>7. ASSUME AssignSlot PROVE Stays
  <2>1. PICK p, g : registry' = [registry EXCEPT ![p].allocated_sequences = @ \cup {g}]
    BY <1>7 DEF AssignSlot
  <2> QED
    BY <1>2, <2>1, RegistryIs DEF Ids, States
<1>8. ASSUME NEW p, NEW b, Rejoin(p, b) PROVE Stays
  <2> PICK a : a = registry[p].address
    OBVIOUS
  <2> PICK s : s = ProxyState(a)
    OBVIOUS
  <2>1. a = registry[p].address /\ s = ProxyState(a) /\ s.address = a
    BY DEF ProxyState
  <2>2. UNCHANGED registry \/ registry' = [registry EXCEPT ![p] = s]
    BY <1>8, <2>1 DEF Rejoin
  <2> QED
    BY <1>1, <2>1, <2>2, RegistryIs DEF Ids
<1>9. ASSUME NEW v \in Servers, ReconfigStep(v) \/ SkipAcked(v) PROVE Stays
  <2>1. CASE NextRoundBroadcasts(v) \/ SendSkip(v) \/ SkipAcked(v) \/ Complete(v)
    BY <1>1, <2>1 DEF NextRoundBroadcasts, SendSkip, SkipAcked, Complete
  <2>2. CASE NextRound(v)
    BY <1>3, <2>2 DEF NextRound
  <2> QED
    BY <1>4, <1>6, <1>9, <2>1, <2>2 DEF ReconfigStep
<1>10. ASSUME NEW p \in Suspects, FreezerStarts(p) PROVE Stays
  BY <1>3, <1>10 DEF FreezerStarts
<1> QED
  BY <1>1, <1>5, <1>7, <1>8, <1>9, <1>10

\* A step that leaves the admission alone, or only adds to those who wait.
LEMMA AdmissionKept ==
    ASSUME AdmissionInv, Ids' = Ids, \A q \in Ids : registry'[q].address = registry[q].address,
           UNCHANGED << proxies, introducing >>,
           joining_proxies' \in Seq(Addresses), including' \subseteq Addresses,
           introducing # {} => worker'.pc = "introduce"
    PROVE  AdmissionInv'
BY DEF AdmissionInv, RegistryMatchesConfig, TaskOK

\* The worker waits for the tasks it has started.
LEMMA WorkerWaits ==
    ASSUME ZipperInv, introducing # {},
           UNCHANGED worker \/ Snapshot \/ Gather \/ AssignSlot \/ AllocationDone \/ Introduced
    PROVE  worker'.pc = "introduce"
BY DEF ZipperInv, AdmissionInv, Snapshot, Gather, AssignSlot, AllocationDone, Introduced

LEMMA TasksStart ==
    ASSUME ZipperInv, IntroduceProxies
    PROVE  AdmissionInv'
<1>1. introducing = {} /\ joining_proxies \in Seq(Addresses)
  BY DEF ZipperInv, AdmissionInv, IntroduceProxies
<1>2. \A t \in introducing' : TaskOK(t)'
  BY <1>1 DEF IntroduceProxies, TaskOK, Range, NoId
<1>3. worker'.pc = "introduce"
  BY DEF IntroduceProxies, WorkerIdle
<1>4. RegistryMatchesConfig'
  BY <1>1 DEF ZipperInv, AdmissionInv, IntroduceProxies, RegistryMatchesConfig, Ids
<1> QED
  BY <1>2, <1>3, <1>4 DEF ZipperInv, AdmissionInv, IntroduceProxies

LEMMA IdTaken ==
    ASSUME ZipperInv, NEW t \in introducing, TakeId(t)
    PROVE  AdmissionInv'
<1>1. /\ proxies \in Seq(Addresses) /\ t \in [task : Nat, address : Addresses, id : Nat \cup {NoId}]
      /\ \A x \in introducing : TaskOK(x)
      /\ RegistryMatchesConfig /\ worker.pc = "introduce" /\ Ids \subseteq Nat
  BY DEF ZipperInv, AdmissionInv, TaskOK, FreezeInv, RegistryInv
<1>2. PICK a \in Addresses, n \in Nat : a = t.address /\ n = Len(proxies)
  BY <1>1
<1>3. PICK u : u = [t EXCEPT !.id = n]
  OBVIOUS
<1>4. u \in [task : Nat, address : Addresses, id : Nat \cup {NoId}] /\ u.id = n /\ u.address = a
  BY <1>1, <1>2, <1>3
<1>5. /\ introducing' = (introducing \ {t}) \cup {u} /\ t.id = NoId
      /\ proxies' = Append(proxies, a)
      /\ UNCHANGED << registry, including, joining_proxies, worker >>
  BY <1>2, <1>3 DEF TakeId, allocation
<1>6. /\ proxies' \in Seq(Addresses) /\ Len(proxies') = n + 1 /\ proxies'[n + 1] = a
      /\ \A i \in 1..n : proxies'[i] = proxies[i]
  BY <1>1, <1>2, <1>5
<1>7. ASSUME NEW x \in introducing' PROVE TaskOK(x)'
  <2>1. CASE x = u
    BY <1>4, <1>6, <2>1 DEF TaskOK
  <2>2. CASE x \in introducing
    BY <1>1, <1>2, <1>6, <2>2 DEF TaskOK, NoId
  <2> QED
    BY <1>5, <2>1, <2>2
<1>8. RegistryMatchesConfig'
  <2>1. ASSUME NEW p \in Ids' PROVE p < Len(proxies') /\ registry'[p].address = proxies'[p + 1]
    <3>1. p \in Nat /\ p < n /\ registry[p].address = proxies[p + 1]
      BY <1>1, <1>2, <1>5 DEF RegistryMatchesConfig, Ids
    <3> QED
      BY <1>5, <1>6, <3>1
  <2>2. ASSUME NEW p \in 0..(Len(proxies') - 1)
        PROVE  p \in Ids' \/ \E x \in introducing' : x.id = p /\ x.address = proxies'[p + 1]
    <3>1. CASE p = n
      BY <1>4, <1>5, <1>6, <3>1
    <3>2. CASE p # n /\ p \notin Ids
      <4>1. p \in 0..(n - 1) /\ p + 1 \in 1..n
        BY <1>2, <1>6, <3>2
      <4>2. PICK x \in introducing : x.id = p /\ x.address = proxies[p + 1]
        BY <1>1, <1>2, <3>2, <4>1 DEF RegistryMatchesConfig
      <4>3. x # t
        BY <1>5, <4>1, <4>2 DEF NoId
      <4> QED
        BY <1>5, <1>6, <4>1, <4>2, <4>3
    <3> QED
      BY <1>5, <3>1, <3>2 DEF Ids
  <2> QED
    BY <2>1, <2>2 DEF RegistryMatchesConfig
<1> QED
  BY <1>1, <1>5, <1>6, <1>7, <1>8 DEF ZipperInv, AdmissionInv

LEMMA ProxyAdded ==
    ASSUME ZipperInv, NEW t \in introducing, AddProxy(t)
    PROVE  AdmissionInv'
<1>1. /\ TaskOK(t) /\ \A x \in introducing : TaskOK(x)
      /\ RegistryMatchesConfig /\ worker.pc = "introduce"
  BY DEF ZipperInv, AdmissionInv
<1>2. PICK p \in Nat, a \in Addresses : p = t.id /\ a = t.address
                                        /\ p < Len(proxies) /\ proxies[p + 1] = a
  BY <1>1 DEF TaskOK, AddProxy
<1> PICK s : s = ProxyState(a)
  OBVIOUS
<1>3. s = ProxyState(a) /\ s.address = a
  BY DEF ProxyState
<1>4. registry' = [k \in DOMAIN registry \cup {p} |-> IF k = p THEN s ELSE registry[k]]
  BY <1>2, <1>3, Zenon DEF AddProxy, WithEntry
<1>5. /\ Ids' = Ids \cup {p} /\ registry'[p] = s
      /\ \A q \in Ids \ {p} : registry'[q] = registry[q]
      /\ introducing' = introducing \ {t}
      /\ UNCHANGED << including, joining_proxies, proxies, worker >>
  BY <1>4 DEF AddProxy, allocation, Ids
<1>6. RegistryMatchesConfig'
  <2>1. \A q \in Ids' : q < Len(proxies') /\ registry'[q].address = proxies'[q + 1]
    BY <1>1, <1>2, <1>3, <1>5 DEF RegistryMatchesConfig
  <2>2. ASSUME NEW q \in 0..(Len(proxies') - 1), q \notin Ids'
        PROVE  \E x \in introducing' : x.id = q /\ x.address = proxies'[q + 1]
    <3>1. q \in 0..(Len(proxies) - 1) /\ q \notin Ids /\ q # p
      BY <1>5, <2>2
    <3>2. PICK x \in introducing : x.id = q /\ x.address = proxies[q + 1]
      BY <1>1, <3>1 DEF RegistryMatchesConfig
    <3> QED
      BY <1>2, <1>5, <3>1, <3>2
  <2> QED
    BY <2>1, <2>2 DEF RegistryMatchesConfig
<1>7. \A x \in introducing' : TaskOK(x)'
  BY <1>1, <1>5 DEF TaskOK
<1> QED
  BY <1>1, <1>5, <1>6, <1>7 DEF ZipperInv, AdmissionInv

LEMMA AdmissionNext ==
    ASSUME ZipperInv, Next
    PROVE  AdmissionInv'
<1>1. FreezeInv /\ AdmissionInv
  BY DEF ZipperInv
<1>2. joining_proxies \in Seq(Addresses) /\ including \subseteq Addresses
  BY <1>1 DEF AdmissionInv
\* The steps that leave the proxies and the tasks alone.
<1> DEFINE Calm ==
      /\ \/ UNCHANGED registry
         \/ \E v \in Servers : ReconfigStep(v) \/ SkipAcked(v)
         \/ \E v \in Servers, p \in Suspects : handle_report(v, p)
         \/ \E p \in Suspects : FreezerStarts(p)
         \/ AssignSlot
         \/ \E p, a : Rejoin(p, a)
      /\ UNCHANGED << proxies, introducing >>
      /\ joining_proxies' \in Seq(Addresses) /\ including' \subseteq Addresses
      /\ UNCHANGED worker \/ Snapshot \/ Gather \/ AssignSlot \/ AllocationDone \/ Introduced
<1>3. ASSUME Calm PROVE AdmissionInv'
  <2>1. Ids' = Ids /\ \A q \in Ids : registry'[q].address = registry[q].address
    BY <1>1, <1>3, AddressesStay
  <2>2. introducing # {} => worker'.pc = "introduce"
    BY <1>3, WorkerWaits
  <2> QED
    BY <1>1, <1>3, <2>1, <2>2, AdmissionKept
<1>4. CASE \E v \in Servers : ReconfigStep(v) \/ SkipAcked(v)
  <2>1. UNCHANGED << admission, worker >>
    BY <1>4 DEF ReconfigStep, handle_freeze_response, NextRound, NextRoundBroadcasts, BlockProxy,
                SendSkip, SkipAcked, Complete, allocation
  <2> QED
    BY <1>2, <1>3, <1>4, <2>1 DEF admission
<1>5. CASE \E v \in Servers, p \in Suspects : handle_report(v, p) \/ ServerSees(v, p)
  <2>1. UNCHANGED << admission, worker >>
    BY <1>5 DEF handle_report, ServerSees, allocation
  <2>2. UNCHANGED registry \/ \E v \in Servers, p \in Suspects : handle_report(v, p)
    BY <1>5 DEF ServerSees
  <2> QED
    BY <1>2, <1>3, <2>1, <2>2 DEF admission
<1>6. CASE \E p \in Suspects : FreezerStarts(p) \/ FreezerBroadcasts(p)
  <2>1. UNCHANGED << admission, worker >>
    BY <1>6 DEF FreezerStarts, FreezerBroadcasts, allocation
  <2>2. UNCHANGED registry \/ \E p \in Suspects : FreezerStarts(p)
    BY <1>6 DEF FreezerBroadcasts
  <2> QED
    BY <1>2, <1>3, <2>1, <2>2 DEF admission
<1>7. CASE \E v \in Servers, m \in broadcasts : ServerAnswers(v, m)
  <2>1. UNCHANGED << registry, admission, worker >>
    BY <1>7 DEF ServerAnswers, allocation
  <2> QED
    BY <1>2, <1>3, <2>1 DEF admission
<1>8. CASE Snapshot \/ Gather \/ AssignSlot \/ AllocationDone \/ Introduced
  <2>1. UNCHANGED admission /\ (UNCHANGED registry \/ AssignSlot)
    BY <1>8 DEF Snapshot, Gather, AssignSlot, AllocationDone, Introduced
  <2> QED
    BY <1>2, <1>3, <1>8, <2>1 DEF admission
<1>9. CASE IntroduceProxies
  BY <1>9, TasksStart
<1>10. CASE \E p \in Ids, n \in Estimates : update_estimate(p, n)
  <2>1. UNCHANGED << registry, admission, worker >>
    BY <1>10 DEF update_estimate
  <2> QED
    BY <1>2, <1>3, <2>1 DEF admission
<1>11. CASE \E a \in Newcomers : Register(a)
  <2>1. /\ UNCHANGED << registry, proxies, introducing, joining_proxies, worker >>
        /\ including' \subseteq Addresses
    BY <1>2, <1>11 DEF Register, allocation, Addresses
  <2> QED
    BY <1>2, <1>3, <2>1
<1>12. CASE \E p \in 0..(Len(proxies) - 1), a \in Range(proxies) \cup Newcomers : Rejoin(p, a)
  <2>1. PICK p \in 0..(Len(proxies) - 1), a \in Range(proxies) \cup Newcomers : Rejoin(p, a)
    BY <1>12
  <2>2. UNCHANGED << proxies, introducing, joining_proxies, worker >>
    BY <2>1 DEF Rejoin, allocation
  <2>3. a \in Addresses
    BY <1>1, <2>1 DEF AdmissionInv, Range, Addresses
  <2>4. including' \subseteq Addresses
    BY <1>2, <2>1, <2>3 DEF Rejoin
  <2> QED
    BY <1>2, <1>3, <2>1, <2>2, <2>4
<1>13. CASE \E a \in including : Included(a)
  <2>1. PICK a \in Addresses : Included(a)
    BY <1>2, <1>13
  <2>2. /\ UNCHANGED << registry, proxies, introducing, worker >>
        /\ joining_proxies' \in Seq(Addresses) /\ including' \subseteq Addresses
    BY <1>2, <2>1 DEF Included, allocation
  <2> QED
    BY <1>3, <2>2
<1>14. CASE \E t \in introducing : TakeId(t) \/ AddProxy(t)
  BY <1>14, IdTaken, ProxyAdded
<1> QED
  BY <1>4, <1>5, <1>6, <1>7, <1>8, <1>9, <1>10, <1>11, <1>12, <1>13, <1>14, Zenon
  DEF Next, WorkerStep

LEMMA ZipperStutter ==
    ASSUME ZipperInv, UNCHANGED vars
    PROVE  ZipperInv'
<1>1. /\ UNCHANGED << registry, admission, allocation, freezing, environment >>
      /\ UNCHANGED << global_seq_num, delivered, worker, including, joining_proxies,
                      introducing, proxies >>
  BY DEF vars, admission, allocation
<1>2. FreezeInv'
  BY <1>1, QuietStep DEF ZipperInv, FreezeInv, WorkerInv
<1>3. AdmissionInv'
  BY <1>1, AdmissionKept DEF ZipperInv, AdmissionInv, Ids
<1> QED
  BY <1>2, <1>3 DEF ZipperInv

LEMMA ZipperStarts == Init => ZipperInv
<1> SUFFICES ASSUME Init PROVE ZipperInv
  OBVIOUS
<1>1. /\ InitialProxies \in Seq(Addresses) /\ Len(InitialProxies) \in Nat
      /\ \A i \in 1..Len(InitialProxies) : InitialProxies[i] \in Addresses
  BY ZipperAssumption DEF Addresses
<1>2. /\ Ids = 0..(Len(InitialProxies) - 1)
      /\ \A p \in Ids : registry[p] = ProxyState(InitialProxies[p + 1])
      /\ registry = [p \in Ids |-> registry[p]]
  BY DEF Init, Ids
<1>3. ASSUME NEW p \in Ids
      PROVE  p \in Nat /\ StateOK(p, registry[p]) /\ registry[p].address = InitialProxies[p + 1]
  <2>1. PICK a \in Addresses : a = InitialProxies[p + 1] /\ p \in Nat
    BY <1>1, <1>2
  <2>2. StateOK(p, ProxyState(a))
    BY FreshStateOK
  <2>3. ProxyState(a).address = a
    BY DEF ProxyState
  <2> QED
    BY <1>2, <2>1, <2>2, <2>3
<1>4. RegistryInv
  BY <1>2, <1>3 DEF RegistryInv
<1>5. ThreadInv
  BY IdleOK DEF Init, ThreadInv
<1>6. FreezerInv
  BY DEF Init, FreezerInv
<1>7. ServerInv
  BY Constants DEF Init, ServerInv
<1>8. WorkerInv
  BY DEF Init, WorkerInv, WorkerIdle
<1>9. FreezeInv
  BY <1>4, <1>5, <1>6, <1>7, <1>8 DEF Init, FreezeInv
<1>10. RegistryMatchesConfig
  <2>1. proxies = InitialProxies
    BY DEF Init
  <2>2. \A p \in Ids : p < Len(proxies) /\ registry[p].address = proxies[p + 1]
    BY <1>1, <1>2, <1>3, <2>1
  <2>3. \A p \in 0..(Len(proxies) - 1) : p \in Ids
    BY <1>2, <2>1
  <2> QED
    BY <2>2, <2>3 DEF RegistryMatchesConfig
<1>11. AdmissionInv
  BY <1>1, <1>10 DEF Init, AdmissionInv
<1> QED
  BY <1>9, <1>11 DEF ZipperInv

\* The invariant holds in every state the zipper reaches.
THEOREM ZipperInvariant == Spec => []ZipperInv
<1>1. ZipperInv /\ [Next]_vars => ZipperInv'
  BY FreezeNext, AdmissionNext, ZipperStutter DEF ZipperInv
<1> QED
  BY <1>1, ZipperStarts, PTL DEF Spec

(***************************************************************************)
(* The theorems: ReconfigManager::handle_freeze_response completes a       *)
(* freeze only on the word of a quorum, whatever responses of other rounds *)
(* arrive in between, and the variables keep their types.                  *)
(***************************************************************************)
THEOREM CompletionCorrect == Spec => []CompletedByQuorum
<1>1. ASSUME ZipperInv PROVE TypeOK
  <2>1. Ids \subseteq Nat /\ \A p \in Ids : registry[p] \in States
          /\ \A n \in registry[p].allocated_sequences : Allocated(p, n)
    BY <1>1 DEF ZipperInv, FreezeInv, RegistryInv, StateOK
  <2>2. global_seq_num \in Nat
    BY <1>1 DEF ZipperInv, FreezeInv
  <2>3. \A p \in Ids : registry[p].allocated_sequences \subseteq 1..(global_seq_num - 1)
    BY <2>1, <2>2 DEF Allocated
  <2>4. \A p \in Ids :
          /\ registry[p].status \in {"ACTIVE", "RECONFIGURING", "BLOCKED"}
          /\ registry[p].freeze_round \in 0..MaxRound
          /\ registry[p].freeze_responders \cup registry[p].reporters \subseteq Servers
          /\ registry[p].last_sequences \subseteq 0..MaxLast
    BY <2>1 DEF States
  <2>5. \A v \in Servers : thread[v].pc \in {"idle", "round", "read", "block", "skip", "acks"}
    BY <1>1 DEF ZipperInv, FreezeInv, ThreadInv, ThreadOK
  <2>6. broadcasts \subseteq FreezeMessages
    BY <1>1 DEF ZipperInv, FreezeInv, MessageOK
  <2>7. worker.pc \in {"idle", "gather", "assign", "introduce"}
    BY <1>1 DEF ZipperInv, FreezeInv, WorkerInv
  <2>8. \A t \in introducing : t.id \in Nat \cup {NoId}
    BY <1>1 DEF ZipperInv, AdmissionInv, TaskOK
  <2> QED
    BY <2>1, <2>3, <2>4, <2>5, <2>6, <2>7, <2>8 DEF TypeOK
<1>2. ZipperInv => CompletedByQuorum
  BY <1>1 DEF CompletedByQuorum, ZipperInv, FreezeInv, MessageOK
<1> QED
  BY <1>2, ZipperInvariant, PTL

(***************************************************************************)
(* ReconfigManager::send_freeze_complete skips only numbers that were      *)
(* allocated to the proxy, above one that a quorum agreed on.              *)
(***************************************************************************)
THEOREM SkipsCorrect == Spec => []SkippedAboveAgreed
<1>1. ZipperInv => SkippedAboveAgreed
  BY DEF SkippedAboveAgreed, ZipperInv, FreezeInv, MessageOK, Allocated
<1> QED
  BY <1>1, ZipperInvariant, PTL

(***************************************************************************)
(* Zipper::introduce_proxies keeps the registry and config_.proxies in     *)
(* step, however its tasks interleave.                                     *)
(***************************************************************************)
THEOREM RegistryCorrect == Spec => []RegistryMatchesConfig
<1>1. ZipperInv => RegistryMatchesConfig
  BY DEF ZipperInv, AdmissionInv
<1> QED
  BY <1>1, ZipperInvariant, PTL

----------------------------------------------------------------------------
(***************************************************************************)
(* The inductive invariant of a freeze that goes on.  Before its first     *)
(* round nothing is about the proxy; then there is a decision to come once *)
(* a quorum is counted, a broadcast to come for a round that was not       *)
(* broadcast, and no answer is of a round that is still to come.           *)
(***************************************************************************)
Working(t, p) == t.pc # "idle" /\ t.proxy = p

Untouched(p) ==
    /\ freezer[p].read = 0
    /\ registry[p].freeze_round = 0 /\ registry[p].freeze_responders = {}
    /\ \A v \in Servers : ~Working(thread[v], p)
    /\ \A m \in broadcasts : m.proxy # p
    /\ \A a \in answers : a.answer.proxy # p

Begun(p) ==
    \/ freezer[p].start = 0 /\ registry[p].status # "ACTIVE"
    \/ freezer[p].start = 0 /\ registry[p].status = "ACTIVE" /\ Untouched(p)
    \/ freezer[p].start = 1 /\ registry[p].status = "RECONFIGURING" /\ Untouched(p)

Rounds(p) ==
    /\ \A m \in broadcasts :
        m.type = "FREEZE" /\ m.proxy = p => m.round <= registry[p].freeze_round
    /\ \A a \in answers : a.answer.proxy = p => a.answer.round <= registry[p].freeze_round

Counted(p) ==
    \A a \in answers :
        a.answer.proxy = p /\ a.answer.round = registry[p].freeze_round =>
            a.server \in registry[p].freeze_responders \/ a.answer \in Range(inbox[a.server])

Decided(p) ==
    registry[p].status = "RECONFIGURING" /\ Enough(registry[p].freeze_responders) =>
        \E v \in Servers : thread[v].proxy = p /\ thread[v].pc \in {"round", "block"}

Sent(p) ==
    registry[p].status = "RECONFIGURING" =>
        \/ freezer[p].start > 0 \/ freezer[p].read > 0
        \/ \E v \in Servers : thread[v].proxy = p /\ thread[v].pc = "read"
        \/ [type |-> "FREEZE", proxy |-> p, round |-> registry[p].freeze_round] \in broadcasts

Going(p) == Begun(p) /\ Rounds(p) /\ Counted(p) /\ Decided(p) /\ Sent(p)

TasksInv ==
    \A t \in introducing : t.id # NoId =>
        t.id \notin Ids /\ \A u \in introducing : u.id = t.id => u = t

AnswerKnown(a) == a.server \in Servers /\ a.answer.proxy \in Ids /\ a.answer.round \in Nat

GoingInv ==
    /\ rejoins \in Nat /\ TasksInv
    /\ \A a \in answers : AnswerKnown(a)
    /\ rejoins = 0 => \A p \in Suspects \cap Ids : Going(p)

\* A step that is not about proxy q.
Unaffected(q) ==
    /\ registry'[q].status = registry[q].status
    /\ registry'[q].freeze_round = registry[q].freeze_round
    /\ registry'[q].freeze_responders = registry[q].freeze_responders
    /\ freezer'[q] = freezer[q]
    /\ \A w \in Servers :
        thread'[w] = thread[w] \/ (~Working(thread[w], q) /\ ~Working(thread'[w], q))
    /\ broadcasts \subseteq broadcasts' /\ \A m \in broadcasts' : m \in broadcasts \/ m.proxy # q
    /\ \A a \in answers' : a \in answers \/ a.answer.proxy # q
    /\ \A v \in Servers : \A x \in Range(inbox[v]) : x.proxy = q => x \in Range(inbox'[v])

LEMMA GoingKept ==
    ASSUME GoingInv, NEW q, Going(q), Unaffected(q)
    PROVE  Going(q)'
<1>1. Begun(q)'
  <2>1. Untouched(q) => Untouched(q)'
    BY DEF Unaffected, Untouched, Working
  <2> QED
    BY <2>1 DEF Going, Begun, Unaffected
<1>2. Rounds(q)'
  BY DEF Going, Rounds, Unaffected
<1>3. Counted(q)'
  BY DEF Going, Counted, Unaffected, GoingInv, AnswerKnown
<1>4. Decided(q)'
  BY DEF Going, Decided, Unaffected, Working, Enough
<1>5. Sent(q)'
  BY DEF Going, Sent, Unaffected, Working
<1> QED
  BY <1>1, <1>2, <1>3, <1>4, <1>5 DEF Going

\* Steps that are about proxy p alone.
LEMMA GoingStep ==
    ASSUME GoingInv, NEW p, Ids' = Ids, UNCHANGED << introducing, rejoins >>,
           \A q \in (Suspects \cap Ids) \ {p} : Unaffected(q),
           rejoins = 0 /\ p \in Suspects \cap Ids => Going(p)',
           \A a \in answers' : a \in answers \/ AnswerKnown(a)
    PROVE  GoingInv'
<1>1. ASSUME rejoins = 0, NEW q \in Suspects \cap Ids PROVE Going(q)'
  BY <1>1, GoingKept DEF GoingInv
<1>2. TasksInv'
  BY DEF GoingInv, TasksInv
<1> QED
  BY <1>1, <1>2 DEF GoingInv, AnswerKnown

\* Too few are counted when a round begins.
LEMMA NobodyIsTooFew == ~Enough({})
BY Constants, FS_EmptySet DEF Enough

LEMMA GoingReport ==
    ASSUME FreezeInv, GoingInv, NEW v \in Servers, NEW p \in Suspects, handle_report(v, p)
    PROVE  GoingInv'
<1>1. p \in Ids /\ registry[p].status = "ACTIVE"
  BY DEF handle_report
<1>2. PICK r \in States : r = registry[p]
  BY <1>1, StateIs
<1>3. PICK c, enough :
        /\ registry' = [registry EXCEPT ![p].reporters = c,
                ![p].status = IF enough THEN "RECONFIGURING" ELSE @]
        /\ freezer' = IF enough THEN [freezer EXCEPT ![p].start = @ + 1] ELSE freezer
  BY DEF handle_report
<1>4. PICK s : s = [r EXCEPT !.reporters = c, !.status = IF enough THEN "RECONFIGURING" ELSE @]
  OBVIOUS
<1>5. /\ s.freeze_round = r.freeze_round /\ s.freeze_responders = r.freeze_responders
      /\ s.status = IF enough THEN "RECONFIGURING" ELSE "ACTIVE"
  BY <1>1, <1>2, <1>4 DEF States
<1>6. registry'[p] = s /\ Ids' = Ids /\ \A q \in Ids \ {p} : registry'[q] = registry[q]
  BY <1>1, <1>2, <1>3, <1>4, RegistryIs DEF Ids
<1>7. UNCHANGED << introducing, rejoins, thread, broadcasts, answers, inbox >>
  BY DEF handle_report, admission, environment
<1>8. /\ freezer'[p].read = freezer[p].read
      /\ freezer'[p].start = IF enough THEN freezer[p].start + 1 ELSE freezer[p].start
      /\ freezer[p].start \in Nat
      /\ \A q \in Suspects \ {p} : freezer'[q] = freezer[q]
  BY <1>3 DEF FreezeInv, FreezerInv
<1>9. ASSUME Going(p) PROVE Going(p)'
  <2>1. Untouched(p) /\ freezer[p].start = 0
    BY <1>1, <1>9 DEF Going, Begun
  <2>2. Untouched(p)'
    BY <1>2, <1>5, <1>6, <1>7, <1>8, <2>1 DEF Untouched
  <2>3. Begun(p)' /\ Sent(p)'
    BY <1>5, <1>6, <1>8, <2>1, <2>2 DEF Begun, Sent
  <2>4. Rounds(p)' /\ Counted(p)'
    BY <2>2 DEF Untouched, Rounds, Counted
  <2>5. Decided(p)'
    BY <2>2, NobodyIsTooFew DEF Untouched, Decided, Enough
  <2> QED
    BY <2>3, <2>4, <2>5 DEF Going
<1> QED
  BY <1>1, <1>6, <1>7, <1>8, <1>9, GoingStep DEF GoingInv, Unaffected

LEMMA GoingFreezerStarts ==
    ASSUME FreezeInv, GoingInv, NEW p \in Suspects, FreezerStarts(p)
    PROVE  GoingInv'
<1>1. p \in Ids /\ freezer[p].start \in Nat /\ freezer[p].start > 0
  BY DEF FreezeInv, FreezerInv, FreezerStarts
<1>2. PICK r \in States : r = registry[p]
  BY <1>1, StateIs
<1>3. PICK s : s = [r EXCEPT !.freeze_round = 1, !.freeze_responders = {}, !.last_sequences = {}]
  OBVIOUS
<1>4. s.freeze_round = 1 /\ s.freeze_responders = {} /\ s.status = r.status
  BY <1>2, <1>3 DEF States
<1>5. registry'[p] = s /\ Ids' = Ids /\ \A q \in Ids \ {p} : registry'[q] = registry[q]
  BY <1>1, <1>2, <1>3, RegistryIs DEF FreezerStarts, StartRound, Ids
<1>6. UNCHANGED << introducing, rejoins, thread, broadcasts, answers, inbox >>
  BY DEF FreezerStarts, admission, environment
<1>7. /\ freezer'[p].read = freezer[p].read + 1 /\ freezer[p].read \in Nat
      /\ freezer'[p].start = freezer[p].start - 1
      /\ \A q \in Suspects \ {p} : freezer'[q] = freezer[q]
  BY DEF FreezerStarts, FreezeInv, FreezerInv
<1>8. ASSUME Going(p) PROVE Going(p)'
  <2>1. Untouched(p) /\ freezer[p].start = 1 /\ r.status = "RECONFIGURING"
    BY <1>1, <1>2, <1>8 DEF Going, Begun
  <2>2. Begun(p)' /\ Sent(p)'
    BY <1>4, <1>5, <1>7, <2>1 DEF Begun, Sent
  <2>3. Rounds(p)' /\ Counted(p)'
    BY <1>6, <2>1 DEF Untouched, Rounds, Counted
  <2>4. Decided(p)'
    BY <1>4, <1>5, NobodyIsTooFew DEF Decided, Enough
  <2> QED
    BY <2>2, <2>3, <2>4 DEF Going
<1> QED
  BY <1>1, <1>5, <1>6, <1>7, <1>8, GoingStep DEF GoingInv, Unaffected

LEMMA GoingFreezerBroadcasts ==
    ASSUME FreezeInv, GoingInv, NEW p \in Suspects, FreezerBroadcasts(p)
    PROVE  GoingInv'
<1>1. p \in Ids /\ freezer[p].read \in Nat /\ freezer[p].read > 0
  BY DEF FreezeInv, FreezerInv, FreezerBroadcasts
<1>2. PICK n \in 0..MaxRound : n = registry[p].freeze_round
  BY <1>1, StateIs DEF States
<1>3. PICK m : m = [type |-> "FREEZE", proxy |-> p, round |-> n]
  OBVIOUS
<1>4. broadcasts' = broadcasts \cup {m} /\ m.proxy = p /\ m.round = n
  BY <1>2, <1>3 DEF FreezerBroadcasts, BroadcastFreeze
<1>5. UNCHANGED << introducing, rejoins, thread, registry, answers, inbox >> /\ Ids' = Ids
  BY DEF FreezerBroadcasts, admission, environment, Ids
<1>6. /\ freezer'[p].start = freezer[p].start
      /\ \A q \in Suspects \ {p} : freezer'[q] = freezer[q]
  BY DEF FreezerBroadcasts, FreezeInv, FreezerInv
<1>7. ASSUME Going(p) PROVE Going(p)'
  <2>1. ~Untouched(p)
    BY <1>1 DEF Untouched
  <2>2. Begun(p)'
    BY <1>5, <1>6, <1>7, <2>1 DEF Going, Begun
  <2>3. Rounds(p)'
    BY <1>2, <1>4, <1>5, <1>7 DEF Going, Rounds
  <2>4. Counted(p)' /\ Decided(p)'
    BY <1>5, <1>7 DEF Going, Counted, Decided, Enough
  <2>5. Sent(p)'
    BY <1>2, <1>3, <1>4, <1>5 DEF Sent
  <2> QED
    BY <2>2, <2>3, <2>4, <2>5 DEF Going
<1> QED
  BY <1>1, <1>4, <1>5, <1>6, <1>7, GoingStep DEF GoingInv, Unaffected

\* What is in a sequence but not its head is in its tail.
LEMMA TailKeeps ==
    ASSUME NEW S, NEW s \in Seq(S), s # << >>, NEW x \in Range(s), x # Head(s)
    PROVE  x \in Range(Tail(s))
<1>1. PICK i \in 1..Len(s) : x = s[i]
  BY DEF Range
<1>2. i # 1 /\ Len(s) \in Nat /\ Len(Tail(s)) = Len(s) - 1 /\ i - 1 \in 1..Len(Tail(s))
      /\ Tail(s)[i - 1] = s[i] /\ DOMAIN Tail(s) = 1..Len(Tail(s))
  BY <1>1
<1> QED
  BY <1>1, <1>2 DEF Range

LEMMA GoingResponse ==
    ASSUME FreezeInv, GoingInv, NEW v \in Servers, handle_freeze_response(v)
    PROVE  GoingInv'
<1>1. PICK m : m = Head(inbox[v])
  OBVIOUS
<1>2. /\ thread[v].pc = "idle" /\ inbox[v] # << >> /\ inbox[v] \in Seq(Responses)
      /\ inbox' = [inbox EXCEPT ![v] = Tail(@)] /\ inbox \in [Servers -> Seq(Responses)]
  BY DEF handle_freeze_response, FreezeInv, ServerInv
<1>3. ResponseOK(v, m)
  <2>1. 1 \in 1..Len(inbox[v]) /\ m = inbox[v][1]
    BY <1>1, <1>2
  <2> QED
    BY <2>1 DEF FreezeInv, ServerInv
<1>4. PICK p \in Suspects \cap Ids : p = m.proxy /\ Gave(v, p, m.round, m.last)
  BY <1>3 DEF ResponseOK, Responses
<1>5. PICK r \in States : r = registry[p]
  BY <1>4, StateIs
<1>6. PICK responders, lasts : /\ responders = r.freeze_responders \cup {v}
                               /\ lasts = r.last_sequences \cup {m.last}
  OBVIOUS
<1>7. PICK s : s = [r EXCEPT !.freeze_responders = responders, !.last_sequences = lasts]
  OBVIOUS
<1>8. UNCHANGED << introducing, rejoins, freezer, broadcasts, answers >>
  BY DEF handle_freeze_response, admission
<1>9. \A w \in Servers : \A x \in Range(inbox[w]) : x \in Range(inbox'[w]) \/ (w = v /\ x = m)
  <2>1. TAKE w \in Servers
  <2>2. CASE w = v
    BY <1>1, <1>2, <2>2, TailKeeps
  <2>3. CASE w # v
    BY <1>2, <2>3
  <2> QED
    BY <2>2, <2>3
<1>10. CASE ~SameRound(p, m.round)
  <2>1. UNCHANGED << registry, thread >> /\ Ids' = Ids
    BY <1>1, <1>4, <1>10 DEF handle_freeze_response, Ids
  <2>2. ASSUME Going(p) PROVE Going(p)'
    <3>1. Counted(p)'
      BY <1>8, <1>9, <1>10, <2>1, <2>2 DEF Going, Counted, SameRound, GoingInv, AnswerKnown
    <3>2. Begun(p)' /\ Rounds(p)' /\ Decided(p)' /\ Sent(p)'
      BY <1>8, <2>1, <2>2 DEF Going, Begun, Untouched, Rounds, Decided, Sent
    <3> QED
      BY <3>1, <3>2 DEF Going
  <2>3. \A q \in (Suspects \cap Ids) \ {p} : Unaffected(q)
    BY <1>4, <1>8, <1>9, <2>1 DEF Unaffected
  <2> QED
    BY <1>4, <1>8, <2>1, <2>2, <2>3, GoingStep DEF GoingInv
<1>11. CASE SameRound(p, m.round)
  <2>1. registry' = [registry EXCEPT ![p].freeze_responders = responders,
                                     ![p].last_sequences = lasts]
    BY <1>1, <1>4, <1>5, <1>6, <1>11 DEF handle_freeze_response
  <2>2. registry'[p] = s /\ Ids' = Ids /\ \A q \in Ids \ {p} : registry'[q] = registry[q]
    BY <1>4, <1>5, <1>7, <2>1, RegistryIs DEF Ids
  <2>3. /\ s.status = r.status /\ s.freeze_round = r.freeze_round
        /\ s.freeze_responders = responders
    BY <1>5, <1>7 DEF States
  <2>4. PICK u : u = [Idle EXCEPT !.pc = IF Cardinality(lasts) = 1 THEN "block" ELSE "round",
                        !.proxy = p, !.last = CHOOSE l \in lasts : \A k \in lasts : l <= k]
    OBVIOUS
  <2>5. u.pc \in {"round", "block"} /\ u.proxy = p
    BY <2>4 DEF Idle
  <2>6. IF Enough(responders) THEN thread' = [thread EXCEPT ![v] = u] ELSE thread' = thread
    BY <1>1, <1>4, <1>5, <1>6, <1>11, <2>4 DEF handle_freeze_response
  <2>7. /\ \A w \in Servers \ {v} : thread'[w] = thread[w]
        /\ IF Enough(responders) THEN thread'[v] = u ELSE thread'[v] = thread[v]
    BY <2>6, ThreadIs
  <2>8. ASSUME Going(p) PROVE Going(p)'
    <3>1. ~Untouched(p)
      BY <1>4 DEF Untouched, Gave
    <3>2. Begun(p)'
      BY <1>5, <1>8, <2>2, <2>3, <2>8, <3>1 DEF Going, Begun
    <3>3. Rounds(p)'
      BY <1>5, <1>8, <2>2, <2>3, <2>8 DEF Going, Rounds
    <3>4. Counted(p)'
      BY <1>5, <1>6, <1>8, <1>9, <2>2, <2>3, <2>8 DEF Going, Counted, GoingInv, AnswerKnown
    <3>5. Decided(p)'
      <4>1. Enough(registry[p].freeze_responders)' => Enough(responders)
        BY <2>2, <2>3 DEF Enough
      <4> QED
        BY <2>5, <2>7, <4>1 DEF Decided
    <3>6. Sent(p)'
      BY <1>2, <1>5, <1>8, <2>2, <2>3, <2>7, <2>8 DEF Going, Sent
    <3> QED
      BY <3>2, <3>3, <3>4, <3>5, <3>6 DEF Going
  <2>9. \A q \in (Suspects \cap Ids) \ {p} : Unaffected(q)
    BY <1>2, <1>4, <1>8, <1>9, <2>2, <2>5, <2>7 DEF Unaffected, Working
  <2> QED
    BY <1>4, <1>8, <2>2, <2>8, <2>9, GoingStep DEF GoingInv
<1> QED
  BY <1>10, <1>11

LEMMA GoingNextRound ==
    ASSUME FreezeInv, GoingInv, NEW v \in Servers, NextRound(v)
    PROVE  GoingInv'
<1>1. PICK t : t = thread[v] /\ ThreadOK(t)
  BY ThreadIs
<1>2. PICK p \in Suspects \cap Ids : p = t.proxy /\ t.pc = "round"
  BY <1>1 DEF NextRound, ThreadOK
<1>3. PICK r \in States : r = registry[p]
  BY <1>2, StateIs
<1>4. PICK n \in Nat : n = r.freeze_round /\ r.freeze_round \in Nat
  BY <1>3, Constants DEF States
<1>5. PICK s : s = [r EXCEPT !.freeze_round = n + 1, !.freeze_responders = {}, !.last_sequences = {}]
  OBVIOUS
<1>6. s.freeze_round = n + 1 /\ s.freeze_responders = {} /\ s.status = r.status
  BY <1>3, <1>5 DEF States
<1>7. registry'[p] = s /\ Ids' = Ids /\ \A q \in Ids \ {p} : registry'[q] = registry[q]
  BY <1>1, <1>2, <1>3, <1>4, <1>5, RegistryIs DEF NextRound, StartRound, Ids
<1>8. UNCHANGED << introducing, rejoins, freezer, broadcasts, answers, inbox >>
  BY DEF NextRound, admission, environment
<1>9. /\ thread'[v].pc = "read" /\ thread'[v].proxy = p
      /\ \A w \in Servers \ {v} : thread'[w] = thread[w]
  <2>1. thread' = [thread EXCEPT ![v].pc = "read"]
    BY DEF NextRound
  <2> QED
    BY <1>1, <1>2, <2>1, ThreadIs DEF ThreadOK, Fields
<1>10. ASSUME Going(p) PROVE Going(p)'
  <2>1. ~Untouched(p)
    BY <1>1, <1>2 DEF Untouched, Working
  <2>2. Begun(p)'
    BY <1>3, <1>6, <1>7, <1>8, <1>10, <2>1 DEF Going, Begun
  <2>3. Rounds(p)' /\ Counted(p)'
    <3>1. \A m \in broadcasts : m.type = "FREEZE" => m.round \in Nat
      BY Constants DEF FreezeInv, MessageOK, FreezeMessages
    <3>2. ASSUME NEW a \in answers, a.answer.proxy = p
          PROVE  a.answer.round # n + 1 /\ a.answer.round <= n + 1
      <4>1. a.answer.round \in Nat /\ a.answer.round <= n
        BY <1>3, <1>4, <1>10, <3>2 DEF Going, Rounds, GoingInv, AnswerKnown
      <4> QED
        BY <4>1
    <3> QED
      BY <1>3, <1>4, <1>6, <1>7, <1>8, <1>10, <3>1, <3>2 DEF Going, Rounds, Counted
  <2>4. Decided(p)'
    BY <1>6, <1>7, NobodyIsTooFew DEF Decided, Enough
  <2>5. Sent(p)'
    BY <1>9 DEF Sent
  <2> QED
    BY <2>2, <2>3, <2>4, <2>5 DEF Going
<1>11. \A q \in (Suspects \cap Ids) \ {p} : Unaffected(q)
  BY <1>1, <1>2, <1>7, <1>8, <1>9 DEF Unaffected, Working
<1> QED
  BY <1>2, <1>7, <1>8, <1>10, <1>11, GoingStep DEF GoingInv

LEMMA GoingNextRoundBroadcasts ==
    ASSUME FreezeInv, GoingInv, NEW v \in Servers, NextRoundBroadcasts(v)
    PROVE  GoingInv'
<1>1. PICK t : t = thread[v] /\ ThreadOK(t)
  BY ThreadIs
<1>2. PICK p \in Suspects \cap Ids : p = t.proxy /\ t.pc = "read"
  BY <1>1 DEF NextRoundBroadcasts, ThreadOK
<1>3. PICK n \in 0..MaxRound : n = registry[p].freeze_round
  BY <1>2, StateIs DEF States
<1>4. PICK m : m = [type |-> "FREEZE", proxy |-> p, round |-> n]
  OBVIOUS
<1>5. broadcasts' = broadcasts \cup {m} /\ m.proxy = p /\ m.round = n
  BY <1>1, <1>2, <1>3, <1>4 DEF NextRoundBroadcasts, BroadcastFreeze
<1>6. UNCHANGED << introducing, rejoins, freezer, registry, answers, inbox >> /\ Ids' = Ids
  BY DEF NextRoundBroadcasts, admission, environment, Ids
<1>7. thread'[v].pc = "idle" /\ \A w \in Servers \ {v} : thread'[w] = thread[w]
  BY ThreadIs DEF NextRoundBroadcasts, Idle
<1>8. ASSUME Going(p) PROVE Going(p)'
  <2>1. ~Untouched(p)
    BY <1>1, <1>2 DEF Untouched, Working
  <2>2. Begun(p)'
    BY <1>6, <1>8, <2>1 DEF Going, Begun
  <2>3. Rounds(p)'
    BY <1>3, <1>5, <1>6, <1>8 DEF Going, Rounds
  <2>4. Counted(p)' /\ Decided(p)'
    BY <1>1, <1>2, <1>6, <1>7, <1>8 DEF Going, Counted, Decided, Enough
  <2>5. Sent(p)'
    BY <1>3, <1>4, <1>5, <1>6 DEF Sent
  <2> QED
    BY <2>2, <2>3, <2>4, <2>5 DEF Going
<1>9. \A q \in (Suspects \cap Ids) \ {p} : Unaffected(q)
  BY <1>1, <1>2, <1>5, <1>6, <1>7 DEF Unaffected, Working
<1> QED
  BY <1>2, <1>6, <1>8, <1>9, GoingStep DEF GoingInv

\* The thread of v goes on with the skips of its proxy, and nothing else changes but
\* for messages about it.
LEMMA GoingSkips ==
    ASSUME FreezeInv, GoingInv, NEW v \in Servers,
           thread[v].pc \in {"block", "skip", "acks"}, thread'[v].pc \in {"idle", "skip", "acks"},
           thread'[v].pc = "idle" \/ thread'[v].proxy = thread[v].proxy,
           \A w \in Servers \ {v} : thread'[w] = thread[w], Ids' = Ids,
           \A q \in Ids :
              /\ registry'[q].freeze_round = registry[q].freeze_round
              /\ registry'[q].freeze_responders = registry[q].freeze_responders
              /\ \/ registry'[q].status = registry[q].status
                 \/ q = thread[v].proxy /\ registry'[q].status = "BLOCKED",
           thread[v].pc = "block" => registry'[thread[v].proxy].status = "BLOCKED",
           broadcasts \subseteq broadcasts',
           \A m \in broadcasts' :
              m \in broadcasts \/ (m.type # "FREEZE" /\ m.proxy = thread[v].proxy),
           UNCHANGED << introducing, rejoins, freezer, answers, inbox >>
    PROVE  GoingInv'
<1>1. PICK p \in Suspects \cap Ids : p = thread[v].proxy
  BY ThreadIs DEF ThreadOK
<1>2. ASSUME Going(p) PROVE Going(p)'
  <2>1. ~Untouched(p)
    BY <1>1 DEF Untouched, Working
  <2>2. Begun(p)'
    BY <1>1, <1>2, <2>1 DEF Going, Begun
  <2>3. Rounds(p)' /\ Counted(p)'
    BY <1>1, <1>2 DEF Going, Rounds, Counted
  <2>4. Decided(p)' /\ Sent(p)'
    BY <1>1, <1>2 DEF Going, Decided, Sent, Enough
  <2> QED
    BY <2>2, <2>3, <2>4 DEF Going
<1>3. \A q \in (Suspects \cap Ids) \ {p} : Unaffected(q)
  BY <1>1 DEF Unaffected, Working
<1> QED
  BY <1>1, <1>2, <1>3, GoingStep DEF GoingInv

LEMMA GoingCompletes ==
    ASSUME FreezeInv, GoingInv, NEW v \in Servers,
           BlockProxy(v) \/ SendSkip(v) \/ SkipAcked(v) \/ Complete(v)
    PROVE  GoingInv'
<1>1. PICK t : t = thread[v] /\ ThreadOK(t)
  BY ThreadIs
<1>2. PICK p : p = t.proxy
  OBVIOUS
<1>3. CASE BlockProxy(v)
  <2>1. PICK skip : thread' = [thread EXCEPT ![v].pc = "skip", ![v].skip = skip]
    BY <1>3 DEF BlockProxy
  <2>2. /\ thread'[v].pc = "skip" /\ thread'[v].proxy = p
        /\ \A w \in Servers \ {v} : thread'[w] = thread[w]
    BY <1>1, <1>2, <2>1, ThreadIs DEF ThreadOK, Fields
  <2>3. registry' = [registry EXCEPT ![p].status = "BLOCKED"] /\ t.pc = "block" /\ p \in Ids
    BY <1>1, <1>2, <1>3 DEF BlockProxy, ThreadOK
  <2>4. PICK r \in States : r = registry[p]
    BY <2>3, StateIs
  <2>5. PICK s : s = [r EXCEPT !.status = "BLOCKED"]
    OBVIOUS
  <2>6. registry'[p] = s /\ Ids' = Ids /\ \A q \in Ids \ {p} : registry'[q] = registry[q]
    BY <2>3, <2>4, <2>5, RegistryIs DEF Ids
  <2>7. /\ s.status = "BLOCKED" /\ s.freeze_round = r.freeze_round
        /\ s.freeze_responders = r.freeze_responders
    BY <2>4, <2>5 DEF States
  <2>8. UNCHANGED << introducing, rejoins, freezer, broadcasts, answers, inbox >>
    BY <1>3 DEF BlockProxy, admission, environment
  <2> QED
    BY <1>1, <1>2, <2>2, <2>3, <2>4, <2>6, <2>7, <2>8, GoingSkips
<1>4. CASE SendSkip(v)
  <2>1. PICK n \in t.skip :
          /\ broadcasts' = broadcasts \cup {[type |-> "SKIP", proxy |-> p, seq |-> n]}
          /\ thread' = [thread EXCEPT ![v].pc = "acks", ![v].skip = @ \ {n}]
    BY <1>1, <1>2, <1>4 DEF SendSkip
  <2>2. /\ t.pc = "skip" /\ thread'[v].pc = "acks" /\ thread'[v].proxy = p
        /\ \A w \in Servers \ {v} : thread'[w] = thread[w]
    BY <1>1, <1>2, <1>4, <2>1, ThreadIs DEF SendSkip, ThreadOK, Fields
  <2>3. UNCHANGED << introducing, rejoins, freezer, registry, answers, inbox >> /\ Ids' = Ids
    BY <1>4 DEF SendSkip, admission, environment, Ids
  <2>4. PICK m : m = [type |-> "SKIP", proxy |-> p, seq |-> n]
    OBVIOUS
  <2>5. broadcasts' = broadcasts \cup {m} /\ m.type = "SKIP" /\ m.proxy = p
    BY <2>1, <2>4
  <2> QED
    BY <1>1, <1>2, <2>2, <2>3, <2>5, GoingSkips
<1>5. CASE SkipAcked(v)
  <2>1. t.pc = "acks" /\ thread' = [thread EXCEPT ![v].pc = "skip"]
    BY <1>1, <1>5 DEF SkipAcked
  <2>2. /\ thread'[v].pc = "skip" /\ thread'[v].proxy = p
        /\ \A w \in Servers \ {v} : thread'[w] = thread[w]
    BY <1>1, <1>2, <2>1, ThreadIs DEF ThreadOK, Fields
  <2>3. /\ UNCHANGED << introducing, rejoins, freezer, registry, broadcasts, answers, inbox >>
        /\ Ids' = Ids
    BY <1>5 DEF SkipAcked, admission, environment, Ids
  <2> QED
    BY <1>1, <1>2, <2>1, <2>2, <2>3, GoingSkips
<1>6. CASE Complete(v)
  <2>1. /\ t.pc = "skip" /\ thread' = [thread EXCEPT ![v] = Idle]
        /\ broadcasts' = broadcasts
              \cup {[type |-> "FREEZE_COMPLETE", proxy |-> p, last |-> t.last]}
    BY <1>1, <1>2, <1>6 DEF Complete
  <2>2. thread'[v].pc = "idle" /\ \A w \in Servers \ {v} : thread'[w] = thread[w]
    BY <2>1, ThreadIs DEF Idle
  <2>3. UNCHANGED << introducing, rejoins, freezer, registry, answers, inbox >> /\ Ids' = Ids
    BY <1>6 DEF Complete, admission, environment, Ids
  <2> QED
    BY <1>1, <1>2, <2>1, <2>2, <2>3, GoingSkips
<1> QED
  BY <1>3, <1>4, <1>5, <1>6

LEMMA GoingAnswer ==
    ASSUME FreezeInv, GoingInv, NEW v \in Servers, NEW m \in broadcasts, ServerAnswers(v, m)
    PROVE  GoingInv'
<1>1. PICK p \in Suspects \cap Ids, n \in 0..MaxRound :
        p = m.proxy /\ n = m.round /\ m.type = "FREEZE"
  BY DEF FreezeInv, MessageOK, FreezeMessages, ServerAnswers
<1>2. PICK answer : answer = [proxy |-> p, round |-> n, last |-> last_seq[v][p]]
  OBVIOUS
<1>3. PICK a : a = [server |-> v, answer |-> answer]
  OBVIOUS
<1>4. /\ answers' = answers \cup {a}
      /\ inbox' = [inbox EXCEPT ![v] = Append(@, answer)]
      /\ UNCHANGED << registry, introducing, rejoins, freezer, thread, broadcasts >> /\ Ids' = Ids
  BY <1>1, <1>2, <1>3, Zenon DEF ServerAnswers, freezing, admission, Ids
<1>5. answer \in Responses
  <2>1. last_seq[v][p] \in 0..MaxLast
    BY DEF FreezeInv, ServerInv
  <2> QED
    BY <1>2, <2>1 DEF Responses
<1>6. /\ answer \in Range(inbox'[v])
      /\ \A w \in Servers : \A x \in Range(inbox[w]) : x \in Range(inbox'[w])
  <2>1. PICK q \in Seq(Responses) : q = inbox[v] /\ inbox \in [Servers -> Seq(Responses)]
    BY DEF FreezeInv, ServerInv
  <2>2. inbox'[v] = Append(q, answer) /\ \A w \in Servers \ {v} : inbox'[w] = inbox[w]
    BY <1>4, <2>1
  <2>3. /\ DOMAIN Append(q, answer) = 1..(Len(q) + 1) /\ DOMAIN q = 1..Len(q)
        /\ Append(q, answer)[Len(q) + 1] = answer /\ Len(q) \in Nat
        /\ \A i \in 1..Len(q) : Append(q, answer)[i] = q[i]
    BY <1>5, <2>1
  <2>4. answer \in Range(inbox'[v])
    BY <2>2, <2>3 DEF Range
  <2>5. \A x \in Range(q) : x \in Range(inbox'[v])
    BY <2>2, <2>3 DEF Range
  <2> QED
    BY <2>1, <2>2, <2>4, <2>5
<1>7. ASSUME Going(p) PROVE Going(p)'
  <2>1. ~Untouched(p)
    BY <1>1 DEF Untouched
  <2>2. Begun(p)' /\ Decided(p)' /\ Sent(p)'
    BY <1>4, <1>7, <2>1 DEF Going, Begun, Decided, Sent, Enough
  <2>3. Rounds(p)'
    BY <1>1, <1>2, <1>3, <1>4, <1>7 DEF Going, Rounds
  <2>4. Counted(p)'
    <3>1. a.server = v /\ a.answer = answer
      BY <1>3
    <3>2. ASSUME NEW b \in answers, b.answer.proxy = p, b.answer.round = registry[p].freeze_round
          PROVE  b.server \in registry[p].freeze_responders \/ b.answer \in Range(inbox'[b.server])
      BY <1>6, <1>7, <3>2 DEF Going, Counted, GoingInv, AnswerKnown
    <3> QED
      BY <1>4, <1>6, <3>1, <3>2 DEF Counted
  <2> QED
    BY <2>2, <2>3, <2>4 DEF Going
<1>8. \A q \in (Suspects \cap Ids) \ {p} : Unaffected(q)
  BY <1>1, <1>2, <1>3, <1>4, <1>6 DEF Unaffected
<1>9. AnswerKnown(a)
  BY <1>1, <1>2, <1>3 DEF AnswerKnown
<1> QED
  BY <1>1, <1>4, <1>7, <1>8, <1>9, GoingStep DEF GoingInv

\* A proxy that enters the registry is one that nothing was about.
LEMMA GoingAdded ==
    ASSUME ZipperInv, GoingInv, NEW t \in introducing, AddProxy(t)
    PROVE  GoingInv'
<1>1. /\ FreezeInv /\ TaskOK(t) /\ TasksInv
  BY DEF ZipperInv, AdmissionInv, GoingInv
<1>2. PICK p \in Nat : p = t.id /\ p \notin Ids
  BY <1>1 DEF TaskOK, TasksInv, AddProxy
<1>3. PICK s : s = ProxyState(t.address)
  OBVIOUS
<1>4. registry' = [k \in DOMAIN registry \cup {p} |-> IF k = p THEN s ELSE registry[k]]
  BY <1>2, <1>3, Zenon DEF AddProxy, WithEntry
<1>5. /\ Ids' = Ids \cup {p} /\ registry'[p] = s
      /\ \A q \in Ids : registry'[q] = registry[q]
      /\ introducing' = introducing \ {t}
      /\ UNCHANGED << rejoins, freezer, thread, broadcasts, answers, inbox >>
  BY <1>2, <1>4 DEF AddProxy, freezing, environment, Ids
<1>6. s.status = "ACTIVE" /\ s.freeze_round = 0 /\ s.freeze_responders = {}
  BY <1>3 DEF ProxyState
<1>7. ASSUME p \in Suspects PROVE Going(p)'
  <2>1. Untouched(p)'
    <3>1. freezer[p].read = 0
      BY <1>1, <1>2, <1>7 DEF FreezeInv, FreezerInv
    <3>2. \A v \in Servers : ~Working(thread[v], p)
      BY <1>1, <1>2 DEF FreezeInv, ThreadInv, ThreadOK, Working
    <3>3. \A m \in broadcasts : m.proxy # p
      BY <1>1, <1>2 DEF FreezeInv, MessageOK
    <3>4. \A b \in answers : b.answer.proxy # p
      BY <1>2 DEF GoingInv, AnswerKnown
    <3> QED
      BY <1>5, <1>6, <3>1, <3>2, <3>3, <3>4 DEF Untouched
  <2>2. freezer[p].start = 0
    BY <1>1, <1>2, <1>7 DEF FreezeInv, FreezerInv
  <2>3. Begun(p)' /\ Sent(p)' /\ Decided(p)'
    BY <1>5, <1>6, <2>1, <2>2 DEF Begun, Sent, Decided
  <2>4. Rounds(p)' /\ Counted(p)'
    BY <2>1 DEF Untouched, Rounds, Counted
  <2> QED
    BY <2>3, <2>4 DEF Going
<1>8. \A q \in Ids : Unaffected(q)
  BY <1>5 DEF Unaffected
<1>9. rejoins = 0 => \A q \in Suspects \cap Ids' : Going(q)'
  BY <1>5, <1>7, <1>8, GoingKept DEF GoingInv
<1>10. TasksInv'
  <2>1. ASSUME NEW u \in introducing', u.id # NoId
        PROVE  u.id \notin Ids' /\ \A x \in introducing' : x.id = u.id => x = u
    BY <1>1, <1>2, <1>5, <2>1 DEF TasksInv
  <2> QED
    BY <2>1 DEF TasksInv
<1> QED
  BY <1>5, <1>9, <1>10 DEF GoingInv, AnswerKnown

\* The ids that tasks take are new ones.
LEMMA GoingIdTaken ==
    ASSUME ZipperInv, GoingInv, NEW t \in introducing, TakeId(t)
    PROVE  TasksInv'
<1>1. /\ TasksInv /\ \A x \in introducing : TaskOK(x)
      /\ proxies \in Seq(Addresses) /\ Ids \subseteq Nat /\ \A p \in Ids : p < Len(proxies)
  BY DEF ZipperInv, FreezeInv, RegistryInv, AdmissionInv, GoingInv, RegistryMatchesConfig
<1>2. PICK n \in Nat : n = Len(proxies)
  BY <1>1
<1>3. PICK u : u = [t EXCEPT !.id = n]
  OBVIOUS
<1>4. u.id = n /\ introducing' = (introducing \ {t}) \cup {u} /\ UNCHANGED registry
  BY <1>1, <1>2, <1>3 DEF TakeId, TaskOK
<1>5. n \notin Ids /\ \A x \in introducing : x.id # n
  <2>1. \A x \in introducing : x.id # NoId => x.id \in Nat /\ x.id < n
    BY <1>1, <1>2 DEF TaskOK, NoId
  <2> QED
    BY <1>1, <1>2, <2>1 DEF NoId
<1>6. ASSUME NEW x \in introducing', x.id # NoId
      PROVE  x.id \notin Ids' /\ \A y \in introducing' : y.id = x.id => y = x
  BY <1>1, <1>4, <1>5, <1>6 DEF TasksInv, Ids
<1> QED
  BY <1>6 DEF TasksInv

\* The steps of the slot allocator and of the admission leave the freeze alone.
LEMMA GoingQuiet ==
    ASSUME ZipperInv, GoingInv, UNCHANGED << freezing, inbox, answers, rejoins >>,
           Ids' = Ids, TasksInv',
           \A q \in Ids : /\ registry'[q].status = registry[q].status
                          /\ registry'[q].freeze_round = registry[q].freeze_round
                          /\ registry'[q].freeze_responders = registry[q].freeze_responders
    PROVE  GoingInv'
<1>1. \A q \in Ids : Unaffected(q)
  BY DEF Unaffected, freezing
<1>2. rejoins = 0 => \A q \in Suspects \cap Ids : Going(q)'
  BY <1>1, GoingKept DEF GoingInv
<1> QED
  BY <1>2 DEF GoingInv, AnswerKnown

LEMMA GoingAssigned ==
    ASSUME ZipperInv, GoingInv, AssignSlot
    PROVE  GoingInv'
<1>1. PICK p, g : registry' = [registry EXCEPT ![p].allocated_sequences = @ \cup {g}]
  BY DEF AssignSlot
<1>2. FreezeInv /\ \A q \in Ids : registry[q] \in States
  BY StateIs DEF ZipperInv
<1>3. \A q \in Ids : /\ registry'[q].status = registry[q].status
                     /\ registry'[q].freeze_round = registry[q].freeze_round
                     /\ registry'[q].freeze_responders = registry[q].freeze_responders
  BY <1>1, <1>2, RegistryIs DEF States, Ids
<1>4. UNCHANGED << freezing, inbox, answers, rejoins, introducing >> /\ Ids' = Ids
  BY <1>1, <1>2, RegistryIs DEF AssignSlot, admission, environment, Ids
<1>5. TasksInv'
  BY <1>4 DEF GoingInv, TasksInv
<1> QED
  BY <1>3, <1>4, <1>5, GoingQuiet

\* A REJOIN_PROXY ends what is claimed.
LEMMA GoingRejoin ==
    ASSUME ZipperInv, GoingInv, NEW p, NEW a, Rejoin(p, a)
    PROVE  GoingInv'
<1>1. FreezeInv /\ Ids' = Ids
  BY AddressesStay DEF ZipperInv
<1>2. rejoins' = rejoins + 1 /\ rejoins \in Nat /\ UNCHANGED << introducing, answers >>
  BY DEF Rejoin, GoingInv, environment
<1> QED
  BY <1>1, <1>2 DEF GoingInv, TasksInv, AnswerKnown

LEMMA GoingNext ==
    ASSUME ZipperInv, GoingInv, Next
    PROVE  GoingInv'
<1>1. FreezeInv
  BY DEF ZipperInv
<1>2. CASE \E v \in Servers : ReconfigStep(v) \/ SkipAcked(v)
  BY <1>1, <1>2, GoingResponse, GoingNextRound, GoingNextRoundBroadcasts, GoingCompletes
  DEF ReconfigStep
<1>3. CASE \E v \in Servers, p \in Suspects : handle_report(v, p)
  BY <1>1, <1>3, GoingReport
<1>4. CASE \E p \in Suspects : FreezerStarts(p) \/ FreezerBroadcasts(p)
  BY <1>1, <1>4, GoingFreezerStarts, GoingFreezerBroadcasts
<1>5. CASE \E v \in Servers, m \in broadcasts : ServerAnswers(v, m)
  BY <1>1, <1>5, GoingAnswer
<1>6. CASE AssignSlot
  BY <1>6, GoingAssigned
<1>7. CASE \/ \E v \in Servers, p \in Suspects : ServerSees(v, p)
           \/ \E p \in Ids, n \in Estimates : update_estimate(p, n)
           \/ \E a \in Newcomers : Register(a)
           \/ \E a \in including : Included(a)
           \/ \E t \in introducing : TakeId(t)
           \/ Snapshot \/ Gather \/ AllocationDone \/ IntroduceProxies \/ Introduced
  <2>1. UNCHANGED << registry, freezing, inbox, answers, rejoins >>
    BY <1>7 DEF ServerSees, update_estimate, Register, Included, TakeId, Snapshot, Gather,
                AllocationDone, IntroduceProxies, Introduced, admission, environment
  <2>2. TasksInv'
    <3>1. CASE \E t \in introducing : TakeId(t)
      BY <3>1, GoingIdTaken
    <3>2. CASE IntroduceProxies
      BY <3>2 DEF IntroduceProxies, TasksInv
    <3>3. CASE UNCHANGED introducing
      BY <2>1, <3>3 DEF GoingInv, TasksInv, Ids
    <3> QED
      BY <1>7, <3>1, <3>2, <3>3
      DEF ServerSees, update_estimate, Register, Included, Snapshot, Gather, AllocationDone,
          Introduced, admission
  <2> QED
    BY <2>1, <2>2, GoingQuiet DEF Ids
<1>8. CASE \E p \in 0..(Len(proxies) - 1), a \in Range(proxies) \cup Newcomers : Rejoin(p, a)
  BY <1>8, GoingRejoin
<1>9. CASE \E t \in introducing : AddProxy(t)
  BY <1>9, GoingAdded
<1> QED
  BY <1>2, <1>3, <1>4, <1>5, <1>6, <1>7, <1>8, <1>9, Zenon DEF Next, WorkerStep

LEMMA GoingStarts ==
    ASSUME Init, ZipperInv
    PROVE  GoingInv
<1>1. /\ rejoins = 0 /\ answers = {} /\ broadcasts = {} /\ introducing = {}
      /\ \A v \in Servers : thread[v].pc = "idle"
      /\ \A p \in Suspects : freezer[p].start = 0 /\ freezer[p].read = 0
  BY DEF Init, Idle
<1>2. ASSUME NEW p \in Suspects \cap Ids PROVE Going(p)
  <2>1. \E a : registry[p] = ProxyState(a)
    BY DEF Init, Ids
  <2>2. PICK s : s = registry[p] /\ s.status = "ACTIVE" /\ s.freeze_round = 0
                 /\ s.freeze_responders = {}
    BY <2>1 DEF ProxyState
  <2>3. Untouched(p) /\ Begun(p)
    BY <1>1, <2>2 DEF Untouched, Begun, Working
  <2> QED
    BY <1>1, <2>2, <2>3 DEF Going, Rounds, Counted, Decided, Sent
<1> QED
  BY <1>1, <1>2 DEF GoingInv, TasksInv

(***************************************************************************)
(* ReconfigManager never leaves a freeze standing: it is under way, or its *)
(* current round was broadcast and waits for servers that have not         *)
(* answered, however the threads that start rounds overlap.                *)
(***************************************************************************)
THEOREM FreezeCorrect == Spec => []FreezeGoesOn
<1>1. ZipperInv /\ GoingInv /\ [Next]_vars => GoingInv'
  <2>1. ASSUME ZipperInv, GoingInv, UNCHANGED vars PROVE GoingInv'
    <3>1. UNCHANGED << registry, freezing, inbox, answers, rejoins, introducing >>
      BY <2>1 DEF vars, admission, environment
    <3>2. TasksInv'
      BY <2>1, <3>1 DEF GoingInv, TasksInv, Ids
    <3> QED
      BY <2>1, <3>1, <3>2, GoingQuiet DEF Ids
  <2> QED
    BY <2>1, GoingNext
<1>2. Init /\ ZipperInv => GoingInv
  BY GoingStarts
<1>3. ASSUME ZipperInv, GoingInv PROVE FreezeGoesOn
  <2>1. ASSUME NEW p \in Suspects \cap Ids, registry[p].status = "RECONFIGURING", rejoins = 0,
               ~UnderWay(p)
        PROVE  WaitsForServers(p)
    <3>1. Going(p)
      BY <1>3, <2>1 DEF GoingInv
    <3>2. freezer[p] \in [start : Nat, read : Nat]
      BY <1>3 DEF ZipperInv, FreezeInv, FreezerInv
    <3>3. [type |-> "FREEZE", proxy |-> p, round |-> registry[p].freeze_round] \in broadcasts
      BY <2>1, <3>1, <3>2 DEF Going, Sent, UnderWay
    <3>4. ~Enough(registry[p].freeze_responders)
      BY <2>1, <3>1 DEF Going, Decided, UnderWay
    <3>5. Cardinality(registry[p].freeze_responders) < Quorum
      <4>1. registry[p].freeze_responders \in SUBSET Servers
        BY <1>3, StateIs DEF ZipperInv, States
      <4>2. Cardinality(registry[p].freeze_responders) \in Nat
        BY <4>1, Constants, FS_Subset, FS_CardinalityType
      <4> QED
        BY <3>4, <4>2, Constants DEF Enough
    <3> QED
      BY <3>1, <3>3, <3>5 DEF Going, Counted, WaitsForServers
  <2> QED
    BY <2>1 DEF FreezeGoesOn
<1> QED
  BY <1>1, <1>2, <1>3, ZipperInvariant, PTL DEF Spec

----------------------------------------------------------------------------
(***************************************************************************)
(* The order of the slots.  A slot is a record with the fields of          *)
(* SlotsWanted, or one of delivered, which has the same fields.            *)
(***************************************************************************)
Well(s) == s.proxy \in Nat /\ s.index \in Nat /\ s.of \in Nat \ {0} /\ s.index < s.of

\* The numerator of a slot's point on a common denominator with slot t.
Scaled(s, t) == (2 * s.index + 1) * t.of

LEMMA ProductLess ==
    ASSUME NEW x \in Int, NEW y \in Int, NEW k \in Nat \ {0}
    PROVE  /\ x * k \in Int /\ y * k \in Int
           /\ x < y <=> x * k < y * k
           /\ x <= y <=> x * k <= y * k
<1>1. x * k \in Int /\ y * k \in Int /\ (y - x) * k \in Int
  OBVIOUS
<1>2. (y - x) * k = y * k - x * k
  OBVIOUS
<1>3. /\ y - x > 0 => (y - x) * k > 0
      /\ y - x = 0 => (y - x) * k = 0
      /\ y - x < 0 => (y - x) * k < 0
  OBVIOUS
<1> QED BY <1>1, <1>2, <1>3

\* Fractions are ordered transitively: p / l, q / m and r / n.
LEMMA FractionsOrdered ==
    ASSUME NEW p \in Nat, NEW q \in Nat, NEW r \in Nat,
           NEW l \in Nat \ {0}, NEW m \in Nat \ {0}, NEW n \in Nat \ {0},
           p * m <= q * l, q * n <= r * m
    PROVE  /\ p * n <= r * l
           /\ (p * m < q * l \/ q * n < r * m) => p * n < r * l
<1>1. /\ p * m \in Int /\ q * l \in Int /\ q * n \in Int /\ r * m \in Int
      /\ p * n \in Int /\ r * l \in Int
  OBVIOUS
<1>2. /\ (p * m) * n <= (q * l) * n
      /\ p * m < q * l => (p * m) * n < (q * l) * n
      /\ (p * m) * n \in Int /\ (q * l) * n \in Int
  BY <1>1, ProductLess
<1>3. /\ (q * n) * l <= (r * m) * l
      /\ q * n < r * m => (q * n) * l < (r * m) * l
      /\ (q * n) * l \in Int /\ (r * m) * l \in Int
  BY <1>1, ProductLess
<1>4. /\ (p * m) * n = (p * n) * m
      /\ (q * l) * n = (q * n) * l
      /\ (r * m) * l = (r * l) * m
  OBVIOUS
<1>5. /\ (p * n) * m <= (r * l) * m
      /\ (p * m < q * l \/ q * n < r * m) => (p * n) * m < (r * l) * m
  BY <1>2, <1>3, <1>4
<1> QED BY <1>1, <1>5, ProductLess

LEMMA ScaledTyped ==
    ASSUME NEW a, NEW b, Well(a), Well(b)
    PROVE  /\ 2 * a.index + 1 \in Nat /\ a.of \in Nat \ {0} /\ Scaled(a, b) \in Nat
           /\ 2 * b.index + 1 \in Nat /\ b.of \in Nat \ {0} /\ Scaled(b, a) \in Nat
<1>1. a.index \in Nat /\ b.index \in Nat /\ a.of \in Nat \ {0} /\ b.of \in Nat \ {0}
  BY DEF Well
<1>2. 2 * a.index + 1 \in Nat /\ 2 * b.index + 1 \in Nat
  BY <1>1
<1>3. \A x, y \in Nat : x * y \in Nat
  OBVIOUS
<1> QED BY <1>1, <1>2, <1>3 DEF Scaled

\* std::sort of the pairs: a strict order in which only slots of one proxy at
\* the same point are not comparable.
LEMMA BeforeOrders ==
    ASSUME NEW a, NEW b, Well(a), Well(b)
    PROVE  /\ Before(a, b) => ~Before(b, a)
           /\ ~Before(a, b) /\ ~Before(b, a) => a.proxy = b.proxy /\ Scaled(a, b) = Scaled(b, a)
           /\ Before(a, b) => Scaled(a, b) <= Scaled(b, a)
<1>1. Scaled(a, b) \in Nat /\ Scaled(b, a) \in Nat /\ a.proxy \in Nat /\ b.proxy \in Nat
  BY ScaledTyped DEF Well
<1>2. /\ Before(a, b) <=> \/ Scaled(a, b) < Scaled(b, a)
                          \/ Scaled(a, b) = Scaled(b, a) /\ a.proxy < b.proxy
      /\ Before(b, a) <=> \/ Scaled(b, a) < Scaled(a, b)
                          \/ Scaled(b, a) = Scaled(a, b) /\ b.proxy < a.proxy
  BY DEF Before, Scaled
<1> QED BY <1>1, <1>2

LEMMA BeforeTransitive ==
    ASSUME NEW a, NEW b, NEW c, Well(a), Well(b), Well(c), Before(a, b), Before(b, c)
    PROVE  Before(a, c)
<1>1. /\ Scaled(a, b) <= Scaled(b, a) /\ Scaled(b, c) <= Scaled(c, b)
      /\ Scaled(a, c) \in Nat /\ Scaled(c, a) \in Nat
      /\ Scaled(a, b) \in Nat /\ Scaled(b, a) \in Nat /\ Scaled(b, c) \in Nat /\ Scaled(c, b) \in Nat
      /\ a.proxy \in Nat /\ b.proxy \in Nat /\ c.proxy \in Nat
  BY BeforeOrders, ScaledTyped DEF Well
<1>2. PICK p \in Nat, q \in Nat, r \in Nat, l \in Nat \ {0}, m \in Nat \ {0}, n \in Nat \ {0} :
        /\ p = 2 * a.index + 1 /\ q = 2 * b.index + 1 /\ r = 2 * c.index + 1
        /\ l = a.of /\ m = b.of /\ n = c.of
  BY ScaledTyped
<1>3. /\ Scaled(a, b) = p * m /\ Scaled(b, a) = q * l /\ Scaled(b, c) = q * n
      /\ Scaled(c, b) = r * m /\ Scaled(a, c) = p * n /\ Scaled(c, a) = r * l
  BY <1>2 DEF Scaled
<1>4. /\ Scaled(a, c) <= Scaled(c, a)
      /\ (Scaled(a, b) < Scaled(b, a) \/ Scaled(b, c) < Scaled(c, b)) => Scaled(a, c) < Scaled(c, a)
  BY <1>1, <1>3, FractionsOrdered
<1>5. /\ Scaled(a, b) < Scaled(b, a) \/ a.proxy < b.proxy
      /\ Scaled(b, c) < Scaled(c, b) \/ b.proxy < c.proxy
  BY DEF Before, Scaled
<1>6. Scaled(a, c) < Scaled(c, a) \/ (Scaled(a, c) = Scaled(c, a) /\ a.proxy < c.proxy)
  BY <1>1, <1>4, <1>5
<1> QED BY <1>6 DEF Before, Scaled

\* Slots of one proxy are ordered by their index.
LEMMA SameProxyOrder ==
    ASSUME NEW a, NEW b, Well(a), Well(b), a.proxy = b.proxy, a.of = b.of
    PROVE  /\ Before(a, b) <=> a.index < b.index
           /\ Scaled(a, b) = Scaled(b, a) <=> a.index = b.index
<1>1. PICK i \in Nat, j \in Nat, n \in Nat \ {0} :
        i = a.index /\ j = b.index /\ n = a.of /\ a.proxy \in Nat
  BY DEF Well
<1>2. /\ 2 * i + 1 < 2 * j + 1 <=> (2 * i + 1) * n < (2 * j + 1) * n
      /\ 2 * i + 1 <= 2 * j + 1 <=> (2 * i + 1) * n <= (2 * j + 1) * n
      /\ (2 * i + 1) * n \in Int /\ (2 * j + 1) * n \in Int
  <2>1. PICK x \in Int, y \in Int : x = 2 * i + 1 /\ y = 2 * j + 1
    BY <1>1
  <2> QED BY <1>1, <2>1, ProductLess
<1>3. Before(a, b) <=> (2 * i + 1) * n < (2 * j + 1) * n
  BY <1>1, <1>2 DEF Before
<1>4. Scaled(a, b) = Scaled(b, a) <=> (2 * i + 1) * n = (2 * j + 1) * n
  BY <1>1 DEF Scaled
<1>5. Before(a, b) <=> i < j
  BY <1>1, <1>2, <1>3
<1>6. Scaled(a, b) = Scaled(b, a) <=> i = j
  BY <1>1, <1>2, <1>4
<1> QED BY <1>1, <1>5, <1>6

\* A set of numbers has a least one.
LEMMA LeastNumber ==
    ASSUME NEW T, T \subseteq Nat, T # {}
    PROVE  \E x \in T : \A y \in T : x <= y
<1> DEFINE Below == OpToRel(<, Nat)
<1>1. PICK x \in T : \A y \in T : << y, x >> \notin Below
  <2>1. IsWellFoundedOn(Below, Nat)
    BY NatLessThanWellFounded
  <2> HIDE DEF Below
  <2> QED BY <2>1, WFMin
<1>2. \A y \in T : ~(y < x)
  BY <1>1 DEF OpToRel
<1> QED BY <1>2

\* Among finitely many slots there is a first: the one with the fewest before it.
LEMMA FirstExists ==
    ASSUME NEW S, IsFiniteSet(S), S # {}, \A s \in S : Well(s),
           \A s, t \in S : s # t => Before(s, t) \/ Before(t, s)
    PROVE  \E s \in S : \A t \in S \ {s} : Before(s, t)
<1> DEFINE Earlier(s) == {t \in S : Before(t, s)}
<1>1. \A s \in S : IsFiniteSet(Earlier(s)) /\ Cardinality(Earlier(s)) \in Nat
  <2>1. \A s \in S : Earlier(s) \in SUBSET S
    OBVIOUS
  <2> HIDE DEF Earlier
  <2> QED BY <2>1, FS_Subset, FS_CardinalityType
<1>2. PICK s \in S : \A t \in S : Cardinality(Earlier(s)) <= Cardinality(Earlier(t))
  <2> DEFINE N == {Cardinality(Earlier(t)) : t \in S}
  <2>1. N \subseteq Nat /\ N # {}
    BY <1>1
  <2>2. PICK x \in N : \A y \in N : x <= y
    <3> HIDE DEF N
    <3> QED BY <2>1, LeastNumber
  <2> QED BY <2>2
<1>3. ASSUME NEW t \in S, Before(t, s) PROVE FALSE
  <2>1. Earlier(t) \subseteq Earlier(s)
    BY <1>3, BeforeTransitive
  <2>2. t \in Earlier(s) /\ t \notin Earlier(t)
    BY <1>3, BeforeOrders
  <2> HIDE DEF Earlier
  <2>3. /\ Cardinality(Earlier(t)) <= Cardinality(Earlier(s))
        /\ Cardinality(Earlier(s)) = Cardinality(Earlier(t)) => Earlier(s) = Earlier(t)
    BY <2>1, <1>1, FS_Subset
  <2>4. Cardinality(Earlier(s)) = Cardinality(Earlier(t))
    BY <2>3, <1>1, <1>2
  <2> QED BY <2>2, <2>3, <2>4
<1> QED BY <1>3

(***************************************************************************)
(* The inductive invariant of the allocation: the numbers of an epoch      *)
(* follow the order of its slots, what waits in the worker's list comes    *)
(* after what was given out, and no slot between the first and the last of *)
(* a proxy is lost on the way.                                             *)
(***************************************************************************)
WishesInv ==
    /\ \A p \in DOMAIN estimates : estimates[p] \in Nat
    /\ \A p \in DOMAIN worker.snapshot : worker.snapshot[p] \in Nat
    /\ epochs \in Nat

OneOf(d, e) == d.proxy = e.proxy => d.of = e.of

GivenInv ==
    /\ \A d \in delivered :
        Well(d) /\ d.epoch \in 1..epochs /\ d.seq \in Nat /\ d.seq < global_seq_num
    /\ \A d, e \in delivered :
        /\ d.seq = e.seq => d = e
        /\ d.epoch = e.epoch => OneOf(d, e) /\ (Before(d, e) <=> d.seq < e.seq)

WaitingInv ==
    /\ worker.pc # "assign" => worker.slots = {}
    /\ worker.pc \in {"gather", "assign"} => epochs > 0
    /\ worker.pc = "gather" => \A d \in delivered : d.epoch # epochs
    /\ IsFiniteSet(worker.slots)
    /\ \A s \in worker.slots :
        /\ Well(s) /\ s = [proxy |-> s.proxy, index |-> s.index, of |-> s.of]
        /\ \A t \in worker.slots : OneOf(s, t)
        /\ \A d \in delivered : d.epoch = epochs => OneOf(d, s) /\ Before(d, s)

\* The slot of proxy p with this index in epoch e was given out, or will be.
Planned(p, e, index) ==
    \/ \E d \in delivered : d.proxy = p /\ d.epoch = e /\ d.index = index
    \/ e = epochs /\ \E s \in worker.slots : s.proxy = p /\ s.index = index

PlannedInv ==
    /\ \A d \in delivered : \A i \in 0..(d.of - 1) : Planned(d.proxy, d.epoch, i)
    /\ \A s \in worker.slots : \A i \in 0..(s.of - 1) : Planned(s.proxy, epochs, i)

SlotInv == WishesInv /\ GivenInv /\ WaitingInv /\ PlannedInv

----------------------------------------------------------------------------
\* The worker and what it gave out stay as they are.
LEMMA SlotsStay ==
    ASSUME SlotInv, WishesInv', UNCHANGED << global_seq_num, worker, epochs, delivered >>
    PROVE  SlotInv'
<1>1. GivenInv'
  BY DEF SlotInv, GivenInv
<1>2. WaitingInv'
  BY DEF SlotInv, WaitingInv
<1>3. PlannedInv'
  BY DEF SlotInv, PlannedInv, Planned
<1> QED BY <1>1, <1>2, <1>3 DEF SlotInv

\* The worker has an empty list, before and after the step.
LEMMA NothingWaits ==
    ASSUME SlotInv, WishesInv', UNCHANGED << global_seq_num, delivered >>,
           epochs' \in {epochs, epochs + 1}, worker.slots = {}, worker'.slots = {},
           worker'.pc # "assign", worker'.pc = "gather" => epochs' # epochs
    PROVE  SlotInv'
<1>1. epochs \in Nat /\ epochs' \in Nat /\ \A d \in delivered : d.epoch \in 1..epochs
  BY DEF SlotInv, WishesInv, GivenInv
<1>2. GivenInv'
  <2>1. \A d \in delivered : d.epoch \in 1..epochs'
    BY <1>1
  <2> QED BY <2>1 DEF SlotInv, GivenInv
<1>3. WaitingInv'
  <2>1. epochs' # epochs => epochs' > 0 /\ \A d \in delivered : d.epoch # epochs'
    BY <1>1
  <2> QED BY <2>1, FS_EmptySet DEF WaitingInv
<1>4. PlannedInv'
  <2>1. \A d \in delivered : \A i \in 0..(d.of - 1) :
          \E e \in delivered : e.proxy = d.proxy /\ e.epoch = d.epoch /\ e.index = i
    BY DEF SlotInv, PlannedInv, Planned
  <2> QED BY <2>1 DEF PlannedInv, Planned
<1> QED BY <1>2, <1>3, <1>4 DEF SlotInv

LEMMA QuietWorkerStep ==
    ASSUME SlotInv, Snapshot \/ AllocationDone \/ IntroduceProxies \/ Introduced
    PROVE  SlotInv'
<1>1. /\ UNCHANGED << global_seq_num, delivered, estimates >> /\ worker.pc # "gather"
      /\ worker.slots = {}
      /\ \/ worker' = WorkerIdle /\ epochs' = epochs
         \/ worker' = [WorkerIdle EXCEPT !.pc = "introduce"] /\ epochs' = epochs
         \/ worker' = [WorkerIdle EXCEPT !.pc = "gather", !.snapshot = estimates]
              /\ epochs' = epochs + 1
  <2>1. CASE Snapshot
    BY <2>1 DEF Snapshot, SlotInv, WaitingInv
  <2>2. CASE AllocationDone
    BY <2>2 DEF AllocationDone
  <2>3. CASE IntroduceProxies
    BY <2>3 DEF IntroduceProxies, SlotInv, WaitingInv
  <2>4. CASE Introduced
    BY <2>4 DEF Introduced, SlotInv, WaitingInv
  <2> QED BY <2>1, <2>2, <2>3, <2>4
<1>2. /\ worker'.slots = {} /\ worker'.pc # "assign"
      /\ worker'.pc = "gather" => epochs' = epochs + 1
      /\ worker'.snapshot \in {<< >>, estimates} /\ epochs' \in {epochs, epochs + 1}
  <2>1. CASE worker' = WorkerIdle
    BY <1>1, <2>1 DEF WorkerIdle
  <2>2. CASE worker' = [WorkerIdle EXCEPT !.pc = "introduce"]
    BY <1>1, <2>2 DEF WorkerIdle
  <2>3. CASE worker' = [WorkerIdle EXCEPT !.pc = "gather", !.snapshot = estimates]
    BY <1>1, <2>3 DEF WorkerIdle
  <2> QED BY <1>1, <2>1, <2>2, <2>3
<1>3. WishesInv'
  <2>1. \A p \in DOMAIN << >> : << >>[p] \in Nat
    OBVIOUS
  <2> QED BY <1>1, <1>2, <2>1 DEF SlotInv, WishesInv
<1>4. epochs' = epochs + 1 => epochs' # epochs
  BY DEF SlotInv, WishesInv
<1> QED BY <1>1, <1>2, <1>3, <1>4, NothingWaits

\* A set that is listed by a function on a finite set is finite.
LEMMA ImageFinite ==
    ASSUME NEW S, NEW f, IsFiniteSet(S)
    PROVE  IsFiniteSet({f[x] : x \in S})
<1>1. PICK T : T = {f[x] : x \in S}
  OBVIOUS
<1>2. PICK g : g = [x \in S |-> f[x]]
  OBVIOUS
<1>3. g \in Surjection(S, T)
  BY <1>1, <1>2 DEF Surjection
<1>4. IsFiniteSet(T)
  BY <1>3, FS_Surjection
<1> QED BY <1>1, <1>4

\* The slots that one proxy gets.
SlotsFor(p) == {[proxy |-> p, index |-> i, of |-> Wants(p)] : i \in 0..(Wants(p) - 1)}

\* SlotAllocator::allocate_slots has finitely many slots to sort.
LEMMA SlotsFinite ==
    ASSUME ZipperInv, WishesInv
    PROVE  IsFiniteSet(SlotsWanted) /\ \A p \in Ids : Wants(p) \in Nat
<1>1. \A p \in Ids : Wants(p) \in Nat
  BY DEF WishesInv, Wants
<1>2. \A p \in Ids : IsFiniteSet(SlotsFor(p))
  <2>1. TAKE p \in Ids
  <2>2. PICK n \in Nat : n = Wants(p)
    BY <1>1
  <2>3. PICK f : f = [i \in 0..(n - 1) |-> [proxy |-> p, index |-> i, of |-> n]]
    OBVIOUS
  <2>4. IsFiniteSet(0..(n - 1))
    BY FS_Interval
  <2>5. IsFiniteSet({f[i] : i \in 0..(n - 1)})
    BY <2>4, ImageFinite
  <2>6. {f[i] : i \in 0..(n - 1)} = SlotsFor(p)
    BY <2>2, <2>3 DEF SlotsFor
  <2> QED BY <2>5, <2>6
<1>3. IsFiniteSet(Ids)
  <2>1. Ids \subseteq 0..(Len(proxies) - 1) /\ Len(proxies) \in Nat
    BY DEF ZipperInv, FreezeInv, RegistryInv, AdmissionInv, RegistryMatchesConfig
  <2>2. IsFiniteSet(0..(Len(proxies) - 1))
    BY <2>1, FS_Interval
  <2> QED BY <2>1, <2>2, FS_Subset
<1>4. PICK A : A = {q \in Ids : registry[q].status = "ACTIVE"}
  OBVIOUS
<1>5. IsFiniteSet(A) /\ A \subseteq Ids
  BY <1>3, <1>4, FS_Subset
<1>6. PICK f : f = [p \in A |-> SlotsFor(p)]
  OBVIOUS
<1>7. IsFiniteSet({f[p] : p \in A})
  BY <1>5, ImageFinite
<1>8. IsFiniteSet(UNION {f[p] : p \in A})
  <2>1. \A S \in {f[p] : p \in A} : IsFiniteSet(S)
    BY <1>2, <1>5, <1>6
  <2> QED BY <1>7, <2>1, FS_UNION
<1>9. UNION {f[p] : p \in A} = SlotsWanted
  BY <1>4, <1>6 DEF SlotsWanted, SlotsFor
<1> QED BY <1>1, <1>8, <1>9

\* allocate_slots, up to the sort.
LEMMA GatherStep ==
    ASSUME ZipperInv, SlotInv, Gather
    PROVE  SlotInv'
<1>1. /\ worker.pc = "gather" /\ worker.slots = {} /\ epochs > 0
      /\ \A d \in delivered : d.epoch # epochs
      /\ worker' = [worker EXCEPT !.pc = "assign", !.slots = SlotsWanted]
      /\ UNCHANGED << estimates, global_seq_num, epochs, delivered >>
  BY DEF Gather, SlotInv, WaitingInv
<1>2. worker'.pc = "assign" /\ worker'.slots = SlotsWanted /\ worker'.snapshot = worker.snapshot
  BY <1>1 DEF ZipperInv, FreezeInv, WorkerInv
<1>3. IsFiniteSet(SlotsWanted) /\ Ids \subseteq Nat /\ \A p \in Ids : Wants(p) \in Nat
  BY SlotsFinite DEF SlotInv, ZipperInv, FreezeInv, RegistryInv
<1>4. ASSUME NEW s \in SlotsWanted
      PROVE  \E p \in Ids : \E i \in 0..(Wants(p) - 1) :
                /\ s = [proxy |-> p, index |-> i, of |-> Wants(p)]
                /\ \A k \in 0..(Wants(p) - 1) :
                      [proxy |-> p, index |-> k, of |-> Wants(p)] \in SlotsWanted
  BY DEF SlotsWanted
<1>5. ASSUME NEW s \in SlotsWanted
      PROVE  /\ Well(s) /\ s.proxy \in Ids /\ s.of = Wants(s.proxy)
             /\ s = [proxy |-> s.proxy, index |-> s.index, of |-> s.of]
             /\ \A k \in 0..(s.of - 1) :
                   \E t \in SlotsWanted : t.proxy = s.proxy /\ t.index = k
  <2>1. PICK p \in Ids : \E i \in 0..(Wants(p) - 1) :
                /\ s = [proxy |-> p, index |-> i, of |-> Wants(p)]
                /\ \A k \in 0..(Wants(p) - 1) :
                      [proxy |-> p, index |-> k, of |-> Wants(p)] \in SlotsWanted
    BY <1>4
  <2>2. PICK n \in Nat : n = Wants(p) /\ p \in Nat
    BY <1>3
  <2>3. PICK i \in 0..(n - 1) : s = [proxy |-> p, index |-> i, of |-> n]
    BY <2>1, <2>2
  <2>4. s.proxy = p /\ s.index = i /\ s.of = n
    BY <2>3
  <2>5. Well(s)
    BY <2>2, <2>3, <2>4 DEF Well
  <2>6. ASSUME NEW k \in 0..(s.of - 1)
        PROVE  \E t \in SlotsWanted : t.proxy = s.proxy /\ t.index = k
    <3>1. PICK t : t = [proxy |-> p, index |-> k, of |-> n]
      OBVIOUS
    <3>2. t \in SlotsWanted /\ t.proxy = p /\ t.index = k
      BY <2>1, <2>2, <2>4, <3>1
    <3> QED BY <2>4, <3>2
  <2> QED BY <2>2, <2>3, <2>4, <2>5, <2>6
<1>6. WishesInv'
  BY <1>1, <1>2 DEF SlotInv, WishesInv
<1>7. GivenInv'
  BY <1>1 DEF SlotInv, GivenInv
<1>8. WaitingInv'
  <2>1. \A s, t \in SlotsWanted : OneOf(s, t)
    BY <1>5 DEF OneOf
  <2> QED BY <1>1, <1>2, <1>3, <1>5, <2>1 DEF WaitingInv
<1>9. PlannedInv'
  <2>1. \A d \in delivered : \A i \in 0..(d.of - 1) :
          \E e \in delivered : e.proxy = d.proxy /\ e.epoch = d.epoch /\ e.index = i
    BY <1>1 DEF SlotInv, PlannedInv, Planned
  <2> QED BY <1>1, <1>2, <1>5, <2>1 DEF PlannedInv, Planned
<1> QED BY <1>6, <1>7, <1>8, <1>9 DEF SlotInv

\* std::sort has a first pair: two slots that are not ordered are the same.
LEMMA FirstSlot ==
    ASSUME WaitingInv, worker.slots # {}
    PROVE  \E s \in worker.slots : \A t \in worker.slots \ {s} : Before(s, t)
<1>1. ASSUME NEW s \in worker.slots, NEW t \in worker.slots, ~Before(s, t), ~Before(t, s)
      PROVE  s = t
  <2>1. /\ Well(s) /\ s = [proxy |-> s.proxy, index |-> s.index, of |-> s.of]
        /\ Well(t) /\ t = [proxy |-> t.proxy, index |-> t.index, of |-> t.of]
        /\ OneOf(s, t)
    BY DEF WaitingInv
  <2>2. s.proxy = t.proxy /\ Scaled(s, t) = Scaled(t, s)
    BY <1>1, <2>1, BeforeOrders
  <2>3. s.of = t.of
    BY <2>1, <2>2 DEF OneOf
  <2>4. s.index = t.index
    BY <2>1, <2>2, <2>3, SameProxyOrder
  <2> QED BY <2>1, <2>2, <2>3, <2>4
<1>2. IsFiniteSet(worker.slots) /\ \A s \in worker.slots : Well(s)
  BY DEF WaitingInv
<1> QED BY <1>1, <1>2, FirstExists

\* The order sees only these three fields.
Alike(d, s) == d.proxy = s.proxy /\ d.index = s.index /\ d.of = s.of

LEMMA AlikeOrdered ==
    ASSUME NEW d, NEW s, NEW t, Alike(d, s)
    PROVE  /\ Well(d) <=> Well(s)
           /\ Before(d, t) <=> Before(s, t)
           /\ Before(t, d) <=> Before(t, s)
           /\ OneOf(d, t) <=> OneOf(s, t)
           /\ OneOf(t, d) <=> OneOf(t, s)
BY DEF Alike, Well, Before, OneOf

\* assign_slots, one turn of its loop.
LEMMA AssignSlotStep ==
    ASSUME ZipperInv, SlotInv, AssignSlot
    PROVE  SlotInv'
<1>1. PICK slot : slot = CHOOSE s \in worker.slots : \A t \in worker.slots \ {s} : Before(s, t)
  OBVIOUS
<1>2. slot \in worker.slots /\ \A t \in worker.slots \ {slot} : Before(slot, t)
  BY <1>1, FirstSlot DEF AssignSlot, SlotInv
<1>3. PICK g \in Nat : g = global_seq_num
  BY DEF ZipperInv, FreezeInv
<1>4. PICK new : new = [proxy |-> slot.proxy, epoch |-> epochs, index |-> slot.index,
                        of |-> slot.of, ts |-> TimePoint(slot), seq |-> g]
  OBVIOUS
<1>5. /\ delivered' = delivered \cup {new} /\ global_seq_num' = g + 1
      /\ worker' = [worker EXCEPT !.slots = @ \ {slot}]
      /\ UNCHANGED << estimates, epochs >> /\ worker.pc = "assign"
  BY <1>1, <1>3, <1>4, Zenon DEF AssignSlot
<1>6. /\ worker'.slots = worker.slots \ {slot} /\ worker'.pc = "assign"
      /\ worker'.snapshot = worker.snapshot
  BY <1>5 DEF ZipperInv, FreezeInv, WorkerInv
<1>7. Alike(new, slot) /\ new.epoch = epochs /\ new.seq = g
  BY <1>4 DEF Alike
<1>8. /\ Well(new)
      /\ \A d \in delivered : d.epoch = epochs => OneOf(d, new) /\ Before(d, new)
      /\ \A t \in worker.slots \ {slot} : OneOf(new, t) /\ Before(new, t)
  <2>1. /\ Well(slot)
        /\ \A d \in delivered : d.epoch = epochs => OneOf(d, slot) /\ Before(d, slot)
        /\ \A t \in worker.slots : OneOf(slot, t)
    BY <1>2 DEF SlotInv, WaitingInv
  <2> QED BY <1>2, <1>7, <2>1, AlikeOrdered
<1>9. \A d \in delivered :
        /\ Well(d) /\ d.epoch \in 1..epochs /\ d.seq \in Nat /\ d.seq < g
        /\ \A e \in delivered :
              /\ d.seq = e.seq => d = e
              /\ d.epoch = e.epoch => OneOf(d, e) /\ (Before(d, e) <=> d.seq < e.seq)
  BY <1>3 DEF SlotInv, GivenInv
<1>10. epochs \in 1..epochs
  BY <1>5 DEF SlotInv, WaitingInv, WishesInv
<1>11. WishesInv'
  BY <1>5, <1>6 DEF SlotInv, WishesInv
<1>12. GivenInv'
  <2>1. ASSUME NEW d \in delivered'
        PROVE  Well(d) /\ d.epoch \in 1..epochs /\ d.seq \in Nat /\ d.seq < g + 1
    BY <1>3, <1>5, <1>7, <1>8, <1>9, <1>10, <2>1
  <2>2. OneOf(new, new) /\ ~Before(new, new)
    BY <1>8, BeforeOrders DEF OneOf
  <2>3. ASSUME NEW d \in delivered
        PROVE  /\ d.seq # new.seq /\ d.seq < new.seq /\ ~(new.seq < d.seq)
               /\ d.epoch = epochs =>
                     OneOf(d, new) /\ OneOf(new, d) /\ Before(d, new) /\ ~Before(new, d)
    <3>1. d.seq \in Nat /\ d.seq < g /\ Well(d)
      BY <1>9
    <3>2. d.epoch = epochs => OneOf(d, new) /\ Before(d, new)
      BY <1>8
    <3>3. OneOf(d, new) => OneOf(new, d)
      BY DEF OneOf
    <3>4. Before(d, new) => ~Before(new, d)
      BY <1>8, <3>1, BeforeOrders
    <3> QED BY <1>3, <1>7, <3>1, <3>2, <3>3, <3>4
  <2>4. ASSUME NEW d \in delivered', NEW e \in delivered'
        PROVE  /\ d.seq = e.seq => d = e
               /\ d.epoch = e.epoch => OneOf(d, e) /\ (Before(d, e) <=> d.seq < e.seq)
    <3>1. CASE d \in delivered /\ e \in delivered
      BY <1>9, <3>1
    <3>2. CASE d \in delivered /\ e = new
      BY <1>7, <2>3, <3>2
    <3>3. CASE d = new /\ e \in delivered
      BY <1>7, <2>3, <3>3
    <3>4. CASE d = new /\ e = new
      BY <1>3, <1>7, <2>2, <3>4
    <3> QED BY <1>5, <3>1, <3>2, <3>3, <3>4
  <2> QED BY <1>5, <2>1, <2>4 DEF GivenInv
<1>13. WaitingInv'
  <2>1. /\ IsFiniteSet(worker.slots) /\ epochs > 0
        /\ \A s \in worker.slots :
            /\ Well(s) /\ s = [proxy |-> s.proxy, index |-> s.index, of |-> s.of]
            /\ \A t \in worker.slots : OneOf(s, t)
            /\ \A d \in delivered : d.epoch = epochs => OneOf(d, s) /\ Before(d, s)
    BY <1>5 DEF SlotInv, WaitingInv
  <2>2. IsFiniteSet(worker.slots \ {slot})
    BY <2>1, FS_RemoveElement
  <2> QED BY <1>5, <1>6, <1>8, <2>1, <2>2 DEF WaitingInv
<1>14. PlannedInv'
  <2>1. ASSUME NEW p, NEW e, NEW i, Planned(p, e, i)
        PROVE  Planned(p, e, i)'
    <3>1. CASE \E d \in delivered : d.proxy = p /\ d.epoch = e /\ d.index = i
      BY <1>5, <3>1 DEF Planned
    <3>2. CASE e = epochs /\ slot.proxy = p /\ slot.index = i
      BY <1>5, <1>7, <3>2 DEF Planned, Alike
    <3>3. CASE e = epochs /\ \E s \in worker.slots \ {slot} : s.proxy = p /\ s.index = i
      BY <1>5, <1>6, <3>3 DEF Planned
    <3> QED BY <2>1, <3>1, <3>2, <3>3 DEF Planned
  <2>2. \A d \in delivered' : \A i \in 0..(d.of - 1) : Planned(d.proxy, d.epoch, i)
    BY <1>2, <1>5, <1>7 DEF SlotInv, PlannedInv, Alike
  <2>3. \A s \in worker'.slots : \A i \in 0..(s.of - 1) : Planned(s.proxy, epochs, i)
    BY <1>6 DEF SlotInv, PlannedInv
  <2> QED BY <1>5, <2>1, <2>2, <2>3 DEF PlannedInv
<1> QED BY <1>11, <1>12, <1>13, <1>14 DEF SlotInv

LEMMA SlotsStart ==
    ASSUME Init
    PROVE  SlotInv
<1>1. WishesInv /\ worker.slots = {} /\ worker.pc = "idle" /\ delivered = {}
  BY DEF Init, WishesInv, WorkerIdle
<1>2. GivenInv
  BY <1>1 DEF GivenInv
<1>3. WaitingInv
  BY <1>1, FS_EmptySet DEF WaitingInv
<1>4. PlannedInv
  BY <1>1 DEF PlannedInv
<1> QED BY <1>1, <1>2, <1>3, <1>4 DEF SlotInv

LEMMA SlotsNext ==
    ASSUME ZipperInv, SlotInv, Next
    PROVE  SlotInv'
<1>1. CASE UNCHANGED allocation
  <2>1. UNCHANGED << estimates, global_seq_num, worker, epochs, delivered >>
    BY <1>1 DEF allocation
  <2>2. WishesInv'
    BY <2>1 DEF SlotInv, WishesInv
  <2> QED BY <2>1, <2>2, SlotsStay
<1>2. CASE \E p \in Ids, n \in Estimates : update_estimate(p, n)
  <2>1. PICK p \in Ids, n \in Estimates :
          /\ estimates' = WithEntry(estimates, p, n)
          /\ UNCHANGED << global_seq_num, worker, epochs, delivered >>
    BY <1>2 DEF update_estimate
  <2>2. n \in Nat
    BY ZipperAssumption
  <2>3. WishesInv'
    BY <2>1, <2>2 DEF SlotInv, WishesInv, WithEntry
  <2> QED BY <2>1, <2>3, SlotsStay
<1>3. CASE WorkerStep
  BY <1>3, QuietWorkerStep, GatherStep, AssignSlotStep DEF WorkerStep
<1>4. CASE \E v \in Servers : ReconfigStep(v) \/ SkipAcked(v)
  BY <1>1, <1>4 DEF ReconfigStep, handle_freeze_response, NextRound, NextRoundBroadcasts,
                    BlockProxy, SendSkip, SkipAcked, Complete
<1>5. CASE \E v \in Servers, p \in Suspects : handle_report(v, p) \/ ServerSees(v, p)
  BY <1>1, <1>5 DEF handle_report, ServerSees
<1>6. CASE \E p \in Suspects : FreezerStarts(p) \/ FreezerBroadcasts(p)
  BY <1>1, <1>6 DEF FreezerStarts, FreezerBroadcasts
<1>7. CASE \E v \in Servers, m \in broadcasts : ServerAnswers(v, m)
  BY <1>1, <1>7 DEF ServerAnswers
<1>8. CASE \/ \E a \in Newcomers : Register(a)
           \/ \E p \in 0..(Len(proxies) - 1), a \in Range(proxies) \cup Newcomers : Rejoin(p, a)
           \/ \E a \in including : Included(a)
           \/ \E t \in introducing : TakeId(t) \/ AddProxy(t)
  BY <1>1, <1>8 DEF Register, Rejoin, Included, TakeId, AddProxy
<1> QED
  BY <1>2, <1>3, <1>4, <1>5, <1>6, <1>7, <1>8 DEF Next

LEMMA SlotInvariant == Spec => []SlotInv
<1>1. ZipperInv /\ SlotInv /\ [Next]_vars => SlotInv'
  <2>1. CASE UNCHANGED vars
    <3>1. UNCHANGED << estimates, global_seq_num, worker, epochs, delivered >>
      BY <2>1 DEF vars, allocation
    <3>2. SlotInv => WishesInv'
      BY <3>1 DEF SlotInv, WishesInv
    <3> QED BY <3>1, <3>2, SlotsStay
  <2> QED BY <2>1, SlotsNext
<1> QED
  BY <1>1, SlotsStart, ZipperInvariant, PTL DEF Spec

----------------------------------------------------------------------------
(***************************************************************************)
(* The points (2k + 1) / 2n of a proxy with n slots lie 1/n apart, so that *)
(* the 1/m between two points of a proxy with m <= n slots holds one of    *)
(* them, whichever of its two ends counts.                                 *)
(***************************************************************************)
LEMMA Squeeze ==
    ASSUME NEW m \in Nat \ {0}, NEW n \in Nat \ {0}, NEW i \in Nat, m <= n, i + 1 < m,
           NEW T \in SUBSET Nat, NEW x \in T, \A y \in T : x <= y,
           \A y \in Nat : y \notin T => (2 * y + 1) * m <= (2 * i + 1) * n,
           \A y \in Nat : y \in T => (2 * i + 1) * n <= (2 * y + 1) * m
    PROVE  /\ (2 * x + 1) * m <= (2 * i + 3) * n
           /\ (x > 0 => (2 * (x - 1) + 1) * m < (2 * i + 1) * n) => (2 * x + 1) * m < (2 * i + 3) * n
           /\ x \in 0..(n - 1)
<1>1. PICK a \in Int, b \in Int, c \in Int : a = x * m /\ b = i * n /\ c = m * n
  OBVIOUS
<1>2. /\ (2 * x + 1) * m = 2 * a + m
      /\ (2 * (x - 1) + 1) * m = 2 * a - m
      /\ (2 * i + 1) * n = 2 * b + n
      /\ (2 * i + 3) * n = 2 * b + 3 * n
  BY <1>1
<1>3. x = 0 => a = 0
  BY <1>1
<1>4. b >= 0
  BY <1>1
<1>5. x > 0 => 2 * a - m <= 2 * b + n
  <2>1. x > 0 => x - 1 \in Nat /\ x - 1 \notin T
    OBVIOUS
  <2> QED BY <1>2, <2>1
<1>6. b + 2 * n <= c
  <2>1. i + 2 \in Int /\ m \in Int /\ i + 2 <= m
    OBVIOUS
  <2>2. (i + 2) * n <= m * n
    BY <2>1, ProductLess
  <2> QED BY <1>1, <2>2
<1>7. 2 * a + m <= 2 * b + 3 * n
  BY <1>1, <1>3, <1>4, <1>5
<1>8. 2 * a + m < 2 * c
  BY <1>1, <1>6, <1>7
<1>9. x < n
  <2>1. n <= x => n * m <= x * m
    BY ProductLess
  <2>2. n * m = c
    BY <1>1
  <2> QED BY <1>1, <1>8, <2>1, <2>2
<1>10. (x > 0 => 2 * a - m < 2 * b + n) => 2 * a + m < 2 * b + 3 * n
  BY <1>1, <1>3, <1>4
<1> QED BY <1>2, <1>7, <1>9, <1>10

LEMMA PointBetween ==
    ASSUME NEW m \in Nat \ {0}, NEW n \in Nat \ {0}, NEW i \in Nat, m <= n, i + 1 < m
    PROVE  /\ \E k \in 0..(n - 1) :
                (2 * i + 1) * n <= (2 * k + 1) * m /\ (2 * k + 1) * m < (2 * i + 3) * n
           /\ \E k \in 0..(n - 1) :
                (2 * i + 1) * n < (2 * k + 1) * m /\ (2 * k + 1) * m <= (2 * i + 3) * n
<1>1. PICK b \in Nat : b = (2 * i + 1) * n
  OBVIOUS
<1>2. \A k \in Nat : (2 * k + 1) * m \in Nat
  OBVIOUS
<1>3. (2 * b + 1) * m > b
  <2>1. 1 <= m /\ 2 * b + 1 \in Nat \ {0} /\ 1 \in Int /\ m \in Int
    OBVIOUS
  <2>2. 1 * (2 * b + 1) <= m * (2 * b + 1)
    BY <2>1, ProductLess
  <2>3. m * (2 * b + 1) = (2 * b + 1) * m
    OBVIOUS
  <2> QED BY <2>2, <2>3
<1>4. \E k \in 0..(n - 1) :
         (2 * i + 1) * n <= (2 * k + 1) * m /\ (2 * k + 1) * m < (2 * i + 3) * n
  <2>1. PICK T \in SUBSET Nat : T = {k \in Nat : b <= (2 * k + 1) * m}
    OBVIOUS
  <2>2. b \in T
    BY <1>2, <1>3, <2>1
  <2>3. PICK x \in T : \A y \in T : x <= y
    BY <2>2, LeastNumber
  <2>4. \A y \in Nat : (y \notin T => (2 * y + 1) * m < b) /\ (y \in T => b <= (2 * y + 1) * m)
    BY <1>2, <2>1
  <2>5. \A y \in Nat : (y \notin T => (2 * y + 1) * m <= b)
    BY <1>2, <2>4
  <2>6. x > 0 => x - 1 \in Nat /\ x - 1 \notin T
    BY <2>3
  <2>7. x > 0 => (2 * (x - 1) + 1) * m < (2 * i + 1) * n
    BY <1>1, <2>4, <2>6
  <2>8. (2 * x + 1) * m < (2 * i + 3) * n /\ x \in 0..(n - 1)
    BY <1>1, <2>3, <2>4, <2>5, <2>7, Squeeze
  <2> QED BY <1>1, <2>4, <2>8
<1>5. \E k \in 0..(n - 1) :
         (2 * i + 1) * n < (2 * k + 1) * m /\ (2 * k + 1) * m <= (2 * i + 3) * n
  <2>1. PICK T \in SUBSET Nat : T = {k \in Nat : b < (2 * k + 1) * m}
    OBVIOUS
  <2>2. b \in T
    BY <1>2, <1>3, <2>1
  <2>3. PICK x \in T : \A y \in T : x <= y
    BY <2>2, LeastNumber
  <2>4. \A y \in Nat : (y \notin T => (2 * y + 1) * m <= b) /\ (y \in T => b < (2 * y + 1) * m)
    BY <1>2, <2>1
  <2>5. /\ \A y \in Nat : y \notin T => (2 * y + 1) * m <= (2 * i + 1) * n
        /\ \A y \in Nat : y \in T => (2 * i + 1) * n <= (2 * y + 1) * m
    BY <1>1, <1>2, <2>4
  <2>6. (2 * x + 1) * m <= (2 * i + 3) * n /\ x \in 0..(n - 1)
    BY <2>3, <2>5, Squeeze
  <2> QED BY <1>1, <2>4, <2>6
<1> QED BY <1>4, <1>5

\* When nothing waits, a proxy has every slot of its estimate, each of them once.
LEMMA SlotsCounted ==
    ASSUME SlotInv, worker.slots = {}, NEW a \in delivered
    PROVE  /\ Cardinality(SlotsOf(a.proxy, a.epoch)) = a.of
           /\ \A i \in 0..(a.of - 1) : \E d \in SlotsOf(a.proxy, a.epoch) : d.index = i
<1>1. PICK S : S = SlotsOf(a.proxy, a.epoch)
  OBVIOUS
<1>2. PICK n \in Nat \ {0} : n = a.of
  BY DEF SlotInv, GivenInv, Well
<1>3. \A d \in S : d \in delivered /\ d.proxy = a.proxy /\ d.epoch = a.epoch
  BY <1>1 DEF SlotsOf
<1>4. \A i \in 0..(n - 1) : \E d \in S : d.index = i
  BY <1>1, <1>2 DEF SlotInv, PlannedInv, Planned, SlotsOf
<1>5. \A d \in S : Well(d) /\ d.of = n /\ d.seq \in Nat
  BY <1>2, <1>3 DEF SlotInv, GivenInv, OneOf
<1>6. \A d \in S : d.index \in 0..(n - 1)
  BY <1>2, <1>5 DEF Well
<1>7. ASSUME NEW d \in S, NEW e \in S, d.index = e.index
      PROVE  d = e
  <2>1. d.proxy = e.proxy /\ d.of = e.of /\ Well(d) /\ Well(e)
    BY <1>3, <1>5
  <2>2. ~Before(d, e) /\ ~Before(e, d)
    <3>1. d.index \in Nat
      BY <2>1 DEF Well
    <3> QED BY <1>7, <2>1, <3>1, SameProxyOrder
  <2>3. ~(d.seq < e.seq) /\ ~(e.seq < d.seq)
    BY <1>3, <2>2 DEF SlotInv, GivenInv
  <2>4. d.seq = e.seq
    BY <1>5, <2>3
  <2> QED BY <1>3, <2>4 DEF SlotInv, GivenInv
<1>8. PICK f : f = [d \in S |-> d.index]
  OBVIOUS
<1>9. /\ f \in [S -> 0..(n - 1)]
      /\ \A d, e \in S : f[d] = f[e] => d = e
      /\ \A i \in 0..(n - 1) : \E d \in S : f[d] = i
  BY <1>4, <1>6, <1>7, <1>8
<1>10. f \in Bijection(S, 0..(n - 1))
  BY <1>9, Fun_IsBij
<1>11. ExistsBijection(0..(n - 1), S)
  <2>1. ExistsBijection(S, 0..(n - 1))
    BY <1>10, Fun_ExistsBij
  <2> QED BY <2>1, Fun_ExistsBijSymmetric
<1>12. IsFiniteSet(0..(n - 1)) /\ Cardinality(0..(n - 1)) = n
  BY FS_Interval
<1>13. Cardinality(S) = n
  BY <1>11, <1>12, FS_Bijection
<1> QED BY <1>1, <1>2, <1>4, <1>13

(***************************************************************************)
(* SlotAllocator::allocate_slots interleaves the proxies: whatever the     *)
(* estimates, between two slots of a proxy every proxy with at least as    *)
(* many slots has one.                                                     *)
(***************************************************************************)
THEOREM SlotsCorrect == Spec => []SlotsInterleaved
<1>1. ASSUME ZipperInv, SlotInv, worker.pc = "idle", NEW e \in 1..epochs,
             NEW p \in Ids, NEW q \in Ids,
             Cardinality(SlotsOf(q, e)) >= Cardinality(SlotsOf(p, e)),
             NEW a \in SlotsOf(p, e), NEW b \in SlotsOf(p, e), a.seq < b.seq
      PROVE  \E c \in SlotsOf(q, e) : a.seq <= c.seq /\ c.seq <= b.seq
  <2>1. /\ a \in delivered /\ a.proxy = p /\ a.epoch = e
        /\ b \in delivered /\ b.proxy = p /\ b.epoch = e
        /\ worker.slots = {} /\ p \in Nat /\ q \in Nat
    BY <1>1 DEF SlotsOf, SlotInv, WaitingInv, ZipperInv, FreezeInv, RegistryInv
  <2>2. Well(a) /\ Well(b) /\ b.of = a.of /\ Before(a, b) /\ a.seq \in Nat /\ b.seq \in Nat
    BY <1>1, <2>1 DEF SlotInv, GivenInv, OneOf
  <2>3. PICK m \in Nat \ {0}, i \in Nat, j \in Nat :
          m = a.of /\ m = b.of /\ i = a.index /\ j = b.index /\ i < j /\ j < m
    <3>1. a.index < b.index
      BY <2>1, <2>2, SameProxyOrder
    <3> QED BY <2>2, <3>1 DEF Well
  <2>4. CASE q = p
    BY <1>1, <2>2, <2>4
  <2>5. CASE q # p
    <3>1. Cardinality(SlotsOf(p, e)) = m
      BY <1>1, <2>1, <2>3, SlotsCounted
    <3>2. SlotsOf(q, e) # {}
      BY <1>1, <3>1, FS_EmptySet
    <3>3. PICK c0 \in delivered : c0.proxy = q /\ c0.epoch = e
      BY <3>2 DEF SlotsOf
    <3>4. PICK n \in Nat \ {0} : n = c0.of
      BY <1>1 DEF SlotInv, GivenInv, Well
    <3>5. m <= n /\ \A k \in 0..(n - 1) : \E c \in SlotsOf(q, e) : c.index = k
      BY <1>1, <2>1, <3>1, <3>3, <3>4, SlotsCounted
    <3>6. PICK k \in 0..(n - 1) :
            \/ /\ p < q /\ (2 * i + 1) * n <= (2 * k + 1) * m
               /\ (2 * k + 1) * m < (2 * i + 3) * n
            \/ /\ q < p /\ (2 * i + 1) * n < (2 * k + 1) * m
               /\ (2 * k + 1) * m <= (2 * i + 3) * n
      <4>1. i + 1 < m /\ (p < q \/ q < p)
        BY <2>1, <2>3, <2>5
      <4> QED BY <3>5, <4>1, PointBetween
    <3>7. PICK c \in SlotsOf(q, e) : c.index = k
      BY <3>5
    <3>8. c \in delivered /\ c.proxy = q /\ c.epoch = e /\ c.of = n /\ c.seq \in Nat
      BY <1>1, <3>3, <3>4, <3>7 DEF SlotsOf, SlotInv, GivenInv, OneOf
    <3>9. /\ (2 * i + 3) * n <= (2 * j + 1) * n
          /\ (2 * i + 1) * n \in Int /\ (2 * i + 3) * n \in Int /\ (2 * j + 1) * n \in Int
          /\ (2 * k + 1) * m \in Int
      <4>1. PICK x \in Int, y \in Int : x = 2 * i + 3 /\ y = 2 * j + 1 /\ x <= y
        BY <2>3
      <4>2. x * n <= y * n
        BY <4>1, ProductLess
      <4> QED BY <4>1, <4>2
    <3>10. Before(a, c)
      <4>1. \/ (2 * i + 1) * n < (2 * k + 1) * m
            \/ (2 * i + 1) * n = (2 * k + 1) * m /\ p < q
        BY <3>6, <3>9
      <4> QED BY <2>1, <2>3, <3>7, <3>8, <4>1 DEF Before
    <3>11. Before(c, b)
      <4>1. \/ (2 * k + 1) * m < (2 * j + 1) * n
            \/ (2 * k + 1) * m = (2 * j + 1) * n /\ q < p
        BY <3>6, <3>9
      <4> QED BY <2>1, <2>3, <3>7, <3>8, <4>1 DEF Before
    <3>12. a.seq < c.seq /\ c.seq < b.seq
      BY <1>1, <2>1, <3>8, <3>10, <3>11 DEF SlotInv, GivenInv
    <3> QED BY <2>2, <3>7, <3>8, <3>12
  <2> QED BY <2>4, <2>5
<1>2. ZipperInv /\ SlotInv => SlotsInterleaved
  BY <1>1 DEF SlotsInterleaved
<1> QED
  BY <1>2, ZipperInvariant, SlotInvariant, PTL

----------------------------------------------------------------------------
(***************************************************************************)
(* ZipperEpochTimer: the timer thread and the worker thread that run the   *)
(* zipper's callbacks, and stop().  It shares no state with Zipper.        *)
(***************************************************************************)

\* The steps of the timer's Next without its structure, one per action.
LEMMA TimerNextSteps ==
    ASSUME TimerNext
    PROVE  \/ TimerLoop \/ TimerWait \/ TimerTimesOut
           \/ TimerCheck \/ TimerSets
           \/ TimerNotifies \/ TimerAdvances
           \/ WorkerLoop \/ WorkerWait
           \/ CallbackReadsEpoch \/ CallbackReturns
           \/ CallStop \/ StopClears \/ StopNotifiesAll
           \/ StopJoinsTimer \/ StopJoinsWorker
           \/ UNCHANGED timerVars
BY DEF TimerNext, TimerThread, WorkerThread, StopStep, Stopped

LEMMA TimerTypeStep == TimerTypeOK /\ [TimerNext]_timerVars => TimerTypeOK'
<1> SUFFICES ASSUME TimerTypeOK, [TimerNext]_timerVars PROVE TimerTypeOK'
  OBVIOUS
<1> USE DEF TimerTypeOK, Halves
<1>1. CASE TimerLoop          BY <1>1 DEF TimerLoop
<1>2. CASE TimerWait          BY <1>2 DEF TimerWait
<1>3. CASE TimerTimesOut      BY <1>3 DEF TimerTimesOut
<1>4. CASE TimerCheck         BY <1>4 DEF TimerCheck
<1>5. CASE TimerSets          BY <1>5 DEF TimerSets
<1>6. CASE TimerNotifies      BY <1>6 DEF TimerNotifies, NotifyWorker
<1>7. CASE TimerAdvances      BY <1>7 DEF TimerAdvances
<1>8. CASE WorkerLoop         BY <1>8 DEF WorkerLoop
<1>9. CASE WorkerWait         BY <1>9 DEF WorkerWait, Served
<1>10. CASE CallbackReadsEpoch BY <1>10 DEF CallbackReadsEpoch
<1>11. CASE CallbackReturns   BY <1>11 DEF CallbackReturns
<1>12. CASE CallStop          BY <1>12 DEF CallStop
<1>13. CASE StopClears        BY <1>13 DEF StopClears
<1>14. CASE StopNotifiesAll   BY <1>14 DEF StopNotifiesAll, NotifyWorker
<1>15. CASE StopJoinsTimer    BY <1>15 DEF StopJoinsTimer
<1>16. CASE StopJoinsWorker   BY <1>16 DEF StopJoinsWorker
<1>17. CASE UNCHANGED timerVars    BY <1>17 DEF timerVars
<1> QED
  BY <1>1, <1>2, <1>3, <1>4, <1>5, <1>6, <1>7, <1>8, <1>9, <1>10, <1>11, <1>12,
     <1>13, <1>14, <1>15, <1>16, <1>17, TimerNextSteps

(***************************************************************************)
(* The worker does not sleep through a trigger or through stop(): the two  *)
(* threads and stop() share a condition variable, and whoever raises a     *)
(* flag while the worker is asleep is still about to notify it.  The       *)
(* invariant is inductive as it stands.                                    *)
(***************************************************************************)
THEOREM NothingForgotten == TimerSpec => []WorkerNotForgotten
<1>1. TimerInit => WorkerNotForgotten
  BY DEF TimerInit, WorkerNotForgotten, TimerTypeOK, Halves
<1>2. WorkerNotForgotten /\ [TimerNext]_timerVars => WorkerNotForgotten'
  <2> SUFFICES ASSUME WorkerNotForgotten, [TimerNext]_timerVars PROVE WorkerNotForgotten'
    OBVIOUS
  <2>1. TimerTypeOK'
    BY TimerTypeStep DEF WorkerNotForgotten
  <2> SUFFICES ASSUME worker_pc' = "asleep"
               PROVE  /\ (\E h \in Halves : pending[h])' =>
                          (timer_pc = "notify" \/ stop_pc = "notify")'
                      /\ ~running' => stop_pc' = "notify"
    BY <2>1 DEF WorkerNotForgotten
  <2> USE DEF WorkerNotForgotten, TimerTypeOK, Halves
  <2>2. CASE TimerSets
    BY <2>2 DEF TimerSets
  <2>3. CASE TimerNotifies
    BY <2>3 DEF TimerNotifies, NotifyWorker
  <2>4. CASE StopNotifiesAll
    BY <2>4 DEF StopNotifiesAll, NotifyWorker
  <2>5. CASE WorkerWait
    BY <2>5 DEF WorkerWait, Served
  <2>6. CASE \/ TimerLoop \/ TimerWait \/ TimerTimesOut
             \/ TimerCheck \/ TimerAdvances
    BY <2>6 DEF TimerLoop, TimerWait, TimerTimesOut,
                TimerCheck, TimerAdvances
  <2>7. CASE WorkerLoop \/ CallbackReadsEpoch \/ CallbackReturns
    BY <2>7 DEF WorkerLoop, CallbackReadsEpoch, CallbackReturns
  <2>8. CASE CallStop \/ StopClears \/ StopJoinsTimer \/ StopJoinsWorker
    BY <2>8 DEF CallStop, StopClears, StopJoinsTimer, StopJoinsWorker
  <2>9. CASE UNCHANGED timerVars
    BY <2>9 DEF timerVars
  <2> QED
    BY <2>2, <2>3, <2>4, <2>5, <2>6, <2>7, <2>8, <2>9, TimerNextSteps
<1> QED
  BY <1>1, <1>2, PTL DEF TimerSpec

THEOREM TimerTypeCorrect == TimerSpec => []TimerTypeOK
<1>1. WorkerNotForgotten => TimerTypeOK
  BY DEF WorkerNotForgotten
<1> QED
  BY <1>1, NothingForgotten, PTL

----------------------------------------------------------------------------
(***************************************************************************)
(* What can still become an allocation for the current next_epoch_: a      *)
(* callback that is about to read it, a trigger that waits, and the        *)
(* trigger of this epoch for as long as the timer thread has not given it. *)
(***************************************************************************)
One(P) == IF P THEN 1 ELSE 0
Outstanding ==
    One(worker_pc = "allocate") + One(pending["allocate"])
        + One(half = "allocate" /\ timer_pc \in {"loop", "wait", "asleep", "woken", "check", "set"})

WindowInv == allocations + Outstanding <= 3

(***************************************************************************)
(* A window is allocated at most three times, however late the worker is.  *)
(***************************************************************************)
THEOREM WindowsBounded == TimerSpec => []AtMostThreePerWindow
<1>1. TimerInit => WindowInv
  BY DEF TimerInit, WindowInv, Outstanding, One, Halves
<1>2. TimerTypeOK /\ WindowInv /\ [TimerNext]_timerVars => WindowInv'
  <2> SUFFICES ASSUME TimerTypeOK, WindowInv, [TimerNext]_timerVars PROVE WindowInv'
    OBVIOUS
  <2> USE DEF WindowInv, Outstanding, One, TimerTypeOK, Halves
  <2>1. CASE TimerLoop \/ TimerWait \/ TimerTimesOut \/ TimerCheck
    BY <2>1 DEF TimerLoop, TimerWait, TimerTimesOut, TimerCheck
  <2>2. CASE TimerSets
    BY <2>2 DEF TimerSets
  <2>3. CASE TimerNotifies
    BY <2>3 DEF TimerNotifies, NotifyWorker
  <2>4. CASE TimerAdvances
    BY <2>4 DEF TimerAdvances
  <2>5. CASE WorkerLoop \/ CallbackReadsEpoch \/ CallbackReturns
    BY <2>5 DEF WorkerLoop, CallbackReadsEpoch, CallbackReturns
  <2>6. CASE WorkerWait
    BY <2>6 DEF WorkerWait, Served
  <2>7. CASE CallStop \/ StopClears \/ StopJoinsTimer \/ StopJoinsWorker
    BY <2>7 DEF CallStop, StopClears, StopJoinsTimer, StopJoinsWorker
  <2>8. CASE StopNotifiesAll
    BY <2>8 DEF StopNotifiesAll, NotifyWorker
  <2>9. CASE UNCHANGED timerVars
    BY <2>9 DEF timerVars
  <2> QED
    BY <2>1, <2>2, <2>3, <2>4, <2>5, <2>6, <2>7, <2>8, <2>9, TimerNextSteps
<1>3. TimerTypeOK /\ WindowInv => AtMostThreePerWindow
  BY DEF TimerTypeOK, WindowInv, Outstanding, One, AtMostThreePerWindow
<1> QED
  BY <1>1, <1>2, <1>3, TimerTypeCorrect, PTL DEF TimerSpec

----------------------------------------------------------------------------
(***************************************************************************)
(* Once stop() has returned no callback runs: both threads have left their *)
(* loops, and the join that comes first does not let one of them go on.    *)
(***************************************************************************)
Joined ==
    /\ stop_pc \in {"join_worker", "returned"} => timer_pc = "done"
    /\ stop_pc = "returned" => worker_pc = "done"

THEOREM NoCallbackAfterStop == TimerSpec => [](stop_pc = "returned" => worker_pc = "done")
<1>1. TimerInit => Joined
  BY DEF TimerInit, Joined
<1>2. TimerTypeOK /\ Joined /\ [TimerNext]_timerVars => Joined'
  <2> SUFFICES ASSUME TimerTypeOK, Joined, [TimerNext]_timerVars PROVE Joined'
    OBVIOUS
  <2> USE DEF Joined
  <2>1. CASE \/ TimerLoop \/ TimerWait \/ TimerTimesOut
             \/ TimerCheck \/ TimerSets \/ TimerAdvances
    BY <2>1 DEF TimerLoop, TimerWait, TimerTimesOut,
                TimerCheck, TimerSets, TimerAdvances
  <2>2. CASE TimerNotifies
    BY <2>2 DEF TimerNotifies, NotifyWorker
  <2>3. CASE \/ WorkerLoop \/ WorkerWait
             \/ CallbackReadsEpoch \/ CallbackReturns
    BY <2>3 DEF WorkerLoop, WorkerWait,
                CallbackReadsEpoch, CallbackReturns
  <2>4. CASE CallStop \/ StopClears \/ StopJoinsTimer \/ StopJoinsWorker
    BY <2>4 DEF CallStop, StopClears, StopJoinsTimer, StopJoinsWorker
  <2>5. CASE StopNotifiesAll
    BY <2>5 DEF StopNotifiesAll, NotifyWorker
  <2>6. CASE UNCHANGED timerVars
    BY <2>6 DEF timerVars
  <2> QED
    BY <2>1, <2>2, <2>3, <2>4, <2>5, <2>6, TimerNextSteps
<1>3. Joined => (stop_pc = "returned" => worker_pc = "done")
  BY DEF Joined
<1> QED
  BY <1>1, <1>2, <1>3, TimerTypeCorrect, PTL DEF TimerSpec
=============================================================================
