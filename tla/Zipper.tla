------------------------------- MODULE Zipper -------------------------------
(***************************************************************************)
(* The zipper: the registry of proxies (impl/zipper/proxy_state.h), the    *)
(* freeze protocol of ReconfigManager (reconfig_manager.cpp), the slots    *)
(* of SlotAllocator (slot_allocator.cpp), and the admission of proxies     *)
(* (zipper.cpp).                                                           *)
(*                                                                         *)
(* The threads that meet in the registry are the connection thread of each *)
(* server, the detached threads in send_freeze, the threads of proxies     *)
(* that register or rejoin, the worker of the epoch timer, and the tasks   *)
(* it starts in introduce_proxies.  One action is one critical section of  *)
(* the registry's mutex, or one step outside of it.                        *)
(*                                                                         *)
(* Servers are the environment: they report at any time, as                *)
(* ProxyLivenessTracker does, and answer each FREEZE round at most once,   *)
(* at any time after its broadcast, as FreezeHandler does.                 *)
(***************************************************************************)
EXTENDS Integers, Sequences, FiniteSets, SequencesExt

CONSTANTS
    Servers,
    Quorum,         \* f + 1
    InitialProxies, \* ZipperConfig::proxies, a sequence of addresses
    Newcomers,      \* addresses of proxies that register later
    Suspects,       \* ids of the proxies that servers may report
    Estimates,      \* what a proxy may ask for in a ZIP_REQUEST
    EpochDuration,
    MaxLast,        \* bound on the last sequence number a server has seen
    MaxRound,       \* bound on the rounds of one freeze
    MaxEpochs,      \* bound on the allocations
    MaxRejoins      \* bound on the REJOIN_PROXY messages

ASSUME ZipperAssumption ==
    /\ IsFiniteSet(Servers) /\ Quorum \in 1..Cardinality(Servers)
    /\ InitialProxies \in Seq(Range(InitialProxies)) /\ IsFiniteSet(Newcomers)
    /\ Suspects \subseteq Nat /\ Estimates \subseteq Nat
    /\ EpochDuration \in Nat \ {0}
    /\ {MaxLast, MaxRound, MaxEpochs, MaxRejoins} \subseteq Nat

VARIABLES
    registry,           \* ProxyRegistry::proxies_, from ids to ProxyState
    proxies,            \* config_.proxies, a sequence of addresses; ids count from 0
    \* admission
    including,          \* addresses in add_proxy, between its broadcast and the answers
    joining_proxies,    \* addresses that wait for the end of the epoch
    introducing,        \* the tasks of introduce_proxies, [task, address, id]
    \* slot allocation
    estimates, global_seq_num,
    worker,             \* the worker thread of the epoch timer
    epochs,             \* number of allocations made
    delivered,          \* the slots given out: [proxy, epoch, index, of, ts, seq]
    \* reconfiguration
    freezer,            \* per proxy, the number of detached threads in send_freeze
    thread,             \* per server, its connection thread in handle_freeze_response
    broadcasts,         \* FREEZE, SKIP and FREEZE_COMPLETE messages sent to the servers
    last_seq,           \* per server and suspect, the last sequence number the server has seen
    inbox,              \* per server, the FREEZE_RESPONSEs on their way
    answers,            \* history: all FREEZE_RESPONSEs
    rejoins

admission == << including, joining_proxies, introducing, proxies, rejoins >>
allocation == << estimates, global_seq_num, worker, epochs, delivered >>
freezing == << freezer, thread, broadcasts >>
environment == << last_seq, inbox, answers >>
vars == << registry, admission, allocation, freezing, environment >>

NoId == -1
Ids == DOMAIN registry

ProxyState(a) ==
    [address |-> a, status |-> "ACTIVE", allocated_sequences |-> {}, freeze_round |-> 0,
     freeze_responders |-> {}, reporters |-> {}, last_sequences |-> {}]

\* map[key] = value: inserts or overwrites one entry.
WithEntry(map, key, value) ==
    [k \in DOMAIN map \cup {key} |-> IF k = key THEN value ELSE map[k]]

Idle == [pc |-> "idle", proxy |-> NoId, last |-> 0, skip |-> {}]
WorkerIdle == [pc |-> "idle", snapshot |-> << >>, slots |-> {}]

----------------------------------------------------------------------------
Init ==
    /\ proxies = InitialProxies
    /\ registry = [i \in 0..(Len(InitialProxies) - 1) |-> ProxyState(InitialProxies[i + 1])]
    /\ including = {} /\ joining_proxies = << >> /\ introducing = {}
    /\ estimates = [i \in 0..(Len(InitialProxies) - 1) |-> 0]
    /\ global_seq_num = 1
    /\ worker = WorkerIdle /\ epochs = 0 /\ delivered = {}
    /\ freezer = [p \in Suspects |-> [start |-> 0, read |-> 0]]
    /\ thread = [v \in Servers |-> Idle]
    /\ broadcasts = {}
    /\ last_seq = [v \in Servers |-> [p \in Suspects |-> 0]]
    /\ inbox = [v \in Servers |-> << >>]
    /\ answers = {} /\ rejoins = 0

----------------------------------------------------------------------------
(***************************************************************************)
(* ReconfigManager                                                         *)
(***************************************************************************)

\* Reports about an unknown proxy, or one that is being handled, are ignored.
handle_report(v, p) ==
    /\ thread[v].pc = "idle" /\ p \in Ids
    /\ registry[p].status = "ACTIVE"
    /\ LET reporters == registry[p].reporters \cup {v}
           enough == Cardinality(reporters) >= Quorum
       IN  /\ registry' = [registry EXCEPT
                ![p].reporters = reporters,
                ![p].status = IF enough THEN "RECONFIGURING" ELSE @]
           /\ freezer' = IF enough THEN [freezer EXCEPT ![p].start = @ + 1] ELSE freezer
    /\ UNCHANGED << admission, allocation, thread, broadcasts, environment >>

\* Mutant: freeze_responders is not cleared.
StartRoundKeepsResponders(p, r) ==
    /\ r <= MaxRound
    /\ registry' = [registry EXCEPT ![p].freeze_round = r, ![p].last_sequences = {}]

\* The first critical section of send_freeze.
StartRound(p, r) ==
    /\ r <= MaxRound
    /\ registry' = [registry EXCEPT ![p].freeze_round = r,
                                    ![p].freeze_responders = {}, ![p].last_sequences = {}]

\* Its second critical section reads the round again, for the broadcast.
BroadcastFreeze(p) ==
    broadcasts' = broadcasts \cup
        {[type |-> "FREEZE", proxy |-> p, round |-> registry[p].freeze_round]}

\* The detached thread of handle_report: send_freeze(fp, true).
FreezerStarts(p) ==
    /\ freezer[p].start > 0
    /\ StartRound(p, 1)
    /\ freezer' = [freezer EXCEPT ![p].start = @ - 1, ![p].read = @ + 1]
    /\ UNCHANGED << admission, allocation, thread, broadcasts, environment >>

FreezerBroadcasts(p) ==
    /\ freezer[p].read > 0
    /\ BroadcastFreeze(p)
    /\ freezer' = [freezer EXCEPT ![p].read = @ - 1]
    /\ UNCHANGED << registry, admission, allocation, thread, environment >>

SameRound(p, r) == r = registry[p].freeze_round

\* Mutant: one response too many is waited for.
MoreThanQuorum(responders) == Cardinality(responders) > Quorum

Enough(responders) == Cardinality(responders) >= Quorum

(***************************************************************************)
(* handle_freeze_response up to its unlock: a response of the current      *)
(* round is counted, and the one that completes a quorum, or comes after   *)
(* it, decides between FREEZE_COMPLETE and a new round.                    *)
(***************************************************************************)
handle_freeze_response(v) ==
    /\ thread[v].pc = "idle" /\ inbox[v] # << >>
    /\ inbox' = [inbox EXCEPT ![v] = Tail(@)]
    /\ LET m == Head(inbox[v])
           p == m.proxy
           responders == registry[p].freeze_responders \cup {v}
           lasts == registry[p].last_sequences \cup {m.last}
       IN  IF SameRound(p, m.round)
           THEN /\ registry' = [registry EXCEPT ![p].freeze_responders = responders,
                                                ![p].last_sequences = lasts]
                /\ thread' = IF ~Enough(responders) THEN thread
                             ELSE [thread EXCEPT ![v] = [Idle EXCEPT
                                !.pc = IF Cardinality(lasts) = 1 THEN "block" ELSE "round",
                                !.proxy = p,
                                !.last = CHOOSE l \in lasts : \A k \in lasts : l <= k]]
           ELSE UNCHANGED << registry, thread >>
    /\ UNCHANGED << admission, allocation, freezer, broadcasts, last_seq, answers >>

\* No consensus: send_freeze(fp, false) on the connection thread.
NextRound(v) ==
    /\ thread[v].pc = "round"
    /\ StartRound(thread[v].proxy, registry[thread[v].proxy].freeze_round + 1)
    /\ thread' = [thread EXCEPT ![v].pc = "read"]
    /\ UNCHANGED << admission, allocation, freezer, broadcasts, environment >>

NextRoundBroadcasts(v) ==
    /\ thread[v].pc = "read"
    /\ BroadcastFreeze(thread[v].proxy)
    /\ thread' = [thread EXCEPT ![v] = Idle]
    /\ UNCHANGED << registry, admission, allocation, freezer, environment >>

\* Mutant: the last sequence number itself is skipped too.
ToSkipFromLast(p, last) == {s \in registry[p].allocated_sequences : s >= last}

ToSkip(p, last) == {s \in registry[p].allocated_sequences : s > last}

\* send_freeze_complete: BLOCKED, and a copy of the allocated sequence numbers.
BlockProxy(v) ==
    /\ thread[v].pc = "block"
    /\ LET p == thread[v].proxy
       IN  /\ registry' = [registry EXCEPT ![p].status = "BLOCKED"]
           /\ thread' = [thread EXCEPT ![v].pc = "skip", ![v].skip = ToSkip(p, thread[v].last)]
    /\ UNCHANGED << admission, allocation, freezer, broadcasts, environment >>

\* A SKIP for the first of them, broadcast to the servers ...
SendSkip(v) ==
    /\ thread[v].pc = "skip"
    /\ \E s \in thread[v].skip :
        /\ \A t \in thread[v].skip : s <= t
        /\ broadcasts' = broadcasts \cup {[type |-> "SKIP", proxy |-> thread[v].proxy, seq |-> s]}
        /\ thread' = [thread EXCEPT ![v].pc = "acks", ![v].skip = @ \ {s}]
    /\ UNCHANGED << registry, admission, allocation, freezer, environment >>

\* ... each of which sends an ACK or ends its connection, or is waited for for ever.
SkipAcked(v) ==
    /\ thread[v].pc = "acks"
    /\ thread' = [thread EXCEPT ![v].pc = "skip"]
    /\ UNCHANGED << registry, admission, allocation, freezer, broadcasts, environment >>

\* FREEZE_COMPLETE follows the last SKIP.
Complete(v) ==
    /\ thread[v].pc = "skip" /\ thread[v].skip = {}
    /\ broadcasts' = broadcasts \cup
        {[type |-> "FREEZE_COMPLETE", proxy |-> thread[v].proxy, last |-> thread[v].last]}
    /\ thread' = [thread EXCEPT ![v] = Idle]
    /\ UNCHANGED << registry, admission, allocation, freezer, environment >>

ReconfigStep(v) ==
    \/ handle_freeze_response(v) \/ NextRound(v) \/ NextRoundBroadcasts(v)
    \/ BlockProxy(v) \/ SendSkip(v) \/ Complete(v)

----------------------------------------------------------------------------
(***************************************************************************)
(* SlotAllocator, called by the worker thread of the epoch timer.          *)
(***************************************************************************)
update_estimate(p, n) ==
    /\ p < Len(proxies)                     \* isValidProxy
    /\ estimates' = WithEntry(estimates, p, n)
    /\ UNCHANGED << registry, admission, global_seq_num, worker, epochs, delivered,
                    freezing, environment >>

Snapshot ==
    /\ worker.pc = "idle" /\ epochs < MaxEpochs
    /\ worker' = [WorkerIdle EXCEPT !.pc = "gather", !.snapshot = estimates]
    /\ epochs' = epochs + 1
    /\ UNCHANGED << registry, admission, estimates, global_seq_num, delivered,
                    freezing, environment >>

(***************************************************************************)
(* A slot lies in the middle of one of the equal intervals into which its  *)
(* proxy's estimate divides the epoch; index counts them from 0.  The code *)
(* sorts these points as doubles, here they are exact fractions, and cuts  *)
(* them to whole milliseconds only in what it gives out.                   *)
(***************************************************************************)
TimePoint(slot) == (EpochDuration * (2 * slot.index + 1)) \div (2 * slot.of)

Wants(p) == IF p \in DOMAIN worker.snapshot THEN worker.snapshot[p] ELSE 0

\* The slots of all active proxies, and their order in std::sort: by time, then by id.
SlotsWanted ==
    UNION {{[proxy |-> p, index |-> i, of |-> Wants(p)] : i \in 0..(Wants(p) - 1)}
              : p \in {q \in Ids : registry[q].status = "ACTIVE"}}

\* Mutant: the pairs are sorted by proxy first.
BeforeByProxy(a, b) == a.proxy < b.proxy \/ (a.proxy = b.proxy /\ a.index < b.index)

Before(a, b) ==
    LET x == (2 * a.index + 1) * b.of
        y == (2 * b.index + 1) * a.of
    IN  x < y \/ (x = y /\ a.proxy < b.proxy)

\* Under the registry's lock.
Gather ==
    /\ worker.pc = "gather"
    /\ worker' = [worker EXCEPT !.pc = "assign", !.slots = SlotsWanted]
    /\ UNCHANGED << registry, admission, estimates, global_seq_num, epochs, delivered,
                    freezing, environment >>

\* After the unlock: one sequence number per slot, in their sorted order.
AssignSlot ==
    /\ worker.pc = "assign" /\ worker.slots # {}
    /\ LET slot == CHOOSE s \in worker.slots : \A t \in worker.slots \ {s} : Before(s, t)
       IN  /\ registry' = [registry EXCEPT
                ![slot.proxy].allocated_sequences = @ \cup {global_seq_num}]
           /\ delivered' = delivered \cup
                {[proxy |-> slot.proxy, epoch |-> epochs, index |-> slot.index, of |-> slot.of,
                  ts |-> TimePoint(slot), seq |-> global_seq_num]}
           /\ worker' = [worker EXCEPT !.slots = @ \ {slot}]
    /\ global_seq_num' = global_seq_num + 1
    /\ UNCHANGED << admission, estimates, epochs, freezing, environment >>

AllocationDone ==
    /\ worker.pc = "assign" /\ worker.slots = {}
    /\ worker' = WorkerIdle
    /\ UNCHANGED << registry, admission, estimates, global_seq_num, epochs, delivered,
                    freezing, environment >>

----------------------------------------------------------------------------
(***************************************************************************)
(* Admission of proxies                                                    *)
(***************************************************************************)

\* add_proxy(req, true): INCLUDE_PROXY is broadcast to the servers.
Register(a) ==
    /\ a \in Newcomers /\ a \notin including
    /\ a \notin Range(joining_proxies) \cup Range(proxies)
    /\ \A t \in introducing : t.address # a
    /\ including' = including \cup {a}
    /\ UNCHANGED << registry, joining_proxies, introducing, proxies, rejoins,
                    allocation, freezing, environment >>

\* add_proxy(req, false): rejoin_proxy first puts the state back, with the address
\* of the registry; the one in the message is broadcast.
Rejoin(p, a) ==
    /\ rejoins < MaxRejoins /\ a \notin including
    /\ registry' = IF p \in Ids THEN [registry EXCEPT ![p] = ProxyState(registry[p].address)]
                    ELSE registry
    /\ including' = including \cup {a}
    /\ rejoins' = rejoins + 1
    /\ UNCHANGED << joining_proxies, introducing, proxies, allocation, freezing, environment >>

\* The answers of the servers are in: a quorum of them, or not.
Included(a) ==
    /\ a \in including
    /\ including' = including \ {a}
    /\ joining_proxies' \in {joining_proxies, Append(joining_proxies, a)}
    /\ UNCHANGED << registry, introducing, proxies, rejoins, allocation, freezing, environment >>

\* introduce_proxies takes the queue and starts one task per entry ...
IntroduceProxies ==
    /\ worker.pc = "idle" /\ joining_proxies # << >>
    /\ introducing' = {[task |-> i, address |-> joining_proxies[i], id |-> NoId]
                        : i \in DOMAIN joining_proxies}
    /\ joining_proxies' = << >>
    /\ worker' = [WorkerIdle EXCEPT !.pc = "introduce"]
    /\ UNCHANGED << registry, including, proxies, rejoins, estimates, global_seq_num, epochs,
                    delivered, freezing, environment >>

\* ... which takes its id and extends config_.proxies under the lock ...
TakeId(t) ==
    /\ t \in introducing /\ t.id = NoId
    /\ introducing' = (introducing \ {t}) \cup {[t EXCEPT !.id = Len(proxies)]}
    /\ proxies' = Append(proxies, t.address)
    /\ UNCHANGED << registry, including, joining_proxies, rejoins, allocation, freezing,
                    environment >>

\* Mutant: the id is worked out again in the second critical section.
AddLastProxy(t) ==
    /\ t \in introducing /\ t.id # NoId
    /\ registry' = WithEntry(registry, Len(proxies) - 1, ProxyState(t.address))
    /\ introducing' = introducing \ {t}
    /\ UNCHANGED << including, joining_proxies, proxies, rejoins, allocation, freezing,
                    environment >>

\* ... and adds the proxy to the registry under the lock again.
AddProxy(t) ==
    /\ t \in introducing /\ t.id # NoId
    /\ registry' = WithEntry(registry, t.id, ProxyState(t.address))
    /\ introducing' = introducing \ {t}
    /\ UNCHANGED << including, joining_proxies, proxies, rejoins, allocation, freezing,
                    environment >>

Introduced ==
    /\ worker.pc = "introduce" /\ introducing = {}
    /\ worker' = WorkerIdle
    /\ UNCHANGED << registry, admission, estimates, global_seq_num, epochs, delivered,
                    freezing, environment >>

----------------------------------------------------------------------------
(***************************************************************************)
(* The servers                                                             *)
(***************************************************************************)

\* A message of the proxy arrives: remove_timeout moves last_used_sequence_number_ on.
ServerSees(v, p) ==
    /\ last_seq[v][p] < MaxLast
    /\ last_seq' = [last_seq EXCEPT ![v][p] = @ + 1]
    /\ UNCHANGED << registry, admission, allocation, freezing, inbox, answers >>

\* FreezeHandler::handle_freeze takes up a round once, and answers it after the
\* transfers with last_seq as it is then, perhaps after a round that came later.
ServerAnswers(v, m) ==
    /\ m \in broadcasts /\ m.type = "FREEZE"
    /\ ~\E a \in answers : a.server = v /\ a.answer.proxy = m.proxy /\ a.answer.round = m.round
    /\ LET answer == [proxy |-> m.proxy, round |-> m.round, last |-> last_seq[v][m.proxy]]
       IN  /\ inbox' = [inbox EXCEPT ![v] = Append(@, answer)]
           /\ answers' = answers \cup {[server |-> v, answer |-> answer]}
    /\ UNCHANGED << registry, admission, allocation, freezing, last_seq >>

----------------------------------------------------------------------------
WorkerStep == Snapshot \/ Gather \/ AssignSlot \/ AllocationDone \/ IntroduceProxies \/ Introduced

Next ==
    \/ \E v \in Servers : ReconfigStep(v) \/ SkipAcked(v)
    \/ \E v \in Servers, p \in Suspects : handle_report(v, p) \/ ServerSees(v, p)
    \/ \E p \in Suspects : FreezerStarts(p) \/ FreezerBroadcasts(p)
    \/ \E v \in Servers, m \in broadcasts : ServerAnswers(v, m)
    \/ WorkerStep
    \/ \E p \in Ids, n \in Estimates : update_estimate(p, n)
    \/ \E a \in Newcomers : Register(a)
    \/ \E p \in 0..(Len(proxies) - 1), a \in Range(proxies) \cup Newcomers : Rejoin(p, a)
    \/ \E a \in including : Included(a)
    \/ \E t \in introducing : TakeId(t) \/ AddProxy(t)

Spec == Init /\ [][Next]_vars

----------------------------------------------------------------------------
FreezeMessages ==
    [type : {"FREEZE"}, proxy : Suspects, round : 0..MaxRound]
        \cup [type : {"SKIP"}, proxy : Suspects, seq : Nat]
        \cup [type : {"FREEZE_COMPLETE"}, proxy : Suspects, last : 0..MaxLast]

TypeOK ==
    /\ Ids \subseteq Nat
    /\ \A p \in Ids :
        /\ registry[p].status \in {"ACTIVE", "RECONFIGURING", "BLOCKED"}
        /\ registry[p].freeze_round \in 0..MaxRound
        /\ registry[p].freeze_responders \cup registry[p].reporters \subseteq Servers
        /\ registry[p].last_sequences \subseteq 0..MaxLast
        /\ registry[p].allocated_sequences \subseteq 1..(global_seq_num - 1)
    /\ \A v \in Servers : thread[v].pc \in {"idle", "round", "read", "block", "skip", "acks"}
    /\ broadcasts \subseteq FreezeMessages
    /\ worker.pc \in {"idle", "gather", "assign", "introduce"}
    /\ \A t \in introducing : t.id \in Nat \cup {NoId}

(***************************************************************************)
(* FREEZE_COMPLETE carries a last sequence number that a quorum of servers *)
(* gave in one and the same round, however the responses of several        *)
(* rounds overtake each other and whoever starts the next round.           *)
(* The variables keep their types.                                         *)
(***************************************************************************)
Agreed(p, last) ==
    \E r \in 0..MaxRound :
        Cardinality({v \in Servers :
            [server |-> v, answer |-> [proxy |-> p, round |-> r, last |-> last]] \in answers})
        >= Quorum

CompletedByQuorum ==
    /\ TypeOK
    /\ \A m \in broadcasts : m.type = "FREEZE_COMPLETE" => Agreed(m.proxy, m.last)

(***************************************************************************)
(* A SKIP is sent only for a sequence number that was allocated to the     *)
(* frozen proxy and is higher than a last sequence number that a quorum    *)
(* agreed on, so that no server of that quorum had seen it.                *)
(***************************************************************************)
SkippedAboveAgreed ==
    \A m \in broadcasts : m.type = "SKIP" =>
        /\ \E d \in delivered : d.proxy = m.proxy /\ d.seq = m.seq
        /\ \E last \in 0..(m.seq - 1) : Agreed(m.proxy, last)

(***************************************************************************)
(* The registry and config_.proxies agree on who has which id, although a  *)
(* proxy takes its id in one critical section and enters the registry in   *)
(* another; an id without an entry belongs to a task that will add it.     *)
(***************************************************************************)
RegistryMatchesConfig ==
    /\ \A p \in Ids : p < Len(proxies) /\ registry[p].address = proxies[p + 1]
    /\ \A p \in 0..(Len(proxies) - 1) :
        p \in Ids \/ \E t \in introducing : t.id = p /\ t.address = proxies[p + 1]

(***************************************************************************)
(* docu/zipper.md: sequence numbers are distributed "evenly across the     *)
(* epoch window using interleaved timestamps".  Between two slots of a     *)
(* proxy there is one of every proxy that got at least as many slots.      *)
(***************************************************************************)
SlotsOf(p, e) == {d \in delivered : d.proxy = p /\ d.epoch = e}

SlotsInterleaved ==
    worker.pc = "idle" => \A e \in 1..epochs : \A p, q \in Ids :
        Cardinality(SlotsOf(q, e)) >= Cardinality(SlotsOf(p, e)) =>
            \A a, b \in SlotsOf(p, e) : a.seq < b.seq =>
                \E c \in SlotsOf(q, e) : a.seq <= c.seq /\ c.seq <= b.seq

(***************************************************************************)
(* A freeze never stands still by itself: while a proxy is reconfigured    *)
(* some thread is about to start, to broadcast or to decide a round, or    *)
(* the freeze waits for servers.  Then the current round was broadcast,    *)
(* fewer than a quorum are counted, and whoever has answered it is counted *)
(* or has its answer on the way; also when several threads start the next  *)
(* round at once, so that a round is never broadcast, and when responses   *)
(* of other rounds are dropped.  (While the servers differ it is retried,  *)
(* perhaps for ever; rejoin_proxy sets the round back.)                    *)
(***************************************************************************)
UnderWay(p) ==
    \/ freezer[p].start > 0 \/ freezer[p].read > 0
    \/ \E v \in Servers : thread[v].proxy = p /\ thread[v].pc \in {"round", "read", "block"}

WaitsForServers(p) ==
    LET r == registry[p].freeze_round
        responders == registry[p].freeze_responders
    IN  /\ [type |-> "FREEZE", proxy |-> p, round |-> r] \in broadcasts
        /\ Cardinality(responders) < Quorum
        /\ \A a \in answers : (a.answer.proxy = p /\ a.answer.round = r) =>
               a.server \in responders \/ a.answer \in Range(inbox[a.server])

FreezeGoesOn ==
    \A p \in Suspects \cap Ids :
        (registry[p].status = "RECONFIGURING" /\ rejoins = 0) => UnderWay(p) \/ WaitsForServers(p)
=============================================================================
