# Ziplog in TLA+

Ziplog is a shared log. Clients append commands through a *proxy*; the proxy
batches them once per epoch and replicates each batch, under a sequence number,
to `2f + 1` *servers*; servers forward what they store to *subscribers*, which
put the batches of a quorum of servers (`f + 1`) in order and hand the log to
readers. A *zipper* is meant to assign the sequence numbers, and manages which
proxies are members. This directory models that system from the C++ source and
checks it with TLC and TLAPS. Paths below are relative to `src/`.

## 1. Inventory

| Component (source) | State | Operations | What makes it correct |
|---|---|---|---|
| LogTracker (`impl/subscriber/log_tracker.h`) | votes per sequence number, parked batches, the log | `observe`, `apply_locked`, `wait_for_size`, `wait_for_seq`; const readers | a number is applied exactly at a quorum; the log is the longest such prefix and only grows; no reader sleeps through its wakeup |
| Subscriber (`impl/subscriber/subscriber.cpp`) | a LogTracker | one thread per server connection: observe, then ACK | every message is observed before it is acknowledged |
| ServerReplicator (`impl/proxy/server_replicator.h`) | a queue and a worker thread per server, ACK counters, `live_workers_` | `replicate_bytes`, `worker_loop` | SUCCESS means a quorum has the batch; every call returns |
| Server (`impl/server/server.cpp`, `message_store.h`, `subscriber_broadcaster.h`) | stored messages per proxy, a queue and worker per subscriber | APPEND/SKIP handler, `broadcast`, `worker_loop` | messages are stored and forwarded in order |
| Proxy timer (`impl/proxy/proxy_epoch_timer.h`, `slot_scheduler.h`) | slots (timestamp, number), `next_send_`, flags | `run`, `load_slots`, `pop_next_slot`, `push_front`, `pause`, `start` | each number is used once, in order, for ever |
| Client buffers (`impl/proxy/client_buffer_manager.h`), `Client` | one byte buffer with positions, participating descriptors | `push_raw`, `drain`, `release`, `remove`, `append` | commands are neither lost nor repeated; each append gets the result of its own command |
| Zipper (`impl/zipper/*`) | registry of proxies, estimates, next sequence number, joining proxies | `handle_report`, `handle_freeze_response`, `send_freeze*`, `compute_allocations`, `add_proxy`, `introduce_proxies` | a freeze rests on a quorum that agrees; slots are unique and interleaved; ids are unique |
| ZipperEpochTimer (`impl/zipper/zipper_epoch_timer.h`) | two threads, a mutex, a condition variable, two pending flags | `start`, `run`, `work_loop`, `stop` | `stop` returns; no wakeup is lost; allocations are served |
| FreezeHandler, ProxyLivenessTracker (`impl/server`) | rounds, expected slots, blocked proxies | `handle_freeze`, `handle_transfer_request`, `detect_loop` | each round is answered once; calls are commented out in `server.cpp` |
| BaseNode (`include/base_node.h`) | listening socket, accepted descriptors, one thread per connection | `run`, `wait_until_listening`, `shutdown`, destruction | descriptors are never confused; destruction ends all threads |
| Wire format and framing (`api/message.*`, `api/network_utils.*`) | bytes on the way, a ReadBuffer per connection | `serialize`, `build_wire_bytes`, `deserialize`, `peek`, `ReadBuffer`, three receivers | messages arrive whole and in order however the stream is cut |
| ConnectionPool (`include/connection_pool.h`) | one socket per address | `get_connection`, `close_connection`, `close_all` | a caller gets a live connection |

How they interact: a client's connection thread pushes into the shared buffer;
the timer thread drains it and calls `replicate_bytes`, which hands the message
to one worker thread per server and spins on an atomic counter; a server's
connection thread answers the worker and feeds one broadcaster thread per
subscriber; a subscriber's connection threads meet in the LogTracker's mutex.
The zipper's threads meet in the registry's mutex.

The hard behaviours, in the order in which the models take them up: votes that
arrive in any order from several threads; workers that fail while a batch is
counted; crashes between ACK and store; buffers and descriptors shared by
threads that drop the lock in between; a timer that falls behind; freeze rounds
that overlap; messages cut into pieces; threads and descriptors that outlive
what they belong to when a node is shut down. `PROJECT.json` lists them as hazards, each at its line.

## 2. Modules

| Module | Models | Composes |
|---|---|---|
| `LogTrackerOps` | the tracker as a value: `observe`, `apply_locked` | |
| `LogTracker` | one tracker, its connection threads and its blocked readers | `LogTrackerOps` |
| `SharedLog` | abstract: one order of batches, answers only for ordered batches, logs that are prefixes of it | |
| `Replication` | proxy, replication workers, servers, broadcaster workers, subscribers; crashes, shutdowns and broken connections | `LogTrackerOps`; implements `SharedLog` |
| `ProxyTimer` | timer thread, slot scheduler, FREEZE, INCLUDE_PROXY and `stop` | |
| `ClientBuffer` | clients, connection threads, shared buffer, `send_out_batch` | |
| `Zipper` | registry, freeze protocol, slot allocation, admission | |
| `ZipperEpochTimer` | the zipper's timer thread, worker thread and `stop` | |
| `Framing` | wire format, ReadBuffer and receivers on one connection | |
| `BaseNode` | accept loop, connection threads, the descriptors of the node's ConnectionPool, shutdown and destruction | |
| `LogTrackerOpsProofs` | lemmas about the tracker as a value | |
| `LogTrackerProofs`, `ReplicationProofs`, `ProxyTimerProofs`, `ClientBufferProofs`, `ZipperProofs`, `FramingProofs`, `BaseNodeProofs` | theorems about the module of that name; those about `ZipperEpochTimer` are the last section of `ZipperProofs` | `LogTrackerOpsProofs` in the first two |
| `MC*` | constants for TLC | |

State and actions keep the source's names; `PROJECT.json` ("map") gives the lines
of every definition. An action is one critical section, one atomic access, or
one blocking call, whichever is smaller: `ServerRecvAndAck`, `ServerStore` and
`ServerBroadcast` are one pass of `Server::handle_connection`, `LoadAcks` and
`LoadLiveWorkers` the two loads of `replicate_bytes`, `Drain`, `Build`, `Release`,
`Replicate` and `AnswerAll` one `send_out_batch`, `StartRound` and
`BroadcastFreeze` the two critical sections of `send_freeze`. `Client::append` is
`Connect`, `SendAppend` and one of its returns: `RecvResponse`, or false from
`AppendFails` (no connection, or the send fails, so that the APPEND never arrives
whole) or `RecvFails` (after the APPEND, whatever has become of it). `drain` returns
a place in `buf_`, and `Build` copies what is there later, without the mutex.

Abstractions. Outside `Framing`, messages are records and byte strings are
values; a command takes one unit of the client buffer. `Framing` works on cells:
two for the length prefix, since each of its bytes may arrive alone, one for the
20 bytes of the header, one for each length field, data byte and ordering value.
`MAX_MESSAGE_SIZE` is the largest value of the prefix and the ReadBuffer twice
that, as in the code. `layout` keeps the order of the fields, `deserialize` every
length check, and bytes that are no length (payload where a prefix should be)
stop the model in the state `garbled`. Elsewhere a TCP connection is a FIFO sequence; when it
breaks, what was sent last may or may not arrive. Time in `ProxyTimer` is
relative to now, which keeps a timer that runs for ever finite. In `Zipper` the
servers are the environment, since `server.cpp` ignores FREEZE at this commit:
they report whenever they like and answer as `FreezeHandler` would.
`ZipperEpochTimer` abstracts the clock: a sleep may end at any moment, which
includes a worker that is late by any number of epochs. Its counter
`allocations` counts how often slots were allocated for the window that
`next_epoch_` names. In `BaseNode` a handler receives, may ask another node and
wait, and otherwise does nothing; descriptors are numbers, lowest free first, given
out by `accept` and to the sockets that the ConnectionPool connects, at any time
until the derived class is gone. In `ClientBuffer` a connection breaks without either
side noticing until it uses it, and a descriptor's number is given to the next
connection once its thread has closed it.

In `Zipper`, `ServerAnswers` stands for a FREEZE that a server takes up and answers
after its transfers: a server answers each round at most once, at any time after the
broadcast, in any order of the rounds, with the last number it has seen *then*. This
includes every answer of `freeze_handler.h:36-87`, where the round is compared first
and the number read after the transfers.

## 3. Runs

| Run | Question | Bounds | Distinct states |
|---|---|---|---|
| `log_tracker` | is the log exactly the longest prefix with a quorum, under any arrivals, and does every blocked reader return? | 3 servers, quorum 2, 2 readers, 2 numbers, 2 batches | 215 000 |
| `data_path` | does the whole path implement `SharedLog`, and what survives a crash, a shutdown or a broken connection anywhere? | 1 proxy, 3 servers, 1 subscriber, 2 batches, 1 failure | 1 169 000 |
| `data_path_liveness` | is every batch answered, every acknowledged batch read, every shutdown completed? | 1 batch, 1 failure or shutdown (f = 1) | 189 000 |
| `proxy_timer` | are slots used once and in order when the thread is late or frozen? | epoch of 2 ticks, lag up to 4, numbers mod 6 | 570 000 |
| `client_buffer` | is the buffer FIFO, and is each client told of its own command, or told nothing only when the buffer was full? | 2 clients with 2 and 1 appends, 2 descriptors, 1 broken or left connection, buffer of 2 commands | 557 000 |
| `zipper_freeze` | does a freeze rest on one round of a quorum, and does it go on in every round? | 3 servers, 3 rounds, last numbers 0..1, one allocation of 1 slot | 1 977 000 |
| `zipper_slots` | are slots interleaved, and ids consistent? | 2 proxies, 1 newcomer, 1 rejoin, 2 or 3 slots each | 284 000 |
| `framing` | do messages arrive whole however they are cut, and when is a connection given up? | 3 messages of 3 to 6 cells or too large (8, 11), buffer of 12 cells, each receiver | 142 000 |
| `epoch_timer` | do the two threads miss a trigger or a `stop`, how often is a window allocated? | none needed: the state is finite | 2 800 |
| `base_node` | does destruction return, and which thread or descriptor outlives it? | 2 connections, 1 pooled address, 3 descriptors, `shutdown` up to 3 times | 315 000 |
| `two_proxies`, `buffer_overrun` | see section 6 | small | |

Why the bounds are enough for the cases that matter: three servers with quorum 2
are the smallest system in which two quorums differ; two numbers are needed for
one to overtake the other. What larger instances would add to the invariants is
covered by proof (section 4). One failure is the `f` of that system; two are
discussed in section 6. A lag of four ticks is two epochs, so up to four slots
pile up and a slot is put back over and over. In `client_buffer` a connection breaks
or is left, its descriptor is closed, given out again and removed while its batch is
out, and the third command finds the buffer full or, after a drain in between, is
written behind its end (where the run stops following the buffer, and
`buffer_overrun` starts). Three freeze rounds let responses of the first arrive in
the second and third, let two connection threads start the next round at once, so
that round 2 is skipped and 3 broadcast twice, and leave the third server to answer
after the decision. In `framing` the
longest message that fits and its prefix take more than half of the ReadBuffer
and the others less, head can come to lie before, at and past the middle, and
the prefixes of the messages that are too large say 1 and 4, less and more than
the fixed part of a message. In `base_node` two connections suffice for one to
get the descriptor of the other between `close` and the removal of its number, and
one pooled address for a pooled socket to get a number that `shutdown` has closed
and a handler closes again.

Two runs carry a constraint. `ServersAreConsistent` (`log_tracker`) keeps to
arrivals in which one server sends one batch per number, which is what servers
do; different servers may disagree. The theorems do without it.
`CommandThenSkip` (`data_path`) makes the batches alternate between a command and
a SKIP: no step of the model looks into a batch, so batches that differ are the
general case.

What the runs do *not* reach: two subscribers (each has its own tracker and
they share nothing), crashes of subscribers, and a freeze with a rejoin in it.
The bounds on rounds, rejoins, epochs, appends and broken connections are constants
that may be any number; the theorems hold for all of them.

Each property has a mutant in `PROJECT.json`: the same definition with a plausible
bug (`*OffByOne`, `NotifyOne`, `ReleaseAlwaysResets`, ...), under which TLC
finds the property violated. They stand next to the definition they mutate.
In `ProxyTimer`, `Zipper`, `ZipperEpochTimer` and `BaseNode` the type invariant is a
conjunct of the first invariant on the state (`SchedulerConsistent`,
`CompletedByQuorum`, `WorkerNotForgotten`, `DescriptorsAreOwn`); `Partition` of
`LogTracker` and `AcknowledgedIsLogged` of `Replication`, which needs one proxy, also
serve the proofs.

### Fairness

Safety runs need none. For liveness, every thread of a process that is up keeps
being scheduled (weak fairness per thread): the loops are plain loops, and the
condition variables they sleep on are notified under their mutex. A worker whose
server is gone gets an error from `send` or `recv` (weak fairness of the two
failing calls, only when the server is down). TCP delivers on a connection that
does not break. Crashes, broken connections, shutdowns, reports, disconnects and
freezes are never forced. In `ProxyTimer` time passes; `Zipper` has no fairness, and
no liveness property: servers need never answer, and those that differ may differ
for ever, so what is claimed of a freeze is that it never stands still by itself
(`FreezeGoesOn`). In `LogTracker` a notified reader gets to run, but
no message is assumed to arrive. In `ClientBuffer` the proxy's threads run and a
client whose answer has arrived, or whose connection has ended, reads that. In `Framing` the receiver's loop keeps calling
`recv` and TCP delivers; senders owe nothing. In `ZipperEpochTimer` sleeps end and
callbacks return (`allocate_slots` hands its sends to detached threads,
`introduce_proxies` sends without waiting for an answer). In `BaseNode` the threads
of the node run; clients need never close, and a node that was asked need never
answer, which is why `DestructorReturns` excludes a thread that waits for ever,
for an answer or on a pooled socket that has taken its connection's number.

## 4. Proofs

TLC checks small instances; the theorems below hold for every value of the
constants. Each `*Proofs` module extends the module it is about, states its
inductive invariant as a conjunction of named parts, has a lemma per action,
and ends in the theorems; TLC had found the properties to hold on the instances of
section 3 before they were proved.

| Module | Theorem | States |
|---|---|---|
| `LogTrackerProofs` | `TypeCorrect` | `TypeOK` |
| | `QuorumExact` | `AppliedIffQuorum`: a number is applied exactly when a quorum of distinct servers reported it |
| | `LongestPrefix`, `NothingInvented`, `WakeupsArrive` | `LogIsQuorumPrefix`, `EntriesWereSent`, `NoLostWakeup` |
| | `AppendOnly` | `LogAppendOnly`, an action property |
| `ReplicationProofs` | `TypeCorrect`, `PrefixesCorrect` | `TypeOK`, `ServersHoldPrefixes` |
| | `SuccessCorrect` | `SuccessBackedByQuorum` |
| | `ReadsCorrect` | with one proxy, `ReadsAreQuorumStored` |
| | `AcknowledgedCorrect` | with one proxy, `AcknowledgedIsLogged`: a batch answered with SUCCESS keeps its place |
| | `RefinementCorrect` | with one proxy, `ImplementsSharedLog`: the data path implements `SharedLog` |
| `ProxyTimerProofs` | `SlotsCorrect`, `SchedulerCorrect`, `PauseCorrect` | `SlotsConsecutive`, `SchedulerConsistent`, `AtMostOneSlotAfterPause` |
| `ClientBufferProofs` | `TypeCorrect`, `FifoCorrect`, `AnswersCorrect` | `TypeOK`, `BufferIsFifo`, `AnswersAreOwn` |
| `ZipperProofs` | `CompletionCorrect`, `SkipsCorrect` | `CompletedByQuorum`, `SkippedAboveAgreed` |
| | `FreezeCorrect` | `FreezeGoesOn`: a freeze that is not decided is worked on, or waits for a round that was broadcast |
| | `RegistryCorrect`, `SlotsCorrect` | `RegistryMatchesConfig`, `SlotsInterleaved` |
| | `NothingForgotten`, `WindowsBounded` | `WorkerNotForgotten`, `AtMostThreePerWindow` of `ZipperEpochTimer` |
| | `NoCallbackAfterStop` | once `ZipperEpochTimer::stop` has returned, the worker is done |
| `FramingProofs` | `TypeCorrect`, `FramesStayIntact`, `GivesUpOnlyWhenFull` | `TypeOK`, `FramesIntact`, `ClosesOnlyWhenFull` |
| | `LayoutParsed` | `deserialize` and `peek` undo `layout`, for every message |
| | `Framed` | the inductive invariant `FramingInv` |
| `BaseNodeProofs` | `TrackingCorrect`, `DescriptorsCorrect`, `StragglerCorrect` | `ConnectionsTracked`, `DescriptorsAreOwn`, `AtMostOneStraggler` |

### Assumptions

The only assumptions on constants are the named `ASSUME`s of the modules, which
TLC evaluates in the runs: sets of nodes, clients and connections are finite,
servers and proxies are different nodes, quorum, capacity, epoch and modulus are
positive, identifiers that mean "none" are no identifiers, bounds are numbers.
Some theorems carry more:

- The last three theorems of `ReplicationProofs` assume that there is one proxy.
  Without it they are false: each proxy counts its own sequence numbers, and the
  run `two_proxies` shows what then goes wrong. Everything about servers and
  answers (`PrefixesCorrect`, `SuccessCorrect`) is proved for any set of proxies.
- `BufferIsFifo` speaks of the states up to the first write behind `buf_`. What
  the program does after such a write is undefined, so there is nothing to state
  about it; that it happens at all is the run `buffer_overrun`.
- `AnswersAreOwn` speaks of the clients whose descriptor had no answer and no
  `remove` due when it was accepted (`clean`), and of what a response says. `append`
  also returns false without a response, and then the command may be replicated.
- `FreezeGoesOn` speaks of the states before the first rejoin, which sets the
  round back while the servers keep theirs.

### The arguments

*`LogTracker`.* `AppliedIffQuorum` needs that the votes kept for a number not
applied are exactly the servers heard, fewer than a quorum, and that those of an
applied one are gone. `LogIsQuorumPrefix` needs that applied numbers are either
in the log or parked above it, and that `next_seq` is not parked: `Partition`.
The loop of `apply_locked` is `FirstGap`, the least number that is not parked: it
exists because the parked set is finite. These facts about the tracker as a
value are in `LogTrackerOpsProofs`, which `ReplicationProofs` uses as well.

*`Replication`, to the servers.* `PathInv` says for every proxy and server how
what the proxy sent is spread over the worker's queue, the message in flight, the
connection and the server's store: the store is a prefix, the queue a suffix, and
at most one message is between them. With it, `AckInv` bounds `ack_count` by the
servers that have received the message and that the worker no longer waits for;
a server is counted once, because its worker leaves `waiting` with the ACK.
SUCCESS then means that a quorum received the batch.

*`Replication`, to the readers.* `BcastInv` says that whatever is on its way to a
subscriber is vouched for: its sender has stored it, under that number, as the
proxy sent it. `TrackInv` says that a tracker has counted only servers that
store the number, and holds for it what the proxy sent. So an applied number has
a quorum of stores (`ReadsAreQuorumStored`), a log is a prefix of what was sent,
and each step is one of `SharedLog`'s (placing, answering, reading further) or a
stutter. Two quorums meet nowhere in this: with one proxy its order is *the* order.

*`ProxyTimer`.* Besides types and order, `TimerInv` has `SeqInv`, which places the
popped slot, the deque and `next_seq` after `last_sent` modulo `SeqMod`, and
`LagInv`: one slot is assigned per epoch, so that a slot with n slots behind it
is n epochs older than the newest, and what is left after a drain is ahead of
the clock. `JoinInv` says that a joined thread has left `run`, so that a second run
finds no slot popped. This bounds the deques, which `SchedulerConsistent` claims and which
nothing in the code checks.

*`ClientBuffer`.* `BaseInv` describes positions, contents and descriptors; the
bytes between the positions are the commands pushed and not taken out.
`AnswerInv` says where the command of a client that waits on a clean descriptor is: on
its way to the proxy, in the buffer, in the batch that is out, in its answer, lost
with its connection, or refused, and in only one of these places; that while it is
in the buffer or in the batch its descriptor is a participant; and that whoever owns
a descriptor that a batch will answer, and is clean, has the command in that batch.
That is what a client lacks whose descriptor had an answer due: the batch that
answers it holds somebody else's command. Each action moves the command from one
place to the next, or moves another client's.

*`Zipper`.* `FreezeInv` states what holds of one proxy's state, one thread and one
message in terms of the history (`answers`, `delivered`), so that it stays true
while the history grows (`Grown`); a responder counted in the current round gave
one of the numbers in `last_sequences`, hence a quorum of responders and a single
number is an agreement. `GoingInv` is what `FreezeGoesOn` needs: no round is in use
before a proxy is reconfigured (`Untouched`), answers belong to rounds that were
broadcast and are counted or on their way (`Counted`), a current round that was not
broadcast has a thread about to broadcast it, and a quorum that was counted has a
thread that decides (`Decided`). Two threads that start a round at once leave the
higher one current, and the broadcast of either carries it. `AdmissionInv` gives a task that has its id its place in
`config_.proxies`. `SlotInv` orders the slots of an epoch by their exact points:
numbers follow that order, what the worker has not assigned comes after what it
has, and every index of an estimate is assigned or waiting. `SlotsInterleaved`
then is arithmetic (`PointBetween`): points of a proxy with n slots are 1/n
apart, so one lies in any gap of 1/m with m <= n; that ids break ties decides
which end of the gap counts.

*`ZipperEpochTimer`.* `WorkerNotForgotten` is inductive as it stands: who raises a
flag while the worker sleeps is still about to notify it. For
`AtMostThreePerWindow`, `WindowInv` counts with the allocations of a window those
that may still come: a callback about to read `next_epoch_`, a trigger that waits,
and that of the epoch itself.

*`Framing`.* What a receiver has *ahead* of it is the unread part of its ReadBuffer
followed by the stream (`Ahead`, `CellAhead`); `recv`, the shift and `consume` keep
it or take its first cells off, wherever the bytes lie (`RefilledAhead`, `Shifted`,
`ConsumedAhead`). `InSync` says that it is, cell by cell, what `Wire(sent)` has from
the end of the messages delivered on, and all of that unless the sender gave up.
A complete frame ahead is then the next message's (`NextFrame`), and its body is
parsed back (`LayoutParsed`). `OutOfSync` is what a message with a truncated length
leaves behind: the receiver stands inside it and its first cell is not a prefix
(`NoPrefixInside`), so that `Garble`, and never `Deliver`, comes next; without
this case the invariant would not be inductive, because the first wrong step, which
delivers what was cut off, does not show yet. `ExactInv` keeps `recv_message` from
reading past its message, and `FailedInv` records why a receiver gave up. The
concatenation of any number of frames is `FlattenSeq`, whose definition chooses a
function by a recursive equation. That such a function exists is proved without
induction: the lengths up to which one exists are downward closed, and if there
were a least one without, the function for the length before could be extended
(`LeastNumber`, `Flattens`, `FlattenUnfolds`). The same argument replaces induction
in `WireType` and `WireStarts`. The theorems hold for any `MAX_MESSAGE_SIZE` above
the fixed part of a message, any payloads, and any cuts of the stream.

*`BaseNode`.* `OwnerInv` gives every descriptor its connection or its pooled socket
as long as the listening socket is open, and says that afterwards a number passes
from a connection to a pooled socket only, never to a connection; `PlaceInv` says that there is an injection from the
connections listed into `accepted_sockets_`, because the same number may stand
there twice, and erasing one of two equal entries must leave the other.
`ThreadInv` and `StragglerInv` say that the only thread `shutdown` does not join
is that of the connection that `run` has at hand.

Proving `SlotsInterleaved` changed the model: slots were cut to whole ticks
before they were sorted, whereas `slot_allocator.cpp` sorts `double` time points
and rounds what it gives out. With few ticks per epoch the property would have
been false of the model and true of the code. Slots now carry their exact
fractions (equal points of two proxies, which a `double` may round apart, are
ordered by id).

Only model-checked: liveness (`EveryBatchAnswered`, `SuccessIsRead`,
`ShutdownReturns`, `WaitersReturn`, `KeepsSending`, `AppendsReturn`,
`ShortMessagesArrive`, `AllocationServed`, `TimerStops`,
`DestructorReturns`), since fairness and ENABLED are out of the prover's reach.
Every invariant that a passing run checks, and every action property, is stated
by a theorem; of `TimerStops` the safety part is `NoCallbackAfterStop`.

## 5. What holds

With one proxy the data path is sound: SUCCESS is backed by a quorum, readers
see only what a quorum stored, and readers of one subscriber see one log that
never changes; this is proved for any number of servers, subscribers and failures.
The tracker is right for any parameters. The replication worker
never compares the ACK it gets with the batch it sent, and need not: it has one
message out at a time on a FIFO connection, and ends with the first error. The
server acknowledges before it stores, which is harmless with up to `f` crashes
only because every worker still sends to every other server (`SuccessIsRead`).
A shutdown drops what its workers have queued, and joins them while it holds the
mutex that `broadcast` needs; it still returns, since a worker never takes that
mutex (`ShutdownReturns`).

Framing is sound for messages that fit half of the ReadBuffer together with their
prefix, that is up to 65 533 bytes without it: `ShortMessagesArrive`. The two longest sizes the prefix allows can
make a receiver give up a healthy connection, and `ClosesOnlyWhenFull` says that
nothing else can. The zipper's timer loses no wakeup although three parties share
a condition variable; a late worker allocates some windows up to three times and
others not at all, and the end of an epoch has no guarantee to be served. A node
can be destroyed with clients connected; the descriptors that are closed twice
then are never those of another *accepted* connection, because the listening socket
goes first. They may be those of pooled sockets (section 6).

A client is told the result of its own command on every descriptor that had nothing
due when it was accepted, also when connections break, other clients come back on
descriptors of batches that are out, or the buffer is full. A freeze goes on in every
round until the servers of one round agree; nothing makes them agree.

## 6. Where the code disagrees with its documents

Checked by a run that finds the counterexample:

- `two_proxies`: each proxy draws numbers from its own counter
  (`proxy.cpp:161-170`), so with two proxies a batch answered with SUCCESS can be
  missing from the log; `docu/proxy.md:4` has the zipper order them globally.
- `buffer_overrun`: `push_raw` compares `used_` with the capacity but writes at
  `write_pos_`, which returns to 0 only when the buffer runs empty.

Met while modelling, visible in the modules, without a run of their own:

- `replicate_bytes` gives up only when *no* worker is left
  (`server_replicator.h:72-76`), so with more than `f` but not all servers gone it
  spins for ever: with `MaxFailures = 2` in `MCReplicationLiveness.cfg`
  `EveryBatchAnswered` fails. `~Proxy` would then wait for its timer thread
  for ever; `docu/proxy.md:40` has an answer sent to all clients.
- A batch longer than 65 535 bytes is sent with the length modulo 65 536
  (`network_utils.cpp:313`): `build_wire_bytes` lacks the check `serialize` has, and
  what follows on that connection is garbled. `FramesIntact` says so by ending at
  the first message that does not fit.
- `refill_spin` shifts only when head is *past* the middle, so a message whose
  bytes with the prefix exceed half the buffer may find it full; `recv` for 0
  bytes then returns 0 and the connection counts as closed
  (`network_utils.h:118-136`).
- `Client` keeps its ReadBuffer when it reconnects (`client.cpp:61-66`); the first
  bytes of an answer cut off by the old connection are taken for the start of the
  next one. Action `Reconnect` of `Framing`. The broadcaster resets its own
  (`subscriber_broadcaster.h:124`).
- A connection accepted while `shutdown` runs gets its thread after the others
  were joined. `~BaseNode` joins it if it is quick; its handler may by then use
  members of the derived class that are gone, and if the thread is stored after
  the second `shutdown` too, a joinable `std::thread` is destroyed. The comment at
  `base_node.h:193` means to exclude this; `AtMostOneStraggler` is what holds.
- `shutdown` before `run` has set `is_running_` (`base_node.h:77`) is undone by it;
  owners avoid this with `wait_until_listening`, and the run assumes they do.
- A connection thread of the zipper that waits for an ACK to INCLUDE_PROXY, which
  servers do not answer, keeps `~Zipper` in its join (`zipper.cpp:42-44`).
- `docu/zipper.md:20` has `Zipper::shutdown` stop the timer; only the destructor does.
- A descriptor closed while its batch is replicated may be given to the next
  client, which then gets the answer to a command it did not send
  (`proxy.cpp:204`); `AnswersAreOwn` excludes just the descriptors with an answer
  or a `remove` still due.
- `append` returns false when its connection fails after the send
  (`client.cpp:61-66`), although the batch may be replicated.
- A pooled socket that is connected while `shutdown` runs, in another thread of the
  node, can get a number that `base_node.h:189` has just closed. The connection
  thread that still has that number reads from the pooled socket and closes it
  (`zipper.cpp:60`), and the pool keeps the number. `DescriptorsAreOwn` says how far
  this goes, and `DestructorReturns` excepts the thread that waits on such a socket.
- `handle_connection` closes the descriptor and then calls `remove`
  (`proxy.cpp:149-150`), which may remove the next client's registration.
- A command that finds the buffer full is dropped without an answer, and its
  client waits for ever (`proxy.cpp:108`); `docu/proxy.md:83` says that push
  blocks. This is the exception `refused` of `AppendsReturn`.
- `pause` ends the timer thread (`proxy_epoch_timer.h:62`), where
  `docu/proxy.md:95` keeps it; `start` on INCLUDE_PROXY assigns to a joinable
  `std::thread`, which terminates the process. Only between the join in the `stop`
  of `~Proxy` and the timer's own destructor does it start another run; module
  `ProxyTimer` has that too, with the time in which no thread runs left out.
- `docu/subscriber.md:57`: a server "never acks" before it has stored; it does
  (`server.cpp:73-81`).
- A late FREEZE_RESPONSE can start another round for a BLOCKED proxy, or complete it
  a second time, and slots assigned after the snapshot of `compute_allocations` are
  not skipped. `send_freeze_complete` waits for the servers' ACKs of each SKIP and may
  wait for ever (`SkipAcked` has no fairness).
- A proxy that rejoins keeps its id and is given a second one by
  `introduce_proxies`.
- `README.md:70` asks for `f + 1` servers, `config.cpp:145` for `2f + 1`;
  `Client::append` ignores its payload (`client.cpp:46`).

## 7. Not modelled

Configuration files, logging, the main program and the tests: input and output
only. `*_old.h`, `*_og.cpp` and `circular_buffer.h` are not compiled in.
`compute_estimate`, `handle_zip_response`, `recv_message_spin`, `send_message_og`
and the server's reconfiguration handlers are not called at this commit, and
`introduce_subscriber` waits for ACKs that no server sends. The LogTracker's
const readers (`expand` and the like) copy the log under its mutex and change
nothing. The byte order of
integers and the splitting of a batch into commands are left out: they are the
same library calls on both sides. Two threads that share a pooled socket for
reading are not modelled; the callers that could are those of `add_proxy` and
`introduce_subscriber` in `zipper.cpp`, which no server answers, and the waits for the
ACKs of SKIPs (`reconfig_manager.cpp:148-152`) of two threads in
`send_freeze_complete`, whose ACKs carry nothing that is looked at. Detached threads of
the zipper that are still at work when it has been destroyed are left out. Spurious wakeups are left out because every wait re-evaluates its condition.

## 8. Plan

Done: all models of section 2, each with its run, and the theorems of section 4,
which state every invariant the runs check.

Next: models of the server side of the freeze with its transfers, and of a freeze
with a rejoin in it; properties for the hazards that have none yet (a second
`start` of the proxy's timer, two readers of one pooled socket), once the code that reaches them is in use.
