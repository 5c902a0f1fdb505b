------------------------------- MODULE Replication -------------------------------
(***************************************************************************)
(* The data path of ziplog: a proxy's timer thread hands one batch after   *)
(* the other to the ServerReplicator (impl/proxy/server_replicator.h), one *)
(* worker thread per server sends it and waits for the ACK, the server     *)
(* (impl/server/server.cpp) acks, stores and queues it for its             *)
(* SubscriberBroadcaster, whose worker per subscriber sends it and waits   *)
(* for an ACK, and the subscriber's connection thread feeds its            *)
(* LogTracker.                                                             *)
(*                                                                         *)
(* Every thread steps on its own.  Servers and proxies may crash (nothing  *)
(* is persisted and nobody reconnects a replication worker), may be shut   *)
(* down in order, and single connections may break; how often, all in all, *)
(* is bounded by MaxFailures.                                              *)
(*                                                                         *)
(* A message is [sender, seq, batch]; a SKIP is a message with the empty   *)
(* batch.  The blocked set of the ProxyLivenessTracker is left out: at     *)
(* this commit nothing reaches block_proxy, so is_blocked is always false. *)
(***************************************************************************)
EXTENDS LogTrackerOps

CONSTANTS
    Proxies, Servers, Subscribers,
    Batches,            \* what a drained client buffer may hold, << >> included
    MaxFailures         \* bound on crashes, shutdowns and broken connections

ASSUME NodesAssumption ==
    /\ IsFiniteSet(Servers)
    /\ IsFiniteSet(Proxies)
    /\ IsFiniteSet(Subscribers)
    /\ Servers \cap Proxies = {}
    /\ << >> \in Batches
    /\ MaxFailures \in Nat

VARIABLES
    up,             \* the servers and proxies that have not crashed
    broken,         \* number of connections broken so far, crashes aside
    closing,        \* the servers and proxies whose workers' shutdown flags are set
    \* Proxy, its timer thread inside send_out_batch and replicate_bytes
    proxy_pc,       \* "idle", or which of the two loads of the wait loop is next
    sent,           \* the messages handed to replicate_bytes; the n-th has seq n
    result,         \* what replicate_bytes returned for each of them
    ack_count,      \* ReplicationState::ack_count per message
    \* ServerReplicator worker per proxy and server
    worker,         \* "connecting", "ready", "waiting", "stopped", "exited"
    pending_queue,
    inflight,       \* the seq of the WorkItem a waiting worker sent, else 0
    to_server, to_proxy,
    \* Server connection thread per server and proxy
    handler,        \* "recv", "acked", "stored"
    current,        \* the message in the read buffer, << >> or <<m>>
    stored,         \* MessageStore::messages_
    \* SubscriberBroadcaster worker per server and subscriber
    bworker,        \* "ready", "waiting", "shutdown"
    bqueue,
    to_sub,         \* the message on its way to the subscriber, << >> or <<m>>
    sub_acks,       \* ACKs on their way back
    trk             \* the subscriber's LogTracker

lifeVars == << up, broken, closing >>
proxyVars == << proxy_pc, sent, result, ack_count >>
workerVars == << worker, pending_queue, inflight, to_server, to_proxy >>
serverVars == << handler, current, stored >>
bcastVars == << bworker, bqueue, to_sub, sub_acks >>
vars == << lifeVars, proxyVars, workerVars, serverVars, bcastVars, trk >>

----------------------------------------------------------------------------
Init ==
    /\ up = Servers \cup Proxies
    /\ broken = 0
    /\ closing = {}
    /\ proxy_pc = [p \in Proxies |-> "idle"]
    /\ sent = [p \in Proxies |-> << >>]
    /\ result = [p \in Proxies |-> << >>]
    /\ ack_count = [p \in Proxies |-> [s \in SeqNums |-> 0]]
    /\ worker = [p \in Proxies |-> [v \in Servers |-> "connecting"]]
    /\ pending_queue = [p \in Proxies |-> [v \in Servers |-> << >>]]
    /\ inflight = [p \in Proxies |-> [v \in Servers |-> 0]]
    /\ to_server = [p \in Proxies |-> [v \in Servers |-> << >>]]
    /\ to_proxy = [p \in Proxies |-> [v \in Servers |-> << >>]]
    /\ handler = [v \in Servers |-> [p \in Proxies |-> "recv"]]
    /\ current = [v \in Servers |-> [p \in Proxies |-> << >>]]
    /\ stored = [v \in Servers |-> [p \in Proxies |-> << >>]]
    /\ bworker = [v \in Servers |-> [u \in Subscribers |-> "ready"]]
    /\ bqueue = [v \in Servers |-> [u \in Subscribers |-> << >>]]
    /\ to_sub = [v \in Servers |-> [u \in Subscribers |-> << >>]]
    /\ sub_acks = [v \in Servers |-> [u \in Subscribers |-> 0]]
    /\ trk = [u \in Subscribers |-> EmptyTracker]

----------------------------------------------------------------------------
(***************************************************************************)
(* The proxy.  send_out_batch drains the client buffers (the batch) and    *)
(* calls replicate_bytes, which queues the message at every worker.  The   *)
(* wait loop then alternates two separate atomic loads.                    *)
(***************************************************************************)
SendOutBatch(p, batch) ==
    LET m == [sender |-> p, seq |-> Len(sent[p]) + 1, batch |-> batch]
    IN  /\ p \in up \ closing
        /\ proxy_pc[p] = "idle"
        /\ Len(sent[p]) < MaxSeq
        /\ sent' = [sent EXCEPT ![p] = Append(@, m)]
        /\ pending_queue' = [pending_queue EXCEPT ![p] =
                                [v \in Servers |-> Append(@[v], m)]]
        /\ proxy_pc' = [proxy_pc EXCEPT ![p] = "load_acks"]
        /\ UNCHANGED << lifeVars, result, ack_count, worker, inflight,
                        to_server, to_proxy, serverVars, bcastVars, trk >>

LiveWorkers(p) == {v \in Servers : worker[p][v] # "exited"}

\* replicate_bytes returns, and send_out_batch reports to its clients.
Answer(p, r) ==
    /\ result' = [result EXCEPT ![p] = Append(@, r)]
    /\ proxy_pc' = [proxy_pc EXCEPT ![p] = "idle"]

\* Mutant: <= where the code has <.
LoadAcksOffByOne(p) ==
    /\ p \in up
    /\ proxy_pc[p] = "load_acks"
    /\ IF ack_count[p][Len(sent[p])] <= Quorum
       THEN proxy_pc' = [proxy_pc EXCEPT ![p] = "load_live"] /\ UNCHANGED result
       ELSE Answer(p, "SUCCESS")
    /\ UNCHANGED << lifeVars, sent, ack_count, workerVars, serverVars, bcastVars, trk >>

\* while (ack_count.load() < quorum_)
LoadAcks(p) ==
    /\ p \in up
    /\ proxy_pc[p] = "load_acks"
    /\ IF ack_count[p][Len(sent[p])] < Quorum
       THEN proxy_pc' = [proxy_pc EXCEPT ![p] = "load_live"] /\ UNCHANGED result
       ELSE Answer(p, "SUCCESS")
    /\ UNCHANGED << lifeVars, sent, ack_count, workerVars, serverVars, bcastVars, trk >>

\* if (live_workers_.load() == 0) return false;
LoadLiveWorkers(p) ==
    /\ p \in up
    /\ proxy_pc[p] = "load_live"
    /\ IF LiveWorkers(p) = {}
       THEN Answer(p, "FAILURE")
       ELSE proxy_pc' = [proxy_pc EXCEPT ![p] = "load_acks"] /\ UNCHANGED result
    /\ UNCHANGED << lifeVars, sent, ack_count, workerVars, serverVars, bcastVars, trk >>

----------------------------------------------------------------------------
(***************************************************************************)
(* A worker thread of the ServerReplicator: connect (retrying for ever),   *)
(* then pop one item, send it, wait for one ACK and count it.  The ACK is  *)
(* not looked at.  A failure of either call ends the thread for good, and  *)
(* live_workers_ is decremented in a step of its own.                      *)
(***************************************************************************)
WorkerConnect(p, v) ==
    /\ p \in up /\ v \in up
    /\ worker[p][v] = "connecting" /\ p \notin closing
    /\ worker' = [worker EXCEPT ![p][v] = "ready"]
    /\ UNCHANGED << lifeVars, proxyVars, pending_queue, inflight, to_server,
                    to_proxy, serverVars, bcastVars, trk >>

PopItem(p, v) ==
    /\ p \in up
    /\ worker[p][v] = "ready" /\ p \notin closing
    /\ pending_queue[p][v] # << >>
    /\ pending_queue' = [pending_queue EXCEPT ![p][v] = Tail(@)]

WorkerSend(p, v) ==
    /\ PopItem(p, v)
    /\ inflight' = [inflight EXCEPT ![p][v] = Head(pending_queue[p][v]).seq]
    /\ to_server' = [to_server EXCEPT ![p][v] = Append(@, Head(pending_queue[p][v]))]
    /\ worker' = [worker EXCEPT ![p][v] = "waiting"]
    /\ UNCHANGED << lifeVars, proxyVars, to_proxy, serverVars, bcastVars, trk >>

WorkerRecvAck(p, v) ==
    /\ p \in up
    /\ worker[p][v] = "waiting"
    /\ to_proxy[p][v] # << >>
    /\ to_proxy' = [to_proxy EXCEPT ![p][v] = Tail(@)]
    /\ ack_count' = [ack_count EXCEPT ![p][inflight[p][v]] = @ + 1]
    /\ inflight' = [inflight EXCEPT ![p][v] = 0]
    /\ worker' = [worker EXCEPT ![p][v] = "ready"]
    /\ UNCHANGED << lifeVars, proxy_pc, sent, result, pending_queue,
                    to_server, serverVars, bcastVars, trk >>

Crashed == (Servers \cup Proxies) \ up
MayFail == Cardinality(Crashed \cup closing) + broken < MaxFailures

\* What ends a connection: the peer crashed, or the network broke it.
Breaks(peerUp) ==
    IF peerUp THEN MayFail /\ broken' = broken + 1 ELSE UNCHANGED broken

\* Mutant: a failed recv is counted as an ACK.
WorkerRecvFailsCounted(p, v) ==
    /\ p \in up
    /\ worker[p][v] = "waiting"
    /\ Breaks(v \in up)
    /\ ack_count' = [ack_count EXCEPT ![p][inflight[p][v]] = @ + 1]
    /\ worker' = [worker EXCEPT ![p][v] = "ready"]
    /\ inflight' = [inflight EXCEPT ![p][v] = 0]
    /\ UNCHANGED << up, closing, proxy_pc, sent, result, pending_queue, to_server, to_proxy,
                    serverVars, bcastVars, trk >>

\* recv fails.  The message on its way may still arrive; ACKs are lost.
WorkerRecvFails(p, v) ==
    /\ p \in up
    /\ worker[p][v] = "waiting"
    /\ Breaks(v \in up)
    /\ worker' = [worker EXCEPT ![p][v] = "stopped"]
    /\ inflight' = [inflight EXCEPT ![p][v] = 0]
    /\ to_proxy' = [to_proxy EXCEPT ![p][v] = << >>]
    /\ \/ UNCHANGED to_server
       \/ to_server' = [to_server EXCEPT ![p][v] = << >>]
    /\ UNCHANGED << up, closing, proxyVars, pending_queue, serverVars, bcastVars, trk >>

\* Mutant: a worker goes on with the next item after a failed send.
WorkerSkipsItem(p, v) ==
    /\ PopItem(p, v)
    /\ Breaks(v \in up)
    /\ UNCHANGED << up, closing, proxyVars, worker, inflight, to_server, to_proxy, serverVars,
                    bcastVars, trk >>

\* send fails: the item is popped and never sent.
WorkerSendFails(p, v) ==
    /\ PopItem(p, v)
    /\ Breaks(v \in up)
    /\ worker' = [worker EXCEPT ![p][v] = "stopped"]
    /\ UNCHANGED << up, closing, proxyVars, inflight, to_server, to_proxy, serverVars, bcastVars, trk >>

\* Mutant: the flag is set and the worker is not notified.
WorkerStopsUnnotified(p, v) ==
    /\ p \in up
    /\ p \in closing /\ worker[p][v] \in {"connecting", "ready"}
    /\ worker[p][v] = "ready" => pending_queue[p][v] # << >>
    /\ worker' = [worker EXCEPT ![p][v] = "stopped"]
    /\ UNCHANGED << lifeVars, proxyVars, pending_queue, inflight, to_server,
                    to_proxy, serverVars, bcastVars, trk >>

\* Told to shut down, a worker leaves its loops; what it has queued is dropped.
WorkerStops(p, v) ==
    /\ p \in up
    /\ p \in closing /\ worker[p][v] \in {"connecting", "ready"}
    /\ worker' = [worker EXCEPT ![p][v] = "stopped"]
    /\ UNCHANGED << lifeVars, proxyVars, pending_queue, inflight, to_server,
                    to_proxy, serverVars, bcastVars, trk >>

\* live_workers_.fetch_sub(1)
WorkerExit(p, v) ==
    /\ p \in up
    /\ worker[p][v] = "stopped"
    /\ worker' = [worker EXCEPT ![p][v] = "exited"]
    /\ UNCHANGED << lifeVars, proxyVars, pending_queue, inflight, to_server,
                    to_proxy, serverVars, bcastVars, trk >>

----------------------------------------------------------------------------
BroadcastersDone(v) == \A u \in Subscribers : bworker[v][u] = "shutdown"

(***************************************************************************)
(* The connection thread of a server.  APPEND and SKIP are handled alike:  *)
(* the ACK goes out first (its result is ignored, so a broken connection   *)
(* does not stop the handler), then the message is stored, then it is      *)
(* queued for every subscriber with the server's id as its sender.         *)
(***************************************************************************)
ServerRecvAndAck(v, p) ==
    LET m == Head(to_server[p][v])
    IN  /\ v \in up
        /\ handler[v][p] = "recv"
        /\ to_server[p][v] # << >>
        /\ to_server' = [to_server EXCEPT ![p][v] = Tail(@)]
        /\ to_proxy' = IF worker[p][v] = "waiting"
                       THEN [to_proxy EXCEPT ![p][v] = Append(@, m.seq)]
                       ELSE to_proxy
        /\ current' = [current EXCEPT ![v][p] = <<m>>]
        /\ handler' = [handler EXCEPT ![v][p] = "acked"]
        /\ UNCHANGED << lifeVars, proxyVars, worker, pending_queue, inflight,
                        stored, bcastVars, trk >>

\* Mutant: the message is acknowledged once more after it is stored.
StoreAcksAgain(v, p) ==
    /\ v \in up
    /\ handler[v][p] = "acked"
    /\ stored' = [stored EXCEPT ![v][p] = Append(@, Head(current[v][p]))]
    /\ to_proxy' = IF worker[p][v] = "waiting"
                   THEN [to_proxy EXCEPT ![p][v] = Append(@, Head(current[v][p]).seq)]
                   ELSE to_proxy
    /\ handler' = [handler EXCEPT ![v][p] = "stored"]
    /\ UNCHANGED << lifeVars, proxyVars, worker, pending_queue, inflight, to_server,
                    current, bcastVars, trk >>

ServerStore(v, p) ==
    /\ v \in up
    /\ handler[v][p] = "acked"
    /\ stored' = [stored EXCEPT ![v][p] = Append(@, Head(current[v][p]))]
    /\ handler' = [handler EXCEPT ![v][p] = "stored"]
    /\ UNCHANGED << lifeVars, proxyVars, workerVars, current, bcastVars, trk >>

\* Mutant: the message is queued for the subscribers without being stored.
BroadcastUnstored(v, p) ==
    LET wire == [Head(current[v][p]) EXCEPT !.sender = v]
    IN  /\ v \in up
        /\ handler[v][p] \in {"acked", "stored"}
        /\ bqueue' = [bqueue EXCEPT ![v] = [u \in Subscribers |-> Append(@[u], wire)]]
        /\ current' = [current EXCEPT ![v][p] = << >>]
        /\ handler' = [handler EXCEPT ![v][p] = "recv"]
        /\ UNCHANGED << lifeVars, proxyVars, workerVars, stored, bworker, to_sub,
                        sub_acks, trk >>

\* Mutant: the read buffer is consumed first, and the next message overwrites it.
BroadcastAfterConsume(v, p) ==
    LET m == Head(current[v][p])
        data == IF to_server[p][v] = << >> THEN m.batch ELSE Head(to_server[p][v]).batch
        wire == [m EXCEPT !.sender = v, !.batch = data]
    IN  /\ v \in up
        /\ handler[v][p] = "stored"
        /\ bqueue' = [bqueue EXCEPT ![v] = [u \in Subscribers |-> Append(@[u], wire)]]
        /\ current' = [current EXCEPT ![v][p] = << >>]
        /\ handler' = [handler EXCEPT ![v][p] = "recv"]
        /\ UNCHANGED << lifeVars, proxyVars, workerVars, stored, bworker, to_sub,
                        sub_acks, trk >>

\* broadcast() takes the mutex that shutdown() keeps until all are joined.
ServerBroadcast(v, p) ==
    LET wire == [Head(current[v][p]) EXCEPT !.sender = v]
    IN  /\ v \in up
        /\ v \in closing => BroadcastersDone(v)
        /\ handler[v][p] = "stored"
        /\ bqueue' = [bqueue EXCEPT ![v] = [u \in Subscribers |-> Append(@[u], wire)]]
        /\ current' = [current EXCEPT ![v][p] = << >>]
        /\ handler' = [handler EXCEPT ![v][p] = "recv"]
        /\ UNCHANGED << lifeVars, proxyVars, workerVars, stored, bworker, to_sub,
                        sub_acks, trk >>

----------------------------------------------------------------------------
(***************************************************************************)
(* A worker thread of the SubscriberBroadcaster: pop, connect through the  *)
(* pool if needed, send, wait for the ACK.  Any failure shuts the worker   *)
(* down for good and the message with it.                                  *)
(***************************************************************************)
BroadcastSend(v, u) ==
    /\ v \in up
    /\ bworker[v][u] = "ready" /\ v \notin closing
    /\ bqueue[v][u] # << >>
    /\ bqueue' = [bqueue EXCEPT ![v][u] = Tail(@)]
    /\ to_sub' = [to_sub EXCEPT ![v][u] = Append(@, Head(bqueue[v][u]))]
    /\ bworker' = [bworker EXCEPT ![v][u] = "waiting"]
    /\ UNCHANGED << lifeVars, proxyVars, workerVars, serverVars, sub_acks, trk >>

BroadcastRecvAck(v, u) ==
    /\ v \in up
    /\ bworker[v][u] = "waiting"
    /\ sub_acks[v][u] > 0
    /\ sub_acks' = [sub_acks EXCEPT ![v][u] = @ - 1]
    /\ bworker' = [bworker EXCEPT ![v][u] = "ready"]
    /\ UNCHANGED << lifeVars, proxyVars, workerVars, serverVars, bqueue, to_sub, trk >>

\* get_connection, send or recv fails; a sent message may still arrive.
BroadcastFails(v, u) ==
    /\ v \in up
    /\ Breaks(TRUE)
    /\ \/ /\ bworker[v][u] = "ready"
          /\ bqueue[v][u] # << >> /\ v \notin closing
          /\ bqueue' = [bqueue EXCEPT ![v][u] = Tail(@)]
          /\ UNCHANGED to_sub
       \/ /\ bworker[v][u] = "waiting"
          /\ UNCHANGED bqueue
          /\ \/ UNCHANGED to_sub
             \/ to_sub' = [to_sub EXCEPT ![v][u] = << >>]
    /\ bworker' = [bworker EXCEPT ![v][u] = "shutdown"]
    /\ sub_acks' = [sub_acks EXCEPT ![v][u] = 0]
    /\ UNCHANGED << up, closing, proxyVars, workerVars, serverVars, trk >>

\* Told to shut down, a worker ends; what it has queued is dropped.
BroadcastStops(v, u) ==
    /\ v \in up
    /\ v \in closing /\ bworker[v][u] = "ready"
    /\ bworker' = [bworker EXCEPT ![v][u] = "shutdown"]
    /\ UNCHANGED << lifeVars, proxyVars, workerVars, serverVars, bqueue, to_sub, sub_acks, trk >>

\* Subscriber::handle_connection: observe, then ACK whatever came.
SubscriberRecv(v, u) ==
    LET m == Head(to_sub[v][u])
    IN  /\ to_sub[v][u] # << >>
        /\ to_sub' = [to_sub EXCEPT ![v][u] = Tail(@)]
        /\ trk' = [trk EXCEPT ![u] = observe(@, m.sender, m.seq, m.batch)]
        /\ sub_acks' = IF bworker[v][u] = "waiting"
                       THEN [sub_acks EXCEPT ![v][u] = @ + 1]
                       ELSE sub_acks
        /\ UNCHANGED << lifeVars, proxyVars, workerVars, serverVars, bworker, bqueue >>

----------------------------------------------------------------------------
\* A crash takes the process and its memory; bytes already sent may arrive.
CrashServer(v) ==
    /\ v \in up
    /\ MayFail
    /\ up' = up \ {v}
    /\ UNCHANGED << broken, closing, proxyVars, workerVars, serverVars, bcastVars, trk >>

CrashProxy(p) ==
    /\ p \in up
    /\ MayFail
    /\ up' = up \ {p}
    /\ UNCHANGED << broken, closing, proxyVars, workerVars, serverVars, bcastVars, trk >>

(***************************************************************************)
(* An orderly end.  ~Proxy has stopped the timer thread when it calls      *)
(* ServerReplicator::shutdown(); ~Server first calls that of its           *)
(* SubscriberBroadcaster, with its connection threads still running.  Both *)
(* set the flags of their workers and wait for all of them; the flags are  *)
(* set in one step here, because a worker that has its flag later takes    *)
(* steps that no other worker of the node notices.  The rest of the        *)
(* destructor is module BaseNode.                                          *)
(***************************************************************************)
Close(x) ==
    /\ MayFail
    /\ x \in up \ closing
    /\ closing' = closing \cup {x}
    /\ UNCHANGED << up, broken, proxyVars, workerVars, serverVars, bcastVars, trk >>

Closed(x) ==
    /\ x \in up \cap closing
    /\ up' = up \ {x}
    /\ UNCHANGED << broken, closing, proxyVars, workerVars, serverVars, bcastVars, trk >>

ProxyCloses(p) == proxy_pc[p] = "idle" /\ Close(p)

\* All of the workers are joined.
ProxyClosed(p) == (\A v \in Servers : worker[p][v] = "exited") /\ Closed(p)

ServerCloses(v) == Close(v)

ServerClosed(v) == BroadcastersDone(v) /\ Closed(v)

\* The bound on sequence numbers is used up: the proxies stay idle.
Idle ==
    /\ \A p \in Proxies \cap up : proxy_pc[p] = "idle" /\ Len(sent[p]) = MaxSeq
    /\ UNCHANGED vars

ProxyStep(p) ==
    \/ \E batch \in Batches : SendOutBatch(p, batch)
    \/ LoadAcks(p)
    \/ LoadLiveWorkers(p)

WorkerStep(p, v) ==
    \/ WorkerConnect(p, v) \/ WorkerSend(p, v) \/ WorkerRecvAck(p, v)
    \/ WorkerStops(p, v) \/ WorkerExit(p, v)

WorkerFails(p, v) == WorkerRecvFails(p, v) \/ WorkerSendFails(p, v)

ServerStep(v, p) ==
    ServerRecvAndAck(v, p) \/ ServerStore(v, p) \/ ServerBroadcast(v, p)

BroadcastStep(v, u) ==
    BroadcastSend(v, u) \/ BroadcastRecvAck(v, u) \/ BroadcastStops(v, u)

Next ==
    \/ \E p \in Proxies :
          ProxyStep(p) \/ CrashProxy(p) \/ ProxyCloses(p) \/ ProxyClosed(p)
    \/ \E p \in Proxies, v \in Servers :
          WorkerStep(p, v) \/ WorkerFails(p, v) \/ ServerStep(v, p)
    \/ \E v \in Servers, u \in Subscribers :
          BroadcastStep(v, u) \/ BroadcastFails(v, u) \/ SubscriberRecv(v, u)
    \/ \E v \in Servers : CrashServer(v) \/ ServerCloses(v) \/ ServerClosed(v)
    \/ Idle

Spec == Init /\ [][Next]_vars

(***************************************************************************)
(* Every thread keeps running while its process is up: the timer thread    *)
(* and the workers are plain loops, the waits they sleep in are notified,  *)
(* and TCP delivers what was sent on a connection that does not break.     *)
(* Crashes, broken connections and shutdowns are never forced.  Where two  *)
(* threads take turns, or only one can have something to do, they share a  *)
(* condition, which is weaker than one for each.                           *)
(***************************************************************************)
Fairness ==
    /\ \A p \in Proxies : WF_vars(ProxyStep(p) \/ ProxyClosed(p))
    /\ \A p \in Proxies, v \in Servers :
          /\ WF_vars(WorkerStep(p, v) \/ (v \notin up /\ WorkerFails(p, v)))
          /\ WF_vars(ServerStep(v, p))
    /\ \A v \in Servers, u \in Subscribers :
          WF_vars(BroadcastStep(v, u) \/ SubscriberRecv(v, u))
    /\ WF_vars(\E v \in Servers : ServerClosed(v))

FairSpec == Spec /\ Fairness

----------------------------------------------------------------------------
Messages == [sender : Proxies \cup Servers, seq : SeqNums, batch : Batches]
AtMostOne(S) == {<< >>} \cup {<<m>> : m \in S}

TypeOK ==
    /\ up \subseteq Servers \cup Proxies
    /\ broken \in 0..MaxFailures
    /\ closing \subseteq Servers \cup Proxies
    /\ proxy_pc \in [Proxies -> {"idle", "load_acks", "load_live"}]
    /\ sent \in [Proxies -> Seq(Messages)]
    /\ result \in [Proxies -> Seq({"SUCCESS", "FAILURE"})]
    /\ ack_count \in [Proxies -> [SeqNums -> Nat]]
    /\ worker \in [Proxies -> [Servers ->
                    {"connecting", "ready", "waiting", "stopped", "exited"}]]
    /\ pending_queue \in [Proxies -> [Servers -> Seq(Messages)]]
    /\ inflight \in [Proxies -> [Servers -> 0..MaxSeq]]
    /\ to_server \in [Proxies -> [Servers -> AtMostOne(Messages)]]
    /\ to_proxy \in [Proxies -> [Servers -> AtMostOne(SeqNums)]]
    /\ handler \in [Servers -> [Proxies -> {"recv", "acked", "stored"}]]
    /\ current \in [Servers -> [Proxies -> AtMostOne(Messages)]]
    /\ stored \in [Servers -> [Proxies -> Seq(Messages)]]
    /\ bworker \in [Servers -> [Subscribers -> {"ready", "waiting", "shutdown"}]]
    /\ bqueue \in [Servers -> [Subscribers -> Seq(Messages)]]
    /\ to_sub \in [Servers -> [Subscribers -> AtMostOne(Messages)]]
    /\ sub_acks \in [Servers -> [Subscribers -> 0..1]]

\* What server v has received from proxy p, stored or about to be.
Accepted(v, p) ==
    stored[v][p] \o (IF handler[v][p] = "acked" THEN current[v][p] ELSE << >>)

(***************************************************************************)
(* A batch reported as SUCCESS to its clients was received by Quorum       *)
(* servers.  The worker counts whatever ACK it reads next towards the item *)
(* it popped last and never compares sequence numbers, so this rests on    *)
(* the two never getting out of step.                                      *)
(***************************************************************************)
SuccessBackedByQuorum ==
    \A p \in Proxies : \A n \in 1..Len(result[p]) :
        result[p][n] = "SUCCESS" =>
            Cardinality({v \in Servers : n <= Len(Accepted(v, p))}) >= Quorum

(***************************************************************************)
(* What a server receives, stores and passes on from a proxy is a prefix   *)
(* of what the proxy sent, whatever broke on the way: a server never holds *)
(* a batch without all of its predecessors.                                *)
(***************************************************************************)
ServersHoldPrefixes ==
    \A v \in Servers, p \in Proxies :
        IsPrefix(Accepted(v, p) \o to_server[p][v], sent[p])

(***************************************************************************)
(* An entry in a subscriber's log is stored, as the same batch for the     *)
(* same sequence number, by Quorum servers.                                *)
(***************************************************************************)
ReadsAreQuorumStored ==
    \A u \in Subscribers : \A n \in 1..Len(trk[u].log) :
        Cardinality({v \in Servers : \E p \in Proxies :
            n <= Len(stored[v][p]) /\ stored[v][p][n].batch = trk[u].log[n]}) >= Quorum

(***************************************************************************)
(* What a client was told is in the log is what every subscriber finds     *)
(* there: a batch answered with SUCCESS is the log's entry at its sequence *)
(* number, in every log that goes that far.                                *)
(***************************************************************************)
AcknowledgedIsLogged ==
    \A p \in Proxies, u \in Subscribers : \A n \in 1..Len(result[p]) :
        (result[p][n] = "SUCCESS" /\ n <= Len(trk[u].log))
            => trk[u].log[n] = sent[p][n].batch

----------------------------------------------------------------------------
\* send_out_batch gets an answer from replicate_bytes, whichever worker
\* connects late, fails or loses its server, unless the proxy itself crashes.
EveryBatchAnswered ==
    \A p \in Proxies : (proxy_pc[p] # "idle") ~> (proxy_pc[p] = "idle" \/ p \notin up)

\* A node whose shutdown() has begun gets to its end: shutdown() joins its
\* workers while it holds the mutex that broadcast() needs, and they may be
\* connecting, asleep or waiting for an ACK of a node that is ending too.
ShutdownReturns ==
    (closing # {}) ~> (closing \cap up = {})

\* A batch reported as SUCCESS reaches the log of every subscriber, although
\* a server that has acknowledged it may crash before it stores it.
SuccessIsRead ==
    \A p \in Proxies, n \in SeqNums, u \in Subscribers :
        (n <= Len(result[p]) /\ result[p][n] = "SUCCESS") ~> (n <= Len(trk[u].log))

(***************************************************************************)
(* The data path of one proxy implements the shared log.                   *)
(***************************************************************************)
TheProxy == CHOOSE p \in Proxies : TRUE

Log == INSTANCE SharedLog WITH
    order <- [n \in 1..Len(sent[TheProxy]) |-> sent[TheProxy][n].batch],
    answered <- {n \in 1..Len(result[TheProxy]) : result[TheProxy][n] = "SUCCESS"},
    logs <- [u \in Subscribers |-> trk[u].log]

ImplementsSharedLog == Log!Spec
=============================================================================
