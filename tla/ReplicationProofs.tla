----------------------------- MODULE ReplicationProofs -----------------------------
(***************************************************************************)
(* Proofs about the data path, for any finite sets of proxies, servers and *)
(* subscribers, any batches, quorum, number of messages and failures.      *)
(***************************************************************************)
EXTENDS Replication, LogTrackerOpsProofs, FiniteSetTheorems, SequenceTheorems, TLAPS

----------------------------------------------------------------------------
(***************************************************************************)
(* Sequences with at most one element.                                     *)
(***************************************************************************)
LEMMA Single ==
    ASSUME NEW m
    PROVE  Append(<< >>, m) = <<m>> /\ Head(<<m>>) = m /\ Tail(<<m>>) = << >> /\ <<m>> # << >>
           /\ Len(<<m>>) = 1
OBVIOUS

LEMMA AtMostOneFacts ==
    ASSUME NEW S, NEW x
    PROVE  /\ x \in AtMostOne(S) <=> x = << >> \/ \E m \in S : x = <<m>>
           /\ x \in AtMostOne(S) /\ x # << >> =>
                 x = <<Head(x)>> /\ Head(x) \in S /\ Tail(x) = << >>
<1>1. x \in AtMostOne(S) <=> x = << >> \/ \E m \in S : x = <<m>>
  BY Zenon DEF AtMostOne
<1> QED
  BY <1>1, Single

----------------------------------------------------------------------------
(***************************************************************************)
(* The way of a proxy's messages to one server, in terms of the values at  *)
(* that proxy and server: S what the proxy sent, st what the server        *)
(* stored, h and cur its connection thread, w, q and inf the worker, ts    *)
(* and tp the two directions of the connection.                            *)
(***************************************************************************)
SentOK(p, S) ==
    /\ S \in Seq(Messages)
    /\ Len(S) <= MaxSeq
    /\ \A n \in 1..Len(S) : S[n].seq = n /\ S[n].sender = p

\* How many messages the server has received.
Got(h, st) == IF h = "acked" THEN Len(st) + 1 ELSE Len(st)

HandlerOK(S, st, h, cur) ==
    /\ Got(h, st) <= Len(S)
    /\ \A i \in 1..Len(st) : st[i] = S[i]
    /\ h = "recv" => cur = << >>
    /\ h = "acked" => cur = << S[Len(st) + 1] >>
    /\ h = "stored" => Len(st) > 0 /\ cur = << S[Len(st)] >>

\* q holds what was sent after the first k messages.
QueueOK(S, k, q) ==
    /\ Len(q) = Len(S) - k
    /\ \A i \in 1..Len(q) : q[i] = S[k + i]

LinkOK(S, g, w, q, inf, ts, tp) ==
    /\ ts = << >> \/ (g < Len(S) /\ ts = << S[g + 1] >>)
    /\ w \in {"connecting", "ready"} =>
          ts = << >> /\ tp = << >> /\ inf = 0 /\ QueueOK(S, g, q)
    /\ w = "waiting" =>
          /\ QueueOK(S, inf, q) /\ inf \in 1..Len(S)
          /\ \/ ts = << >> /\ tp = << inf >> /\ inf = g
             \/ ts # << >> /\ tp = << >> /\ inf = g + 1
    /\ w \in {"stopped", "exited"} => tp = << >> /\ inf = 0

----------------------------------------------------------------------------
(***************************************************************************)
(* What each operation does to these values.                               *)
(***************************************************************************)
LEMMA QueuePop ==
    ASSUME NEW p, NEW S, SentOK(p, S), NEW k \in Nat, NEW q \in Seq(Messages),
           QueueOK(S, k, q), q # << >>
    PROVE  k < Len(S) /\ Head(q) = S[k + 1] /\ Head(q).seq = k + 1 /\ QueueOK(S, k + 1, Tail(q))
<1>1. /\ Len(S) \in Nat /\ Len(q) \in Nat /\ Len(q) > 0 /\ Head(q) = q[1]
      /\ Tail(q) \in Seq(Messages) /\ Len(Tail(q)) = Len(q) - 1
      /\ \A i \in 1..Len(Tail(q)) : Tail(q)[i] = q[i + 1]
  BY DEF SentOK
<1>2. k < Len(S) /\ Head(q) = S[k + 1] /\ Head(q).seq = k + 1
  BY <1>1 DEF QueueOK, SentOK
<1>3. QueueOK(S, k + 1, Tail(q))
  BY <1>1 DEF QueueOK
<1> QED
  BY <1>2, <1>3

LEMMA QueuePush ==
    ASSUME NEW p, NEW S, SentOK(p, S), NEW k \in Nat, k <= Len(S), NEW q \in Seq(Messages),
           QueueOK(S, k, q), NEW m \in Messages
    PROVE  QueueOK(Append(S, m), k, Append(q, m))
BY DEF QueueOK, SentOK

\* A message handed to replicate_bytes.
AfterAppend(S, m, st, h, cur, w, q, inf, ts, tp) ==
    /\ HandlerOK(Append(S, m), st, h, cur)
    /\ LinkOK(Append(S, m), Got(h, st), w, Append(q, m), inf, ts, tp)

LEMMA LinkAppend ==
    ASSUME NEW p, NEW S, SentOK(p, S), NEW m \in Messages,
           NEW st \in Seq(Messages), NEW h \in {"recv", "acked", "stored"}, NEW cur,
           NEW w, NEW q \in Seq(Messages), NEW inf \in 0..MaxSeq, NEW ts, NEW tp,
           HandlerOK(S, st, h, cur), LinkOK(S, Got(h, st), w, q, inf, ts, tp)
    PROVE  AfterAppend(S, m, st, h, cur, w, q, inf, ts, tp)
<1>1. /\ Len(S) \in Nat /\ Len(Append(S, m)) = Len(S) + 1
      /\ \A i \in 1..Len(S) : Append(S, m)[i] = S[i]
  BY DEF SentOK
<1>2. Got(h, st) \in Nat /\ Got(h, st) <= Len(S) /\ inf \in Nat
  BY MaxSeqAssumption DEF Got, HandlerOK
<1>3. HandlerOK(Append(S, m), st, h, cur)
  BY <1>1 DEF HandlerOK, Got
<1>4. ASSUME NEW k \in Nat, k <= Len(S), QueueOK(S, k, q)
      PROVE  QueueOK(Append(S, m), k, Append(q, m))
  BY <1>4, QueuePush
<1> HIDE DEF QueueOK
<1>5. LinkOK(Append(S, m), Got(h, st), w, Append(q, m), inf, ts, tp)
  BY <1>1, <1>2, <1>4 DEF LinkOK
<1> QED
  BY <1>3, <1>5 DEF AfterAppend

\* A worker pops an item and sends it.
LEMMA LinkSend ==
    ASSUME NEW p, NEW S, SentOK(p, S), NEW g \in Nat, NEW q \in Seq(Messages), q # << >>,
           NEW inf, NEW ts, NEW tp, LinkOK(S, g, "ready", q, inf, ts, tp)
    PROVE  /\ Head(q) \in Messages /\ ts = << >>
           /\ LinkOK(S, g, "waiting", Tail(q), Head(q).seq, << Head(q) >>, tp)
<1>1. ts = << >> /\ tp = << >> /\ QueueOK(S, g, q)
  BY DEF LinkOK
<1>2. g < Len(S) /\ Head(q) = S[g + 1] /\ Head(q).seq = g + 1 /\ QueueOK(S, g + 1, Tail(q))
  BY <1>1, QueuePop
<1>3. Head(q) \in Messages /\ Len(S) \in Nat /\ << Head(q) >> # << >>
  BY DEF SentOK
<1> HIDE DEF QueueOK, SentOK
<1>4. LinkOK(S, g, "waiting", Tail(q), g + 1, << Head(q) >>, tp)
  BY <1>1, <1>2, <1>3 DEF LinkOK
<1> QED
  BY <1>1, <1>2, <1>3, <1>4

\* The worker reads an ACK: it is that of the item it has sent, which has arrived.
LEMMA LinkRecvAck ==
    ASSUME NEW S, NEW g \in Nat, NEW q, NEW inf, NEW ts, NEW tp,
           LinkOK(S, g, "waiting", q, inf, ts, tp), tp # << >>
    PROVE  /\ inf = g /\ inf \in 1..Len(S) /\ Tail(tp) = << >>
           /\ LinkOK(S, g, "ready", q, 0, ts, << >>)
<1>1. ts = << >> /\ tp = << inf >> /\ inf = g /\ inf \in 1..Len(S) /\ QueueOK(S, inf, q)
  BY DEF LinkOK
<1>2. Tail(tp) = << >>
  BY <1>1, Single
<1> HIDE DEF QueueOK
<1> QED
  BY <1>1, <1>2 DEF LinkOK

\* The connection ends, or the worker leaves its loop.
LEMMA LinkStops ==
    ASSUME NEW S, NEW g, NEW w \in {"connecting", "ready", "waiting", "stopped", "exited"},
           NEW q, NEW inf, NEW ts, NEW tp, LinkOK(S, g, w, q, inf, ts, tp),
           NEW pc \in {"stopped", "exited"}, NEW left
    PROVE  /\ LinkOK(S, g, pc, left, 0, ts, << >>)
           /\ LinkOK(S, g, pc, left, 0, << >>, << >>)
           /\ w # "waiting" => LinkOK(S, g, pc, left, inf, ts, tp)
           /\ w = "connecting" => LinkOK(S, g, "ready", q, inf, ts, tp)
<1> HIDE DEF QueueOK
<1> QED
  BY DEF LinkOK

\* The server receives the next message and acknowledges it.
AfterRecv(S, st, w, q, inf, ts, tp) ==
    /\ Head(ts) \in Messages /\ Tail(ts) = << >>
    /\ HandlerOK(S, st, "acked", << Head(ts) >>)
    /\ w # "waiting" => LinkOK(S, Got("acked", st), w, q, inf, << >>, tp)
    /\ w = "waiting" => /\ tp = << >>
                        /\ LinkOK(S, Got("acked", st), w, q, inf, << >>, << Head(ts).seq >>)

LEMMA LinkServerRecv ==
    ASSUME NEW p, NEW S, SentOK(p, S), NEW st \in Seq(Messages), NEW cur,
           HandlerOK(S, st, "recv", cur),
           NEW w \in {"connecting", "ready", "waiting", "stopped", "exited"}, NEW q,
           NEW inf, NEW ts, NEW tp, LinkOK(S, Got("recv", st), w, q, inf, ts, tp), ts # << >>
    PROVE  AfterRecv(S, st, w, q, inf, ts, tp)
<1> DEFINE g == Len(st)
<1>1. /\ Got("recv", st) = g /\ Got("acked", st) = g + 1 /\ g \in Nat /\ Len(S) \in Nat
  BY DEF Got, SentOK
<1>2. g < Len(S) /\ ts = << S[g + 1] >>
  BY <1>1 DEF LinkOK
<1>3. Head(ts) = S[g + 1] /\ Tail(ts) = << >>
  BY <1>2, Single
<1>4. S[g + 1] \in Messages /\ S[g + 1].seq = g + 1
  BY <1>1, <1>2 DEF SentOK
<1>5. HandlerOK(S, st, "acked", << Head(ts) >>)
  BY <1>1, <1>2, <1>3 DEF HandlerOK
<1> HIDE DEF g, QueueOK, SentOK
<1>6. w # "waiting" => LinkOK(S, g + 1, w, q, inf, << >>, tp)
  BY <1>1, <1>2 DEF LinkOK
<1>7. w = "waiting" => /\ tp = << >> /\ inf = g + 1
                       /\ LinkOK(S, g + 1, w, q, inf, << >>, << g + 1 >>)
  BY <1>1, <1>2 DEF LinkOK
<1> QED
  BY <1>1, <1>3, <1>4, <1>5, <1>6, <1>7 DEF AfterRecv

\* The server stores it.
LEMMA HandlerStores ==
    ASSUME NEW p, NEW S, SentOK(p, S), NEW st \in Seq(Messages), NEW cur,
           HandlerOK(S, st, "acked", cur)
    PROVE  /\ Head(cur) \in Messages
           /\ Append(st, Head(cur)) \in Seq(Messages)
           /\ HandlerOK(S, Append(st, Head(cur)), "stored", cur)
           /\ Got("stored", Append(st, Head(cur))) = Got("acked", st)
<1>1. Len(st) \in Nat /\ Len(S) \in Nat /\ Len(st) + 1 <= Len(S) /\ cur = << S[Len(st) + 1] >>
  BY DEF HandlerOK, Got, SentOK
<1>2. Head(cur) = S[Len(st) + 1] /\ S[Len(st) + 1] \in Messages
  BY <1>1, Single DEF SentOK
<1>3. /\ Append(st, Head(cur)) \in Seq(Messages)
      /\ Len(Append(st, Head(cur))) = Len(st) + 1
      /\ \A i \in 1..Len(st) : Append(st, Head(cur))[i] = st[i]
      /\ Append(st, Head(cur))[Len(st) + 1] = Head(cur)
  BY <1>2
<1>4. HandlerOK(S, Append(st, Head(cur)), "stored", cur)
  BY <1>1, <1>2, <1>3 DEF HandlerOK, Got
<1> QED
  BY <1>2, <1>3, <1>4 DEF Got

\* The message has been queued for the subscribers.
LEMMA HandlerBroadcasts ==
    ASSUME NEW p, NEW S, SentOK(p, S), NEW st \in Seq(Messages), NEW cur,
           HandlerOK(S, st, "stored", cur)
    PROVE  /\ Head(cur) \in Messages
           /\ Head(cur) = st[Len(st)] /\ Head(cur).seq = Len(st) /\ Len(st) > 0
           /\ HandlerOK(S, st, "recv", << >>)
           /\ Got("recv", st) = Got("stored", st)
<1>1. Len(st) \in Nat /\ Len(S) \in Nat /\ Len(st) <= Len(S) /\ cur = << S[Len(st)] >> /\ Len(st) > 0
  BY DEF HandlerOK, Got, SentOK
<1>2. Head(cur) = S[Len(st)] /\ S[Len(st)] \in Messages /\ S[Len(st)].seq = Len(st)
  BY <1>1, Single DEF SentOK
<1> QED
  BY <1>1, <1>2 DEF HandlerOK, Got
----------------------------------------------------------------------------
(***************************************************************************)
(* The inductive invariant.                                                *)
(***************************************************************************)
PathOK(p, v) ==
    /\ HandlerOK(sent[p], stored[v][p], handler[v][p], current[v][p])
    /\ LinkOK(sent[p], Got(handler[v][p], stored[v][p]), worker[p][v], pending_queue[p][v],
              inflight[p][v], to_server[p][v], to_proxy[p][v])

PathInv ==
    /\ \A p \in Proxies : SentOK(p, sent[p])
    /\ \A p \in Proxies, v \in Servers : PathOK(p, v)

\* The broadcaster's worker has one message out at a time, too.
SubOK(bw, ts, acks) ==
    /\ bw = "ready" => ts = << >> /\ acks = 0
    /\ bw = "waiting" => (ts = << >> /\ acks = 1) \/ (ts # << >> /\ acks = 0)
    /\ bw = "shutdown" => acks = 0

SubInv == \A v \in Servers, u \in Subscribers : SubOK(bworker[v][u], to_sub[v][u], sub_acks[v][u])

----------------------------------------------------------------------------
(***************************************************************************)
(* Types.                                                                  *)
(***************************************************************************)
LEMMA MayFailBound ==
    ASSUME TypeOK, MayFail PROVE broken + 1 \in 0..MaxFailures
<1>1. IsFiniteSet(Crashed \cup closing)
  <2>1. IsFiniteSet(Servers \cup Proxies)
    BY NodesAssumption, FS_Union
  <2>2. Crashed \cup closing \subseteq Servers \cup Proxies
    BY DEF Crashed, TypeOK
  <2> QED
    BY <2>1, <2>2, FS_Subset
<1>2. Cardinality(Crashed \cup closing) \in Nat
  BY <1>1, FS_CardinalityType
<1> QED
  BY <1>2, NodesAssumption DEF MayFail, TypeOK

(***************************************************************************)
(* The two loads of the wait loop either answer or go round once more.     *)
(***************************************************************************)
LoadFrame == UNCHANGED << lifeVars, sent, ack_count, workerVars, serverVars, bcastVars, trk >>
Looped(p) ==
    /\ LoadFrame /\ UNCHANGED result
    /\ proxy_pc[p] # "idle"
    /\ \E pc \in {"load_acks", "load_live"} : proxy_pc' = [proxy_pc EXCEPT ![p] = pc]
Answered(p) ==
    /\ LoadFrame
    /\ proxy_pc[p] # "idle"
    /\ \/ ~(ack_count[p][Len(sent[p])] < Quorum) /\ Answer(p, "SUCCESS")
       \/ Answer(p, "FAILURE")

LEMMA LoadSteps ==
    ASSUME TypeOK, PathInv, NEW p \in Proxies, LoadAcks(p) \/ LoadLiveWorkers(p)
    PROVE  Answered(p) \/ Looped(p)
<1>1. CASE LoadLiveWorkers(p)
  BY <1>1 DEF LoadLiveWorkers, Answered, Looped, LoadFrame
<1>2. CASE LoadAcks(p)
  BY <1>2 DEF LoadAcks, Answered, Looped, LoadFrame
<1> QED
  BY <1>1, <1>2

LEMMA TypeProxyStep ==
    ASSUME TypeOK, PathInv, NEW p \in Proxies, ProxyStep(p)
    PROVE  TypeOK'
<1>1. ASSUME NEW batch \in Batches, SendOutBatch(p, batch) PROVE TypeOK'
  <2> DEFINE m == [sender |-> p, seq |-> Len(sent[p]) + 1, batch |-> batch]
  <2>1. m \in Messages
    BY <1>1, MaxSeqAssumption DEF SendOutBatch, TypeOK, Messages, SeqNums
  <2>2. sent' \in [Proxies -> Seq(Messages)]
    BY <1>1, <2>1 DEF SendOutBatch, TypeOK
  <2>3. pending_queue' \in [Proxies -> [Servers -> Seq(Messages)]]
    <3>1. [v \in Servers |-> Append(pending_queue[p][v], m)] \in [Servers -> Seq(Messages)]
      BY <2>1 DEF TypeOK
    <3> QED
      BY <1>1, <3>1 DEF SendOutBatch, TypeOK
  <2>4. proxy_pc' \in [Proxies -> {"idle", "load_acks", "load_live"}]
    BY <1>1 DEF SendOutBatch, TypeOK
  <2> QED
    BY <1>1, <2>2, <2>3, <2>4
    DEF SendOutBatch, TypeOK, lifeVars, serverVars, bcastVars
<1>2. ASSUME Answered(p) \/ Looped(p) PROVE TypeOK'
  <2>1. proxy_pc' \in [Proxies -> {"idle", "load_acks", "load_live"}]
    BY <1>2 DEF Answered, Looped, Answer, TypeOK
  <2>2. result' \in [Proxies -> Seq({"SUCCESS", "FAILURE"})]
    <3>1. ASSUME NEW r \in {"SUCCESS", "FAILURE"}, Answer(p, r)
          PROVE  result' \in [Proxies -> Seq({"SUCCESS", "FAILURE"})]
      <4>1. Append(result[p], r) \in Seq({"SUCCESS", "FAILURE"})
        BY DEF TypeOK
      <4> QED
        BY <3>1, <4>1 DEF Answer, TypeOK
    <3> QED
      BY <1>2, <3>1 DEF Answered, Looped, TypeOK
  <2> QED
    BY <1>2, <2>1, <2>2 DEF Answered, Looped, LoadFrame, TypeOK, lifeVars, workerVars, serverVars, bcastVars
<1>3. LoadAcks(p) \/ LoadLiveWorkers(p) => Answered(p) \/ Looped(p)
  BY LoadSteps
<1> QED
  BY <1>1, <1>2, <1>3 DEF ProxyStep

----------------------------------------------------------------------------
(***************************************************************************)
(* Steps that change the state of one proxy and server only.               *)
(***************************************************************************)
\* g is f with the value c at [a][b].
Sets(g, f, a, b, c) == g = [f EXCEPT ![a][b] = c] \/ (g = f /\ c = f[a][b])

Updated(A, B, C, g, f, a, b, c) ==
    /\ g \in [A -> [B -> C]]
    /\ g[a][b] = c
    /\ \A x \in A, y \in B : ~(x = a /\ y = b) => g[x][y] = f[x][y]

LEMMA SetsFacts ==
    ASSUME NEW A, NEW B, NEW C, NEW f \in [A -> [B -> C]], NEW g, NEW a \in A, NEW b \in B,
           NEW c \in C, Sets(g, f, a, b, c)
    PROVE  Updated(A, B, C, g, f, a, b, c)
BY DEF Sets, Updated

WorkerStates == {"connecting", "ready", "waiting", "stopped", "exited"}

WorkerTypes ==
    /\ worker \in [Proxies -> [Servers -> WorkerStates]]
    /\ pending_queue \in [Proxies -> [Servers -> Seq(Messages)]]
    /\ inflight \in [Proxies -> [Servers -> 0..MaxSeq]]
    /\ to_server \in [Proxies -> [Servers -> AtMostOne(Messages)]]
    /\ to_proxy \in [Proxies -> [Servers -> AtMostOne(SeqNums)]]

LEMMA WorkerFrame ==
    ASSUME WorkerTypes, PathInv, NEW p \in Proxies, NEW v \in Servers,
           NEW w \in WorkerStates, NEW q \in Seq(Messages), NEW inf \in 0..MaxSeq,
           NEW ts \in AtMostOne(Messages), NEW tp \in AtMostOne(SeqNums),
           LinkOK(sent[p], Got(handler[v][p], stored[v][p]), w, q, inf, ts, tp),
           Sets(worker', worker, p, v, w),
           Sets(pending_queue', pending_queue, p, v, q),
           Sets(inflight', inflight, p, v, inf),
           Sets(to_server', to_server, p, v, ts),
           Sets(to_proxy', to_proxy, p, v, tp),
           UNCHANGED << sent, handler, current, stored >>
    PROVE  WorkerTypes' /\ PathInv'
<1>1. Updated(Proxies, Servers, WorkerStates, worker', worker, p, v, w)
  BY SetsFacts, Zenon DEF WorkerTypes
<1>2. Updated(Proxies, Servers, Seq(Messages), pending_queue', pending_queue, p, v, q)
  BY SetsFacts, Zenon DEF WorkerTypes
<1>3. Updated(Proxies, Servers, 0..MaxSeq, inflight', inflight, p, v, inf)
  BY SetsFacts, Zenon DEF WorkerTypes
<1>4. Updated(Proxies, Servers, AtMostOne(Messages), to_server', to_server, p, v, ts)
  BY SetsFacts, Zenon DEF WorkerTypes
<1>5. Updated(Proxies, Servers, AtMostOne(SeqNums), to_proxy', to_proxy, p, v, tp)
  BY SetsFacts, Zenon DEF WorkerTypes
<1>6. WorkerTypes'
  BY <1>1, <1>2, <1>3, <1>4, <1>5 DEF WorkerTypes, Updated
<1>7. ASSUME NEW x \in Proxies, NEW y \in Servers PROVE PathOK(x, y)'
  <2> HIDE DEF HandlerOK, LinkOK, Got
  <2>1. CASE x = p /\ y = v
    BY <2>1, <1>1, <1>2, <1>3, <1>4, <1>5 DEF PathInv, PathOK, Updated
  <2>2. CASE ~(x = p /\ y = v)
    BY <2>2, <1>1, <1>2, <1>3, <1>4, <1>5 DEF PathInv, PathOK, Updated
  <2> QED
    BY <2>1, <2>2
<1>8. \A x \in Proxies : SentOK(x, sent'[x])
  BY DEF PathInv
<1> QED
  BY <1>6, <1>7, <1>8, Zenon DEF PathInv, PathOK

\* The values at one proxy and server.
LEMMA PathValues ==
    ASSUME TypeOK, PathInv, NEW p \in Proxies, NEW v \in Servers
    PROVE  /\ WorkerTypes
           /\ worker[p][v] \in WorkerStates /\ pending_queue[p][v] \in Seq(Messages)
           /\ inflight[p][v] \in 0..MaxSeq
           /\ to_server[p][v] \in AtMostOne(Messages) /\ to_proxy[p][v] \in AtMostOne(SeqNums)
           /\ handler[v][p] \in {"recv", "acked", "stored"}
           /\ stored[v][p] \in Seq(Messages) /\ current[v][p] \in AtMostOne(Messages)
           /\ Got(handler[v][p], stored[v][p]) \in Nat
           /\ SentOK(p, sent[p])
           /\ HandlerOK(sent[p], stored[v][p], handler[v][p], current[v][p])
           /\ LinkOK(sent[p], Got(handler[v][p], stored[v][p]), worker[p][v],
                     pending_queue[p][v], inflight[p][v], to_server[p][v], to_proxy[p][v])
<1>1. /\ WorkerTypes
      /\ handler[v][p] \in {"recv", "acked", "stored"}
      /\ stored[v][p] \in Seq(Messages) /\ current[v][p] \in AtMostOne(Messages)
  BY DEF TypeOK, WorkerTypes, WorkerStates
<1>2. /\ worker[p][v] \in WorkerStates /\ pending_queue[p][v] \in Seq(Messages)
      /\ inflight[p][v] \in 0..MaxSeq
      /\ to_server[p][v] \in AtMostOne(Messages) /\ to_proxy[p][v] \in AtMostOne(SeqNums)
  BY <1>1 DEF WorkerTypes
<1>3. Got(handler[v][p], stored[v][p]) \in Nat
  BY <1>1 DEF Got
<1> QED
  BY <1>1, <1>2, <1>3 DEF PathInv, PathOK

LEMMA NoneAtMostOne == ASSUME NEW S PROVE << >> \in AtMostOne(S)
BY AtMostOneFacts

LEMMA WorkerPath ==
    ASSUME TypeOK, PathInv, NEW p \in Proxies, NEW v \in Servers,
           WorkerStep(p, v) \/ WorkerFails(p, v)
    PROVE  WorkerTypes' /\ PathInv'
<1> DEFINE g == Got(handler[v][p], stored[v][p])
           w == worker[p][v]
           q == pending_queue[p][v]
           inf == inflight[p][v]
           ts == to_server[p][v]
           tp == to_proxy[p][v]
<1>1. /\ WorkerTypes /\ PathInv /\ p \in Proxies /\ v \in Servers
      /\ w \in WorkerStates /\ q \in Seq(Messages) /\ inf \in 0..MaxSeq
      /\ ts \in AtMostOne(Messages) /\ tp \in AtMostOne(SeqNums) /\ g \in Nat
      /\ SentOK(p, sent[p]) /\ LinkOK(sent[p], g, w, q, inf, ts, tp)
  BY PathValues
<1>2. /\ {"ready", "waiting", "stopped", "exited"} \subseteq WorkerStates
      /\ 0 \in 0..MaxSeq /\ << >> \in AtMostOne(Messages) /\ << >> \in AtMostOne(SeqNums)
  BY NoneAtMostOne, MaxSeqAssumption DEF WorkerStates
<1>3. CASE WorkerConnect(p, v)
  <2>1. w = "connecting" /\ Sets(worker', worker, p, v, "ready")
    BY <1>3 DEF WorkerConnect, Sets
  <2>2. LinkOK(sent[p], g, "ready", q, inf, ts, tp)
    BY <1>1, <2>1, LinkStops DEF WorkerStates
  <2>3. /\ Sets(pending_queue', pending_queue, p, v, q) /\ Sets(inflight', inflight, p, v, inf)
        /\ Sets(to_server', to_server, p, v, ts) /\ Sets(to_proxy', to_proxy, p, v, tp)
        /\ UNCHANGED << sent, handler, current, stored >>
    BY <1>3 DEF WorkerConnect, Sets, proxyVars, serverVars
  <2> HIDE DEF g, w, q, inf, ts, tp
  <2> QED
    BY <1>1, <1>2, <2>1, <2>2, <2>3, WorkerFrame DEF g
<1>4. CASE WorkerSend(p, v)
  <2>1. w = "ready" /\ q # << >>
    BY <1>4 DEF WorkerSend, PopItem
  <2>2. /\ Head(q) \in Messages /\ ts = << >>
        /\ LinkOK(sent[p], g, "waiting", Tail(q), Head(q).seq, << Head(q) >>, tp)
    BY <1>1, <2>1, LinkSend
  <2>3. Tail(q) \in Seq(Messages) /\ Head(q).seq \in 0..MaxSeq /\ << Head(q) >> \in AtMostOne(Messages)
    <3>1. Tail(q) \in Seq(Messages)
      BY <1>1, <2>1
    <3>2. Head(q).seq \in 0..MaxSeq
      BY <2>2, MaxSeqAssumption DEF Messages, SeqNums
    <3> QED
      BY <2>2, <3>1, <3>2, AtMostOneFacts
  <2>4. /\ Sets(worker', worker, p, v, "waiting")
        /\ Sets(pending_queue', pending_queue, p, v, Tail(q))
        /\ Sets(inflight', inflight, p, v, Head(q).seq)
        /\ Sets(to_proxy', to_proxy, p, v, tp)
        /\ UNCHANGED << sent, handler, current, stored >>
    BY <1>4 DEF WorkerSend, PopItem, Sets, proxyVars, serverVars
  <2>5. Sets(to_server', to_server, p, v, << Head(q) >>)
    <3>1. Append(ts, Head(q)) = << Head(q) >>
      BY <2>2, Single
    <3> QED
      BY <1>4, <3>1 DEF WorkerSend, Sets
  <2> HIDE DEF g, w, q, inf, ts, tp
  <2> QED
    BY <1>1, <1>2, <2>2, <2>3, <2>4, <2>5, WorkerFrame DEF g
<1>5. CASE WorkerRecvAck(p, v)
  <2>1. w = "waiting" /\ tp # << >>
    BY <1>5 DEF WorkerRecvAck
  <2>2. Tail(tp) = << >> /\ LinkOK(sent[p], g, "ready", q, 0, ts, << >>)
    <3>1. LinkOK(sent[p], g, "waiting", q, inf, ts, tp)
      BY <1>1, <2>1
    <3> HIDE DEF g, w, q, inf, ts, tp
    <3> QED
      BY <1>1, <2>1, <3>1, LinkRecvAck
  <2>3. /\ Sets(worker', worker, p, v, "ready")
        /\ Sets(pending_queue', pending_queue, p, v, q)
        /\ Sets(inflight', inflight, p, v, 0)
        /\ Sets(to_server', to_server, p, v, ts)
        /\ UNCHANGED << sent, handler, current, stored >>
    BY <1>5 DEF WorkerRecvAck, Sets, serverVars
  <2>4. Sets(to_proxy', to_proxy, p, v, << >>)
    BY <1>5, <2>2 DEF WorkerRecvAck, Sets
  <2> HIDE DEF g, w, q, inf, ts, tp
  <2> QED
    BY <1>1, <1>2, <2>2, <2>3, <2>4, WorkerFrame DEF g
<1>6. CASE WorkerStops(p, v) \/ WorkerExit(p, v)
  <2>1. PICK pc \in {"stopped", "exited"} : Sets(worker', worker, p, v, pc)
    BY <1>6 DEF WorkerStops, WorkerExit, Sets
  <2>2. w # "waiting"
    BY <1>6 DEF WorkerStops, WorkerExit
  <2>3. LinkOK(sent[p], g, pc, q, inf, ts, tp) /\ pc \in WorkerStates
    BY <1>1, <1>2, <2>1, <2>2, LinkStops DEF WorkerStates
  <2>4. /\ Sets(pending_queue', pending_queue, p, v, q) /\ Sets(inflight', inflight, p, v, inf)
        /\ Sets(to_server', to_server, p, v, ts) /\ Sets(to_proxy', to_proxy, p, v, tp)
        /\ UNCHANGED << sent, handler, current, stored >>
    BY <1>6 DEF WorkerStops, WorkerExit, Sets, proxyVars, serverVars
  <2> HIDE DEF g, w, q, inf, ts, tp
  <2> QED
    BY <1>1, <2>1, <2>3, <2>4, WorkerFrame DEF g
<1>7. CASE WorkerRecvFails(p, v)
  <2>1. PICK left \in {ts, << >>} : Sets(to_server', to_server, p, v, left)
    BY <1>7 DEF WorkerRecvFails, Sets
  <2>2. LinkOK(sent[p], g, "stopped", q, 0, left, << >>) /\ left \in AtMostOne(Messages)
    <3> HIDE DEF g, w, q, inf, ts, tp
    <3>1. /\ LinkOK(sent[p], g, "stopped", q, 0, ts, << >>)
          /\ LinkOK(sent[p], g, "stopped", q, 0, << >>, << >>)
      BY <1>1, LinkStops DEF WorkerStates
    <3> QED
      BY <1>1, <1>2, <2>1, <3>1
  <2>3. /\ Sets(worker', worker, p, v, "stopped")
        /\ Sets(pending_queue', pending_queue, p, v, q)
        /\ Sets(inflight', inflight, p, v, 0)
        /\ Sets(to_proxy', to_proxy, p, v, << >>)
        /\ UNCHANGED << sent, handler, current, stored >>
    BY <1>7 DEF WorkerRecvFails, Sets, proxyVars, serverVars
  <2> HIDE DEF g, w, q, inf, ts, tp
  <2> QED
    BY <1>1, <1>2, <2>1, <2>2, <2>3, WorkerFrame DEF g
<1>8. CASE WorkerSendFails(p, v)
  <2>1. w = "ready" /\ q # << >>
    BY <1>8 DEF WorkerSendFails, PopItem
  <2>2. LinkOK(sent[p], g, "stopped", Tail(q), inf, ts, tp) /\ Tail(q) \in Seq(Messages)
    BY <1>1, <2>1, LinkStops DEF WorkerStates
  <2>3. /\ Sets(worker', worker, p, v, "stopped")
        /\ Sets(pending_queue', pending_queue, p, v, Tail(q))
        /\ Sets(inflight', inflight, p, v, inf)
        /\ Sets(to_server', to_server, p, v, ts) /\ Sets(to_proxy', to_proxy, p, v, tp)
        /\ UNCHANGED << sent, handler, current, stored >>
    BY <1>8 DEF WorkerSendFails, PopItem, Sets, proxyVars, serverVars
  <2> HIDE DEF g, w, q, inf, ts, tp
  <2> QED
    BY <1>1, <1>2, <2>2, <2>3, WorkerFrame DEF g
<1> QED
  BY <1>3, <1>4, <1>5, <1>6, <1>7, <1>8 DEF WorkerStep, WorkerFails

LEMMA WaitingItem ==
    ASSUME TypeOK, PathInv, NEW p \in Proxies, NEW v \in Servers, worker[p][v] = "waiting"
    PROVE  inflight[p][v] \in SeqNums /\ inflight[p][v] <= Len(sent[p])
<1>1. SentOK(p, sent[p]) /\ PathOK(p, v)
  BY DEF PathInv
<1>2. inflight[p][v] \in 1..Len(sent[p])
  BY <1>1 DEF PathOK, LinkOK
<1> QED
  BY <1>1, <1>2, MaxSeqAssumption DEF SentOK, SeqNums

LEMMA TypeWorkerStep ==
    ASSUME TypeOK, PathInv, NEW p \in Proxies, NEW v \in Servers,
           WorkerStep(p, v) \/ WorkerFails(p, v)
    PROVE  TypeOK'
<1>1. WorkerTypes'
  BY WorkerPath
<1>2. broken' \in 0..MaxFailures /\ up' = up /\ closing' = closing
  <2>1. CASE WorkerStep(p, v)
    BY <2>1 DEF TypeOK, WorkerStep, WorkerConnect, WorkerSend, WorkerRecvAck, WorkerStops,
                WorkerExit, lifeVars
  <2>2. CASE WorkerFails(p, v)
    BY <2>2, MayFailBound DEF TypeOK, WorkerFails, WorkerRecvFails, WorkerSendFails, Breaks
  <2> QED
    BY <2>1, <2>2
<1>3. ack_count' \in [Proxies -> [SeqNums -> Nat]]
  <2>1. CASE WorkerRecvAck(p, v)
    <3>1. inflight[p][v] \in SeqNums
      BY <2>1, WaitingItem DEF WorkerRecvAck
    <3> QED
      BY <2>1, <3>1 DEF WorkerRecvAck, TypeOK
  <2>2. CASE ~WorkerRecvAck(p, v)
    BY <2>2 DEF TypeOK, WorkerStep, WorkerConnect, WorkerSend, WorkerStops,
                WorkerExit, WorkerFails, WorkerRecvFails, WorkerSendFails, proxyVars
  <2> QED
    BY <2>1, <2>2
<1>4. UNCHANGED << proxy_pc, sent, result, handler, current, stored, bworker, bqueue, to_sub, sub_acks >>
  BY DEF WorkerStep, WorkerConnect, WorkerSend, WorkerRecvAck, WorkerStops, WorkerExit,
         WorkerFails, WorkerRecvFails, WorkerSendFails, proxyVars, serverVars, bcastVars
<1> QED
  BY <1>1, <1>2, <1>3, <1>4 DEF TypeOK, WorkerTypes, WorkerStates

----------------------------------------------------------------------------
(***************************************************************************)
(* The server's connection thread.                                         *)
(***************************************************************************)
HandlerStates == {"recv", "acked", "stored"}

ServerTypes ==
    /\ handler \in [Servers -> [Proxies -> HandlerStates]]
    /\ current \in [Servers -> [Proxies -> AtMostOne(Messages)]]
    /\ stored \in [Servers -> [Proxies -> Seq(Messages)]]

LEMMA ServerFrame ==
    ASSUME WorkerTypes, ServerTypes, PathInv, NEW p \in Proxies, NEW v \in Servers,
           NEW h \in HandlerStates, NEW cur \in AtMostOne(Messages), NEW st \in Seq(Messages),
           NEW ts \in AtMostOne(Messages), NEW tp \in AtMostOne(SeqNums),
           HandlerOK(sent[p], st, h, cur),
           LinkOK(sent[p], Got(h, st), worker[p][v], pending_queue[p][v], inflight[p][v], ts, tp),
           Sets(handler', handler, v, p, h),
           Sets(current', current, v, p, cur),
           Sets(stored', stored, v, p, st),
           Sets(to_server', to_server, p, v, ts),
           Sets(to_proxy', to_proxy, p, v, tp),
           UNCHANGED << sent, worker, pending_queue, inflight >>
    PROVE  WorkerTypes' /\ ServerTypes' /\ PathInv'
<1>1. Updated(Servers, Proxies, HandlerStates, handler', handler, v, p, h)
  BY SetsFacts, Zenon DEF ServerTypes
<1>2. Updated(Servers, Proxies, AtMostOne(Messages), current', current, v, p, cur)
  BY SetsFacts, Zenon DEF ServerTypes
<1>3. Updated(Servers, Proxies, Seq(Messages), stored', stored, v, p, st)
  BY SetsFacts, Zenon DEF ServerTypes
<1>4. Updated(Proxies, Servers, AtMostOne(Messages), to_server', to_server, p, v, ts)
  BY SetsFacts, Zenon DEF WorkerTypes
<1>5. Updated(Proxies, Servers, AtMostOne(SeqNums), to_proxy', to_proxy, p, v, tp)
  BY SetsFacts, Zenon DEF WorkerTypes
<1>6. WorkerTypes' /\ ServerTypes'
  BY <1>1, <1>2, <1>3, <1>4, <1>5 DEF WorkerTypes, ServerTypes, Updated
<1>7. ASSUME NEW x \in Proxies, NEW y \in Servers PROVE PathOK(x, y)'
  <2> HIDE DEF HandlerOK, LinkOK, Got
  <2>1. CASE x = p /\ y = v
    BY <2>1, <1>1, <1>2, <1>3, <1>4, <1>5 DEF PathInv, PathOK, Updated
  <2>2. CASE ~(x = p /\ y = v)
    BY <2>2, <1>1, <1>2, <1>3, <1>4, <1>5 DEF PathInv, PathOK, Updated
  <2> QED
    BY <2>1, <2>2
<1>8. \A x \in Proxies : SentOK(x, sent'[x])
  BY DEF PathInv
<1> QED
  BY <1>6, <1>7, <1>8, Zenon DEF PathInv, PathOK

LEMMA ServerPath ==
    ASSUME TypeOK, PathInv, NEW p \in Proxies, NEW v \in Servers, ServerStep(v, p)
    PROVE  WorkerTypes' /\ ServerTypes' /\ PathInv'
<1> DEFINE h == handler[v][p]
           cur == current[v][p]
           st == stored[v][p]
           w == worker[p][v]
           q == pending_queue[p][v]
           inf == inflight[p][v]
           ts == to_server[p][v]
           tp == to_proxy[p][v]
<1>1. /\ WorkerTypes /\ ServerTypes /\ PathInv /\ p \in Proxies /\ v \in Servers
      /\ w \in WorkerStates /\ q \in Seq(Messages) /\ inf \in 0..MaxSeq
      /\ ts \in AtMostOne(Messages) /\ tp \in AtMostOne(SeqNums)
      /\ h \in HandlerStates /\ cur \in AtMostOne(Messages) /\ st \in Seq(Messages)
      /\ SentOK(p, sent[p]) /\ HandlerOK(sent[p], st, h, cur)
      /\ LinkOK(sent[p], Got(h, st), w, q, inf, ts, tp)
  <2>1. ServerTypes
    BY DEF TypeOK, ServerTypes, HandlerStates
  <2> QED
    BY <2>1, PathValues DEF HandlerStates
<1>2. /\ {"recv", "acked", "stored"} \subseteq HandlerStates
      /\ << >> \in AtMostOne(Messages) /\ << >> \in AtMostOne(SeqNums)
  BY NoneAtMostOne DEF HandlerStates
<1>3. CASE ServerRecvAndAck(v, p)
  <2> DEFINE reply == IF w = "waiting" THEN << Head(ts).seq >> ELSE tp
  <2>1. h = "recv" /\ ts # << >>
    BY <1>3 DEF ServerRecvAndAck
  <2>2. HandlerOK(sent[p], st, "recv", cur) /\ LinkOK(sent[p], Got("recv", st), w, q, inf, ts, tp)
    BY <1>1, <2>1
  <2>3. /\ Head(ts) \in Messages /\ Tail(ts) = << >>
        /\ HandlerOK(sent[p], st, "acked", << Head(ts) >>)
        /\ w # "waiting" => LinkOK(sent[p], Got("acked", st), w, q, inf, << >>, tp)
        /\ w = "waiting" =>
              /\ tp = << >>
              /\ LinkOK(sent[p], Got("acked", st), w, q, inf, << >>, << Head(ts).seq >>)
    <3>1. w \in {"connecting", "ready", "waiting", "stopped", "exited"}
      BY <1>1 DEF WorkerStates
    <3> HIDE DEF h, cur, st, w, q, inf, ts, tp
    <3>2. p \in Proxies /\ SentOK(p, sent[p]) /\ st \in Seq(Messages) /\ ts # << >>
      BY <1>1, <2>1
    <3>3. AfterRecv(sent[p], st, w, q, inf, ts, tp)
      BY <2>2, <3>1, <3>2, LinkServerRecv, Zenon
    <3> QED
      BY <3>3 DEF AfterRecv
  <2>4. /\ LinkOK(sent[p], Got("acked", st), w, q, inf, << >>, reply)
        /\ reply \in AtMostOne(SeqNums) /\ << Head(ts) >> \in AtMostOne(Messages)
    <3>1. Head(ts).seq \in SeqNums
      BY <2>3 DEF Messages
    <3> HIDE DEF h, cur, st, w, q, inf, ts, tp
    <3> QED
      BY <1>1, <2>3, <3>1, AtMostOneFacts
  <2>5. /\ Sets(handler', handler, v, p, "acked")
        /\ Sets(current', current, v, p, << Head(ts) >>)
        /\ Sets(stored', stored, v, p, st)
        /\ UNCHANGED << sent, worker, pending_queue, inflight >>
    BY <1>3 DEF ServerRecvAndAck, Sets, proxyVars
  <2>6. Sets(to_server', to_server, p, v, << >>)
    BY <1>3, <2>3 DEF ServerRecvAndAck, Sets
  <2>7. Sets(to_proxy', to_proxy, p, v, reply)
    <3>1. w = "waiting" => Append(tp, Head(ts).seq) = << Head(ts).seq >>
      BY <2>3, Single
    <3> QED
      BY <1>3, <3>1 DEF ServerRecvAndAck, Sets
  <2> HIDE DEF h, cur, st, reply, ts, tp
  <2> QED
    BY <1>1, <1>2, <2>3, <2>4, <2>5, <2>6, <2>7, ServerFrame DEF w, q, inf
<1>4. CASE ServerStore(v, p)
  <2> DEFINE m == Head(cur)
  <2>1. h = "acked" /\ HandlerOK(sent[p], st, "acked", cur)
    BY <1>1, <1>4 DEF ServerStore
  <2>2. /\ Append(st, m) \in Seq(Messages)
        /\ HandlerOK(sent[p], Append(st, m), "stored", cur)
        /\ Got("stored", Append(st, m)) = Got("acked", st)
    <3> HIDE DEF h, cur, st
    <3> QED
      BY <1>1, <2>1, HandlerStores
  <2>3. LinkOK(sent[p], Got("stored", Append(st, m)), w, q, inf, ts, tp)
    BY <1>1, <2>1, <2>2
  <2>4. /\ Sets(handler', handler, v, p, "stored")
        /\ Sets(current', current, v, p, cur)
        /\ Sets(stored', stored, v, p, Append(st, m))
        /\ Sets(to_server', to_server, p, v, ts) /\ Sets(to_proxy', to_proxy, p, v, tp)
        /\ UNCHANGED << sent, worker, pending_queue, inflight >>
    BY <1>4 DEF ServerStore, Sets, proxyVars, workerVars
  <2> HIDE DEF h, cur, st, m, ts, tp
  <2> QED
    BY <1>1, <1>2, <2>2, <2>3, <2>4, ServerFrame DEF w, q, inf
<1>5. CASE ServerBroadcast(v, p)
  <2>1. h = "stored" /\ HandlerOK(sent[p], st, "stored", cur)
    BY <1>1, <1>5 DEF ServerBroadcast
  <2>2. HandlerOK(sent[p], st, "recv", << >>) /\ Got("recv", st) = Got("stored", st)
    <3> HIDE DEF h, cur, st
    <3> QED
      BY <1>1, <2>1, HandlerBroadcasts
  <2>3. LinkOK(sent[p], Got("recv", st), w, q, inf, ts, tp)
    BY <1>1, <2>1, <2>2
  <2>4. /\ Sets(handler', handler, v, p, "recv")
        /\ Sets(current', current, v, p, << >>)
        /\ Sets(stored', stored, v, p, st)
        /\ Sets(to_server', to_server, p, v, ts) /\ Sets(to_proxy', to_proxy, p, v, tp)
        /\ UNCHANGED << sent, worker, pending_queue, inflight >>
    BY <1>5 DEF ServerBroadcast, Sets, proxyVars, workerVars
  <2> HIDE DEF h, cur, st, ts, tp
  <2> QED
    BY <1>1, <1>2, <2>2, <2>3, <2>4, ServerFrame DEF w, q, inf
<1> QED
  BY <1>3, <1>4, <1>5 DEF ServerStep

SubStates == {"ready", "waiting", "shutdown"}

SubTypes ==
    /\ bworker \in [Servers -> [Subscribers -> SubStates]]
    /\ bqueue \in [Servers -> [Subscribers -> Seq(Messages)]]
    /\ to_sub \in [Servers -> [Subscribers -> AtMostOne(Messages)]]
    /\ sub_acks \in [Servers -> [Subscribers -> 0..1]]

\* The message that a connection thread queues for the subscribers.
Wire(v, p) == [Head(current[v][p]) EXCEPT !.sender = v]

LEMMA WireType ==
    ASSUME TypeOK, PathInv, NEW p \in Proxies, NEW v \in Servers, handler[v][p] = "stored"
    PROVE  /\ Wire(v, p) \in Messages
           /\ Wire(v, p).sender = v
           /\ Len(stored[v][p]) > 0 /\ Wire(v, p).seq = Len(stored[v][p])
           /\ Wire(v, p).batch = stored[v][p][Len(stored[v][p])].batch
<1>1. /\ SentOK(p, sent[p]) /\ stored[v][p] \in Seq(Messages)
      /\ HandlerOK(sent[p], stored[v][p], "stored", current[v][p])
  BY PathValues
<1>2. /\ Head(current[v][p]) \in Messages
      /\ Head(current[v][p]) = stored[v][p][Len(stored[v][p])]
      /\ Head(current[v][p]).seq = Len(stored[v][p]) /\ Len(stored[v][p]) > 0
  BY <1>1, HandlerBroadcasts
<1> QED
  BY <1>2 DEF Wire, Messages

LEMMA TypeServerStep ==
    ASSUME TypeOK, PathInv, NEW p \in Proxies, NEW v \in Servers, ServerStep(v, p)
    PROVE  TypeOK'
<1>1. WorkerTypes' /\ ServerTypes'
  BY ServerPath
<1>2. bqueue' \in [Servers -> [Subscribers -> Seq(Messages)]]
  <2>1. CASE ServerBroadcast(v, p)
    <3>1. /\ Wire(v, p) \in Messages
          /\ bqueue' = [bqueue EXCEPT ![v] = [u \in Subscribers |-> Append(@[u], Wire(v, p))]]
      BY <2>1, WireType DEF ServerBroadcast, Wire
    <3> HIDE DEF Wire
    <3>2. [u \in Subscribers |-> Append(bqueue[v][u], Wire(v, p))] \in [Subscribers -> Seq(Messages)]
      BY <3>1 DEF TypeOK
    <3> QED
      BY <3>1, <3>2 DEF TypeOK
  <2>2. CASE ~ServerBroadcast(v, p)
    BY <2>2 DEF TypeOK, ServerStep, ServerRecvAndAck, ServerStore, bcastVars
  <2> QED
    BY <2>1, <2>2
<1>3. UNCHANGED << up, broken, closing, proxy_pc, sent, result, ack_count, bworker, to_sub, sub_acks >>
  BY DEF ServerStep, ServerRecvAndAck, ServerStore, ServerBroadcast, lifeVars, proxyVars, bcastVars
<1> QED
  BY <1>1, <1>2, <1>3 DEF TypeOK, WorkerTypes, WorkerStates, ServerTypes, HandlerStates

----------------------------------------------------------------------------
(***************************************************************************)
(* The broadcaster's workers and the subscribers.                          *)
(***************************************************************************)
LEMMA SubFrame ==
    ASSUME SubTypes, SubInv, NEW v \in Servers, NEW u \in Subscribers,
           NEW w \in SubStates, NEW q \in Seq(Messages), NEW ts \in AtMostOne(Messages),
           NEW acks \in 0..1, SubOK(w, ts, acks),
           Sets(bworker', bworker, v, u, w),
           Sets(bqueue', bqueue, v, u, q),
           Sets(to_sub', to_sub, v, u, ts),
           Sets(sub_acks', sub_acks, v, u, acks)
    PROVE  SubTypes' /\ SubInv'
<1>1. Updated(Servers, Subscribers, SubStates, bworker', bworker, v, u, w)
  BY SetsFacts, Zenon DEF SubTypes
<1>2. Updated(Servers, Subscribers, Seq(Messages), bqueue', bqueue, v, u, q)
  BY SetsFacts, Zenon DEF SubTypes
<1>3. Updated(Servers, Subscribers, AtMostOne(Messages), to_sub', to_sub, v, u, ts)
  BY SetsFacts, Zenon DEF SubTypes
<1>4. Updated(Servers, Subscribers, 0..1, sub_acks', sub_acks, v, u, acks)
  BY SetsFacts, Zenon DEF SubTypes
<1>5. SubTypes'
  BY <1>1, <1>2, <1>3, <1>4 DEF SubTypes, Updated
<1>6. SubInv'
  BY <1>1, <1>3, <1>4 DEF SubInv, Updated
<1> QED
  BY <1>5, <1>6

LEMMA SubSteps ==
    ASSUME TypeOK, SubInv, NEW v \in Servers, NEW u \in Subscribers,
           BroadcastStep(v, u) \/ BroadcastFails(v, u) \/ SubscriberRecv(v, u)
    PROVE  SubTypes' /\ SubInv'
<1> DEFINE w == bworker[v][u]
           q == bqueue[v][u]
           ts == to_sub[v][u]
           acks == sub_acks[v][u]
<1>1. /\ SubTypes /\ SubInv /\ v \in Servers /\ u \in Subscribers
      /\ w \in SubStates /\ q \in Seq(Messages) /\ ts \in AtMostOne(Messages) /\ acks \in 0..1
      /\ SubOK(w, ts, acks)
  <2>1. SubTypes
    BY DEF TypeOK, SubTypes, SubStates
  <2> QED
    BY <2>1 DEF SubInv, SubTypes
<1>2. /\ {"ready", "waiting", "shutdown"} \subseteq SubStates /\ << >> \in AtMostOne(Messages)
      /\ 0 \in 0..1
  BY NoneAtMostOne DEF SubStates
<1>3. CASE BroadcastSend(v, u)
  <2>1. w = "ready" /\ q # << >> /\ ts = << >> /\ acks = 0
    BY <1>1, <1>3 DEF BroadcastSend, SubOK
  <2>2. Tail(q) \in Seq(Messages) /\ Head(q) \in Messages
    BY <1>1, <2>1
  <2>3. << Head(q) >> \in AtMostOne(Messages) /\ SubOK("waiting", << Head(q) >>, 0)
    BY <2>2, AtMostOneFacts, Single DEF SubOK
  <2>4. /\ Sets(bworker', bworker, v, u, "waiting")
        /\ Sets(bqueue', bqueue, v, u, Tail(q))
        /\ Sets(sub_acks', sub_acks, v, u, 0)
    BY <1>3, <2>1 DEF BroadcastSend, Sets
  <2>5. Sets(to_sub', to_sub, v, u, << Head(q) >>)
    <3>1. Append(ts, Head(q)) = << Head(q) >>
      BY <2>1, Single
    <3> QED
      BY <1>3, <3>1 DEF BroadcastSend, Sets
  <2> HIDE DEF w, q, ts, acks
  <2> QED
    BY <1>1, <1>2, <2>2, <2>3, <2>4, <2>5, SubFrame
<1>4. CASE BroadcastRecvAck(v, u)
  <2>1. w = "waiting" /\ ts = << >> /\ acks = 1
    BY <1>1, <1>4 DEF BroadcastRecvAck, SubOK
  <2>2. SubOK("ready", ts, 0)
    BY <2>1 DEF SubOK
  <2>3. /\ Sets(bworker', bworker, v, u, "ready")
        /\ Sets(bqueue', bqueue, v, u, q)
        /\ Sets(to_sub', to_sub, v, u, ts)
    BY <1>4 DEF BroadcastRecvAck, Sets
  <2>4. Sets(sub_acks', sub_acks, v, u, 0)
    BY <1>4, <2>1 DEF BroadcastRecvAck, Sets
  <2> HIDE DEF w, q, ts, acks
  <2> QED
    BY <1>1, <1>2, <2>2, <2>3, <2>4, SubFrame
<1>5. CASE BroadcastFails(v, u)
  <2>1. PICK left \in {ts, << >>} : Sets(to_sub', to_sub, v, u, left)
    BY <1>5 DEF BroadcastFails, Sets
  <2>2. PICK rest \in Seq(Messages) : Sets(bqueue', bqueue, v, u, rest)
    <3>1. q # << >> => Tail(q) \in Seq(Messages)
      BY <1>1
    <3> QED
      BY <1>1, <1>5, <3>1 DEF BroadcastFails, Sets
  <2>3. SubOK("shutdown", left, 0) /\ left \in AtMostOne(Messages)
    BY <1>1, <1>2, <2>1 DEF SubOK
  <2>4. /\ Sets(bworker', bworker, v, u, "shutdown")
        /\ Sets(sub_acks', sub_acks, v, u, 0)
    BY <1>5 DEF BroadcastFails, Sets
  <2> HIDE DEF w, q, ts, acks
  <2> QED
    BY <1>1, <1>2, <2>1, <2>2, <2>3, <2>4, SubFrame
<1>6. CASE BroadcastStops(v, u)
  <2>1. w = "ready" /\ SubOK("shutdown", ts, acks)
    BY <1>1, <1>6 DEF BroadcastStops, SubOK
  <2>2. /\ Sets(bworker', bworker, v, u, "shutdown")
        /\ Sets(bqueue', bqueue, v, u, q)
        /\ Sets(to_sub', to_sub, v, u, ts)
        /\ Sets(sub_acks', sub_acks, v, u, acks)
    BY <1>6 DEF BroadcastStops, Sets
  <2> HIDE DEF w, q, ts, acks
  <2> QED
    BY <1>1, <1>2, <2>1, <2>2, SubFrame
<1>7. CASE SubscriberRecv(v, u)
  <2> DEFINE more == IF w = "waiting" THEN 1 ELSE acks
  <2>1. ts # << >> /\ Tail(ts) = << >>
    BY <1>1, <1>7, AtMostOneFacts DEF SubscriberRecv
  <2>2. SubOK(w, << >>, more) /\ more \in 0..1
    BY <1>1, <2>1 DEF SubOK
  <2>3. /\ Sets(bworker', bworker, v, u, w)
        /\ Sets(bqueue', bqueue, v, u, q)
        /\ Sets(to_sub', to_sub, v, u, << >>)
    BY <1>7, <2>1 DEF SubscriberRecv, Sets
  <2>4. Sets(sub_acks', sub_acks, v, u, more)
    <3>1. w = "waiting" => acks = 0
      BY <1>1, <2>1 DEF SubOK
    <3>2. sub_acks' = IF w = "waiting" THEN [sub_acks EXCEPT ![v][u] = acks + 1] ELSE sub_acks
      BY <1>7 DEF SubscriberRecv
    <3>3. CASE w = "waiting"
      <4>1. acks + 1 = more
        BY <3>1, <3>3
      <4>2. sub_acks' = [sub_acks EXCEPT ![v][u] = more]
        <5> HIDE DEF acks, w, more
        <5> QED
          BY <3>2, <3>3, <4>1
      <4> QED
        BY <4>2, Zenon DEF Sets
    <3>4. CASE w # "waiting"
      BY <3>2, <3>4 DEF Sets
    <3> QED
      BY <3>3, <3>4
  <2> HIDE DEF w, q, ts, acks, more
  <2> QED
    BY <1>1, <1>2, <2>2, <2>3, <2>4, SubFrame
<1> QED
  BY <1>3, <1>4, <1>5, <1>6, <1>7 DEF BroadcastStep

LEMMA TypeSubStep ==
    ASSUME TypeOK, SubInv, NEW v \in Servers, NEW u \in Subscribers,
           BroadcastStep(v, u) \/ BroadcastFails(v, u) \/ SubscriberRecv(v, u)
    PROVE  TypeOK'
<1>1. SubTypes'
  BY SubSteps
<1>2. broken' \in 0..MaxFailures
  <2>1. CASE BroadcastFails(v, u)
    BY <2>1, MayFailBound DEF BroadcastFails, Breaks
  <2>2. CASE ~BroadcastFails(v, u)
    BY <2>2 DEF TypeOK, BroadcastStep, BroadcastSend, BroadcastRecvAck, BroadcastStops,
                SubscriberRecv, lifeVars
  <2> QED
    BY <2>1, <2>2
<1>3. UNCHANGED << up, closing, proxyVars, workerVars, serverVars >>
  BY DEF BroadcastStep, BroadcastSend, BroadcastRecvAck, BroadcastStops, BroadcastFails,
         SubscriberRecv, lifeVars
<1> QED
  BY <1>1, <1>2, <1>3 DEF TypeOK, SubTypes, SubStates, proxyVars, workerVars, serverVars

LEMMA LifeSteps ==
    ASSUME TypeOK, NEW x \in Servers \cup Proxies,
           CrashServer(x) \/ CrashProxy(x) \/ Close(x) \/ Closed(x)
    PROVE  /\ TypeOK'
           /\ UNCHANGED << proxyVars, workerVars, serverVars, bcastVars, trk >>
<1>1. /\ up' \subseteq Servers \cup Proxies /\ closing' \subseteq Servers \cup Proxies
      /\ UNCHANGED broken
      /\ UNCHANGED << proxyVars, workerVars, serverVars, bcastVars, trk >>
  BY DEF CrashServer, CrashProxy, Close, Closed, TypeOK
<1> QED
  BY <1>1 DEF TypeOK, proxyVars, workerVars, serverVars, bcastVars

LEMMA ProxyPath ==
    ASSUME TypeOK, PathInv, NEW p \in Proxies, ProxyStep(p)
    PROVE  PathInv'
<1>1. ASSUME NEW batch \in Batches, SendOutBatch(p, batch) PROVE PathInv'
  <2> DEFINE m == [sender |-> p, seq |-> Len(sent[p]) + 1, batch |-> batch]
  <2>1. /\ m \in Messages /\ m.seq = Len(sent[p]) + 1 /\ m.sender = p
        /\ sent' = [sent EXCEPT ![p] = Append(@, m)]
        /\ pending_queue' = [pending_queue EXCEPT ![p] =
                                [v \in Servers |-> Append(@[v], m)]]
        /\ Len(sent[p]) < MaxSeq
        /\ UNCHANGED << worker, inflight, to_server, to_proxy, handler, current, stored >>
    BY <1>1, MaxSeqAssumption DEF SendOutBatch, TypeOK, Messages, SeqNums, serverVars
  <2> HIDE DEF m
  <2>2. /\ sent'[p] = Append(sent[p], m)
        /\ \A x \in Proxies : x # p => sent'[x] = sent[x]
        /\ \A v \in Servers : pending_queue'[p][v] = Append(pending_queue[p][v], m)
        /\ \A x \in Proxies, v \in Servers : x # p => pending_queue'[x][v] = pending_queue[x][v]
    BY <2>1 DEF TypeOK
  <2>3. SentOK(p, Append(sent[p], m))
    <3>1. SentOK(p, sent[p])
      BY DEF PathInv
    <3>2. /\ Len(sent[p]) \in Nat /\ Append(sent[p], m) \in Seq(Messages)
          /\ Len(Append(sent[p], m)) = Len(sent[p]) + 1
          /\ Append(sent[p], m)[Len(sent[p]) + 1] = m
          /\ \A i \in 1..Len(sent[p]) : Append(sent[p], m)[i] = sent[p][i]
      BY <2>1, <3>1 DEF SentOK
    <3> QED
      BY <2>1, <3>1, <3>2, MaxSeqAssumption DEF SentOK
  <2>4. ASSUME NEW x \in Proxies, NEW v \in Servers PROVE PathOK(x, v)'
    <3>1. CASE x = p
      <4>1. /\ SentOK(p, sent[p]) /\ stored[v][p] \in Seq(Messages)
            /\ handler[v][p] \in {"recv", "acked", "stored"}
            /\ pending_queue[p][v] \in Seq(Messages) /\ inflight[p][v] \in 0..MaxSeq
            /\ HandlerOK(sent[p], stored[v][p], handler[v][p], current[v][p])
            /\ LinkOK(sent[p], Got(handler[v][p], stored[v][p]), worker[p][v],
                      pending_queue[p][v], inflight[p][v], to_server[p][v], to_proxy[p][v])
        BY PathValues
      <4>2. AfterAppend(sent[p], m, stored[v][p], handler[v][p], current[v][p], worker[p][v],
                        pending_queue[p][v], inflight[p][v], to_server[p][v], to_proxy[p][v])
        BY <2>1, <4>1, LinkAppend, Zenon
      <4> HIDE DEF HandlerOK, LinkOK, Got
      <4> QED
        BY <2>1, <2>2, <3>1, <4>2 DEF PathOK, AfterAppend
    <3>2. CASE x # p
      <4> HIDE DEF HandlerOK, LinkOK, Got
      <4> QED
        BY <2>1, <2>2, <3>2 DEF PathInv, PathOK
    <3> QED
      BY <3>1, <3>2
  <2>5. ASSUME NEW x \in Proxies PROVE SentOK(x, sent'[x])
    <3> HIDE DEF SentOK
    <3> QED
      BY <2>2, <2>3 DEF PathInv
  <2> QED
    BY <2>4, <2>5, Zenon DEF PathInv
<1>2. CASE LoadAcks(p) \/ LoadLiveWorkers(p)
  <2>1. UNCHANGED << sent, workerVars, serverVars >>
    BY <1>2 DEF LoadAcks, LoadLiveWorkers
  <2> HIDE DEF SentOK, HandlerOK, LinkOK, Got
  <2> QED
    BY <2>1 DEF PathInv, PathOK, workerVars, serverVars
<1> QED
  BY <1>1, <1>2 DEF ProxyStep

----------------------------------------------------------------------------
(***************************************************************************)
(* What a step can be, and the invariants so far.                          *)
(***************************************************************************)
DataVars == << proxyVars, workerVars, serverVars, bcastVars, trk >>

LEMMA StepKinds ==
    ASSUME TypeOK, [Next]_vars
    PROVE  \/ \E p \in Proxies : ProxyStep(p)
           \/ \E p \in Proxies, v \in Servers : WorkerStep(p, v) \/ WorkerFails(p, v)
           \/ \E p \in Proxies, v \in Servers : ServerStep(v, p)
           \/ \E v \in Servers, u \in Subscribers :
                 BroadcastStep(v, u) \/ BroadcastFails(v, u) \/ SubscriberRecv(v, u)
           \/ TypeOK' /\ UNCHANGED DataVars
<1>1. CASE UNCHANGED vars
  BY <1>1 DEF vars, DataVars, TypeOK, lifeVars, proxyVars, workerVars, serverVars, bcastVars
<1>2. ASSUME NEW x \in Servers \cup Proxies,
             CrashServer(x) \/ CrashProxy(x) \/ Close(x) \/ Closed(x)
      PROVE  TypeOK' /\ UNCHANGED DataVars
  BY <1>2, LifeSteps DEF DataVars
<1>3. CASE Next
  <2> HIDE DEF DataVars
  <2> QED
    BY <1>1, <1>2, <1>3, Zenon DEF Next, Idle, ProxyCloses, ProxyClosed, ServerCloses, ServerClosed
<1> QED
  BY <1>1, <1>3

BaseInv == TypeOK /\ PathInv /\ SubInv

LEMMA BaseInit == Init => BaseInv
<1> SUFFICES ASSUME Init PROVE BaseInv
  OBVIOUS
<1>1. TypeOK
  <2>1. /\ \A S : << >> \in AtMostOne(S)
        /\ \A S : << >> \in Seq(S)
    BY NoneAtMostOne
  <2> QED
    BY <2>1, NodesAssumption, MaxSeqAssumption DEF Init, TypeOK, SeqNums
<1>2. PathInv
  <2>1. ASSUME NEW p \in Proxies PROVE SentOK(p, sent[p])
    BY MaxSeqAssumption DEF Init, SentOK
  <2>2. ASSUME NEW p \in Proxies, NEW v \in Servers PROVE PathOK(p, v)
    BY DEF Init, PathOK, HandlerOK, LinkOK, Got, QueueOK
  <2> QED
    BY <2>1, <2>2, Zenon DEF PathInv
<1>3. SubInv
  BY DEF Init, SubInv, SubOK
<1> QED
  BY <1>1, <1>2, <1>3 DEF BaseInv

LEMMA BaseStep ==
    ASSUME BaseInv, [Next]_vars PROVE BaseInv'
<1>0. TypeOK /\ PathInv /\ SubInv
  BY DEF BaseInv
<1>1. ASSUME UNCHANGED << sent, workerVars, serverVars >> PROVE PathInv'
  <2> HIDE DEF SentOK, HandlerOK, LinkOK, Got
  <2> QED
    BY <1>0, <1>1 DEF PathInv, PathOK, workerVars, serverVars
<1>2. ASSUME UNCHANGED << bworker, to_sub, sub_acks >> PROVE SubInv'
  BY <1>0, <1>2 DEF SubInv
<1>3. ASSUME NEW p \in Proxies, ProxyStep(p) PROVE BaseInv'
  <2>1. UNCHANGED bcastVars
    BY <1>3 DEF ProxyStep, SendOutBatch, LoadAcks, LoadLiveWorkers
  <2> QED
    BY <1>0, <1>2, <1>3, <2>1, TypeProxyStep, ProxyPath DEF bcastVars, BaseInv
<1>4. ASSUME NEW p \in Proxies, NEW v \in Servers, WorkerStep(p, v) \/ WorkerFails(p, v)
      PROVE  BaseInv'
  <2>1. UNCHANGED bcastVars
    BY <1>4 DEF WorkerStep, WorkerConnect, WorkerSend, WorkerRecvAck, WorkerStops, WorkerExit,
                WorkerFails, WorkerRecvFails, WorkerSendFails
  <2> QED
    BY <1>0, <1>2, <1>4, <2>1, TypeWorkerStep, WorkerPath DEF bcastVars, BaseInv
<1>5. ASSUME NEW p \in Proxies, NEW v \in Servers, ServerStep(v, p) PROVE BaseInv'
  <2>1. UNCHANGED << bworker, to_sub, sub_acks >>
    BY <1>5 DEF ServerStep, ServerRecvAndAck, ServerStore, ServerBroadcast, bcastVars
  <2> QED
    BY <1>0, <1>2, <1>5, <2>1, TypeServerStep, ServerPath DEF BaseInv
<1>6. ASSUME NEW v \in Servers, NEW u \in Subscribers,
             BroadcastStep(v, u) \/ BroadcastFails(v, u) \/ SubscriberRecv(v, u)
      PROVE  BaseInv'
  <2>1. UNCHANGED << sent, workerVars, serverVars >>
    BY <1>6 DEF BroadcastStep, BroadcastSend, BroadcastRecvAck, BroadcastStops,
                BroadcastFails, SubscriberRecv, proxyVars
  <2> QED
    BY <1>0, <1>1, <1>6, <2>1, TypeSubStep, SubSteps DEF BaseInv
<1>7. ASSUME TypeOK', UNCHANGED DataVars PROVE BaseInv'
  BY <1>0, <1>1, <1>2, <1>7 DEF DataVars, proxyVars, bcastVars, BaseInv
<1> QED
  BY <1>0, <1>3, <1>4, <1>5, <1>6, <1>7, StepKinds

(***************************************************************************)
(* Whatever breaks, every variable keeps its type: no channel holds more   *)
(* than one message or ACK, and no ACK is counted for a number that was    *)
(* not sent.                                                               *)
(***************************************************************************)
THEOREM TypeCorrect == Spec => []TypeOK
<1>1. BaseInv /\ [Next]_vars => BaseInv'
  BY BaseStep
<1>2. BaseInv => TypeOK
  BY DEF BaseInv
<1> QED
  BY BaseInit, <1>1, <1>2, PTL DEF Spec

----------------------------------------------------------------------------
(***************************************************************************)
(* Prefixes.                                                               *)
(***************************************************************************)
LEMMA PrefixByElements ==
    ASSUME NEW M, NEW s \in Seq(M), NEW t \in Seq(M), Len(s) <= Len(t),
           \A i \in 1..Len(s) : s[i] = t[i]
    PROVE  IsPrefix(s, t)
<1>1. /\ Len(s) \in Nat /\ Len(t) \in Nat
      /\ SubSeq(s, 1, Len(s)) \in Seq(M) /\ SubSeq(t, 1, Len(s)) \in Seq(M)
      /\ Len(SubSeq(s, 1, Len(s))) = Len(s) /\ Len(SubSeq(t, 1, Len(s))) = Len(s)
      /\ \A i \in 1..Len(s) : SubSeq(s, 1, Len(s))[i] = s[i] /\ SubSeq(t, 1, Len(s))[i] = t[i]
  OBVIOUS
<1>2. SubSeq(s, 1, Len(s)) = SubSeq(t, 1, Len(s))
  BY <1>1
<1> QED
  BY <1>1, <1>2 DEF IsPrefix

\* c is s with m at its end.
Extends(M, c, s, m) ==
    /\ c \in Seq(M) /\ Len(c) = Len(s) + 1
    /\ \A i \in 1..Len(s) : c[i] = s[i]
    /\ c[Len(s) + 1] = m

LEMMA ConcatOne ==
    ASSUME NEW M, NEW s \in Seq(M), NEW m \in M
    PROVE  Extends(M, s \o << m >>, s, m)
<1>1. << m >> \in Seq(M) /\ Len(<< m >>) = 1 /\ << m >>[1] = m
  OBVIOUS
<1>2. /\ s \o << m >> \in Seq(M) /\ Len(s \o << m >>) = Len(s) + Len(<< m >>)
      /\ \A i \in 1..(Len(s) + Len(<< m >>)) :
            (s \o << m >>)[i] = IF i <= Len(s) THEN s[i] ELSE << m >>[i - Len(s)]
  BY <1>1, ConcatProperties
<1> DEFINE c == s \o << m >>
           one == << m >>
<1>3. Len(s) \in Nat
  OBVIOUS
<1> HIDE DEF c, one
<1>4. /\ c \in Seq(M) /\ Len(c) = Len(s) + 1
      /\ \A i \in 1..Len(s) : c[i] = s[i]
      /\ c[Len(s) + 1] = m
  <2>1. /\ one[1] = m /\ Len(one) = 1
        /\ c \in Seq(M) /\ Len(c) = Len(s) + Len(one)
        /\ \A i \in 1..(Len(s) + Len(one)) : c[i] = IF i <= Len(s) THEN s[i] ELSE one[i - Len(s)]
    BY <1>1, <1>2, Zenon DEF c, one
  <2>2. c[Len(s) + 1] = one[Len(s) + 1 - Len(s)]
    BY <1>3, <2>1
  <2>3. Len(s) + 1 - Len(s) = 1
    BY <1>3
  <2> QED
    BY <1>3, <2>1, <2>2, <2>3
<1> QED
  BY <1>4, Zenon DEF c, Extends

\* What a server has received, and it holds exactly that much of what was sent.
Received(v, p) == Got(handler[v][p], stored[v][p])

LEMMA AcceptedIs ==
    ASSUME TypeOK, PathInv, NEW p \in Proxies, NEW v \in Servers
    PROVE  /\ Accepted(v, p) \in Seq(Messages)
           /\ Len(Accepted(v, p)) = Received(v, p)
           /\ Received(v, p) \in Nat /\ Received(v, p) <= Len(sent[p])
           /\ \A i \in 1..Received(v, p) : Accepted(v, p)[i] = sent[p][i]
<1>1. /\ stored[v][p] \in Seq(Messages) /\ Len(stored[v][p]) \in Nat
      /\ sent[p] \in Seq(Messages) /\ Len(sent[p]) \in Nat
      /\ HandlerOK(sent[p], stored[v][p], handler[v][p], current[v][p])
  BY PathValues DEF SentOK
<1>2. CASE handler[v][p] = "acked"
  <2>1. /\ Len(stored[v][p]) + 1 <= Len(sent[p])
        /\ current[v][p] = << sent[p][Len(stored[v][p]) + 1] >>
        /\ Received(v, p) = Len(stored[v][p]) + 1
        /\ \A i \in 1..Len(stored[v][p]) : stored[v][p][i] = sent[p][i]
    BY <1>1, <1>2 DEF HandlerOK, Got, Received
  <2>2. sent[p][Len(stored[v][p]) + 1] \in Messages
    BY <1>1, <2>1
  <2>3. Accepted(v, p) = stored[v][p] \o << sent[p][Len(stored[v][p]) + 1] >>
    BY <1>2, <2>1 DEF Accepted
  <2>4. Extends(Messages, Accepted(v, p), stored[v][p], sent[p][Len(stored[v][p]) + 1])
    <3>1. Extends(Messages, stored[v][p] \o << sent[p][Len(stored[v][p]) + 1] >>,
                  stored[v][p], sent[p][Len(stored[v][p]) + 1])
      BY <1>1, <2>2, ConcatOne
    <3> QED
      BY <2>3, <3>1
  <2>5. Accepted(v, p) \in Seq(Messages) /\ Len(Accepted(v, p)) = Received(v, p)
    BY <2>1, <2>4 DEF Extends
  <2>6. ASSUME NEW i \in 1..Received(v, p) PROVE Accepted(v, p)[i] = sent[p][i]
    <3>1. i \in 1..Len(stored[v][p]) \/ i = Len(stored[v][p]) + 1
      BY <1>1, <2>1
    <3> QED
      BY <2>1, <2>4, <3>1 DEF Extends
  <2> QED
    BY <1>1, <2>1, <2>5, <2>6
<1>3. CASE handler[v][p] # "acked"
  <2>1. Accepted(v, p) = stored[v][p]
    BY <1>1, <1>3 DEF Accepted
  <2>2. /\ Received(v, p) = Len(stored[v][p]) /\ Len(stored[v][p]) <= Len(sent[p])
        /\ \A i \in 1..Len(stored[v][p]) : stored[v][p][i] = sent[p][i]
    BY <1>1, <1>3 DEF HandlerOK, Got, Received
  <2> QED
    BY <1>1, <2>1, <2>2
<1> QED
  BY <1>2, <1>3

LEMMA PrefixesHold == ASSUME BaseInv PROVE ServersHoldPrefixes
<1> SUFFICES ASSUME NEW v \in Servers, NEW p \in Proxies
             PROVE  IsPrefix(Accepted(v, p) \o to_server[p][v], sent[p])
  BY DEF ServersHoldPrefixes
<1> DEFINE A == Accepted(v, p)
           ts == to_server[p][v]
           S == sent[p]
<1>1. /\ A \in Seq(Messages) /\ Len(A) \in Nat /\ Len(A) <= Len(S)
      /\ \A i \in 1..Len(A) : A[i] = S[i]
      /\ S \in Seq(Messages) /\ Len(S) \in Nat
      /\ LinkOK(S, Len(A), worker[p][v], pending_queue[p][v], inflight[p][v], ts, to_proxy[p][v])
  BY AcceptedIs, PathValues DEF BaseInv, SentOK, Received
<1>2. ts = << >> \/ (Len(A) < Len(S) /\ ts = << S[Len(A) + 1] >>)
  BY <1>1 DEF LinkOK
<1> HIDE DEF A, ts, S
<1>3. CASE ts = << >>
  <2>1. A \o ts = A
    BY <1>1, <1>3
  <2>2. IsPrefix(A \o ts, S)
    BY <1>1, <2>1, PrefixByElements
  <2> QED
    BY <2>2 DEF A, ts, S
<1>4. CASE Len(A) < Len(S) /\ ts = << S[Len(A) + 1] >>
  <2>1. S[Len(A) + 1] \in Messages
    BY <1>1, <1>4
  <2>2. /\ A \o ts \in Seq(Messages) /\ Len(A \o ts) = Len(A) + 1
        /\ \A i \in 1..(Len(A) + 1) : (A \o ts)[i] = S[i]
    <3>1. Extends(Messages, A \o << S[Len(A) + 1] >>, A, S[Len(A) + 1])
      BY <1>1, <2>1, ConcatOne, Zenon
    <3>2. Extends(Messages, A \o ts, A, S[Len(A) + 1])
      BY <1>4, <3>1
    <3>3. \A i \in 1..(Len(A) + 1) : i \in 1..Len(A) \/ i = Len(A) + 1
      BY <1>1
    <3> QED
      BY <1>1, <1>4, <3>2, <3>3 DEF Extends
  <2>3. IsPrefix(A \o ts, S)
    <3> DEFINE X == A \o ts
    <3>1. X \in Seq(Messages) /\ Len(X) <= Len(S) /\ \A i \in 1..Len(X) : X[i] = S[i]
      BY <1>1, <1>4, <2>2
    <3> HIDE DEF X
    <3>2. IsPrefix(X, S)
      BY <1>1, <3>1, PrefixByElements
    <3> QED
      BY <3>2 DEF X
  <2> QED
    BY <2>3 DEF A, ts, S
<1> QED
  BY <1>2, <1>3, <1>4

(***************************************************************************)
(* A server holds a batch only with all of its predecessors: what it has   *)
(* received, stored and is about to receive from a proxy is a prefix of    *)
(* what the proxy sent, however many proxies and servers there are and     *)
(* whatever connections break or nodes crash.                              *)
(***************************************************************************)
THEOREM PrefixesCorrect == Spec => []ServersHoldPrefixes
<1>1. BaseInv /\ [Next]_vars => BaseInv'
  BY BaseStep
<1>2. BaseInv => ServersHoldPrefixes
  BY PrefixesHold
<1> QED
  BY BaseInit, <1>1, <1>2, PTL DEF Spec

----------------------------------------------------------------------------
(***************************************************************************)
(* The counting of ACKs.  ack_count is compared with the servers that have *)
(* received the message and whose ACK the worker no longer waits for: each *)
(* of them was counted once at most, and nothing else was.                 *)
(***************************************************************************)
Holds(p, v, s) ==
    s <= Received(v, p) /\ ~(worker[p][v] = "waiting" /\ inflight[p][v] = s)

Counted(p, s) == {v \in Servers : Holds(p, v, s)}

Receivers(p, s) == {v \in Servers : s <= Received(v, p)}

ProxyOK(p) ==
    /\ Len(sent[p]) = Len(result[p]) + (IF proxy_pc[p] = "idle" THEN 0 ELSE 1)
    /\ \A n \in 1..Len(result[p]) :
          result[p][n] = "SUCCESS" => Cardinality(Receivers(p, n)) >= Quorum

CountOK(p) == \A s \in SeqNums : ack_count[p][s] <= Cardinality(Counted(p, s))

AckInv == \A p \in Proxies : ProxyOK(p) /\ CountOK(p)

LEMMA ServerSets ==
    ASSUME NEW p, NEW s
    PROVE  /\ IsFiniteSet(Counted(p, s)) /\ IsFiniteSet(Receivers(p, s))
           /\ Cardinality(Counted(p, s)) \in Nat /\ Cardinality(Receivers(p, s)) \in Nat
           /\ Cardinality(Counted(p, s)) <= Cardinality(Receivers(p, s))
<1>1. Receivers(p, s) \subseteq Servers /\ Counted(p, s) \subseteq Receivers(p, s)
  BY DEF Receivers, Counted, Holds
<1>2. IsFiniteSet(Counted(p, s)) /\ IsFiniteSet(Receivers(p, s))
  BY <1>1, NodesAssumption, FS_Subset
<1> QED
  BY <1>1, <1>2, FS_CardinalityType, FS_Subset

\* No server ever forgets a message that it has received.
LEMMA ReceivedGrows ==
    ASSUME BaseInv, [Next]_vars, NEW p \in Proxies, NEW v \in Servers
    PROVE  Received(v, p) \in Nat /\ Received(v, p)' \in Nat /\ Received(v, p) <= Received(v, p)'
<1>1. TypeOK /\ BaseInv' /\ TypeOK'
  BY BaseStep DEF BaseInv
<1>2. Received(v, p) \in Nat /\ Received(v, p)' \in Nat
  BY <1>1 DEF TypeOK, Received, Got
<1>3. ASSUME UNCHANGED serverVars PROVE Received(v, p) <= Received(v, p)'
  BY <1>2, <1>3 DEF serverVars, Received
<1>4. ASSUME NEW x \in Proxies, NEW y \in Servers, ServerStep(y, x)
      PROVE  Received(v, p) <= Received(v, p)'
  <2>1. ~(x = p /\ y = v) => handler'[v][p] = handler[v][p] /\ stored'[v][p] = stored[v][p]
    <3>1. CASE ServerRecvAndAck(y, x)
      BY <1>1, <3>1 DEF TypeOK, ServerRecvAndAck
    <3>2. CASE ServerStore(y, x)
      <4>1. PICK m : /\ handler' = [handler EXCEPT ![y][x] = "stored"]
                     /\ stored' = [stored EXCEPT ![y][x] = m]
        <5> DEFINE new == Append(stored[y][x], Head(current[y][x]))
        <5>1. stored' = [stored EXCEPT ![y][x] = new]
          BY <3>2 DEF ServerStore
        <5> HIDE DEF new
        <5> QED
          BY <3>2, <5>1 DEF ServerStore
      <4>2. /\ handler \in [Servers -> [Proxies -> {"recv", "acked", "stored"}]]
            /\ stored \in [Servers -> [Proxies -> Seq(Messages)]]
        BY <1>1 DEF TypeOK
      <4>3. ~(x = p /\ y = v) => handler'[v][p] = handler[v][p]
        BY <4>1, <4>2
      <4>4. ~(x = p /\ y = v) => stored'[v][p] = stored[v][p]
        BY <4>1, <4>2
      <4> QED
        BY <4>3, <4>4
    <3>3. CASE ServerBroadcast(y, x)
      BY <1>1, <3>3 DEF TypeOK, ServerBroadcast
    <3> QED
      BY <1>4, <3>1, <3>2, <3>3 DEF ServerStep
  <2>2. CASE x = p /\ y = v
    <3>1. CASE ServerRecvAndAck(y, x)
      BY <1>1, <2>2, <3>1 DEF TypeOK, ServerRecvAndAck, Received, Got
    <3>2. CASE ServerStore(y, x)
      <4>1. /\ handler[v][p] = "acked" /\ handler'[v][p] = "stored"
            /\ stored'[v][p] = Append(stored[v][p], Head(current[v][p]))
        BY <1>1, <2>2, <3>2 DEF TypeOK, ServerStore
      <4>2. Len(stored'[v][p]) = Len(stored[v][p]) + 1
        BY <1>1, <4>1 DEF TypeOK
      <4> QED
        BY <1>1, <4>1, <4>2 DEF TypeOK, Received, Got
    <3>3. CASE ServerBroadcast(y, x)
      BY <1>1, <2>2, <3>3 DEF TypeOK, ServerBroadcast, Received, Got
    <3> QED
      BY <1>4, <3>1, <3>2, <3>3 DEF ServerStep
  <2> QED
    BY <1>2, <2>1, <2>2 DEF Received
<1>5. ASSUME NEW x \in Proxies, ProxyStep(x) PROVE UNCHANGED serverVars
  BY <1>5 DEF ProxyStep, SendOutBatch, LoadAcks, LoadLiveWorkers
<1>6. ASSUME NEW x \in Proxies, NEW y \in Servers, WorkerStep(x, y) \/ WorkerFails(x, y)
      PROVE  UNCHANGED serverVars
  BY <1>6 DEF WorkerStep, WorkerConnect, WorkerSend, WorkerRecvAck, WorkerStops, WorkerExit,
              WorkerFails, WorkerRecvFails, WorkerSendFails
<1>7. ASSUME NEW y \in Servers, NEW u \in Subscribers,
             BroadcastStep(y, u) \/ BroadcastFails(y, u) \/ SubscriberRecv(y, u)
      PROVE  UNCHANGED serverVars
  BY <1>7 DEF BroadcastStep, BroadcastSend, BroadcastRecvAck, BroadcastStops, BroadcastFails,
              SubscriberRecv
<1>8. UNCHANGED DataVars => UNCHANGED serverVars
  BY DEF DataVars
<1> QED
  BY <1>1, <1>2, <1>3, <1>4, <1>5, <1>6, <1>7, <1>8, StepKinds

\* A worker waits for what it waited for, unless it has just sent the next item.
LEMMA WaitsForTheNext ==
    ASSUME BaseInv, [Next]_vars, NEW p \in Proxies, NEW v \in Servers, worker'[p][v] = "waiting"
    PROVE  \/ worker[p][v] = "waiting" /\ inflight'[p][v] = inflight[p][v]
           \/ inflight'[p][v] = Received(v, p)' + 1
<1>1. TypeOK /\ BaseInv' /\ PathInv'
  BY BaseStep DEF BaseInv
<1>2. ASSUME NEW x \in Proxies, NEW y \in Servers, WorkerStep(x, y) \/ WorkerFails(x, y)
      PROVE  \/ worker[p][v] = "waiting" /\ inflight'[p][v] = inflight[p][v]
             \/ inflight'[p][v] = Received(v, p)' + 1
  <2>1. CASE WorkerSend(x, y) /\ x = p /\ y = v
    <3>1. to_server'[p][v] = Append(to_server[p][v], Head(pending_queue[p][v]))
      BY <1>1, <2>1 DEF TypeOK, WorkerSend
    <3>2. to_server'[p][v] # << >>
      <4>1. to_server[p][v] \in AtMostOne(Messages)
        BY <1>1 DEF TypeOK
      <4>2. to_server[p][v] \in Seq(Messages)
        <5>1. to_server[p][v] = << >> \/ \E m \in Messages : to_server[p][v] = << m >>
          BY <4>1, AtMostOneFacts, Zenon
        <5>2. << >> \in Seq(Messages) /\ \A m \in Messages : << m >> \in Seq(Messages)
          OBVIOUS
        <5> QED
          BY <5>1, <5>2, Zenon
      <4>3. Head(pending_queue[p][v]) \in Messages
        BY <1>1, <2>1 DEF TypeOK, WorkerSend, PopItem
      <4> QED
        BY <3>1, <4>2, <4>3
    <3>3. PathOK(p, v)'
      BY <1>1 DEF PathInv
    <3>4. LinkOK(sent[p], Received(v, p), worker[p][v], pending_queue[p][v], inflight[p][v],
                 to_server[p][v], to_proxy[p][v])'
      BY <3>3, Zenon DEF PathOK, Received
    <3> QED
      BY <3>2, <3>4 DEF LinkOK
  <2>2. CASE WorkerSend(x, y) /\ ~(x = p /\ y = v)
    BY <1>1, <2>2 DEF TypeOK, WorkerSend
  <2>3. CASE WorkerConnect(x, y) \/ WorkerStops(x, y) \/ WorkerExit(x, y) \/ WorkerSendFails(x, y)
    <3>1. PICK pc \in {"ready", "stopped", "exited"} : worker' = [worker EXCEPT ![x][y] = pc]
      BY <2>3 DEF WorkerConnect, WorkerStops, WorkerExit, WorkerSendFails
    <3>2. UNCHANGED inflight
      BY <2>3 DEF WorkerConnect, WorkerStops, WorkerExit, WorkerSendFails
    <3> QED
      BY <1>1, <3>1, <3>2 DEF TypeOK
  <2>4. CASE WorkerRecvAck(x, y) \/ WorkerRecvFails(x, y)
    <3>1. PICK pc \in {"ready", "stopped"} : worker' = [worker EXCEPT ![x][y] = pc]
      BY <2>4 DEF WorkerRecvAck, WorkerRecvFails
    <3>2. inflight' = [inflight EXCEPT ![x][y] = 0]
      BY <2>4 DEF WorkerRecvAck, WorkerRecvFails
    <3> QED
      BY <1>1, <3>1, <3>2 DEF TypeOK
  <2> QED
    BY <1>2, <2>1, <2>2, <2>3, <2>4 DEF WorkerStep, WorkerFails
<1>3. ASSUME NEW x \in Proxies, ProxyStep(x) PROVE UNCHANGED << worker, inflight >>
  BY <1>3 DEF ProxyStep, SendOutBatch, LoadAcks, LoadLiveWorkers, workerVars
<1>4. ASSUME NEW x \in Proxies, NEW y \in Servers, ServerStep(y, x)
      PROVE  UNCHANGED << worker, inflight >>
  BY <1>4 DEF ServerStep, ServerRecvAndAck, ServerStore, ServerBroadcast, workerVars
<1>5. ASSUME NEW y \in Servers, NEW u \in Subscribers,
             BroadcastStep(y, u) \/ BroadcastFails(y, u) \/ SubscriberRecv(y, u)
      PROVE  UNCHANGED << worker, inflight >>
  BY <1>5 DEF BroadcastStep, BroadcastSend, BroadcastRecvAck, BroadcastStops, BroadcastFails,
              SubscriberRecv, workerVars
<1>6. UNCHANGED DataVars => UNCHANGED << worker, inflight >>
  BY DEF DataVars, workerVars
<1> QED
  BY <1>1, <1>2, <1>3, <1>4, <1>5, <1>6, StepKinds

LEMMA HoldsKept ==
    ASSUME BaseInv, [Next]_vars, NEW p \in Proxies, NEW v \in Servers, NEW s \in SeqNums,
           Holds(p, v, s)
    PROVE  Holds(p, v, s)'
<1>1. Received(v, p) \in Nat /\ Received(v, p)' \in Nat /\ Received(v, p) <= Received(v, p)'
  BY ReceivedGrows
<1>2. s \in Nat /\ s <= Received(v, p) /\ s <= Received(v, p)'
  BY <1>1, MaxSeqAssumption DEF Holds, SeqNums
<1>3. ASSUME worker'[p][v] = "waiting", inflight'[p][v] = s PROVE FALSE
  <2>1. CASE worker[p][v] = "waiting" /\ inflight'[p][v] = inflight[p][v]
    BY <1>3, <2>1 DEF Holds
  <2>2. CASE inflight'[p][v] = Received(v, p)' + 1
    BY <1>1, <1>2, <1>3, <2>2
  <2> QED
    BY <1>3, <2>1, <2>2, WaitsForTheNext
<1> QED
  BY <1>2, <1>3 DEF Holds

LEMMA CountKept ==
    ASSUME BaseInv, AckInv, [Next]_vars, NEW p \in Proxies
    PROVE  CountOK(p)'
<1> SUFFICES ASSUME NEW s \in SeqNums PROVE ack_count'[p][s] <= Cardinality(Counted(p, s)')
  BY DEF CountOK
<1>1. TypeOK /\ BaseInv' /\ TypeOK' /\ PathInv
  BY BaseStep DEF BaseInv
<1>2. Counted(p, s) \subseteq Counted(p, s)'
  BY HoldsKept DEF Counted
<1>3. /\ IsFiniteSet(Counted(p, s)) /\ Cardinality(Counted(p, s)) \in Nat
      /\ IsFiniteSet(Counted(p, s)')
  <2>1. Counted(p, s)' \subseteq Servers
    BY DEF Counted
  <2> QED
    BY <2>1, ServerSets, NodesAssumption, FS_Subset
<1>4. Cardinality(Counted(p, s)') \in Nat /\ Cardinality(Counted(p, s)) <= Cardinality(Counted(p, s)')
  BY <1>2, <1>3, FS_CardinalityType, FS_Subset
<1>5. ack_count[p][s] \in Nat /\ ack_count[p][s] <= Cardinality(Counted(p, s))
  BY <1>1 DEF AckInv, CountOK, TypeOK
<1>6. ASSUME ack_count'[p][s] = ack_count[p][s]
      PROVE  ack_count'[p][s] <= Cardinality(Counted(p, s)')
  BY <1>3, <1>4, <1>5, <1>6
<1>7. ASSUME NEW v \in Servers, WorkerRecvAck(p, v), inflight[p][v] = s
      PROVE  ack_count'[p][s] <= Cardinality(Counted(p, s)')
  <2>1. v \notin Counted(p, s)
    BY <1>7 DEF WorkerRecvAck, Counted, Holds
  <2>2. v \in Counted(p, s)'
    <3>1. /\ LinkOK(sent[p], Received(v, p), "waiting", pending_queue[p][v], inflight[p][v],
                    to_server[p][v], to_proxy[p][v])
          /\ Received(v, p) \in Nat /\ to_proxy[p][v] # << >>
      BY <1>1, <1>7, PathValues DEF WorkerRecvAck, Received
    <3>2. inflight[p][v] = Received(v, p)
      BY <3>1, LinkRecvAck
    <3>3. Received(v, p)' = Received(v, p) /\ worker'[p][v] = "ready"
      BY <1>1, <1>7 DEF WorkerRecvAck, Received, serverVars, TypeOK
    <3>4. s <= Received(v, p)'
      BY <1>7, <3>1, <3>2, <3>3
    <3> QED
      BY <3>3, <3>4 DEF Counted, Holds
  <2>3. Cardinality(Counted(p, s) \cup {v}) = Cardinality(Counted(p, s)) + 1
    BY <1>3, <2>1, FS_AddElement
  <2>4. Counted(p, s) \cup {v} \subseteq Counted(p, s)'
    BY <1>2, <2>2
  <2>5. /\ IsFiniteSet(Counted(p, s) \cup {v})
        /\ Cardinality(Counted(p, s) \cup {v}) <= Cardinality(Counted(p, s)')
    BY <1>3, <2>4, FS_Subset
  <2>6. ack_count'[p][s] = ack_count[p][s] + 1
    BY <1>1, <1>7 DEF WorkerRecvAck, TypeOK
  <2> QED
    BY <1>3, <1>4, <1>5, <2>3, <2>5, <2>6
<1>8. ASSUME NEW x \in Proxies, NEW v \in Servers, WorkerRecvAck(x, v),
             ~(x = p /\ inflight[x][v] = s)
      PROVE  ack_count'[p][s] = ack_count[p][s]
  BY <1>1, <1>8 DEF WorkerRecvAck, TypeOK
<1>9. ASSUME NEW x \in Proxies, NEW v \in Servers, WorkerStep(x, v) \/ WorkerFails(x, v)
      PROVE  UNCHANGED ack_count \/ WorkerRecvAck(x, v)
  BY <1>9 DEF WorkerStep, WorkerConnect, WorkerSend, WorkerStops, WorkerExit,
              WorkerFails, WorkerRecvFails, WorkerSendFails, proxyVars
<1>10. ASSUME NEW x \in Proxies, ProxyStep(x) PROVE UNCHANGED ack_count
  BY <1>10 DEF ProxyStep, SendOutBatch, LoadAcks, LoadLiveWorkers
<1>11. ASSUME NEW x \in Proxies, NEW y \in Servers, ServerStep(y, x) PROVE UNCHANGED ack_count
  BY <1>11 DEF ServerStep, ServerRecvAndAck, ServerStore, ServerBroadcast, proxyVars
<1>12. ASSUME NEW y \in Servers, NEW u \in Subscribers,
              BroadcastStep(y, u) \/ BroadcastFails(y, u) \/ SubscriberRecv(y, u)
       PROVE  UNCHANGED ack_count
  BY <1>12 DEF BroadcastStep, BroadcastSend, BroadcastRecvAck, BroadcastStops, BroadcastFails,
               SubscriberRecv, proxyVars
<1>13. UNCHANGED DataVars => UNCHANGED ack_count
  BY DEF DataVars, proxyVars
<1>14. UNCHANGED ack_count \/ \E x \in Proxies, v \in Servers : WorkerRecvAck(x, v)
  BY <1>1, <1>9, <1>10, <1>11, <1>12, <1>13, StepKinds
<1> QED
  BY <1>6, <1>7, <1>8, <1>14

\* The proxy's two counters move together, and an answer is final.
LEMMA ProxyKept ==
    ASSUME BaseInv, AckInv, [Next]_vars, NEW p \in Proxies
    PROVE  ProxyOK(p)'
<1>1. TypeOK /\ BaseInv' /\ TypeOK' /\ PathInv
  BY BaseStep DEF BaseInv
<1>2. /\ Len(result[p]) \in Nat /\ Len(sent[p]) \in Nat /\ ProxyOK(p) /\ CountOK(p)
      /\ result[p] \in Seq({"SUCCESS", "FAILURE"})
      /\ sent[p] \in Seq(Messages) /\ Len(sent[p]) <= MaxSeq
  BY <1>1 DEF TypeOK, AckInv, PathInv, SentOK
<1>3. ASSUME NEW n, n \in Nat
      PROVE  /\ Cardinality(Receivers(p, n)) \in Nat /\ Cardinality(Receivers(p, n)') \in Nat
             /\ Cardinality(Receivers(p, n)) <= Cardinality(Receivers(p, n)')
  <2>1. ASSUME NEW v \in Servers, n <= Received(v, p) PROVE n <= Received(v, p)'
    <3>1. Received(v, p) \in Nat /\ Received(v, p)' \in Nat /\ Received(v, p) <= Received(v, p)'
      BY ReceivedGrows
    <3> QED
      BY <1>3, <2>1, <3>1
  <2>2. Receivers(p, n) \subseteq Receivers(p, n)' /\ Receivers(p, n)' \subseteq Servers
    BY <2>1 DEF Receivers
  <2>3. IsFiniteSet(Receivers(p, n)')
    BY <2>2, NodesAssumption, FS_Subset
  <2> QED
    BY <2>2, <2>3, FS_CardinalityType, FS_Subset
<1>4. ASSUME NEW n \in 1..Len(result[p]), result[p][n] = "SUCCESS"
      PROVE  Cardinality(Receivers(p, n)') >= Quorum
  <2>1. Cardinality(Receivers(p, n)) >= Quorum /\ n \in Nat
    BY <1>2, <1>4 DEF ProxyOK
  <2> QED
    BY <1>3, <2>1, QuorumAssumption
<1>5. ASSUME UNCHANGED << result[p], proxy_pc[p], sent[p] >> PROVE ProxyOK(p)'
  BY <1>2, <1>4, <1>5 DEF ProxyOK
<1>6. ASSUME NEW x \in Proxies, ProxyStep(x), x # p
      PROVE  UNCHANGED << result[p], proxy_pc[p], sent[p] >>
  <2>1. CASE \E batch \in Batches : SendOutBatch(x, batch)
    BY <1>1, <1>6, <2>1 DEF SendOutBatch, TypeOK
  <2>2. CASE LoadAcks(x)
    BY <1>1, <1>6, <2>2 DEF LoadAcks, Answer, TypeOK
  <2>3. CASE LoadLiveWorkers(x)
    BY <1>1, <1>6, <2>3 DEF LoadLiveWorkers, Answer, TypeOK
  <2> QED
    BY <1>6, <2>1, <2>2, <2>3 DEF ProxyStep
<1>7. ASSUME NEW batch \in Batches, SendOutBatch(p, batch) PROVE ProxyOK(p)'
  <2>1. /\ proxy_pc[p] = "idle" /\ proxy_pc'[p] = "load_acks" /\ result'[p] = result[p]
        /\ Len(sent'[p]) = Len(sent[p]) + 1
    BY <1>1, <1>2, <1>7 DEF SendOutBatch, TypeOK
  <2> QED
    BY <1>2, <1>4, <2>1 DEF ProxyOK
<1>8. ASSUME Looped(p) PROVE ProxyOK(p)'
  <2>1. /\ proxy_pc[p] # "idle" /\ proxy_pc'[p] # "idle"
        /\ result'[p] = result[p] /\ sent'[p] = sent[p]
    BY <1>1, <1>8 DEF Looped, LoadFrame, TypeOK
  <2> QED
    BY <1>2, <1>4, <2>1 DEF ProxyOK
<1>9. ASSUME Answered(p) PROVE ProxyOK(p)'
  <2>1. PICK r \in {"SUCCESS", "FAILURE"} :
           /\ Answer(p, r)
           /\ r = "SUCCESS" => ~(ack_count[p][Len(sent[p])] < Quorum)
    BY <1>9 DEF Answered
  <2>2. /\ proxy_pc[p] # "idle" /\ proxy_pc'[p] = "idle" /\ sent'[p] = sent[p]
        /\ result'[p] = Append(result[p], r)
    BY <1>1, <1>9, <2>1 DEF Answered, LoadFrame, Answer, TypeOK
  <2>3. /\ Len(result'[p]) = Len(result[p]) + 1
        /\ \A n \in 1..Len(result[p]) : result'[p][n] = result[p][n]
        /\ result'[p][Len(result[p]) + 1] = r
    BY <1>2, <2>2
  <2>4. Len(sent[p]) = Len(result[p]) + 1
    BY <1>2, <2>2 DEF ProxyOK
  <2>5. ASSUME r = "SUCCESS", NEW n, n = Len(sent[p])
        PROVE  Cardinality(Receivers(p, n)') >= Quorum
    <3>1. n \in SeqNums /\ n \in Nat
      BY <1>2, <2>4, <2>5, MaxSeqAssumption DEF SeqNums
    <3>2. /\ ack_count[p][n] \in Nat
          /\ ack_count[p][n] <= Cardinality(Counted(p, n))
      BY <1>1, <1>2, <3>1 DEF CountOK, TypeOK
    <3>3. /\ Cardinality(Counted(p, n)) \in Nat
          /\ Cardinality(Counted(p, n)) <= Cardinality(Receivers(p, n))
      BY ServerSets
    <3>4. /\ Cardinality(Receivers(p, n)) \in Nat
          /\ Cardinality(Receivers(p, n)') \in Nat
          /\ Cardinality(Receivers(p, n)) <= Cardinality(Receivers(p, n)')
      BY <1>3, <3>1
    <3>5. ~(ack_count[p][n] < Quorum)
      BY <2>1, <2>5
    <3> QED
      BY <3>2, <3>3, <3>4, <3>5, QuorumAssumption
  <2>6. ASSUME NEW n \in 1..Len(result'[p]), result'[p][n] = "SUCCESS"
        PROVE  Cardinality(Receivers(p, n)') >= Quorum
    <3>1. CASE n \in 1..Len(result[p])
      BY <1>4, <2>3, <2>6, <3>1
    <3>2. CASE n = Len(sent[p])
      <4>1. r = "SUCCESS"
        BY <2>3, <2>4, <2>6, <3>2
      <4> QED
        BY <2>5, <3>2, <4>1
    <3>3. n \in 1..Len(result[p]) \/ n = Len(sent[p])
      BY <1>2, <2>3, <2>4
    <3> QED
      BY <3>1, <3>2, <3>3
  <2> QED
    BY <2>2, <2>3, <2>4, <2>6 DEF ProxyOK
<1>10. ASSUME ProxyStep(p) PROVE ProxyOK(p)'
  BY <1>1, <1>7, <1>8, <1>9, <1>10, LoadSteps DEF ProxyStep
<1>11. ASSUME NEW x \in Proxies, NEW v \in Servers, WorkerStep(x, v) \/ WorkerFails(x, v)
       PROVE  UNCHANGED << result, proxy_pc, sent >>
  BY <1>11 DEF WorkerStep, WorkerConnect, WorkerSend, WorkerRecvAck, WorkerStops, WorkerExit,
               WorkerFails, WorkerRecvFails, WorkerSendFails, proxyVars
<1>12. ASSUME NEW x \in Proxies, NEW y \in Servers, ServerStep(y, x)
       PROVE  UNCHANGED << result, proxy_pc, sent >>
  BY <1>12 DEF ServerStep, ServerRecvAndAck, ServerStore, ServerBroadcast, proxyVars
<1>13. ASSUME NEW y \in Servers, NEW u \in Subscribers,
              BroadcastStep(y, u) \/ BroadcastFails(y, u) \/ SubscriberRecv(y, u)
       PROVE  UNCHANGED << result, proxy_pc, sent >>
  BY <1>13 DEF BroadcastStep, BroadcastSend, BroadcastRecvAck, BroadcastStops, BroadcastFails,
               SubscriberRecv, proxyVars
<1>14. UNCHANGED DataVars => UNCHANGED << result, proxy_pc, sent >>
  BY DEF DataVars, proxyVars
<1>15. UNCHANGED << result, proxy_pc, sent >> \/ \E x \in Proxies : ProxyStep(x)
  BY <1>1, <1>11, <1>12, <1>13, <1>14, StepKinds
<1>16. CASE UNCHANGED << result, proxy_pc, sent >>
  BY <1>5, <1>16
<1>17. CASE \E x \in Proxies : ProxyStep(x)
  BY <1>5, <1>6, <1>10, <1>17
<1> QED
  BY <1>15, <1>16, <1>17

QuorumInv == BaseInv /\ AckInv

LEMMA QuorumInit == Init => QuorumInv
<1> SUFFICES ASSUME Init PROVE QuorumInv
  OBVIOUS
<1>1. ASSUME NEW p \in Proxies PROVE ProxyOK(p)
  BY DEF Init, ProxyOK
<1>2. ASSUME NEW p \in Proxies, NEW s \in SeqNums
      PROVE  ack_count[p][s] <= Cardinality(Counted(p, s))
  BY ServerSets DEF Init
<1>3. AckInv
  BY <1>1, <1>2 DEF AckInv, CountOK
<1> QED
  BY <1>3, BaseInit DEF QuorumInv

LEMMA QuorumStep == QuorumInv /\ [Next]_vars => QuorumInv'
<1> SUFFICES ASSUME QuorumInv, [Next]_vars PROVE QuorumInv'
  OBVIOUS
<1>1. BaseInv /\ AckInv
  BY DEF QuorumInv
<1>2. ASSUME NEW p \in Proxies PROVE ProxyOK(p)' /\ CountOK(p)'
  BY <1>1, ProxyKept, CountKept
<1>3. BaseInv'
  BY <1>1, BaseStep
<1> QED
  BY <1>2, <1>3, Zenon DEF QuorumInv, AckInv

(***************************************************************************)
(* A batch that replicate_bytes reports as SUCCESS has been received by    *)
(* Quorum servers, for any number of proxies, servers and failures,        *)
(* although a worker never looks at the ACK that it counts.                *)
(***************************************************************************)
THEOREM SuccessCorrect == Spec => []SuccessBackedByQuorum
<1>1. QuorumInv => SuccessBackedByQuorum
  <2> SUFFICES ASSUME QuorumInv, NEW p \in Proxies, NEW n \in 1..Len(result[p]),
                      result[p][n] = "SUCCESS"
               PROVE  Cardinality({v \in Servers : n <= Len(Accepted(v, p))}) >= Quorum
    BY DEF SuccessBackedByQuorum
  <2>1. BaseInv /\ TypeOK /\ PathInv /\ ProxyOK(p)
    BY DEF QuorumInv, AckInv, BaseInv
  <2>2. \A v \in Servers : Len(Accepted(v, p)) = Received(v, p)
    BY <2>1, AcceptedIs
  <2>3. {v \in Servers : n <= Len(Accepted(v, p))} = Receivers(p, n)
    BY <2>2 DEF Receivers
  <2> QED
    BY <2>1, <2>3 DEF ProxyOK
<1> QED
  BY QuorumInit, QuorumStep, <1>1, PTL DEF Spec

----------------------------------------------------------------------------
(***************************************************************************)
(* What the subscribers of one proxy read.  Everything from here on        *)
(* assumes that there is one proxy, P: the subscribers' LogTracker has one *)
(* space of sequence numbers, in which the numbers of two proxies collide, *)
(* and the run two_proxies shows what comes of it.                         *)
(***************************************************************************)

(***************************************************************************)
(* The inductive invariant.  A message on its way to a subscriber is       *)
(* vouched for: the server that sends it has stored it as what P sent      *)
(* under its number.  A tracker has counted only servers that have stored  *)
(* the number, and holds for it what P sent.                               *)
(***************************************************************************)
Vouched(P, v, m) ==
    /\ m.sender = v
    /\ m.seq <= Len(stored[v][P])
    /\ m.batch = sent[P][m.seq].batch

BcastInv(P) ==
    \A v \in Servers, u \in Subscribers :
        /\ \A i \in 1..Len(bqueue[v][u]) : Vouched(P, v, bqueue[v][u][i])
        /\ to_sub[v][u] # << >> => Vouched(P, v, Head(to_sub[v][u]))

Storers(P, s) == {v \in Servers : s <= Len(stored[v][P])}

Backed(P, t, s) ==
    /\ Cardinality(Storers(P, s)) >= Quorum
    /\ s <= Len(sent[P])
    /\ EntryOf(t, s) = sent[P][s].batch

TrackOK(P, t) ==
    /\ WellFormed(t, Servers, Batches)
    /\ \A s \in SeqNums :
          /\ t.pending_quorum[s] \subseteq Storers(P, s)
          /\ s \in t.applied => Backed(P, t, s)

TrackInv(P) ==
    /\ DOMAIN trk = Subscribers /\ trk = [u \in Subscribers |-> trk[u]]
    /\ \A u \in Subscribers : TrackOK(P, trk[u])

ReadInv(P) == QuorumInv /\ BcastInv(P) /\ TrackInv(P)

----------------------------------------------------------------------------
(***************************************************************************)
(* What is stored and sent stays.                                          *)
(***************************************************************************)
LEMMA StoredIs ==
    ASSUME BaseInv, NEW p \in Proxies, NEW v \in Servers
    PROVE  /\ stored[v][p] \in Seq(Messages) /\ Len(stored[v][p]) \in Nat
           /\ sent[p] \in Seq(Messages) /\ Len(sent[p]) \in Nat /\ Len(sent[p]) <= MaxSeq
           /\ Len(stored[v][p]) <= Len(sent[p])
           /\ \A i \in 1..Len(stored[v][p]) : stored[v][p][i] = sent[p][i]
<1>1. /\ SentOK(p, sent[p]) /\ stored[v][p] \in Seq(Messages)
      /\ HandlerOK(sent[p], stored[v][p], handler[v][p], current[v][p])
  BY PathValues DEF BaseInv
<1> QED
  BY <1>1 DEF SentOK, HandlerOK, Got

LEMMA SentKept ==
    ASSUME BaseInv, [Next]_vars, NEW p \in Proxies
    PROVE  /\ sent[p] \in Seq(Messages) /\ sent'[p] \in Seq(Messages)
           /\ Len(sent[p]) <= Len(sent'[p])
           /\ \A n \in 1..Len(sent[p]) : sent'[p][n] = sent[p][n]
<1>1. TypeOK
  BY DEF BaseInv
<1>2. sent[p] \in Seq(Messages)
  BY <1>1 DEF TypeOK
<1>3. ASSUME sent'[p] = sent[p]
      PROVE  /\ sent'[p] \in Seq(Messages) /\ Len(sent[p]) <= Len(sent'[p])
             /\ \A n \in 1..Len(sent[p]) : sent'[p][n] = sent[p][n]
  BY <1>2, <1>3
<1>4. ASSUME NEW x \in Proxies, NEW batch \in Batches, SendOutBatch(x, batch)
      PROVE  /\ sent'[p] \in Seq(Messages) /\ Len(sent[p]) <= Len(sent'[p])
             /\ \A n \in 1..Len(sent[p]) : sent'[p][n] = sent[p][n]
  <2> DEFINE m == [sender |-> x, seq |-> Len(sent[x]) + 1, batch |-> batch]
  <2>1. m \in Messages
    BY <1>1, <1>4, MaxSeqAssumption DEF SendOutBatch, TypeOK, Messages, SeqNums
  <2>2. sent' = [sent EXCEPT ![x] = Append(@, m)]
    BY <1>4 DEF SendOutBatch
  <2> HIDE DEF m
  <2>3. x # p => sent'[p] = sent[p]
    BY <1>1, <2>2 DEF TypeOK
  <2>4. x = p => sent'[p] = Append(sent[p], m)
    BY <1>1, <2>2 DEF TypeOK
  <2>5. CASE x = p
    BY <1>2, <2>1, <2>4, <2>5
  <2> QED
    BY <1>3, <2>3, <2>5
<1>5. UNCHANGED sent \/ \E x \in Proxies, batch \in Batches : SendOutBatch(x, batch)
  <2>1. ASSUME NEW x \in Proxies, ProxyStep(x)
        PROVE  UNCHANGED sent \/ \E batch \in Batches : SendOutBatch(x, batch)
    BY <2>1 DEF ProxyStep, LoadAcks, LoadLiveWorkers
  <2>2. ASSUME NEW x \in Proxies, NEW y \in Servers, WorkerStep(x, y) \/ WorkerFails(x, y)
        PROVE  UNCHANGED sent
    BY <2>2 DEF WorkerStep, WorkerConnect, WorkerSend, WorkerRecvAck, WorkerStops, WorkerExit,
                WorkerFails, WorkerRecvFails, WorkerSendFails, proxyVars
  <2>3. ASSUME NEW x \in Proxies, NEW y \in Servers, ServerStep(y, x) PROVE UNCHANGED sent
    BY <2>3 DEF ServerStep, ServerRecvAndAck, ServerStore, ServerBroadcast, proxyVars
  <2>4. ASSUME NEW y \in Servers, NEW u \in Subscribers,
               BroadcastStep(y, u) \/ BroadcastFails(y, u) \/ SubscriberRecv(y, u)
        PROVE  UNCHANGED sent
    BY <2>4 DEF BroadcastStep, BroadcastSend, BroadcastRecvAck, BroadcastStops, BroadcastFails,
                SubscriberRecv, proxyVars
  <2>5. UNCHANGED DataVars => UNCHANGED sent
    BY DEF DataVars, proxyVars
  <2> QED
    BY <1>1, <2>1, <2>2, <2>3, <2>4, <2>5, StepKinds
<1> QED
  BY <1>2, <1>3, <1>4, <1>5

LEMMA StoredKept ==
    ASSUME BaseInv, [Next]_vars, NEW p \in Proxies, NEW v \in Servers
    PROVE  /\ Len(stored[v][p]) \in Nat /\ Len(stored'[v][p]) \in Nat
           /\ Len(stored[v][p]) <= Len(stored'[v][p])
<1>1. TypeOK /\ BaseInv' /\ TypeOK'
  BY BaseStep DEF BaseInv
<1>2. Len(stored[v][p]) \in Nat /\ Len(stored'[v][p]) \in Nat
  BY <1>1 DEF TypeOK
<1>3. ASSUME stored'[v][p] = stored[v][p] PROVE Len(stored[v][p]) <= Len(stored'[v][p])
  BY <1>2, <1>3
<1>4. ASSUME NEW x \in Proxies, NEW y \in Servers, ServerStore(y, x)
      PROVE  Len(stored[v][p]) <= Len(stored'[v][p])
  <2> DEFINE m == Head(current[y][x])
             new == Append(stored[y][x], m)
  <2>1. stored' = [stored EXCEPT ![y][x] = new]
    BY <1>4 DEF ServerStore
  <2>2. stored[y][x] \in Seq(Messages) /\ stored \in [Servers -> [Proxies -> Seq(Messages)]]
    BY <1>1 DEF TypeOK
  <2>3. Len(new) = Len(stored[y][x]) + 1
    BY <2>2
  <2> HIDE DEF m, new
  <2>4. CASE x = p /\ y = v
    <3>1. stored'[v][p] = new
      BY <2>1, <2>2, <2>4
    <3> QED
      BY <1>2, <2>3, <2>4, <3>1
  <2>5. CASE ~(x = p /\ y = v)
    <3>1. stored'[v][p] = stored[v][p]
      BY <2>1, <2>2, <2>5
    <3> QED
      BY <1>3, <3>1
  <2> QED
    BY <2>4, <2>5
<1>5. UNCHANGED stored \/ \E x \in Proxies, y \in Servers : ServerStore(y, x)
  <2>1. ASSUME NEW x \in Proxies, ProxyStep(x) PROVE UNCHANGED stored
    BY <2>1 DEF ProxyStep, SendOutBatch, LoadAcks, LoadLiveWorkers, serverVars
  <2>2. ASSUME NEW x \in Proxies, NEW y \in Servers, WorkerStep(x, y) \/ WorkerFails(x, y)
        PROVE  UNCHANGED stored
    BY <2>2 DEF WorkerStep, WorkerConnect, WorkerSend, WorkerRecvAck, WorkerStops, WorkerExit,
                WorkerFails, WorkerRecvFails, WorkerSendFails, serverVars
  <2>3. ASSUME NEW x \in Proxies, NEW y \in Servers, ServerStep(y, x)
        PROVE  UNCHANGED stored \/ ServerStore(y, x)
    BY <2>3 DEF ServerStep, ServerRecvAndAck, ServerBroadcast
  <2>4. ASSUME NEW y \in Servers, NEW u \in Subscribers,
               BroadcastStep(y, u) \/ BroadcastFails(y, u) \/ SubscriberRecv(y, u)
        PROVE  UNCHANGED stored
    BY <2>4 DEF BroadcastStep, BroadcastSend, BroadcastRecvAck, BroadcastStops, BroadcastFails,
                SubscriberRecv, serverVars
  <2>5. UNCHANGED DataVars => UNCHANGED stored
    BY DEF DataVars, serverVars
  <2> QED
    BY <1>1, <2>1, <2>2, <2>3, <2>4, <2>5, StepKinds
<1> QED
  BY <1>2, <1>3, <1>4, <1>5

LEMMA VouchedKept ==
    ASSUME BaseInv, [Next]_vars, NEW P \in Proxies, NEW v \in Servers,
           NEW m \in Messages, Vouched(P, v, m)
    PROVE  Vouched(P, v, m)'
<1>1. m.seq \in 1..MaxSeq
  BY DEF Messages, SeqNums
<1>2. m.seq <= Len(stored[v][P]) /\ Len(stored[v][P]) <= Len(sent[P])
      /\ Len(stored[v][P]) \in Nat /\ Len(sent[P]) \in Nat
  BY StoredIs DEF Vouched
<1>3. m.seq \in 1..Len(sent[P])
  BY <1>1, <1>2, MaxSeqAssumption
<1>4. sent'[P][m.seq] = sent[P][m.seq]
  BY <1>3, SentKept
<1>5. m.seq <= Len(stored'[v][P])
  BY <1>1, <1>2, StoredKept, MaxSeqAssumption
<1> QED
  BY <1>4, <1>5 DEF Vouched

LEMMA StorersFinite ==
    ASSUME NEW P, NEW s
    PROVE  IsFiniteSet(Storers(P, s)) /\ Cardinality(Storers(P, s)) \in Nat
<1>1. Storers(P, s) \subseteq Servers
  BY DEF Storers
<1> QED
  BY <1>1, NodesAssumption, FS_Subset, FS_CardinalityType

LEMMA TrackKept ==
    ASSUME BaseInv, [Next]_vars, NEW P \in Proxies, NEW t, TrackOK(P, t)
    PROVE  TrackOK(P, t)'
<1>1. BaseInv'
  BY BaseStep
<1>2. ASSUME NEW s \in SeqNums
      PROVE  /\ Storers(P, s) \subseteq Storers(P, s)'
             /\ Cardinality(Storers(P, s)) >= Quorum => Cardinality(Storers(P, s)') >= Quorum
  <2>1. Storers(P, s) \subseteq Storers(P, s)'
    <3>1. ASSUME NEW v \in Servers, s <= Len(stored[v][P]) PROVE s <= Len(stored'[v][P])
      BY <3>1, StoredKept, MaxSeqAssumption DEF SeqNums
    <3> QED
      BY <3>1 DEF Storers
  <2>2. IsFiniteSet(Storers(P, s)') /\ Cardinality(Storers(P, s)') \in Nat
    <3>1. Storers(P, s)' \subseteq Servers
      BY DEF Storers
    <3> QED
      BY <3>1, NodesAssumption, FS_Subset, FS_CardinalityType
  <2>3. Cardinality(Storers(P, s)) \in Nat
    BY StorersFinite
  <2>4. Cardinality(Storers(P, s)) <= Cardinality(Storers(P, s)')
    BY <2>1, <2>2, FS_Subset
  <2> QED
    BY <2>1, <2>2, <2>3, <2>4, QuorumAssumption
<1>3. ASSUME NEW s \in SeqNums, Backed(P, t, s) PROVE Backed(P, t, s)'
  <2>1. s \in 1..Len(sent[P])
    BY <1>3, SentKept, MaxSeqAssumption DEF Backed, SeqNums
  <2>2. sent'[P][s] = sent[P][s] /\ s <= Len(sent'[P])
    BY <2>1, SentKept
  <2> QED
    BY <1>2, <1>3, <2>2 DEF Backed
<1> QED
  BY <1>2, <1>3 DEF TrackOK

----------------------------------------------------------------------------
(***************************************************************************)
(* The way from the servers to the subscribers.                            *)
(***************************************************************************)
\* All that q holds is vouched for.
QueueVouched(P, v, q) == \A i \in 1..Len(q) : Vouched(P, v, q[i])

LinkVouched(P, v, q, ts) ==
    /\ q \in Seq(Messages) /\ QueueVouched(P, v, q)
    /\ ts \in AtMostOne(Messages) /\ (ts # << >> => Vouched(P, v, Head(ts)))

LEMMA BcastValues ==
    ASSUME TypeOK
    PROVE  /\ \A v \in Servers, u \in Subscribers :
                 /\ bqueue[v][u] \in Seq(Messages)
                 /\ to_sub[v][u] \in AtMostOne(Messages)
           /\ \A P : BcastInv(P) <=> \A v \in Servers, u \in Subscribers :
                                        LinkVouched(P, v, bqueue[v][u], to_sub[v][u])
<1>1. \A v \in Servers, u \in Subscribers :
         bqueue[v][u] \in Seq(Messages) /\ to_sub[v][u] \in AtMostOne(Messages)
  BY DEF TypeOK
<1> QED
  BY <1>1 DEF BcastInv, LinkVouched, QueueVouched

LEMMA LinkVouchedKept ==
    ASSUME BaseInv, [Next]_vars, NEW P \in Proxies, NEW v \in Servers, NEW q, NEW ts,
           LinkVouched(P, v, q, ts)
    PROVE  LinkVouched(P, v, q, ts)'
<1>1. ASSUME NEW i \in 1..Len(q) PROVE Vouched(P, v, q[i])'
  <2>1. q[i] \in Messages /\ Vouched(P, v, q[i])
    BY DEF LinkVouched, QueueVouched
  <2> QED
    BY <2>1, VouchedKept
<1>2. ASSUME ts # << >> PROVE Vouched(P, v, Head(ts))'
  <2>1. Head(ts) \in Messages
    BY <1>2, AtMostOneFacts DEF LinkVouched
  <2>2. Vouched(P, v, Head(ts))
    BY <1>2 DEF LinkVouched
  <2> QED
    BY <2>1, <2>2, VouchedKept
<1> QED
  BY <1>1, <1>2 DEF LinkVouched, QueueVouched

\* What is taken from the queue was vouched for, and what is left still is.
LEMMA LinkPops ==
    ASSUME NEW P, NEW v, NEW q, NEW ts, LinkVouched(P, v, q, ts), q # << >>
    PROVE  /\ Head(q) \in Messages /\ Vouched(P, v, Head(q))
           /\ Tail(q) \in Seq(Messages) /\ QueueVouched(P, v, Tail(q))
<1>1. /\ q \in Seq(Messages) /\ QueueVouched(P, v, q)
      /\ Len(q) \in Nat /\ Len(q) > 0 /\ Head(q) = q[1] /\ q[1] \in Messages
      /\ Tail(q) \in Seq(Messages) /\ Len(Tail(q)) = Len(q) - 1
      /\ \A i \in 1..Len(Tail(q)) : Tail(q)[i] = q[i + 1]
  BY DEF LinkVouched
<1>2. \A i \in 1..Len(Tail(q)) : Vouched(P, v, Tail(q)[i])
  BY <1>1 DEF QueueVouched
<1> QED
  BY <1>1, <1>2 DEF QueueVouched

\* The server queues what it has just stored.
LEMMA ServerVouches ==
    ASSUME BaseInv, NEW P \in Proxies, NEW v \in Servers, handler[v][P] = "stored"
    PROVE  Wire(v, P) \in Messages /\ Vouched(P, v, Wire(v, P))
<1>1. /\ Wire(v, P) \in Messages /\ Wire(v, P).sender = v
      /\ Len(stored[v][P]) > 0 /\ Wire(v, P).seq = Len(stored[v][P])
      /\ Wire(v, P).batch = stored[v][P][Len(stored[v][P])].batch
  BY WireType DEF BaseInv
<1>2. /\ Len(stored[v][P]) \in Nat
      /\ \A i \in 1..Len(stored[v][P]) : stored[v][P][i] = sent[P][i]
  BY StoredIs
<1> HIDE DEF Wire
<1> QED
  BY <1>1, <1>2 DEF Vouched

LEMMA BcastStep ==
    ASSUME BaseInv, [Next]_vars, NEW P \in Proxies, Proxies = {P}, BcastInv(P)
    PROVE  BcastInv(P)'
<1>1. TypeOK /\ BaseInv' /\ TypeOK'
  BY BaseStep DEF BaseInv
<1> SUFFICES ASSUME NEW v \in Servers, NEW u \in Subscribers
             PROVE  LinkVouched(P, v, bqueue[v][u], to_sub[v][u])'
  BY DEF BcastInv, LinkVouched, QueueVouched
<1>2. PICK q, ts : q = bqueue[v][u] /\ ts = to_sub[v][u]
  OBVIOUS
<1>3. LinkVouched(P, v, q, ts)
  BY <1>1, <1>2, BcastValues
<1>4. LinkVouched(P, v, q, ts)'
  BY <1>3, LinkVouchedKept
<1>5. bqueue'[v][u] \in Seq(Messages) /\ to_sub'[v][u] \in AtMostOne(Messages)
  BY <1>1 DEF TypeOK
<1>6. ASSUME bqueue'[v][u] = q, to_sub'[v][u] = ts
      PROVE  LinkVouched(P, v, bqueue[v][u], to_sub[v][u])'
  BY <1>4, <1>6 DEF LinkVouched, QueueVouched
<1>7. ASSUME NEW x \in Proxies, NEW y \in Servers, ServerBroadcast(y, x)
      PROVE  LinkVouched(P, v, bqueue[v][u], to_sub[v][u])'
  <2>1. x = P /\ handler[y][P] = "stored" /\ UNCHANGED to_sub
    BY <1>7 DEF ServerBroadcast
  <2>2. /\ bqueue' = [bqueue EXCEPT ![y] = [w \in Subscribers |-> Append(@[w], Wire(y, P))]]
    BY <1>7, <2>1 DEF ServerBroadcast, Wire
  <2>3. PICK m : m = Wire(y, P)
    OBVIOUS
  <2>4. m \in Messages /\ Vouched(P, y, m)
    BY <2>1, <2>3, ServerVouches
  <2>5. Vouched(P, y, m)'
    BY <2>4, VouchedKept
  <2>6. /\ y # v => bqueue'[v][u] = bqueue[v][u]
        /\ y = v => bqueue'[v][u] = Append(bqueue[v][u], m)
    <3> HIDE DEF Wire
    <3> QED
      BY <1>1, <2>2, <2>3 DEF TypeOK
  <2>7. CASE y # v
    BY <1>2, <1>6, <2>1, <2>6, <2>7
  <2>8. CASE y = v
    <3>1. bqueue'[v][u] = Append(q, m) /\ to_sub'[v][u] = ts /\ q \in Seq(Messages)
      BY <1>2, <1>3, <2>1, <2>6, <2>8 DEF LinkVouched
    <3>2. /\ Len(q) \in Nat /\ Len(Append(q, m)) = Len(q) + 1
          /\ \A i \in 1..Len(q) : Append(q, m)[i] = q[i]
          /\ Append(q, m)[Len(q) + 1] = m
      BY <2>4, <3>1
    <3>3. ASSUME NEW i \in 1..Len(Append(q, m)) PROVE Vouched(P, v, Append(q, m)[i])'
      <4>1. CASE i \in 1..Len(q)
        BY <1>4, <3>2, <4>1 DEF LinkVouched, QueueVouched
      <4>2. CASE i = Len(q) + 1
        BY <2>5, <2>8, <3>2, <4>2
      <4> QED
        BY <3>2, <4>1, <4>2
    <3> QED
      BY <1>4, <1>5, <3>1, <3>3 DEF LinkVouched, QueueVouched
  <2> QED
    BY <2>7, <2>8
<1>8. ASSUME NEW y \in Servers, NEW w \in Subscribers,
             BroadcastStep(y, w) \/ BroadcastFails(y, w) \/ SubscriberRecv(y, w)
      PROVE  LinkVouched(P, v, bqueue[v][u], to_sub[v][u])'
  <2>1. CASE ~(y = v /\ w = u)
    <3>1. (\E c : Sets(bqueue', bqueue, y, w, c)) /\ (\E c : Sets(to_sub', to_sub, y, w, c))
      <4>1. CASE BroadcastSend(y, w)
        BY <4>1 DEF BroadcastSend, Sets
      <4>2. CASE BroadcastRecvAck(y, w) \/ BroadcastStops(y, w)
        BY <4>2 DEF BroadcastRecvAck, BroadcastStops, Sets
      <4>3. CASE BroadcastFails(y, w)
        BY <4>3 DEF BroadcastFails, Sets
      <4>4. CASE SubscriberRecv(y, w)
        BY <4>4 DEF SubscriberRecv, Sets
      <4> QED
        BY <1>8, <4>1, <4>2, <4>3, <4>4 DEF BroadcastStep
    <3>2. /\ bqueue \in [Servers -> [Subscribers -> Seq(Messages)]]
          /\ to_sub \in [Servers -> [Subscribers -> AtMostOne(Messages)]]
      BY <1>1 DEF TypeOK
    <3>3. bqueue'[v][u] = bqueue[v][u]
      BY <2>1, <3>1, <3>2 DEF Sets
    <3>4. to_sub'[v][u] = to_sub[v][u]
      BY <2>1, <3>1, <3>2 DEF Sets
    <3> QED
      BY <1>2, <1>6, <3>3, <3>4
  <2>2. CASE y = v /\ w = u /\ (BroadcastRecvAck(y, w) \/ BroadcastStops(y, w))
    BY <1>2, <1>6, <2>2 DEF BroadcastRecvAck, BroadcastStops
  <2>3. ASSUME bqueue'[v][u] = q \/ (q # << >> /\ bqueue'[v][u] = Tail(q)),
               to_sub'[v][u] \in {ts, << >>}
        PROVE  LinkVouched(P, v, bqueue[v][u], to_sub[v][u])'
    <3>1. QueueVouched(P, v, bqueue[v][u])'
      <4>1. CASE bqueue'[v][u] = q
        BY <1>4, <4>1 DEF LinkVouched, QueueVouched
      <4>2. CASE q # << >> /\ bqueue'[v][u] = Tail(q)
        <5>1. LinkVouched(P, v, Tail(q), << >>)
          BY <1>3, <4>2, LinkPops, NoneAtMostOne DEF LinkVouched
        <5>2. LinkVouched(P, v, Tail(q), << >>)'
          BY <5>1, LinkVouchedKept
        <5> QED
          BY <4>2, <5>2 DEF LinkVouched, QueueVouched
      <4> QED
        BY <2>3, <4>1, <4>2
    <3> QED
      BY <1>4, <1>5, <2>3, <3>1 DEF LinkVouched
  <2>4. CASE y = v /\ w = u /\ BroadcastSend(y, w)
    <3>1. q # << >> /\ bqueue'[v][u] = Tail(q) /\ to_sub'[v][u] = Append(ts, Head(q))
      BY <1>1, <1>2, <2>4 DEF TypeOK, BroadcastSend
    <3>2. ts = << >>
      BY <1>2, <2>4 DEF BroadcastSend, BaseInv, SubInv, SubOK
    <3>3. to_sub'[v][u] = << Head(q) >> /\ Head(to_sub'[v][u]) = Head(q)
      BY <3>1, <3>2, Single
    <3>4. LinkVouched(P, v, Tail(q), << Head(q) >>)
      BY <1>3, <3>1, LinkPops, AtMostOneFacts, Single DEF LinkVouched
    <3>5. LinkVouched(P, v, Tail(q), << Head(q) >>)'
      BY <3>4, LinkVouchedKept
    <3> QED
      BY <3>1, <3>3, <3>5 DEF LinkVouched, QueueVouched
  <2>5. CASE y = v /\ w = u /\ BroadcastFails(y, w)
    <3>1. bqueue'[v][u] = q \/ (q # << >> /\ bqueue'[v][u] = Tail(q))
      <4>1. \/ UNCHANGED bqueue
            \/ q # << >> /\ bqueue' = [bqueue EXCEPT ![v][u] = Tail(q)]
        BY <1>2, <2>5 DEF BroadcastFails
      <4>2. bqueue \in [Servers -> [Subscribers -> Seq(Messages)]]
        BY <1>1 DEF TypeOK
      <4> QED
        BY <1>2, <4>1, <4>2
    <3>2. to_sub'[v][u] \in {ts, << >>}
      BY <1>1, <1>2, <2>5 DEF TypeOK, BroadcastFails
    <3> QED
      BY <2>3, <3>1, <3>2
  <2>6. CASE y = v /\ w = u /\ SubscriberRecv(y, w)
    <3>1. bqueue'[v][u] = q
      BY <1>2, <2>6 DEF SubscriberRecv
    <3>2. ts # << >> /\ to_sub'[v][u] = Tail(ts)
      BY <1>1, <1>2, <2>6 DEF TypeOK, SubscriberRecv
    <3>3. Tail(ts) = << >>
      BY <1>3, <3>2, AtMostOneFacts DEF LinkVouched
    <3> QED
      BY <2>3, <3>1, <3>2, <3>3
  <2> QED
    BY <1>8, <2>1, <2>2, <2>4, <2>5, <2>6 DEF BroadcastStep
<1>9. ASSUME UNCHANGED << bqueue, to_sub >>
      PROVE  LinkVouched(P, v, bqueue[v][u], to_sub[v][u])'
  BY <1>2, <1>6, <1>9
<1>10. ASSUME NEW x \in Proxies, ProxyStep(x) PROVE UNCHANGED << bqueue, to_sub >>
  BY <1>10 DEF ProxyStep, SendOutBatch, LoadAcks, LoadLiveWorkers, bcastVars
<1>11. ASSUME NEW x \in Proxies, NEW y \in Servers, WorkerStep(x, y) \/ WorkerFails(x, y)
       PROVE  UNCHANGED << bqueue, to_sub >>
  BY <1>11 DEF WorkerStep, WorkerConnect, WorkerSend, WorkerRecvAck, WorkerStops, WorkerExit,
               WorkerFails, WorkerRecvFails, WorkerSendFails, bcastVars
<1>12. ASSUME NEW x \in Proxies, NEW y \in Servers, ServerStep(y, x)
       PROVE  UNCHANGED << bqueue, to_sub >> \/ ServerBroadcast(y, x)
  BY <1>12 DEF ServerStep, ServerRecvAndAck, ServerStore, bcastVars
<1>13. UNCHANGED DataVars => UNCHANGED << bqueue, to_sub >>
  BY DEF DataVars, bcastVars
<1> QED
  BY <1>1, <1>7, <1>8, <1>9, <1>10, <1>11, <1>12, <1>13, StepKinds

----------------------------------------------------------------------------
(***************************************************************************)
(* The subscribers.  A tracker that observes a vouched message counts a    *)
(* server that stores the number, and applies what P sent.                 *)
(***************************************************************************)
LEMMA ObserveVouched ==
    ASSUME BaseInv, NEW P \in Proxies, NEW t, TrackOK(P, t), NEW v \in Servers,
           NEW m \in Messages, Vouched(P, v, m)
    PROVE  /\ TrackOK(P, observe(t, m.sender, m.seq, m.batch))
           /\ Grows(t, observe(t, m.sender, m.seq, m.batch))
<1>1. m.sender = v /\ m.seq \in SeqNums /\ m.batch \in Batches /\ WellFormed(t, Servers, Batches)
  BY DEF Messages, Vouched, TrackOK
<1>2. PICK r : r = observe(t, m.sender, m.seq, m.batch)
  OBVIOUS
<1>3. /\ WellFormed(r, Servers, Batches) /\ Grows(t, r)
      /\ Observed(t, r, v, m.seq, m.batch)
  BY <1>1, <1>2, ObserveWellFormed
<1>4. /\ Len(stored[v][P]) \in Nat /\ Len(stored[v][P]) <= Len(sent[P]) /\ Len(sent[P]) \in Nat
      /\ m.seq <= Len(stored[v][P]) /\ m.batch = sent[P][m.seq].batch
  BY StoredIs DEF Vouched
<1>5. t.pending_quorum \in [SeqNums -> SUBSET Servers]
  BY <1>1 DEF WellFormed, ReadyOf, TrackersOf
<1>6. t.pending_quorum[m.seq] \cup {v} \subseteq Storers(P, m.seq)
  BY <1>1, <1>4 DEF TrackOK, Storers
<1>7. ASSUME NEW s \in SeqNums, r.pending_quorum[s] \subseteq t.pending_quorum[s]
                                \/ r.pending_quorum[s] \subseteq Storers(P, s)
      PROVE  r.pending_quorum[s] \subseteq Storers(P, s)
  BY <1>7 DEF TrackOK
<1>8. ASSUME NEW s \in SeqNums, s \in t.applied PROVE Backed(P, r, s)
  <2>1. Backed(P, t, s) /\ EntryOf(r, s) = EntryOf(t, s)
    BY <1>3, <1>8 DEF TrackOK, Grows
  <2> QED
    BY <2>1 DEF Backed
<1>9. CASE r = t
  BY <1>3, <1>9, <1>2
<1>10. CASE /\ r.applied = t.applied
            /\ r.pending_quorum = [t.pending_quorum EXCEPT ![m.seq] = @ \cup {v}]
  <2>1. ASSUME NEW s \in SeqNums PROVE r.pending_quorum[s] \subseteq Storers(P, s)
    BY <1>5, <1>6, <1>7, <1>10
  <2> QED
    BY <1>2, <1>3, <1>8, <1>10, <2>1 DEF TrackOK
<1>11. CASE /\ QuorumReachedBy(t, v, m.seq)
            /\ r.applied = t.applied \cup {m.seq}
            /\ EntryOf(r, m.seq) = m.batch
            /\ r.pending_quorum = [t.pending_quorum EXCEPT ![m.seq] = {}]
  <2>1. ASSUME NEW s \in SeqNums PROVE r.pending_quorum[s] \subseteq Storers(P, s)
    BY <1>5, <1>7, <1>11
  <2>2. Cardinality(Storers(P, m.seq)) >= Quorum
    <3>1. IsFiniteSet(Storers(P, m.seq)) /\ Cardinality(Storers(P, m.seq)) \in Nat
      BY StorersFinite
    <3>2. /\ IsFiniteSet(t.pending_quorum[m.seq] \cup {v})
          /\ Cardinality(t.pending_quorum[m.seq] \cup {v}) <= Cardinality(Storers(P, m.seq))
      BY <1>6, <3>1, FS_Subset
    <3>3. Cardinality(t.pending_quorum[m.seq] \cup {v}) \in Nat
      BY <3>2, FS_CardinalityType
    <3> QED
      BY <1>11, <3>1, <3>2, <3>3, QuorumAssumption DEF QuorumReachedBy
  <2>3. m.seq <= Len(sent[P])
    BY <1>1, <1>4, MaxSeqAssumption DEF SeqNums
  <2>4. Backed(P, r, m.seq)
    BY <1>4, <1>11, <2>2, <2>3 DEF Backed
  <2>5. ASSUME NEW s \in SeqNums, s \in r.applied PROVE Backed(P, r, s)
    BY <1>8, <1>11, <2>4, <2>5
  <2> QED
    BY <1>2, <1>3, <2>1, <2>5 DEF TrackOK
<1> QED
  BY <1>3, <1>9, <1>10, <1>11 DEF Observed

\* What a step does to the trackers.
LEMMA TrackSteps ==
    ASSUME TypeOK, [Next]_vars
    PROVE  \/ UNCHANGED trk
           \/ \E v \in Servers, u \in Subscribers : SubscriberRecv(v, u)
<1>1. ASSUME NEW x \in Proxies, ProxyStep(x) PROVE UNCHANGED trk
  BY <1>1 DEF ProxyStep, SendOutBatch, LoadAcks, LoadLiveWorkers
<1>2. ASSUME NEW x \in Proxies, NEW y \in Servers, WorkerStep(x, y) \/ WorkerFails(x, y)
      PROVE  UNCHANGED trk
  BY <1>2 DEF WorkerStep, WorkerConnect, WorkerSend, WorkerRecvAck, WorkerStops, WorkerExit,
              WorkerFails, WorkerRecvFails, WorkerSendFails
<1>3. ASSUME NEW x \in Proxies, NEW y \in Servers, ServerStep(y, x) PROVE UNCHANGED trk
  BY <1>3 DEF ServerStep, ServerRecvAndAck, ServerStore, ServerBroadcast
<1>4. ASSUME NEW y \in Servers, NEW u \in Subscribers, BroadcastStep(y, u) \/ BroadcastFails(y, u)
      PROVE  UNCHANGED trk
  BY <1>4 DEF BroadcastStep, BroadcastSend, BroadcastRecvAck, BroadcastStops, BroadcastFails
<1>5. UNCHANGED DataVars => UNCHANGED trk
  BY DEF DataVars
<1> QED
  BY <1>1, <1>2, <1>3, <1>4, <1>5, StepKinds

\* A subscriber receives a message that its sender has stored.
LEMMA SubscriberHears ==
    ASSUME BaseInv, NEW P \in Proxies, BcastInv(P), TrackInv(P),
           NEW v \in Servers, NEW u \in Subscribers, SubscriberRecv(v, u)
    PROVE  \E r : /\ trk' = [trk EXCEPT ![u] = r]
                  /\ TrackOK(P, r) /\ Grows(trk[u], r)
                  /\ UNCHANGED << proxyVars, serverVars >>
<1>1. PICK m : m = Head(to_sub[v][u])
  OBVIOUS
<1>2. m \in Messages /\ Vouched(P, v, m)
  <2>1. to_sub[v][u] # << >> /\ to_sub[v][u] \in AtMostOne(Messages)
    BY DEF SubscriberRecv, BaseInv, TypeOK
  <2> QED
    BY <1>1, <2>1, AtMostOneFacts DEF BcastInv
<1>3. PICK t : t = trk[u]
  OBVIOUS
<1>4. TrackOK(P, t)
  BY <1>3 DEF TrackInv
<1>5. PICK r : r = observe(t, m.sender, m.seq, m.batch)
  OBVIOUS
<1>6. TrackOK(P, r) /\ Grows(t, r)
  BY <1>2, <1>4, <1>5, ObserveVouched
<1>7. trk' = [trk EXCEPT ![u] = r] /\ UNCHANGED << proxyVars, serverVars >>
  BY <1>1, <1>3, <1>5 DEF SubscriberRecv
<1> QED
  BY <1>3, <1>6, <1>7

LEMMA TrackStep ==
    ASSUME BaseInv, [Next]_vars, NEW P \in Proxies, BcastInv(P), TrackInv(P)
    PROVE  TrackInv(P)'
<1>1. DOMAIN trk = Subscribers /\ trk = [u \in Subscribers |-> trk[u]]
  BY DEF TrackInv
<1>2. ASSUME NEW u \in Subscribers, NEW r, TrackOK(P, r), trk' = [trk EXCEPT ![u] = r]
      PROVE  TrackInv(P)'
  <2>1. /\ DOMAIN trk' = Subscribers /\ trk' = [w \in Subscribers |-> trk'[w]]
        /\ trk'[u] = r /\ \A w \in Subscribers \ {u} : trk'[w] = trk[w]
    BY <1>1, <1>2
  <2>2. TrackOK(P, r)'
    BY <1>2, TrackKept
  <2>3. ASSUME NEW w \in Subscribers PROVE TrackOK(P, trk[w])'
    <3>1. PICK t : t = trk[w]
      OBVIOUS
    <3>2. TrackOK(P, t)
      BY <3>1 DEF TrackInv
    <3>3. TrackOK(P, t)'
      BY <3>2, TrackKept
    <3>4. trk'[w] = r \/ trk'[w] = t
      BY <2>1, <3>1
    <3> QED
      BY <2>2, <3>3, <3>4 DEF TrackOK, Backed
  <2> QED
    BY <2>1, <2>3 DEF TrackInv
<1>3. CASE UNCHANGED trk
  <2>1. ASSUME NEW w \in Subscribers PROVE TrackOK(P, trk[w])'
    <3>1. PICK t : t = trk[w]
      OBVIOUS
    <3>2. TrackOK(P, t)
      BY <3>1 DEF TrackInv
    <3>3. TrackOK(P, t)'
      BY <3>2, TrackKept
    <3>4. trk'[w] = t
      BY <1>3, <3>1
    <3> QED
      BY <3>3, <3>4 DEF TrackOK, Backed
  <2> QED
    BY <1>1, <1>3, <2>1 DEF TrackInv
<1>4. CASE \E v \in Servers, u \in Subscribers : SubscriberRecv(v, u)
  BY <1>2, <1>4, SubscriberHears
<1> QED
  BY <1>3, <1>4, TrackSteps DEF BaseInv

LEMMA ReadInit ==
    ASSUME NEW P \in Proxies
    PROVE  Init => ReadInv(P)
<1> SUFFICES ASSUME Init PROVE ReadInv(P)
  OBVIOUS
<1>1. QuorumInv
  BY QuorumInit
<1>2. BcastInv(P)
  BY DEF Init, BcastInv
<1>3. PICK t : t = EmptyTracker
  OBVIOUS
<1>4. TrackOK(P, t)
  <2>1. WellFormed(t, Servers, Batches)
    BY <1>3, EmptyWellFormed
  <2>2. t.applied = {} /\ \A s \in SeqNums : t.pending_quorum[s] = {}
    BY <1>3 DEF EmptyTracker
  <2> QED
    BY <2>1, <2>2 DEF TrackOK
<1>5. trk = [u \in Subscribers |-> t]
  BY <1>3 DEF Init
<1>6. TrackInv(P)
  BY <1>4, <1>5 DEF TrackInv
<1> QED
  BY <1>1, <1>2, <1>6 DEF ReadInv

LEMMA ReadStep ==
    ASSUME NEW P \in Proxies, Proxies = {P}
    PROVE  ReadInv(P) /\ [Next]_vars => ReadInv(P)'
<1> SUFFICES ASSUME ReadInv(P), [Next]_vars PROVE ReadInv(P)'
  OBVIOUS
<1>1. QuorumInv /\ BaseInv /\ BcastInv(P) /\ TrackInv(P)
  BY DEF ReadInv, QuorumInv
<1>2. QuorumInv'
  BY <1>1, QuorumStep
<1>3. BcastInv(P)'
  BY <1>1, BcastStep
<1>4. TrackInv(P)'
  BY <1>1, TrackStep
<1> QED
  BY <1>2, <1>3, <1>4 DEF ReadInv

\* A log holds what P sent, and every entry of it is stored by a quorum.
LEMMA LogIsSent ==
    ASSUME NEW P \in Proxies, ReadInv(P), NEW u \in Subscribers
    PROVE  /\ trk[u].log \in Seq(Batches)
           /\ \A n \in 1..Len(trk[u].log) :
                 /\ n \in SeqNums /\ n <= Len(sent[P])
                 /\ trk[u].log[n] = sent[P][n].batch
                 /\ Cardinality(Storers(P, n)) >= Quorum
<1>1. PICK t : t = trk[u]
  OBVIOUS
<1>2. TrackOK(P, t)
  BY <1>1 DEF ReadInv, TrackInv
<1>3. /\ t.log \in Seq(Batches) /\ t.next_seq \in 1..(MaxSeq + 1)
      /\ Len(t.log) = t.next_seq - 1
      /\ 1..(t.next_seq - 1) \subseteq t.applied
  BY <1>2 DEF TrackOK, WellFormed, ReadyOf, TrackersOf
<1>4. ASSUME NEW n \in 1..Len(t.log)
      PROVE  n \in SeqNums /\ Backed(P, t, n) /\ EntryOf(t, n) = t.log[n]
  <2>1. n \in SeqNums /\ n \in t.applied /\ n < t.next_seq
    BY <1>3, MaxSeqAssumption DEF SeqNums
  <2> QED
    BY <1>2, <2>1 DEF TrackOK, EntryOf
<1> QED
  BY <1>1, <1>3, <1>4 DEF Backed

(***************************************************************************)
(* With one proxy, every entry of a subscriber's log is stored, as that    *)
(* batch, by Quorum servers, whatever they lose or deliver late: the votes *)
(* that a tracker counts are of servers that have stored the batch, since  *)
(* a server queues a message for the subscribers after storing it.         *)
(***************************************************************************)
THEOREM ReadsCorrect ==
    ASSUME NEW P, Proxies = {P}
    PROVE  Spec => []ReadsAreQuorumStored
<1>1. P \in Proxies
  OBVIOUS
<1>2. ASSUME ReadInv(P) PROVE ReadsAreQuorumStored
  <2> SUFFICES ASSUME NEW u \in Subscribers, NEW n \in 1..Len(trk[u].log)
               PROVE  Cardinality({v \in Servers : \E p \in Proxies :
                         /\ n <= Len(stored[v][p])
                         /\ stored[v][p][n].batch = trk[u].log[n]}) >= Quorum
    BY DEF ReadsAreQuorumStored
  <2> DEFINE Backing == {v \in Servers : \E p \in Proxies :
                            /\ n <= Len(stored[v][p])
                            /\ stored[v][p][n].batch = trk[u].log[n]}
  <2>1. /\ n \in SeqNums /\ n <= Len(sent[P]) /\ trk[u].log[n] = sent[P][n].batch
        /\ Cardinality(Storers(P, n)) >= Quorum
    BY <1>1, <1>2, LogIsSent
  <2>2. ASSUME NEW v \in Storers(P, n) PROVE v \in Backing
    <3>1. v \in Servers /\ n <= Len(stored[v][P])
      BY <2>2 DEF Storers
    <3>2. /\ Len(stored[v][P]) \in Nat
          /\ \A i \in 1..Len(stored[v][P]) : stored[v][P][i] = sent[P][i]
      BY <1>1, <1>2, <3>1, StoredIs DEF ReadInv, QuorumInv
    <3>3. stored[v][P][n] = sent[P][n]
      BY <2>1, <3>1, <3>2, MaxSeqAssumption DEF SeqNums
    <3> QED
      BY <1>1, <2>1, <3>1, <3>3
  <2>3. Backing \subseteq Servers
    OBVIOUS
  <2> HIDE DEF Backing
  <2>4. IsFiniteSet(Backing) /\ Cardinality(Backing) \in Nat
    BY <2>3, NodesAssumption, FS_Subset, FS_CardinalityType
  <2>5. Cardinality(Storers(P, n)) \in Nat /\ Cardinality(Storers(P, n)) <= Cardinality(Backing)
    BY <2>2, <2>4, StorersFinite, FS_Subset
  <2>6. Cardinality(Backing) >= Quorum
    BY <2>1, <2>4, <2>5, QuorumAssumption
  <2> QED
    BY <2>6 DEF Backing
<1>3. Init => ReadInv(P)
  BY <1>1, ReadInit
<1>4. ReadInv(P) /\ [Next]_vars => ReadInv(P)'
  BY <1>1, ReadStep
<1> QED
  BY <1>2, <1>3, <1>4, PTL DEF Spec

(***************************************************************************)
(* With one proxy, a batch that was answered with SUCCESS is the entry     *)
(* under its number in every log that goes that far.  With two proxies it  *)
(* is not: their numbers collide (run two_proxies).                        *)
(***************************************************************************)
THEOREM AcknowledgedCorrect ==
    ASSUME NEW P, Proxies = {P}
    PROVE  Spec => []AcknowledgedIsLogged
<1>1. P \in Proxies
  OBVIOUS
<1>2. ASSUME ReadInv(P) PROVE AcknowledgedIsLogged
  <2> SUFFICES ASSUME NEW u \in Subscribers, NEW n \in 1..Len(result[P]),
                      n <= Len(trk[u].log)
               PROVE  trk[u].log[n] = sent[P][n].batch
    BY DEF AcknowledgedIsLogged
  <2>1. /\ trk[u].log \in Seq(Batches)
        /\ \A i \in 1..Len(trk[u].log) : trk[u].log[i] = sent[P][i].batch
    BY <1>1, <1>2, LogIsSent
  <2>2. Len(result[P]) \in Nat
    BY <1>1, <1>2 DEF ReadInv, QuorumInv, BaseInv, TypeOK
  <2> QED
    BY <2>1, <2>2
<1>3. Init => ReadInv(P)
  BY <1>1, ReadInit
<1>4. ReadInv(P) /\ [Next]_vars => ReadInv(P)'
  BY <1>1, ReadStep
<1> QED
  BY <1>2, <1>3, <1>4, PTL DEF Spec

----------------------------------------------------------------------------
(***************************************************************************)
(* The refinement, in terms of the values of the abstract variables.       *)
(***************************************************************************)
Order == [n \in 1..Len(sent[TheProxy]) |-> sent[TheProxy][n].batch]
Told == {n \in 1..Len(result[TheProxy]) : result[TheProxy][n] = "SUCCESS"}
Logs == [u \in Subscribers |-> trk[u].log]

LEMMA TheProxyIs == ASSUME NEW P, Proxies = {P} PROVE TheProxy = P
BY DEF TheProxy

BatchesOf(S) == [n \in 1..Len(S) |-> S[n].batch]

LEMMA BatchesOfFacts ==
    ASSUME NEW S \in Seq(Messages)
    PROVE  /\ BatchesOf(S) \in Seq(Batches)
           /\ Len(BatchesOf(S)) = Len(S) /\ Len(S) \in Nat
           /\ \A n \in 1..Len(S) : BatchesOf(S)[n] = S[n].batch
<1>1. PICK k \in Nat : k = Len(S)
  OBVIOUS
<1>2. \A n \in 1..k : S[n] \in Messages
  BY <1>1
<1>3. \A m \in Messages : m.batch \in Batches
  BY DEF Messages
<1>4. BatchesOf(S) = [n \in 1..k |-> S[n].batch]
  BY <1>1 DEF BatchesOf
<1>5. \A n \in 1..k : S[n].batch \in Batches
  BY <1>2, <1>3
<1> QED
  BY <1>1, <1>4, <1>5

LEMMA BatchesOfAppend ==
    ASSUME NEW S \in Seq(Messages), NEW m \in Messages
    PROVE  BatchesOf(Append(S, m)) = Append(BatchesOf(S), m.batch)
<1>1. m.batch \in Batches
  BY DEF Messages
<1>2. PICK T : T = Append(S, m)
  OBVIOUS
<1>3. /\ T \in Seq(Messages) /\ Len(T) = Len(S) + 1 /\ Len(S) \in Nat
      /\ T[Len(S) + 1] = m /\ \A i \in 1..Len(S) : T[i] = S[i]
  BY <1>2
<1>4. /\ BatchesOf(T) \in Seq(Batches) /\ Len(BatchesOf(T)) = Len(S) + 1
      /\ \A n \in 1..(Len(S) + 1) : BatchesOf(T)[n] = T[n].batch
  BY <1>3, BatchesOfFacts
<1>5. PICK B : B = BatchesOf(S)
  OBVIOUS
<1>6. B \in Seq(Batches) /\ Len(B) = Len(S) /\ \A n \in 1..Len(S) : B[n] = S[n].batch
  BY <1>5, BatchesOfFacts
<1>7. /\ Append(B, m.batch) \in Seq(Batches) /\ Len(Append(B, m.batch)) = Len(S) + 1
      /\ Append(B, m.batch)[Len(S) + 1] = m.batch
      /\ \A n \in 1..Len(S) : Append(B, m.batch)[n] = B[n]
  BY <1>1, <1>3, <1>6
<1>8. \A n \in 1..(Len(S) + 1) : BatchesOf(T)[n] = Append(B, m.batch)[n]
  BY <1>3, <1>4, <1>6, <1>7
<1>9. BatchesOf(T) = Append(B, m.batch)
  BY <1>4, <1>7, <1>8, SeqEqual
<1> QED
  BY <1>2, <1>5, <1>9

\* The steps of the shared log, in these terms.
PlaceStep(batch) ==
    /\ Len(Order) < MaxSeq
    /\ Order' = Append(Order, batch)
    /\ UNCHANGED << Told, Logs >>
AnswerStep ==
    /\ Len(Order) > 0 /\ Len(Order) \notin Told
    /\ Told' = Told \cup {Len(Order)}
    /\ UNCHANGED << Order, Logs >>
ReadFurther(u, n) ==
    /\ n \in (Len(Logs[u]) + 1)..Len(Order)
    /\ Logs' = [Logs EXCEPT ![u] = SubSeq(Order, 1, n)]
    /\ UNCHANGED << Order, Told >>
AbstractStep ==
    \/ \E batch \in Batches : PlaceStep(batch)
    \/ AnswerStep
    \/ \E u \in Subscribers, n \in 1..MaxSeq : ReadFurther(u, n)
    \/ UNCHANGED << Order, Told, Logs >>

LEMMA AbstractSteps == AbstractStep <=> [Log!Next]_(Log!vars)
<1>1. \A batch : PlaceStep(batch) <=> Log!Place(batch)
  BY Zenon DEF PlaceStep, Log!Place, Order, Told, Logs
<1>2. AnswerStep <=> Log!AnswerLast
  BY Zenon DEF AnswerStep, Log!AnswerLast, Order, Told, Logs
<1>3. \A u, n : ReadFurther(u, n) <=> Log!Read(u, n)
  BY Zenon DEF ReadFurther, Log!Read, Order, Told, Logs
<1>4. UNCHANGED << Order, Told, Logs >> <=> UNCHANGED Log!vars
  BY Zenon DEF Log!vars, Order, Told, Logs
<1> QED
  BY <1>1, <1>2, <1>3, <1>4, Zenon DEF AbstractStep, Log!Next

LEMMA OrderFacts ==
    ASSUME NEW P \in Proxies, TheProxy = P
    PROVE  /\ Order = BatchesOf(sent[P]) /\ Order' = BatchesOf(sent'[P])
           /\ Told = {n \in 1..Len(result[P]) : result[P][n] = "SUCCESS"}
           /\ Told' = {n \in 1..Len(result'[P]) : result'[P][n] = "SUCCESS"}
BY DEF Order, BatchesOf, Told

\* A batch handed to replicate_bytes takes the next place.
LEMMA SendPlaces ==
    ASSUME NEW P \in Proxies, Proxies = {P}, BaseInv, NEW batch \in Batches, SendOutBatch(P, batch)
    PROVE  PlaceStep(batch)
<1>1. TheProxy = P /\ TypeOK
  BY TheProxyIs DEF BaseInv
<1> DEFINE m == [sender |-> P, seq |-> Len(sent[P]) + 1, batch |-> batch]
<1>2. sent[P] \in Seq(Messages) /\ Len(sent[P]) < MaxSeq
  BY <1>1 DEF TypeOK, SendOutBatch
<1>3. m \in Messages /\ m.batch = batch
  BY <1>2, MaxSeqAssumption DEF Messages, SeqNums
<1>4. sent' = [sent EXCEPT ![P] = Append(@, m)] /\ UNCHANGED << result, trk >>
  BY DEF SendOutBatch
<1> HIDE DEF m
<1>5. sent'[P] = Append(sent[P], m)
  BY <1>1, <1>4 DEF TypeOK
<1>6. PICK S \in Seq(Messages) : S = sent[P]
  BY <1>2
<1>7. Order = BatchesOf(S) /\ Order' = BatchesOf(Append(S, m))
  BY <1>1, <1>5, <1>6, OrderFacts
<1>8. Order' = Append(Order, batch) /\ Len(Order) < MaxSeq
  <2>1. BatchesOf(Append(S, m)) = Append(BatchesOf(S), batch)
    BY <1>3, <1>6, BatchesOfAppend
  <2>2. Len(BatchesOf(S)) = Len(S)
    BY <1>6, BatchesOfFacts
  <2> QED
    BY <1>2, <1>6, <1>7, <2>1, <2>2
<1>9. UNCHANGED << Told, Logs >>
  BY <1>4 DEF Told, Logs
<1> QED
  BY <1>8, <1>9 DEF PlaceStep

\* SUCCESS answers the clients of the batch placed last; FAILURE tells them nothing.
LEMMA AnswerAnswers ==
    ASSUME NEW P \in Proxies, Proxies = {P}, QuorumInv, Answered(P)
    PROVE  AnswerStep \/ UNCHANGED << Order, Told, Logs >>
<1>1. TheProxy = P /\ TypeOK /\ ProxyOK(P)
  BY TheProxyIs DEF QuorumInv, BaseInv, AckInv
<1>2. UNCHANGED << sent, trk >>
  BY DEF Answered, LoadFrame
<1>3. UNCHANGED << Order, Logs >>
  BY <1>2 DEF Order, Logs
<1>4. PICK r \in {"SUCCESS", "FAILURE"} : result' = [result EXCEPT ![P] = Append(@, r)]
  BY DEF Answered, Answer
<1>5. PICK R : R = result[P]
  OBVIOUS
<1>6. R \in Seq({"SUCCESS", "FAILURE"}) /\ result'[P] = Append(R, r)
  BY <1>1, <1>4, <1>5 DEF TypeOK
<1>7. /\ Len(R) \in Nat /\ Len(Append(R, r)) = Len(R) + 1
      /\ Append(R, r)[Len(R) + 1] = r /\ \A i \in 1..Len(R) : Append(R, r)[i] = R[i]
  BY <1>6
<1>8. Len(Order) = Len(R) + 1
  <2>1. proxy_pc[P] # "idle"
    BY DEF Answered
  <2>2. Len(sent[P]) = Len(R) + 1 /\ sent[P] \in Seq(Messages)
    BY <1>1, <1>5, <2>1 DEF ProxyOK, TypeOK
  <2>3. Len(Order) = Len(sent[P])
    BY <1>1, <2>2, OrderFacts, BatchesOfFacts
  <2> QED
    BY <2>2, <2>3
<1>9. /\ Told = {n \in 1..Len(R) : R[n] = "SUCCESS"}
      /\ Told' = {n \in 1..(Len(R) + 1) : Append(R, r)[n] = "SUCCESS"}
  BY <1>1, <1>5, <1>6, <1>7, OrderFacts
<1>10. CASE r = "SUCCESS"
  <2>1. Told' = Told \cup {Len(R) + 1}
    BY <1>7, <1>9, <1>10
  <2>2. Len(R) + 1 \notin Told
    BY <1>7, <1>9
  <2> QED
    BY <1>3, <1>7, <1>8, <2>1, <2>2 DEF AnswerStep
<1>11. CASE r = "FAILURE"
  <2>1. Told' = Told
    BY <1>7, <1>9, <1>11
  <2> QED
    BY <1>3, <2>1
<1> QED
  BY <1>10, <1>11

\* A subscriber that applies a batch reads further along the order.
LEMMA RecvReads ==
    ASSUME NEW P \in Proxies, Proxies = {P}, ReadInv(P), ReadInv(P)',
           NEW v \in Servers, NEW u \in Subscribers, SubscriberRecv(v, u)
    PROVE  (\E n \in 1..MaxSeq : ReadFurther(u, n)) \/ UNCHANGED << Order, Told, Logs >>
<1>1. TheProxy = P /\ TypeOK /\ BaseInv /\ BcastInv(P) /\ TrackInv(P)
  BY TheProxyIs DEF ReadInv, QuorumInv, BaseInv
<1>2. PICK r : /\ trk' = [trk EXCEPT ![u] = r]
               /\ TrackOK(P, r) /\ Grows(trk[u], r)
               /\ UNCHANGED << proxyVars, serverVars >>
  BY <1>1, SubscriberHears
<1>3. PICK t : t = trk[u]
  OBVIOUS
<1>4. UNCHANGED << Order, Told >>
  BY <1>2 DEF Order, Told, proxyVars
<1>5. /\ trk'[u] = r /\ \A w \in Subscribers \ {u} : trk'[w] = trk[w]
  BY <1>1, <1>2 DEF TrackInv
<1>6. Logs' = [Logs EXCEPT ![u] = r.log]
  BY <1>5 DEF Logs
<1>7. /\ t.log \in Seq(Batches) /\ Len(t.log) \in Nat
      /\ \A n \in 1..Len(t.log) : n <= Len(sent[P]) /\ t.log[n] = sent[P][n].batch
  BY <1>3, LogIsSent
<1>8. TrackOK(P, t)
  BY <1>1, <1>3 DEF TrackInv
<1>9. /\ r.log \in Seq(Batches) /\ Len(r.log) = r.next_seq - 1 /\ r.next_seq \in 1..(MaxSeq + 1)
      /\ Len(t.log) = t.next_seq - 1 /\ t.next_seq \in 1..(MaxSeq + 1)
      /\ r.next_seq >= t.next_seq /\ \A n \in 1..Len(t.log) : r.log[n] = t.log[n]
      /\ 1..(r.next_seq - 1) \subseteq r.applied
  BY <1>2, <1>3, <1>8 DEF TrackOK, WellFormed, ReadyOf, TrackersOf, Grows
<1>10. ASSUME NEW n \in 1..Len(r.log)
       PROVE  n <= Len(sent[P]) /\ r.log[n] = sent[P][n].batch
  <2>1. n \in SeqNums /\ n \in r.applied /\ n < r.next_seq
    BY <1>9, MaxSeqAssumption DEF SeqNums
  <2> QED
    BY <1>2, <2>1 DEF TrackOK, Backed, EntryOf
<1>11. Logs[u] = t.log /\ Logs = [w \in Subscribers |-> Logs[w]]
  BY <1>3 DEF Logs
<1>12. CASE Len(r.log) = Len(t.log)
  <2>1. r.log = t.log
    BY <1>7, <1>9, <1>12, SeqEqual
  <2>2. Logs' = Logs
    BY <1>6, <1>11, <2>1 DEF Logs
  <2> QED
    BY <1>4, <2>2
<1>13. CASE Len(r.log) # Len(t.log)
  <2>1. PICK n \in 1..MaxSeq : n = Len(r.log) /\ n > Len(t.log)
    BY <1>9, <1>13, MaxSeqAssumption
  <2>2. sent[P] \in Seq(Messages) /\ Len(sent[P]) \in Nat /\ n <= Len(sent[P])
    BY <1>1, <1>10, <2>1 DEF TypeOK
  <2>3. PICK B \in Seq(Batches) : /\ B = Order /\ Len(B) = Len(sent[P])
                                  /\ \A i \in 1..Len(sent[P]) : B[i] = sent[P][i].batch
    BY <1>1, <2>2, OrderFacts, BatchesOfFacts
  <2>4. /\ SubSeq(B, 1, n) \in Seq(Batches) /\ Len(SubSeq(B, 1, n)) = n
        /\ \A i \in 1..n : SubSeq(B, 1, n)[i] = B[i]
    BY <2>2, <2>3
  <2>5. \A i \in 1..n : r.log[i] = SubSeq(B, 1, n)[i]
    BY <1>10, <2>1, <2>2, <2>3, <2>4
  <2>6. r.log = SubSeq(B, 1, n)
    BY <1>9, <2>1, <2>4, <2>5, SeqEqual
  <2>7. n \in (Len(Logs[u]) + 1)..Len(Order)
    BY <1>7, <1>11, <2>1, <2>2, <2>3
  <2>8. ReadFurther(u, n)
    BY <1>4, <1>6, <2>3, <2>6, <2>7 DEF ReadFurther
  <2> QED
    BY <2>8
<1> QED
  BY <1>12, <1>13

LEMMA AbstractNext ==
    ASSUME NEW P \in Proxies, Proxies = {P}, ReadInv(P), [Next]_vars
    PROVE  AbstractStep
<1>1. QuorumInv /\ BaseInv /\ TypeOK /\ PathInv /\ ReadInv(P)'
  BY ReadStep DEF ReadInv, QuorumInv, BaseInv
<1>2. UNCHANGED << sent, result, trk >> => UNCHANGED << Order, Told, Logs >>
  BY DEF Order, Told, Logs
<1>3. ASSUME NEW x \in Proxies, ProxyStep(x) PROVE AbstractStep
  <2>1. x = P
    OBVIOUS
  <2>2. ASSUME NEW batch \in Batches, SendOutBatch(P, batch) PROVE AbstractStep
    BY <1>1, <2>2, SendPlaces DEF AbstractStep
  <2>3. CASE Answered(P)
    BY <1>1, <2>3, AnswerAnswers DEF AbstractStep
  <2>4. CASE Looped(P)
    BY <1>2, <2>4 DEF Looped, LoadFrame, AbstractStep
  <2> QED
    BY <1>1, <1>3, <2>1, <2>2, <2>3, <2>4, LoadSteps DEF ProxyStep
<1>4. ASSUME NEW v \in Servers, NEW u \in Subscribers, SubscriberRecv(v, u) PROVE AbstractStep
  BY <1>1, <1>4, RecvReads DEF AbstractStep
<1>5. ASSUME NEW x \in Proxies, NEW y \in Servers, WorkerStep(x, y) \/ WorkerFails(x, y)
      PROVE  UNCHANGED << sent, result, trk >>
  BY <1>5 DEF WorkerStep, WorkerConnect, WorkerSend, WorkerRecvAck, WorkerStops, WorkerExit,
              WorkerFails, WorkerRecvFails, WorkerSendFails, proxyVars
<1>6. ASSUME NEW x \in Proxies, NEW y \in Servers, ServerStep(y, x)
      PROVE  UNCHANGED << sent, result, trk >>
  BY <1>6 DEF ServerStep, ServerRecvAndAck, ServerStore, ServerBroadcast, proxyVars
<1>7. ASSUME NEW y \in Servers, NEW u \in Subscribers, BroadcastStep(y, u) \/ BroadcastFails(y, u)
      PROVE  UNCHANGED << sent, result, trk >>
  BY <1>7 DEF BroadcastStep, BroadcastSend, BroadcastRecvAck, BroadcastStops, BroadcastFails,
              proxyVars
<1>8. UNCHANGED DataVars => UNCHANGED << sent, result, trk >>
  BY DEF DataVars, proxyVars
<1>9. UNCHANGED << sent, result, trk >> => AbstractStep
  BY <1>2 DEF AbstractStep
<1> QED
  BY <1>1, <1>3, <1>4, <1>5, <1>6, <1>7, <1>8, <1>9, StepKinds

LEMMA AbstractInit ==
    ASSUME NEW P \in Proxies, Proxies = {P}, Init
    PROVE  Log!Init
<1>1. TheProxy = P
  BY TheProxyIs
<1>2. /\ sent[TheProxy] = << >> /\ result[TheProxy] = << >>
      /\ trk = [u \in Subscribers |-> EmptyTracker]
  BY <1>1 DEF Init
<1>3. Order = << >> /\ Told = {}
  BY <1>2 DEF Order, Told
<1>4. Logs = [u \in Subscribers |-> << >>]
  BY <1>2 DEF Logs, EmptyTracker
<1> QED
  BY <1>3, <1>4, Zenon DEF Log!Init, Order, Told, Logs

(***************************************************************************)
(* With one proxy, the data path implements the shared log: handing a      *)
(* batch to replicate_bytes gives it its place, replicate_bytes returning  *)
(* true answers it, a tracker that applies a batch reads on, and all else  *)
(* that the threads do, or that fails, is invisible.                       *)
(***************************************************************************)
THEOREM RefinementCorrect ==
    ASSUME NEW P, Proxies = {P}
    PROVE  Spec => ImplementsSharedLog
<1>1. P \in Proxies
  OBVIOUS
<1>2. Init => Log!Init
  BY <1>1, AbstractInit
<1>3. ReadInv(P) /\ [Next]_vars => [Log!Next]_(Log!vars)
  BY <1>1, AbstractNext, AbstractSteps
<1>4. Init => ReadInv(P)
  BY <1>1, ReadInit
<1>5. ReadInv(P) /\ [Next]_vars => ReadInv(P)'
  BY <1>1, ReadStep
<1> QED
  BY <1>2, <1>3, <1>4, <1>5, PTL DEF Spec, ImplementsSharedLog, Log!Spec
=============================================================================
