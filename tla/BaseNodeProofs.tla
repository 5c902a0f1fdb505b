------------------------------- MODULE BaseNodeProofs -------------------------------
(***************************************************************************)
(* Proofs about the sockets and threads of a node, for any number of       *)
(* connections and pooled sockets.                                         *)
(***************************************************************************)
EXTENDS BaseNode, FiniteSetTheorems, SequenceTheorems,
        WellFoundedInduction, TLAPS

\* The connections whose descriptor is open as far as their thread knows.
Using == Handling \cup {"accepted", "close"}

\* The connections that have a place in accepted_sockets_.
Listed(c) ==
    \/ Alive(c)
    \/ conn[c] = "accepted" /\ run_pc = "spawn"

(***************************************************************************)
(* shutdown() is called only after run() has announced itself or given up, *)
(* so that what it closes stays closed.                                    *)
(***************************************************************************)
PhaseInv ==
    /\ life = "starting" => shut = 0
    /\ run_pc \in {"start", "announce"} => life = "starting" /\ ~is_running
    /\ run_pc = "start" => sock = "none"
    /\ run_pc = "announce" => sock = "open"
    /\ run_pc \notin {"start", "done"} => sock # "none"
    /\ is_running => sock = "open"
    /\ shut >= 2 => ~is_running
    /\ shut >= 3 => sock # "open"
    /\ sock = "none" => \A c \in Conns : conn[c] = "absent"

\* The connection that run() has at hand.
AcceptInv ==
    /\ \A c \in Conns : conn[c] = "accepted" => c = accepting /\ run_pc \in {"track", "spawn"}
    /\ run_pc \in {"track", "spawn"} => conn[accepting] = "accepted"
    /\ run_pc = "emplace" => Alive(accepting) \/ conn[accepting] = "done"

(***************************************************************************)
(* A descriptor belongs to the connection or to the pooled socket that was *)
(* given it, as long as the listening socket is open; after that, a number *)
(* may pass from a connection to a pooled socket, never the other way.     *)
(***************************************************************************)
OwnerInv ==
    /\ \A c \in Conns : conn[c] \in {"absent", "backlog", "refused"} <=> fd[c] = 0
    /\ \A f \in Fds : owner[f] \in Conns => conn[owner[f]] \in Using /\ fd[owner[f]] = f
    /\ \A f \in Fds : owner[f] \in Targets => pool[owner[f]] = f
    /\ \A c \in Conns : conn[c] \in Using =>
          /\ owner[fd[c]] \notin Conns \ {c}
          /\ sock = "open" => owner[fd[c]] = c
    /\ \A t \in Targets : pool[t] # 0 =>
          /\ owner[pool[t]] \notin Conns
          /\ sock = "open" \/ run_pc = "start" => owner[pool[t]] = t

\* Every listed connection has an entry of its own, although entries may be equal.
Places(h) ==
    /\ h \in [{c \in Conns : Listed(c)} -> 1..Len(accepted_sockets)]
    /\ \A c, d \in DOMAIN h : h[c] = h[d] => c = d
    /\ \A c \in DOMAIN h : accepted_sockets[h[c]] = fd[c]

PlaceInv == sock = "open" => \E h : Places(h)

\* The threads that shutdown() does not know are that of the connection at hand.
ThreadInv == \A c \in Conns : Alive(c) => c \in connection_threads \/ c = accepting

StragglerInv ==
    (life \in {"base", "destroyed"} \/ (life = "derived" /\ shut = 0)) =>
        /\ sock # "open"
        /\ \E x \in Conns \cup {NoConn} :
              \A c \in Conns : Alive(c) \/ conn[c] = "accepted" => c = x

SocketInv == TypeOK /\ PhaseInv /\ AcceptInv /\ OwnerInv /\ ThreadInv /\ StragglerInv

NodeInv == SocketInv /\ PlaceInv

----------------------------------------------------------------------------
LEMMA FdsType ==
    /\ Cardinality(Conns) \in Nat /\ Cardinality(Targets) \in Nat
    /\ Fds \subseteq Nat /\ 0 \notin Fds
<1>1. Cardinality(Conns) \in Nat /\ Cardinality(Targets) \in Nat
  BY BaseNodeAssumption, FS_CardinalityType
<1> QED
  BY <1>1 DEF Fds

\* The steps of shutdown by their numbers.
ShutdownNumbered ==
    /\ Len(ShutdownSteps) = 5
    /\ ShutdownAt("stop_running") <=> shut = 1
    /\ ShutdownAt("close_listener") <=> shut = 2
    /\ ShutdownAt("close_accepted") <=> shut = 3
    /\ ShutdownAt("lock_threads") <=> shut = 4
    /\ ShutdownAt("join_threads") <=> shut = 5
    /\ ShutdownAdvances <=> shut' = IF shut = 5 THEN 0 ELSE shut + 1

LEMMA ShutdownIs ==
    ASSUME TypeOK
    PROVE  shut \in 0..5 /\ ShutdownNumbered
<1>1. /\ Len(ShutdownSteps) = 5
      /\ ShutdownSteps[1] = "stop_running" /\ ShutdownSteps[2] = "close_listener"
      /\ ShutdownSteps[3] = "close_accepted" /\ ShutdownSteps[4] = "lock_threads"
      /\ ShutdownSteps[5] = "join_threads"
  BY DEF ShutdownSteps
<1>2. shut \in 0..5
  BY <1>1 DEF TypeOK
<1>3. shut = 0 \/ shut = 1 \/ shut = 2 \/ shut = 3 \/ shut = 4 \/ shut = 5
  BY <1>2
<1> QED
  BY <1>1, <1>2, <1>3 DEF ShutdownNumbered, ShutdownAt, ShutdownAdvances

LEMMA LeastOf ==
    ASSUME NEW T \in SUBSET Nat, T # {}
    PROVE  \E x \in T : \A y \in T : x <= y
<1> DEFINE Below == OpToRel(<, Nat)
<1>1. IsWellFoundedOn(Below, Nat)
  BY NatLessThanWellFounded DEF Below
<1> HIDE DEF Below
<1>2. PICK x \in T : \A y \in T : ~ (<< y, x >> \in Below)
  BY <1>1, WFMin
<1>3. \A y \in T : ~ (y < x)
  BY <1>2 DEF OpToRel, Below
<1> QED
  BY <1>3

\* Who has no descriptor finds a free one: fewer are in use than there are owners.
LEMMA DescriptorFree ==
    ASSUME SocketInv, NEW o \in Conns \cup Targets, \A f \in Fds : owner[f] # o
    PROVE  LowestFree \in Fds /\ owner[LowestFree] = NoConn
<1> DEFINE Free == {x \in Fds : owner[x] = NoConn}
           Owners == Conns \cup Targets
<1>1. Free # {}
  <2> SUFFICES ASSUME \A x \in Fds : owner[x] # NoConn PROVE FALSE
    OBVIOUS
  <2>1. owner \in [Fds -> Owners \ {o}]
    BY DEF SocketInv, TypeOK
  <2>2. /\ IsFiniteSet(Owners)
        /\ Cardinality(Owners) = Cardinality(Conns) + Cardinality(Targets)
    <3>1. Cardinality({}) = 0
      BY FS_EmptySet
    <3>2. Cardinality(Conns \cap Targets) = 0
      BY <3>1, BaseNodeAssumption
    <3>3. /\ IsFiniteSet(Owners)
          /\ Cardinality(Owners) =
                 Cardinality(Conns) + Cardinality(Targets) - Cardinality(Conns \cap Targets)
      BY BaseNodeAssumption, FS_Union, Zenon
    <3> QED
      BY <3>2, <3>3, FdsType
  <2> HIDE DEF Owners
  <2>3. IsFiniteSet(Owners \ {o}) /\ Cardinality(Owners \ {o}) = Cardinality(Owners) - 1
    <3>1. o \in Owners
      BY DEF Owners
    <3> QED
      BY <2>2, <3>1, FS_RemoveElement, Zenon
  <2>4. IsFiniteSet(Fds) /\ Cardinality(Fds) = Cardinality(Conns) + Cardinality(Targets)
    <3>1. Cardinality(Conns) + Cardinality(Targets) \in Nat
      BY FdsType
    <3> QED
      BY <3>1, FS_Interval DEF Fds
  <2>5. Cardinality(Owners \ {o}) < Cardinality(Fds)
    BY <2>2, <2>3, <2>4, FdsType
  <2>6. PICK f, g \in Fds : f # g /\ owner[f] = owner[g]
    BY <2>1, <2>3, <2>4, <2>5, FS_PigeonHole
  <2>7. owner[f] \in Conns \cup Targets
    BY DEF SocketInv, TypeOK
  <2> QED
    BY <2>6, <2>7 DEF SocketInv, OwnerInv
<1>2. PICK x \in Free : \A y \in Free : x <= y
  <2>1. Free \in SUBSET Nat
    BY FdsType
  <2> HIDE DEF Free
  <2> QED
    BY <1>1, <2>1, LeastOf
<1>3. \A y \in 1..(x - 1) : y \in Fds /\ owner[y] # NoConn
  BY <1>2, FdsType DEF Fds
<1> QED
  BY <1>2, <1>3 DEF LowestFree

LEMMA SocketInit == Init => SocketInv
<1> SUFFICES ASSUME Init PROVE SocketInv
  OBVIOUS
<1>1. TypeOK
  <2>1. /\ is_running \in BOOLEAN /\ sock = "none" /\ run_pc = "start"
        /\ peer_open \subseteq Conns /\ connection_threads \subseteq Conns /\ life = "starting"
    BY DEF Init
  <2>2. /\ accepting \in Conns \cup {NoConn}
        /\ (accepting = NoConn) <=> (run_pc \notin {"track", "spawn", "emplace"})
    BY DEF Init
  <2>3. conn \in [Conns -> Handling \cup {"absent", "backlog", "refused", "accepted", "close",
                                          "untrack", "done"}]
    BY DEF Init
  <2>4. /\ fd \in [Conns -> {0} \cup Fds] /\ owner \in [Fds -> Conns \cup Targets \cup {NoConn}]
        /\ pool \in [Targets -> {0} \cup Fds]
        /\ accepted_sockets \in Seq(Fds)
    BY DEF Init
  <2>5. shut \in 0..Len(ShutdownSteps)
    BY DEF Init, ShutdownSteps
  <2> QED
    BY <2>1, <2>2, <2>3, <2>4, <2>5 DEF TypeOK
<1> QED
  BY <1>1, BaseNodeAssumption
  DEF Init, SocketInv, PhaseInv, AcceptInv, OwnerInv, ThreadInv, StragglerInv,
      Alive, Handling, Using

LEMMA RunSteps ==
    ASSUME SocketInv,
           RunListens \/ RunAnnounces \/ RunLoop \/ RunAcceptFails \/ RunTracks
    PROVE  SocketInv'
<1> USE FdsType, BaseNodeAssumption DEF SocketInv, RunTo, connVars, trackVars
<1>1. CASE RunListens
  <2>1. TypeOK' /\ PhaseInv' /\ AcceptInv'
    BY <1>1 DEF RunListens, create_listening_socket, TypeOK, PhaseInv, AcceptInv, Alive
  <2>2. OwnerInv'
    <3>1. \A c \in Conns : conn[c] = "absent"
      BY <1>1 DEF RunListens, PhaseInv
    <3>2. \A f \in Fds : owner[f] \notin Conns
      BY <3>1 DEF OwnerInv, Using, Handling
    <3>3. \A t \in Targets : pool[t] # 0 => owner[pool[t]] = t
      BY <1>1 DEF RunListens, OwnerInv
    <3> QED
      BY <1>1, <3>1, <3>2, <3>3 DEF RunListens, OwnerInv, Using, Handling
  <2>3. ThreadInv' /\ StragglerInv'
    BY <1>1 DEF RunListens, PhaseInv, ThreadInv, StragglerInv, Alive
  <2> QED
    BY <2>1, <2>2, <2>3
<1>2. CASE RunAnnounces
  BY <1>2 DEF RunAnnounces, TypeOK, PhaseInv, AcceptInv, OwnerInv,
     ThreadInv, StragglerInv, Alive, Handling, Using
<1>3. CASE RunLoop
  BY <1>3 DEF RunLoop, TypeOK, PhaseInv, AcceptInv, OwnerInv,
     ThreadInv, StragglerInv, Alive, Handling, Using
<1>4. CASE RunAcceptFails
  BY <1>4 DEF RunAcceptFails, TypeOK, PhaseInv, AcceptInv, OwnerInv,
     ThreadInv, StragglerInv, Alive, Handling, Using
<1>5. CASE RunTracks
  BY <1>5 DEF RunTracks, TypeOK, PhaseInv, AcceptInv, OwnerInv,
     ThreadInv, StragglerInv, Alive, Handling, Using
<1> QED
  BY <1>1, <1>2, <1>3, <1>4, <1>5

LEMMA AcceptStep ==
    ASSUME SocketInv, NEW c \in Conns, RunAccepts(c)
    PROVE  SocketInv'
<1> DEFINE f == LowestFree
<1>1. f \in Fds /\ owner[f] = NoConn
  <2>1. \A x \in Fds : owner[x] # c
    BY FdsType DEF RunAccepts, SocketInv, OwnerInv, Using, Handling
  <2> QED
    BY <2>1, DescriptorFree
<1>2. /\ run_pc = "accept" /\ sock = "open" /\ conn[c] = "backlog"
      /\ conn' = [conn EXCEPT ![c] = "accepted"]
      /\ fd' = [fd EXCEPT ![c] = f]
      /\ owner' = [owner EXCEPT ![f] = c]
      /\ accepting' = c /\ run_pc' = "track"
      /\ UNCHANGED << is_running, sock, peer_open, pool, trackVars, shut, life >>
  BY DEF RunAccepts
<1> HIDE DEF f
<1>3. TypeOK'
  <2>1. conn' \in [Conns -> Handling \cup {"absent", "backlog", "refused", "accepted", "close",
                                          "untrack", "done"}]
    BY <1>2 DEF SocketInv, TypeOK
  <2>2. fd' \in [Conns -> {0} \cup Fds] /\ owner' \in [Fds -> Conns \cup Targets \cup {NoConn}]
    BY <1>1, <1>2 DEF SocketInv, TypeOK
  <2>3. accepting' # NoConn /\ run_pc' = "track"
    BY <1>2, BaseNodeAssumption
  <2> QED
    BY <1>2, <2>1, <2>2, <2>3 DEF SocketInv, TypeOK, trackVars
<1>4. PhaseInv' /\ AcceptInv' /\ ThreadInv' /\ StragglerInv'
  <2>1. PhaseInv'
    BY <1>2 DEF SocketInv, TypeOK, PhaseInv
  <2>2. AcceptInv'
    <3>1. \A d \in Conns : conn[d] # "accepted"
      BY <1>2 DEF SocketInv, AcceptInv
    <3>2. \A d \in Conns : conn'[d] = "accepted" => d = c
      BY <1>2, <3>1 DEF SocketInv, TypeOK
    <3>3. conn'[c] = "accepted"
      BY <1>2 DEF SocketInv, TypeOK
    <3> QED
      <4>1. accepting' = c /\ run_pc' = "track"
        BY <1>2
      <4> QED
        BY <3>2, <3>3, <4>1 DEF AcceptInv
  <2>3. ThreadInv'
    BY <1>2, BaseNodeAssumption DEF SocketInv, TypeOK, ThreadInv, Alive, Handling, trackVars
  <2>4. StragglerInv'
    BY <1>2 DEF SocketInv, StragglerInv
  <2> QED
    BY <2>1, <2>2, <2>3, <2>4
<1>5. OwnerInv'
  BY <1>1, <1>2, FdsType, BaseNodeAssumption
  DEF SocketInv, TypeOK, PhaseInv, OwnerInv, Using, Handling
<1> QED
  BY <1>3, <1>4, <1>5 DEF SocketInv

LEMMA SpawnSteps ==
    ASSUME SocketInv, RunSpawns \/ RunEmplaces
    PROVE  SocketInv'
<1> USE FdsType, BaseNodeAssumption DEF SocketInv, connVars, trackVars
<1>1. CASE RunSpawns
  <2>1. TypeOK'
    BY <1>1 DEF RunSpawns, RunTo, TypeOK, Handling
  <2>2. PhaseInv' /\ AcceptInv' /\ OwnerInv'
    BY <1>1 DEF RunSpawns, RunTo, TypeOK, PhaseInv, AcceptInv, OwnerInv, Alive, Handling, Using
  <2>3. ThreadInv' /\ StragglerInv'
    BY <1>1 DEF RunSpawns, RunTo, TypeOK, PhaseInv, AcceptInv, ThreadInv, StragglerInv,
       Alive, Handling
  <2> QED
    BY <2>1, <2>2, <2>3
<1>2. CASE RunEmplaces
  <2>1. TypeOK'
    BY <1>2 DEF RunEmplaces, TypeOK
  <2>2. PhaseInv' /\ AcceptInv' /\ OwnerInv'
    BY <1>2 DEF RunEmplaces, TypeOK, PhaseInv, AcceptInv, OwnerInv, Alive, Handling, Using
  <2>3. ThreadInv' /\ StragglerInv'
    BY <1>2 DEF RunEmplaces, TypeOK, ThreadInv, StragglerInv, Alive, Handling
  <2> QED
    BY <2>1, <2>2, <2>3
<1> QED
  BY <1>1, <1>2

LEMMA ConnSteps ==
    ASSUME SocketInv, NEW c \in Conns,
           \/ ClientConnects(c) \/ ClientCloses(c) \/ HandlerChecks(c) \/ HandlerCallsRecv(c)
           \/ HandlerReceives(c) \/ HandlerMisreads(c) \/ HandlerAnswered(c) \/ HandlerRecvFails(c)
    PROVE  SocketInv'
<1>1. /\ UNCHANGED << is_running, sock, runVars, fd, owner, pool, trackVars, shut, life >>
      /\ peer_open' \subseteq Conns
  BY DEF ClientConnects, ClientCloses, HandlerChecks, HandlerCallsRecv, HandlerReceives,
         HandlerMisreads, HandlerAnswered, HandlerRecvFails, ConnTo, SocketInv, TypeOK
<1>2. \/ UNCHANGED conn
      \/ conn[c] = "absent" /\ sock = "open" /\ conn' = [conn EXCEPT ![c] = "backlog"]
      \/ /\ conn[c] \in Handling
         /\ \E pc \in Handling \cup {"close"} : conn' = [conn EXCEPT ![c] = pc]
  BY DEF ClientConnects, ClientCloses, HandlerChecks, HandlerCallsRecv, HandlerReceives,
         HandlerMisreads, HandlerAnswered, HandlerRecvFails, ConnTo, Handling
<1>3. TypeOK'
  BY <1>1, <1>2 DEF SocketInv, TypeOK, runVars, trackVars, Handling
<1>4. PhaseInv' /\ AcceptInv'
  BY <1>1, <1>2 DEF SocketInv, TypeOK, PhaseInv, AcceptInv, Alive, Handling, runVars, trackVars
<1>5. OwnerInv'
  BY <1>1, <1>2, BaseNodeAssumption
  DEF SocketInv, TypeOK, PhaseInv, OwnerInv, Handling, Using, runVars
<1>6. ThreadInv' /\ StragglerInv'
  BY <1>1, <1>2 DEF SocketInv, TypeOK, ThreadInv, StragglerInv, Alive, Handling, runVars, trackVars
<1> QED
  BY <1>3, <1>4, <1>5, <1>6 DEF SocketInv

LEMMA CloseStep ==
    ASSUME SocketInv, NEW c \in Conns, HandlerCloses(c)
    PROVE  SocketInv'
<1>1. /\ UNCHANGED << is_running, sock, runVars, peer_open, fd, pool, trackVars, shut, life >>
      /\ conn[c] = "close" /\ conn' = [conn EXCEPT ![c] = "untrack"]
      /\ owner' = [owner EXCEPT ![fd[c]] = NoConn]
  BY DEF HandlerCloses
<1>2. fd[c] \in Fds
  BY <1>1 DEF SocketInv, TypeOK, OwnerInv
<1>3. TypeOK'
  BY <1>1, <1>2 DEF SocketInv, TypeOK, runVars, trackVars
<1>4. PhaseInv' /\ AcceptInv'
  BY <1>1 DEF SocketInv, TypeOK, PhaseInv, AcceptInv, Alive, Handling, runVars, trackVars
<1>5. OwnerInv'
  BY <1>1, <1>2, BaseNodeAssumption
  DEF SocketInv, TypeOK, PhaseInv, OwnerInv, Handling, Using, runVars
<1>6. ThreadInv' /\ StragglerInv'
  BY <1>1 DEF SocketInv, TypeOK, ThreadInv, StragglerInv, Alive, Handling, runVars, trackVars
<1> QED
  BY <1>3, <1>4, <1>5, <1>6 DEF SocketInv

\* Erasing an entry moves the later ones up.
LEMMA RemoveOne ==
    ASSUME NEW S, NEW s \in Seq(S), NEW i \in 1..Len(s)
    PROVE  /\ RemoveAt(s, i) \in Seq(S) /\ Len(RemoveAt(s, i)) = Len(s) - 1
           /\ \A j \in 1..(Len(s) - 1) :
                 RemoveAt(s, i)[j] = IF j < i THEN s[j] ELSE s[j + 1]
<1> DEFINE a == SubSeq(s, 1, i - 1)
           b == SubSeq(s, i + 1, Len(s))
<1>1. /\ a \in Seq(S) /\ Len(a) = i - 1
      /\ \A j \in 1..(i - 1) : a[j] = s[j]
  BY SubSeqProperties
<1>2. /\ b \in Seq(S) /\ Len(b) = Len(s) - i
      /\ \A j \in 1..(Len(s) - i) : b[j] = s[i + j]
  <2>1. \A j \in (i + 1)..Len(s) : s[j] \in S
    OBVIOUS
  <2>2. /\ b \in Seq(S) /\ Len(b) = IF i + 1 <= Len(s) THEN Len(s) - (i + 1) + 1 ELSE 0
        /\ \A j \in 1..(Len(s) - (i + 1) + 1) : b[j] = s[i + 1 + j - 1]
    BY <2>1, SubSeqProperties
  <2> QED
    BY <2>2
<1> HIDE DEF a, b
<1>3. /\ a \o b \in Seq(S) /\ Len(a \o b) = Len(a) + Len(b)
      /\ \A j \in 1..(Len(a) + Len(b)) : (a \o b)[j] = IF j <= Len(a) THEN a[j] ELSE b[j - Len(a)]
  BY <1>1, <1>2, ConcatProperties
<1>4. RemoveAt(s, i) = a \o b
  BY DEF RemoveAt, a, b
<1>5. ASSUME NEW j \in 1..(Len(s) - 1)
      PROVE  (a \o b)[j] = IF j < i THEN s[j] ELSE s[j + 1]
  <2>1. CASE j < i
    BY <1>1, <1>2, <1>3, <2>1
  <2>2. CASE ~(j < i)
    <3>1. (a \o b)[j] = b[j - (i - 1)]
      BY <1>1, <1>2, <1>3, <2>2
    <3>2. j - (i - 1) \in 1..(Len(s) - i)
      BY <2>2
    <3> QED
      BY <1>2, <2>2, <3>1, <3>2
  <2> QED
    BY <2>1, <2>2
<1>6. Len(a \o b) = Len(s) - 1
  BY <1>1, <1>2, <1>3
<1> QED
  BY <1>3, <1>4, <1>5, <1>6, Zenon

LEMMA EraseIs ==
    ASSUME NEW S \in SUBSET Nat, NEW s \in Seq(S), NEW f
    PROVE  \/ EraseFirst(s, f) = s /\ \A i \in 1..Len(s) : s[i] # f
           \/ \E k \in 1..Len(s) : s[k] = f /\ EraseFirst(s, f) = RemoveAt(s, k)
<1>1. CASE \A i \in 1..Len(s) : s[i] # f
  BY <1>1 DEF EraseFirst
<1>2. CASE \E i \in 1..Len(s) : s[i] = f
  <2> DEFINE At == {i \in 1..Len(s) : s[i] = f}
  <2>1. At \in SUBSET Nat /\ At # {}
    BY <1>2
  <2> HIDE DEF At
  <2>2. PICK k \in At : \A i \in At : k <= i
    BY <2>1, LeastOf
  <2> USE DEF At
  <2>3. k \in 1..Len(s) /\ s[k] = f /\ \A j \in 1..(k - 1) : s[j] # f
    BY <2>2
  <2>4. PICK m : m = CHOOSE i \in 1..Len(s) : s[i] = f /\ \A j \in 1..(i - 1) : s[j] # f
    OBVIOUS
  <2>5. m \in 1..Len(s) /\ s[m] = f
    BY <2>3, <2>4
  <2> QED
    BY <1>2, <2>4, <2>5 DEF EraseFirst
<1> QED
  BY <1>1, <1>2

LEMMA UntrackStep ==
    ASSUME SocketInv, NEW c \in Conns, HandlerUntracks(c)
    PROVE  SocketInv'
<1>1. /\ UNCHANGED << is_running, sock, runVars, peer_open, fd, owner, pool, connection_threads, shut,
                      life >>
      /\ conn[c] = "untrack" /\ conn' = [conn EXCEPT ![c] = "done"]
      /\ accepted_sockets' = EraseFirst(accepted_sockets, fd[c])
  BY DEF HandlerUntracks
<1>2. accepted_sockets' \in Seq(Fds)
  <2>1. accepted_sockets \in Seq(Fds) /\ Fds \in SUBSET Nat
    BY FdsType DEF SocketInv, TypeOK
  <2>2. \/ accepted_sockets' = accepted_sockets
        \/ \E k \in 1..Len(accepted_sockets) : accepted_sockets' = RemoveAt(accepted_sockets, k)
    BY <1>1, <2>1, EraseIs
  <2> QED
    BY <2>1, <2>2, RemoveOne
<1>3. TypeOK'
  BY <1>1, <1>2 DEF SocketInv, TypeOK, runVars
<1>4. PhaseInv' /\ AcceptInv'
  BY <1>1 DEF SocketInv, TypeOK, PhaseInv, AcceptInv, Alive, Handling, runVars
<1>5. OwnerInv'
  BY <1>1, BaseNodeAssumption DEF SocketInv, TypeOK, OwnerInv, Handling, Using, runVars
<1>6. ThreadInv' /\ StragglerInv'
  BY <1>1 DEF SocketInv, TypeOK, ThreadInv, StragglerInv, Alive, Handling, runVars
<1> QED
  BY <1>3, <1>4, <1>5, <1>6 DEF SocketInv

LEMMA ShutdownSocketSteps ==
    ASSUME SocketInv, StopRunning \/ CloseListener \/ LockThreads
    PROVE  SocketInv'
<1>1. shut \in 0..5 /\ ShutdownNumbered
  BY ShutdownIs DEF SocketInv
<1>2. /\ UNCHANGED << runVars, peer_open, fd, owner, pool, trackVars, life >>
      /\ shut \in {1, 2, 4} /\ shut' = shut + 1
      /\ shut = 1 => is_running' = FALSE /\ UNCHANGED << sock, conn >>
      /\ shut = 2 => /\ UNCHANGED is_running
                     /\ IF sock = "open"
                        THEN /\ sock' = "closed"
                             /\ conn' = [c \in Conns |->
                                           IF conn[c] = "backlog" THEN "refused" ELSE conn[c]]
                        ELSE UNCHANGED << sock, conn >>
      /\ shut = 4 => UNCHANGED << is_running, sock, conn >>
  BY <1>1 DEF ShutdownNumbered, StopRunning, CloseListener, LockThreads, connVars
<1>3. Len(ShutdownSteps) = 5
  BY <1>1 DEF ShutdownNumbered
<1>4. life # "starting" /\ run_pc \notin {"start", "announce"}
  BY <1>2 DEF SocketInv, PhaseInv
<1>5. /\ conn' \in [Conns -> Handling \cup {"absent", "backlog", "refused", "accepted", "close",
                                            "untrack", "done"}]
      /\ \A c \in Conns :
            \/ conn'[c] = conn[c]
            \/ conn[c] = "backlog" /\ conn'[c] = "refused" /\ sock' = "closed"
  <2>1. CASE UNCHANGED conn
    BY <2>1 DEF SocketInv, TypeOK
  <2>2. CASE /\ sock' = "closed"
             /\ conn' = [c \in Conns |-> IF conn[c] = "backlog" THEN "refused" ELSE conn[c]]
    BY <2>2 DEF SocketInv, TypeOK
  <2> QED
    BY <1>2, <2>1, <2>2
<1>6. TypeOK'
  <2>1. shut' \in 0..5 /\ sock' \in {"none", "open", "closed"}
    <3>1. sock' = sock \/ sock' = "closed"
      BY <1>2
    <3> QED
      BY <1>1, <1>2, <3>1 DEF SocketInv, TypeOK
  <2>2. is_running' \in BOOLEAN
    <3>1. is_running' = FALSE \/ UNCHANGED is_running
      BY <1>2
    <3> QED
      BY <3>1 DEF SocketInv, TypeOK
  <2> QED
    BY <1>2, <1>3, <1>5, <2>1, <2>2 DEF SocketInv, TypeOK, runVars, trackVars
<1>7. PhaseInv'
  BY <1>2, <1>4, <1>5 DEF SocketInv, TypeOK, PhaseInv, runVars
<1>8. AcceptInv' /\ ThreadInv'
  BY <1>2, <1>5 DEF SocketInv, TypeOK, AcceptInv, ThreadInv, Alive, Handling, runVars, trackVars
<1>9. OwnerInv'
  BY <1>2, <1>4, <1>5, BaseNodeAssumption
  DEF SocketInv, TypeOK, OwnerInv, Using, Handling, runVars
<1>10. StragglerInv'
  BY <1>2, <1>5 DEF SocketInv, TypeOK, StragglerInv, Alive, Handling
<1> QED
  BY <1>6, <1>7, <1>8, <1>9, <1>10 DEF SocketInv

LEMMA CloseAcceptedStep ==
    ASSUME SocketInv, CloseAccepted
    PROVE  SocketInv'
<1>1. shut \in 0..5 /\ ShutdownNumbered
  BY ShutdownIs DEF SocketInv
<1>2. /\ UNCHANGED << is_running, sock, runVars, conn, peer_open, fd, pool, connection_threads, life >>
      /\ shut = 3 /\ shut' = 4 /\ accepted_sockets' = << >>
      /\ owner' \in [Fds -> Conns \cup Targets \cup {NoConn}]
      /\ \A f \in Fds : owner'[f] \in {owner[f], NoConn}
  BY <1>1 DEF ShutdownNumbered, CloseAccepted, SocketInv, TypeOK
<1>3. sock # "open" /\ Len(ShutdownSteps) = 5
  BY <1>1, <1>2 DEF SocketInv, PhaseInv, ShutdownNumbered
<1>4. TypeOK'
  BY <1>2, <1>3 DEF SocketInv, TypeOK, runVars
<1>5. PhaseInv' /\ AcceptInv' /\ ThreadInv'
  BY <1>2 DEF SocketInv, PhaseInv, AcceptInv, ThreadInv, Alive, runVars
<1>6. OwnerInv'
  <2>1. \A f \in Fds : owner'[f] \in Conns \cup Targets => owner'[f] = owner[f]
    BY <1>2, BaseNodeAssumption
  <2>2. \A c \in Conns : conn[c] \in Using => fd[c] \in Fds
    BY DEF SocketInv, TypeOK, OwnerInv, Using, Handling
  <2>3. \A t \in Targets : pool[t] # 0 => pool[t] \in Fds
    BY DEF SocketInv, TypeOK
  <2> QED
    BY <1>2, <1>3, <2>1, <2>2, <2>3 DEF SocketInv, PhaseInv, OwnerInv, runVars
<1>7. StragglerInv'
  BY <1>2 DEF SocketInv, StragglerInv, Alive
<1> QED
  BY <1>4, <1>5, <1>6, <1>7 DEF SocketInv

\* The threads that shutdown() knows are done; one may be missing.
LEMMA JoinStep ==
    ASSUME SocketInv, JoinThreads
    PROVE  SocketInv'
<1>1. shut \in 0..5 /\ ShutdownNumbered
  BY ShutdownIs DEF SocketInv
<1>2. /\ UNCHANGED << is_running, sock, runVars, connVars, accepted_sockets, life >>
      /\ shut = 5 /\ shut' = 0 /\ connection_threads' = {}
      /\ \A c \in connection_threads : conn[c] = "done"
  BY <1>1 DEF ShutdownNumbered, JoinThreads
<1>3. sock # "open" /\ Len(ShutdownSteps) = 5
  BY <1>1, <1>2 DEF SocketInv, PhaseInv, ShutdownNumbered
<1>4. \A c \in Conns : Alive(c) \/ conn[c] = "accepted" => c = accepting
  BY <1>2 DEF SocketInv, ThreadInv, AcceptInv, Alive, Handling
<1>5. TypeOK'
  BY <1>2, <1>3 DEF SocketInv, TypeOK, runVars, connVars
<1>6. PhaseInv' /\ AcceptInv' /\ OwnerInv'
  BY <1>2, <1>3 DEF SocketInv, PhaseInv, AcceptInv, OwnerInv, Alive, runVars, connVars
<1>7. ThreadInv'
  BY <1>2, <1>4 DEF ThreadInv, Alive, runVars, connVars
<1>8. StragglerInv'
  BY <1>2, <1>3, <1>4 DEF SocketInv, TypeOK, StragglerInv, Alive, connVars
<1> QED
  BY <1>5, <1>6, <1>7, <1>8 DEF SocketInv

LEMMA PoolSteps ==
    ASSUME SocketInv, NEW t \in Targets, PoolConnects(t) \/ PoolCloses(t)
    PROVE  SocketInv'
<1>1. PICK f \in {0} \cup Fds, g \in Fds, o \in {t, NoConn} :
         /\ UNCHANGED << is_running, sock, runVars, conn, peer_open, fd, trackVars, shut, life >>
         /\ pool' = [pool EXCEPT ![t] = f] /\ owner' = [owner EXCEPT ![g] = o]
         /\ \/ pool[t] = 0 /\ f = g /\ o = t /\ owner[g] = NoConn
            \/ pool[t] = g /\ f = 0 /\ o = NoConn
  <2>1. CASE PoolConnects(t)
    <3>1. \A x \in Fds : owner[x] # t
      BY <2>1, FdsType DEF PoolConnects, SocketInv, OwnerInv
    <3>2. LowestFree \in Fds /\ owner[LowestFree] = NoConn
      BY <3>1, DescriptorFree
    <3> QED
      BY <2>1, <3>2 DEF PoolConnects, PoolTo
  <2>2. CASE PoolCloses(t)
    BY <2>2 DEF PoolCloses, PoolTo, SocketInv, TypeOK
  <2> QED
    BY <2>1, <2>2
<1>2. TypeOK'
  <2>1. owner' \in [Fds -> Conns \cup Targets \cup {NoConn}] /\ pool' \in [Targets -> {0} \cup Fds]
    BY <1>1 DEF SocketInv, TypeOK
  <2> QED
    BY <1>1, <2>1 DEF SocketInv, TypeOK, runVars, trackVars
<1>3. PhaseInv' /\ AcceptInv' /\ ThreadInv' /\ StragglerInv'
  BY <1>1 DEF SocketInv, PhaseInv, AcceptInv, ThreadInv, StragglerInv, Alive, runVars, trackVars
<1>4. OwnerInv'
  BY <1>1, FdsType, BaseNodeAssumption DEF SocketInv, TypeOK, OwnerInv, Using, Handling, runVars
<1> QED
  BY <1>2, <1>3, <1>4 DEF SocketInv

LEMMA OwnerSteps ==
    ASSUME SocketInv,
           OwnerGoesOn \/ ExplicitShutdown \/ Destroy \/ UNCHANGED vars
    PROVE  SocketInv'
<1>1. Len(ShutdownSteps) = 5 /\ shut \in 0..5
  BY ShutdownIs DEF SocketInv, ShutdownNumbered
<1>2. /\ UNCHANGED << is_running, sock, runVars, conn, peer_open, fd, trackVars >>
      /\ UNCHANGED << owner, pool >> \/ close_all
      /\ \/ UNCHANGED << shut, life >>
         \/ life = "starting" /\ run_pc \notin {"start", "announce"} /\ life' = "up" /\ UNCHANGED shut
         \/ life # "starting" /\ life' \in {"down", "stopping", "derived"}
              /\ (life' = "derived" => shut' = 1) /\ shut' \in {0, 1}
         \/ life = "derived" /\ shut = 0 /\ life' = "base" /\ shut' = 1
         \/ life = "base" /\ life' = "destroyed" /\ UNCHANGED shut
  BY DEF SocketInv, PhaseInv, OwnerGoesOn, wait_until_listening, DerivedShutsDown, BaseShutsDown,
         Destroyed, ExplicitShutdown, Destroy, CallShutdown, OwnerTo, vars, runVars, connVars,
         trackVars
<1>3. TypeOK'
  <2>1. owner' \in [Fds -> Conns \cup Targets \cup {NoConn}] /\ pool' \in [Targets -> {0} \cup Fds]
    BY <1>2 DEF close_all, SocketInv, TypeOK
  <2> QED
    BY <1>1, <1>2, <2>1 DEF SocketInv, TypeOK, runVars, trackVars
<1>4. AcceptInv' /\ ThreadInv'
  BY <1>2 DEF SocketInv, AcceptInv, ThreadInv, Alive, runVars, trackVars
<1>5. PhaseInv'
  BY <1>1, <1>2 DEF SocketInv, PhaseInv, runVars
<1>6. StragglerInv'
  BY <1>2 DEF SocketInv, StragglerInv, Alive
<1>7. OwnerInv'
  <2>1. CASE UNCHANGED << owner, pool >>
    BY <1>2, <2>1 DEF SocketInv, OwnerInv, runVars
  <2>2. CASE close_all
    BY <1>2, <2>2, FdsType, BaseNodeAssumption
    DEF close_all, SocketInv, TypeOK, OwnerInv, Using, Handling, runVars
  <2> QED
    BY <1>2, <2>1, <2>2
<1> QED
  BY <1>3, <1>4, <1>5, <1>6, <1>7 DEF SocketInv

LEMMA SocketNext ==
    ASSUME SocketInv, [Next]_vars
    PROVE  SocketInv'
BY RunSteps, AcceptStep, SpawnSteps, ConnSteps, CloseStep, UntrackStep, PoolSteps,
   ShutdownSocketSteps, CloseAcceptedStep, JoinStep, OwnerSteps
DEF Next, RunThread, ShutdownStep, ConnStep, Handler, Gone

----------------------------------------------------------------------------
(***************************************************************************)
(* The entries of accepted_sockets_.                                       *)
(***************************************************************************)
LEMMA PlacesKept ==
    ASSUME NEW h, Places(h), UNCHANGED accepted_sockets,
           \A c \in Conns : Listed(c)' <=> Listed(c),
           \A c \in Conns : Listed(c) => fd'[c] = fd[c]
    PROVE  Places(h)'
<1>1. {c \in Conns : Listed(c)'} = {c \in Conns : Listed(c)}
  OBVIOUS
<1> QED
  BY <1>1 DEF Places

\* The new entry is the place of the connection at hand.
LEMMA PlaceTaken ==
    ASSUME SocketInv, PlaceInv, RunTracks, sock = "open"
    PROVE  \E h : Places(h)'
<1> DEFINE L == {c \in Conns : Listed(c)}
           s == accepted_sockets
           n == Len(accepted_sockets)
<1>1. PICK h : Places(h)
  BY DEF PlaceInv
<1>2. PICK c \in Conns : c = accepting /\ conn[c] = "accepted" /\ run_pc = "track"
  BY DEF RunTracks, SocketInv, AcceptInv, TypeOK
<1>3. /\ run_pc' = "spawn" /\ s' = Append(s, fd[c])
      /\ UNCHANGED << conn, fd >>
  BY <1>2 DEF RunTracks, RunTo, connVars
<1>4. s \in Seq(Fds) /\ fd[c] \in Fds
  BY <1>2 DEF SocketInv, TypeOK, OwnerInv
<1>5. /\ n \in Nat /\ Len(s') = n + 1 /\ s'[n + 1] = fd[c]
      /\ \A i \in 1..n : s'[i] = s[i]
  BY <1>3, <1>4
<1>6. c \notin L /\ {d \in Conns : Listed(d)'} = L \cup {c}
  <2>1. \A d \in Conns : conn[d] = "accepted" => d = c
    BY <1>2 DEF SocketInv, AcceptInv
  <2>2. ~Listed(c) /\ Listed(c)'
    BY <1>2, <1>3 DEF Listed, Alive, Handling
  <2>3. \A d \in Conns \ {c} : Listed(d)' <=> Listed(d)
    BY <1>2, <1>3, <2>1 DEF Listed, Alive
  <2> QED
    BY <2>2, <2>3
<1>7. /\ h \in [L -> 1..n]
      /\ \A d, e \in L : h[d] = h[e] => d = e
      /\ \A d \in L : s[h[d]] = fd[d]
  BY <1>1 DEF Places
<1> HIDE DEF L, s, n
<1> DEFINE g == [d \in L \cup {c} |-> IF d = c THEN n + 1 ELSE h[d]]
<1>8. g \in [L \cup {c} -> 1..(n + 1)]
  BY <1>5, <1>7
<1>9. \A d, e \in L \cup {c} : g[d] = g[e] => d = e
  BY <1>5, <1>6, <1>7
<1>10. \A d \in L \cup {c} : s'[g[d]] = fd'[d]
  BY <1>3, <1>5, <1>6, <1>7
<1>11. DOMAIN g = L \cup {c}
  OBVIOUS
<1> HIDE DEF g
<1>12. PICK p : p = g
  OBVIOUS
<1>13. Places(p)'
  BY <1>5, <1>6, <1>8, <1>9, <1>10, <1>11, <1>12 DEF Places, s
<1> QED
  BY <1>13

\* Of two connections with equal entries, each can do without the other's.
LEMMA PlaceLeft ==
    ASSUME SocketInv, PlaceInv, NEW c \in Conns, HandlerUntracks(c), sock = "open"
    PROVE  \E h : Places(h)'
<1> DEFINE L == {d \in Conns : Listed(d)}
           s == accepted_sockets
           n == Len(accepted_sockets)
<1>1. PICK h : Places(h)
  BY DEF PlaceInv
<1>2. /\ conn[c] = "untrack" /\ conn' = [conn EXCEPT ![c] = "done"]
      /\ s' = EraseFirst(s, fd[c])
      /\ UNCHANGED << fd, run_pc >>
  BY DEF HandlerUntracks, runVars
<1>3. s \in Seq(Fds) /\ n \in Nat /\ Fds \in SUBSET Nat
  BY FdsType DEF SocketInv, TypeOK
<1>4. /\ h \in [L -> 1..n]
      /\ \A d, e \in L : h[d] = h[e] => d = e
      /\ \A d \in L : s[h[d]] = fd[d]
  BY <1>1 DEF Places
<1>5. c \in L /\ {d \in Conns : Listed(d)'} = L \ {c}
  <2>1. Listed(c) /\ ~Listed(c)'
    BY <1>2 DEF Listed, Alive, Handling, SocketInv, TypeOK
  <2>2. \A d \in Conns \ {c} : Listed(d)' <=> Listed(d)
    BY <1>2 DEF Listed, Alive, SocketInv, TypeOK
  <2> QED
    BY <2>1, <2>2
<1>6. PICK k \in 1..n : s[k] = fd[c] /\ s' = RemoveAt(s, k)
  <2>1. ~ \A i \in 1..n : s[i] # fd[c]
    BY <1>4, <1>5
  <2> QED
    BY <1>2, <1>3, <2>1, EraseIs
<1>7. /\ Len(s') = n - 1
      /\ \A j \in 1..(n - 1) : s'[j] = IF j < k THEN s[j] ELSE s[j + 1]
  BY <1>3, <1>6, RemoveOne
<1> HIDE DEF L, s, n
\* The owner of the erased entry takes the place of c.
<1> DEFINE m == [d \in L \ {c} |-> IF h[d] = k THEN h[c] ELSE h[d]]
           g == [d \in L \ {c} |-> IF m[d] < k THEN m[d] ELSE m[d] - 1]
<1>8. \A d \in L \ {c} : m[d] \in 1..n /\ m[d] # k /\ s[m[d]] = fd[d]
  BY <1>4, <1>5, <1>6
<1>9. \A d, e \in L \ {c} : m[d] = m[e] => d = e
  BY <1>4, <1>5
<1> HIDE DEF m
<1>10. \A d \in L \ {c} : g[d] \in 1..(n - 1) /\ s'[g[d]] = s[m[d]]
  <2> SUFFICES ASSUME NEW d \in L \ {c} PROVE g[d] \in 1..(n - 1) /\ s'[g[d]] = s[m[d]]
    OBVIOUS
  <2>1. CASE m[d] < k
    <3>1. g[d] = m[d] /\ g[d] \in 1..(n - 1)
      BY <1>3, <1>8, <2>1
    <3> QED
      BY <1>7, <2>1, <3>1
  <2>2. CASE m[d] > k
    <3>1. g[d] = m[d] - 1 /\ g[d] \in 1..(n - 1) /\ g[d] + 1 = m[d] /\ ~(g[d] < k)
      BY <1>3, <1>8, <2>2
    <3> QED
      BY <1>7, <3>1
  <2> QED
    BY <1>3, <1>8, <2>1, <2>2
<1>11. \A d, e \in L \ {c} : g[d] = g[e] => d = e
  BY <1>3, <1>8, <1>9
<1>12. g \in [L \ {c} -> 1..(n - 1)] /\ DOMAIN g = L \ {c}
  BY <1>10
<1>13. \A d \in L \ {c} : s'[g[d]] = fd'[d]
  BY <1>2, <1>8, <1>10
<1> HIDE DEF g
<1>14. PICK p : p = g
  OBVIOUS
<1>15. Places(p)'
  BY <1>5, <1>7, <1>11, <1>12, <1>13, <1>14 DEF Places, s
<1> QED
  BY <1>15

LEMMA PlaceNext ==
    ASSUME NodeInv, [Next]_vars
    PROVE  PlaceInv'
<1> SUFFICES ASSUME sock' = "open" PROVE \E h : Places(h)'
  BY DEF PlaceInv
<1>1. SocketInv /\ PlaceInv
  BY DEF NodeInv
<1>2. CASE RunListens
  <2>1. \A c \in Conns : ~Listed(c)'
    BY <1>1, <1>2 DEF RunListens, RunTo, SocketInv, PhaseInv, Listed, Alive, Handling, connVars
  <2>2. {c \in Conns : Listed(c)'} = {}
    BY <2>1
  <2>3. [c \in {} |-> 0] \in [{} -> 1..Len(accepted_sockets')]
    OBVIOUS
  <2>4. Places([c \in {} |-> 0])'
    BY <2>2, <2>3 DEF Places
  <2> QED
    BY <2>4
<1>3. CASE RunTracks
  BY <1>1, <1>3, PlaceTaken DEF RunTracks
<1>4. CASE \E c \in Conns : HandlerUntracks(c)
  BY <1>1, <1>4, PlaceLeft DEF HandlerUntracks
<1>5. ASSUME sock = "open", UNCHANGED accepted_sockets,
             \A c \in Conns : Listed(c)' <=> Listed(c),
             \A c \in Conns : Listed(c) => fd'[c] = fd[c]
      PROVE  \E h : Places(h)'
  BY <1>1, <1>5, PlacesKept DEF PlaceInv
<1>6. CASE RunAnnounces \/ RunLoop \/ RunAcceptFails
  BY <1>5, <1>6 DEF RunAnnounces, RunLoop, RunAcceptFails, RunTo, Listed, Alive, connVars, trackVars
<1>7. CASE \E c \in Conns : RunAccepts(c)
  <2>1. PICK c \in Conns : RunAccepts(c)
    BY <1>7
  <2>2. ~Listed(c) /\ ~Listed(c)'
    BY <1>1, <2>1 DEF RunAccepts, Listed, Alive, Handling, SocketInv, TypeOK
  <2>3. \A d \in Conns \ {c} : (Listed(d)' <=> Listed(d)) /\ fd'[d] = fd[d]
    <3>1. \A d \in Conns : conn[d] # "accepted"
      BY <1>1, <2>1 DEF RunAccepts, SocketInv, AcceptInv
    <3> QED
      BY <1>1, <2>1, <3>1 DEF RunAccepts, Listed, Alive, SocketInv, TypeOK
  <2> QED
    BY <1>5, <2>1, <2>2, <2>3 DEF RunAccepts, trackVars
<1>8. CASE RunSpawns \/ RunEmplaces
  <2>1. /\ UNCHANGED << sock, accepted_sockets, fd >>
        /\ \A d \in Conns : Listed(d)' <=> Listed(d)
    BY <1>1, <1>8 DEF RunSpawns, RunEmplaces, RunTo, Listed, Alive, Handling, SocketInv, TypeOK,
       AcceptInv, connVars, trackVars
  <2> QED
    BY <1>5, <2>1
<1>9. CASE \E c \in Conns : ConnStep(c)
  <2>1. PICK c \in Conns : ConnStep(c)
    BY <1>9
  <2>2. CASE ~HandlerUntracks(c)
    <3>1. UNCHANGED << sock, accepted_sockets, fd, run_pc >>
      BY <2>1, <2>2 DEF ConnStep, Handler, ClientConnects, ClientCloses, HandlerReceives,
         HandlerMisreads, HandlerAnswered, HandlerChecks, HandlerCallsRecv, HandlerRecvFails,
         HandlerCloses, ConnTo, runVars, trackVars
    <3>2. \/ UNCHANGED conn
          \/ conn[c] = "absent" /\ conn' = [conn EXCEPT ![c] = "backlog"]
          \/ /\ conn[c] \in Handling \cup {"close"}
             /\ \E pc \in Handling \cup {"close", "untrack"} : conn' = [conn EXCEPT ![c] = pc]
      BY <2>1, <2>2 DEF ConnStep, Handler, ClientConnects, ClientCloses, HandlerReceives,
         HandlerMisreads, HandlerAnswered, HandlerChecks, HandlerCallsRecv, HandlerRecvFails,
         HandlerCloses, ConnTo, Handling
    <3>3. \A d \in Conns : Listed(d)' <=> Listed(d)
      BY <1>1, <3>1, <3>2 DEF Listed, Alive, Handling, SocketInv, TypeOK
    <3> QED
      BY <1>5, <3>1, <3>3
  <2> QED
    BY <1>4, <2>2
<1>10. CASE ShutdownStep
  <2>1. ShutdownNumbered
    BY <1>1, ShutdownIs DEF SocketInv
  <2>2. ~CloseAccepted /\ UNCHANGED << sock, accepted_sockets, fd, run_pc >>
    <3>1. shut >= 3 => sock # "open"
      BY <1>1 DEF SocketInv, PhaseInv
    <3> QED
      BY <1>10, <2>1, <3>1 DEF ShutdownNumbered, ShutdownStep, StopRunning, CloseListener,
         CloseAccepted, LockThreads, JoinThreads, runVars, connVars, trackVars
  <2>3. UNCHANGED conn
    BY <1>10, <2>2 DEF ShutdownStep, StopRunning, CloseListener, LockThreads, JoinThreads, connVars
  <2> QED
    BY <1>5, <2>2, <2>3 DEF Listed, Alive
<1>11. CASE OwnerGoesOn \/ ExplicitShutdown \/ Destroy \/ UNCHANGED vars
  <2>1. UNCHANGED << sock, accepted_sockets, fd, run_pc, conn >>
    BY <1>11 DEF OwnerGoesOn, wait_until_listening, DerivedShutsDown, BaseShutsDown,
         Destroyed, ExplicitShutdown, Destroy, CallShutdown, OwnerTo, vars, runVars, connVars,
         trackVars
  <2> QED
    BY <1>5, <2>1 DEF Listed, Alive
<1>12. CASE \E t \in Targets : PoolConnects(t) \/ PoolCloses(t)
  BY <1>5, <1>12 DEF PoolConnects, PoolCloses, PoolTo, runVars, trackVars, Listed, Alive
<1> QED
  BY <1>2, <1>3, <1>6, <1>7, <1>8, <1>9, <1>10, <1>11, <1>12 DEF Next, RunThread, Gone

THEOREM NodeInvariant == Spec => []NodeInv
<1>1. Init => NodeInv
  BY SocketInit DEF Init, NodeInv, PlaceInv
<1>2. NodeInv /\ [Next]_vars => NodeInv'
  BY SocketNext, PlaceNext DEF NodeInv
<1> QED
  BY <1>1, <1>2, PTL DEF Spec

(***************************************************************************)
(* The theorems: shutdown() reaches every connection that is being         *)
(* handled, because handle_connection takes one entry out of               *)
(* accepted_sockets_ for each it put in, even where two are equal.         *)
(***************************************************************************)
THEOREM TrackingCorrect == Spec => []ConnectionsTracked
<1>1. ASSUME NodeInv, is_running, NEW c \in Conns, conn[c] \in Handling
      PROVE  owner[fd[c]] = c /\ \E i \in 1..Len(accepted_sockets) : accepted_sockets[i] = fd[c]
  <2>1. sock = "open" /\ Listed(c) /\ conn[c] \in Using
    BY <1>1 DEF NodeInv, SocketInv, PhaseInv, Listed, Alive, Using
  <2>2. PICK h : Places(h)
    BY <1>1, <2>1 DEF NodeInv, PlaceInv
  <2>3. h[c] \in 1..Len(accepted_sockets) /\ accepted_sockets[h[c]] = fd[c]
    BY <2>1, <2>2 DEF Places
  <2>4. owner[fd[c]] = c
    BY <1>1, <2>1 DEF NodeInv, SocketInv, OwnerInv
  <2> QED
    BY <2>3, <2>4
<1>2. NodeInv => ConnectionsTracked
  BY <1>1 DEF ConnectionsTracked
<1> QED
  BY <1>2, NodeInvariant, PTL

(***************************************************************************)
(* While the node listens, connections and pooled sockets own the numbers  *)
(* their threads use.  Later a number may pass from a connection to a      *)
(* pooled socket, but no thread and no pool uses the number of another     *)
(* accepted connection: shutdown() closes the listening socket before the  *)
(* numbers that are still in use.                                          *)
(***************************************************************************)
THEOREM DescriptorsCorrect == Spec => []DescriptorsAreOwn
<1>1. NodeInv => DescriptorsAreOwn
  BY DEF DescriptorsAreOwn, NodeInv, SocketInv, OwnerInv, Using
<1> QED
  BY <1>1, NodeInvariant, PTL

(***************************************************************************)
(* After the derived class's shutdown(), at most the thread of the         *)
(* connection that run() had at hand is left.                              *)
(***************************************************************************)
THEOREM StragglerCorrect == Spec => []AtMostOneStraggler
<1> DEFINE S == {c \in Conns : Alive(c) \/ conn[c] = "accepted"}
<1>1. ASSUME NodeInv, life \in {"base", "destroyed"} PROVE Cardinality(S) <= 1
  <2>1. PICK x : S \subseteq {x}
    BY <1>1 DEF NodeInv, SocketInv, StragglerInv
  <2> HIDE DEF S
  <2>2. S \in SUBSET {x}
    BY <2>1
  <2>3. IsFiniteSet({x}) /\ Cardinality({x}) = 1
    BY FS_Singleton
  <2>4. Cardinality(S) <= Cardinality({x})
    BY <2>2, <2>3, FS_Subset
  <2> QED
    BY <2>3, <2>4
<1>2. NodeInv => AtMostOneStraggler
  BY <1>1 DEF AtMostOneStraggler
<1> QED
  BY <1>2, NodeInvariant, PTL
=============================================================================
