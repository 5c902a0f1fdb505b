--------------------------------- MODULE BaseNode ---------------------------------
(***************************************************************************)
(* include/base_node.h: the thread that accepts connections, one thread    *)
(* per connection, and the owner of the node, who waits until it listens,  *)
(* perhaps calls shutdown(), and destroys it while those are running.  The *)
(* module leaves open what handle_connection does with a message, except   *)
(* that it may ask another node and wait for the answer.                   *)
(*                                                                         *)
(* The four kinds of nodes are destroyed alike: the derived destructor     *)
(* stops its own threads, calls shutdown() and closes its pool, the        *)
(* members of the derived class are destroyed, and ~BaseNode calls         *)
(* shutdown() again and joins the running thread.                          *)
(*                                                                         *)
(* Descriptors are numbers that the kernel gives out again, lowest first,  *)
(* as soon as they are closed, to accept and to the sockets that the       *)
(* node's ConnectionPool (connection_pool.h) connects; accepted_sockets_,  *)
(* the pool and the threads only know numbers.                             *)
(***************************************************************************)
EXTENDS Integers, Sequences, FiniteSets, SequencesExt

CONSTANTS
    Conns,          \* the connections clients may open
    Targets,        \* the addresses the node's pool connects to
    NoConn

ASSUME BaseNodeAssumption ==
    /\ IsFiniteSet(Conns) /\ IsFiniteSet(Targets)
    /\ Conns \cap Targets = {} /\ NoConn \notin Conns \cup Targets

Fds == 1..(Cardinality(Conns) + Cardinality(Targets))

VARIABLES
    is_running,
    sock,               \* the listening socket: "none", "open", "closed"
    run_pc, accepting,  \* the running thread, and the connection it has accepted
    conn,               \* where each connection is, its thread included
    peer_open,          \* the connections whose client has not closed
    fd,                 \* the descriptor of each connection, 0 before accept
    owner,              \* the connection or pooled socket each descriptor belongs to
    pool,               \* active_connections_: the descriptor of each address, 0 for none
    accepted_sockets, connection_threads,
    shut,               \* the step of shutdown() that comes next, 0 outside it
    life                \* where the owner of the node is

vars == << is_running, sock, run_pc, accepting, conn, peer_open, fd, owner, pool,
           accepted_sockets, connection_threads, shut, life >>
runVars == << run_pc, accepting >>
connVars == << conn, peer_open, fd, owner, pool >>
trackVars == << accepted_sockets, connection_threads >>

\* After the constructor has called start_listening().
Init ==
    /\ is_running = FALSE
    /\ sock = "none"
    /\ run_pc = "start" /\ accepting = NoConn
    /\ conn = [c \in Conns |-> "absent"]
    /\ peer_open = {}
    /\ fd = [c \in Conns |-> 0]
    /\ owner = [f \in Fds |-> NoConn]
    /\ pool = [t \in Targets |-> 0]
    /\ accepted_sockets = << >>
    /\ connection_threads = {}
    /\ shut = 0
    /\ life = "starting"

----------------------------------------------------------------------------
(***************************************************************************)
(* The running thread: run().                                              *)
(***************************************************************************)
RunTo(pc) == run_pc' = pc /\ UNCHANGED accepting

\* socket, setsockopt, bind or listen may fail.
create_listening_socket == sock' = "open" \/ UNCHANGED sock

\* Without a socket the thread ends.
RunListens ==
    /\ run_pc = "start"
    /\ create_listening_socket
    /\ RunTo(IF sock' = "open" THEN "announce" ELSE "done")
    /\ UNCHANGED << is_running, connVars, trackVars, shut, life >>

\* is_running_ = true, whatever shutdown() has done in the meantime.
RunAnnounces ==
    /\ run_pc = "announce"
    /\ is_running' = TRUE
    /\ RunTo("loop")
    /\ UNCHANGED << sock, connVars, trackVars, shut, life >>

RunLoop ==
    /\ run_pc = "loop"
    /\ RunTo(IF is_running THEN "accept" ELSE "done")
    /\ UNCHANGED << is_running, sock, connVars, trackVars, shut, life >>

\* What accept and socket return.
LowestFree ==
    CHOOSE x \in Fds : owner[x] = NoConn /\ \A y \in 1..(x - 1) : owner[y] # NoConn

RunAccepts(c) ==
    /\ run_pc = "accept" /\ sock = "open"
    /\ conn[c] = "backlog"
    /\ conn' = [conn EXCEPT ![c] = "accepted"]
    /\ fd' = [fd EXCEPT ![c] = LowestFree]
    /\ owner' = [owner EXCEPT ![LowestFree] = c]
    /\ accepting' = c /\ run_pc' = "track"
    /\ UNCHANGED << is_running, sock, peer_open, pool, trackVars, shut, life >>

\* accept fails because the listening socket is closed.
RunAcceptFails ==
    /\ run_pc = "accept" /\ sock # "open"
    /\ RunTo(IF is_running THEN "loop" ELSE "done")
    /\ UNCHANGED << is_running, sock, connVars, trackVars, shut, life >>

RunTracks ==
    /\ run_pc = "track"
    /\ accepted_sockets' = Append(accepted_sockets, fd[accepting])
    /\ RunTo("spawn")
    /\ UNCHANGED << is_running, sock, connVars, connection_threads, shut, life >>

\* The thread runs from here on, and is not yet in connection_threads_.
RunSpawns ==
    /\ run_pc = "spawn"
    /\ conn' = [conn EXCEPT ![accepting] = "check"]
    /\ RunTo("emplace")
    /\ UNCHANGED << is_running, sock, peer_open, fd, owner, pool, trackVars, shut, life >>

\* Mutants: the steps of shutdown in another order.
AcceptedBeforeListener ==
    << "stop_running", "close_accepted", "close_listener", "lock_threads", "join_threads" >>
JoinBeforeClose ==
    << "stop_running", "close_listener", "lock_threads", "join_threads", "close_accepted" >>

\* What shutdown() does, in its order.
ShutdownSteps ==
    << "stop_running", "close_listener", "close_accepted", "lock_threads", "join_threads" >>

ShutdownAt(step) == shut > 0 /\ ShutdownSteps[shut] = step
ShutdownAdvances == shut' = IF shut = Len(ShutdownSteps) THEN 0 ELSE shut + 1

\* Mutant: the thread is detached instead of kept.
RunDetaches ==
    /\ run_pc = "emplace"
    /\ accepting' = NoConn /\ run_pc' = "loop"
    /\ UNCHANGED << is_running, sock, connVars, trackVars, shut, life >>

\* Waits while shutdown() joins under threads_mu_.
RunEmplaces ==
    /\ run_pc = "emplace"
    /\ ~ShutdownAt("join_threads")
    /\ connection_threads' = connection_threads \cup {accepting}
    /\ accepting' = NoConn /\ run_pc' = "loop"
    /\ UNCHANGED << is_running, sock, connVars, accepted_sockets, shut, life >>

----------------------------------------------------------------------------
(***************************************************************************)
(* A connection: its client, and its thread in handle_connection.          *)
(***************************************************************************)
ConnTo(c, pc) ==
    /\ conn' = [conn EXCEPT ![c] = pc]
    /\ UNCHANGED << is_running, sock, runVars, peer_open, fd, owner, pool, trackVars, shut, life >>

ClientConnects(c) ==
    /\ conn[c] = "absent" /\ sock = "open"
    /\ conn' = [conn EXCEPT ![c] = "backlog"]
    /\ peer_open' = peer_open \cup {c}
    /\ UNCHANGED << is_running, sock, runVars, fd, owner, pool, trackVars, shut, life >>

ClientCloses(c) ==
    /\ c \in peer_open
    /\ peer_open' = peer_open \ {c}
    /\ UNCHANGED << is_running, sock, runVars, conn, fd, owner, pool, trackVars, shut, life >>

\* while (running())
HandlerChecks(c) ==
    /\ conn[c] = "check"
    /\ ConnTo(c, IF is_running THEN "recv" ELSE "close")

\* recv is given a number: that of its own connection, that of no socket, or,
\* after shutdown() has closed it, that of a pooled socket.
HandlerCallsRecv(c) ==
    /\ conn[c] = "recv"
    /\ ConnTo(c, IF owner[fd[c]] = c THEN "waiting"
                 ELSE IF owner[fd[c]] = NoConn THEN "close" ELSE "misreading")

\* A piece of a message arrives, or the rest of it.  Some messages are
\* answered only after another node was asked.
HandlerReceives(c) ==
    /\ conn[c] = "waiting" /\ c \in peer_open
    /\ \E pc \in {"recv", "check", "asking"} : ConnTo(c, pc)

\* All the pieces of what another node has sent on a pooled socket, if anything.
HandlerMisreads(c) ==
    /\ conn[c] = "misreading"
    /\ \E pc \in {"check", "asking", "close"} : ConnTo(c, pc)

\* The other node answers, or its connection breaks.
HandlerAnswered(c) == conn[c] = "asking" /\ ConnTo(c, "check")

\* recv fails: the client has closed, or shutdown() shut the connection down.
HandlerRecvFails(c) ==
    /\ conn[c] = "waiting"
    /\ c \notin peer_open \/ owner[fd[c]] # c
    /\ ConnTo(c, "close")

\* The number is closed, whatever it belongs to by now.
HandlerCloses(c) ==
    /\ conn[c] = "close"
    /\ owner' = [owner EXCEPT ![fd[c]] = NoConn]
    /\ conn' = [conn EXCEPT ![c] = "untrack"]
    /\ UNCHANGED << is_running, sock, runVars, peer_open, fd, pool, trackVars, shut, life >>

\* Mutant: every equal entry is erased.
EraseAll(s, f) == SelectSeq(s, LAMBDA x : x # f)

\* find and erase: the first equal entry only.
EraseFirst(s, f) ==
    IF \E i \in 1..Len(s) : s[i] = f
    THEN RemoveAt(s, CHOOSE i \in 1..Len(s) : s[i] = f /\ \A j \in 1..(i - 1) : s[j] # f)
    ELSE s

HandlerUntracks(c) ==
    /\ conn[c] = "untrack"
    /\ accepted_sockets' = EraseFirst(accepted_sockets, fd[c])
    /\ conn' = [conn EXCEPT ![c] = "done"]
    /\ UNCHANGED << is_running, sock, runVars, peer_open, fd, owner, pool, connection_threads,
                    shut, life >>

----------------------------------------------------------------------------
(***************************************************************************)
(* The pool, used by handlers that ask another node and by the other       *)
(* threads of the derived class, some of them detached.                    *)
(***************************************************************************)
PoolTo(t, f) ==
    /\ life \notin {"base", "destroyed"}
    /\ pool' = [pool EXCEPT ![t] = f]
    /\ UNCHANGED << is_running, sock, runVars, conn, peer_open, fd, trackVars, shut, life >>

\* get_connection opens a socket, if it has none for the address.
PoolConnects(t) ==
    /\ pool[t] = 0
    /\ PoolTo(t, LowestFree)
    /\ owner' = [owner EXCEPT ![LowestFree] = t]

\* get_connection finds the socket dead, or close_connection is called.
PoolCloses(t) ==
    /\ pool[t] # 0
    /\ PoolTo(t, 0)
    /\ owner' = [owner EXCEPT ![pool[t]] = NoConn]

----------------------------------------------------------------------------
(***************************************************************************)
(* shutdown().                                                             *)
(***************************************************************************)
StopRunning ==
    /\ ShutdownAt("stop_running")
    /\ is_running' = FALSE
    /\ ShutdownAdvances
    /\ UNCHANGED << sock, runVars, connVars, trackVars, life >>

\* Connections nobody has accepted are reset.
CloseListener ==
    /\ ShutdownAt("close_listener")
    /\ IF sock = "open"
       THEN /\ sock' = "closed"
            /\ conn' = [c \in Conns |-> IF conn[c] = "backlog" THEN "refused" ELSE conn[c]]
       ELSE UNCHANGED << sock, conn >>
    /\ ShutdownAdvances
    /\ UNCHANGED << is_running, runVars, peer_open, fd, owner, pool, trackVars, life >>

CloseAccepted ==
    /\ ShutdownAt("close_accepted")
    /\ owner' = [f \in Fds |-> IF \E i \in 1..Len(accepted_sockets) : accepted_sockets[i] = f
                               THEN NoConn ELSE owner[f]]
    /\ accepted_sockets' = << >>
    /\ ShutdownAdvances
    /\ UNCHANGED << is_running, sock, runVars, conn, peer_open, fd, pool, connection_threads,
                    life >>

LockThreads ==
    /\ ShutdownAt("lock_threads")
    /\ ShutdownAdvances
    /\ UNCHANGED << is_running, sock, runVars, connVars, trackVars, life >>

JoinThreads ==
    /\ ShutdownAt("join_threads")
    /\ \A c \in connection_threads : conn[c] = "done"
    /\ connection_threads' = {}
    /\ ShutdownAdvances
    /\ UNCHANGED << is_running, sock, runVars, connVars, accepted_sockets, life >>

ShutdownStep ==
    StopRunning \/ CloseListener \/ CloseAccepted \/ LockThreads \/ JoinThreads

RunThread ==
    \/ RunListens \/ RunAnnounces \/ RunLoop
    \/ \E c \in Conns : RunAccepts(c)
    \/ RunAcceptFails \/ RunTracks \/ RunSpawns \/ RunEmplaces

Handler(c) ==
    \/ HandlerChecks(c) \/ HandlerCallsRecv(c) \/ HandlerRecvFails(c)
    \/ HandlerCloses(c) \/ HandlerUntracks(c)

ConnStep(c) ==
    \/ ClientConnects(c) \/ ClientCloses(c)
    \/ HandlerReceives(c) \/ HandlerMisreads(c) \/ HandlerAnswered(c) \/ Handler(c)

----------------------------------------------------------------------------
(***************************************************************************)
(* The owner.                                                              *)
(***************************************************************************)
OwnerTo(stage) ==
    /\ life' = stage
    /\ UNCHANGED << is_running, sock, runVars, connVars, trackVars, shut >>

\* wait_until_listening(): is_running_ is set, or the wait times out and
\* throws.  Binding a socket takes less than the 5 s of the timeout, so that
\* happens only when it failed.
wait_until_listening ==
    /\ life = "starting"
    /\ is_running \/ run_pc = "done"
    /\ OwnerTo("up")

CallShutdown(stage) ==
    /\ shut = 0
    /\ shut' = 1
    /\ life' = stage
    /\ UNCHANGED << is_running, sock, runVars, conn, peer_open, fd, trackVars >>

ExplicitShutdown == life = "up" /\ CallShutdown("down") /\ UNCHANGED << owner, pool >>

\* The derived destructor first stops the threads of the derived class.
Destroy == life \in {"up", "down"} /\ shut = 0 /\ OwnerTo("stopping")

DerivedShutsDown ==
    life = "stopping" /\ CallShutdown("derived") /\ UNCHANGED << owner, pool >>

close_all ==
    /\ owner' = [f \in Fds |-> IF \E t \in Targets : pool[t] = f THEN NoConn ELSE owner[f]]
    /\ pool' = [t \in Targets |-> 0]

\* After close_all the members of the derived class are gone; then ~BaseNode.
BaseShutsDown == life = "derived" /\ CallShutdown("base") /\ close_all

\* running_thread_.join()
Destroyed == life = "base" /\ shut = 0 /\ run_pc = "done" /\ OwnerTo("destroyed")

Gone == life = "destroyed" /\ UNCHANGED vars

OwnerGoesOn == wait_until_listening \/ DerivedShutsDown \/ BaseShutsDown \/ Destroyed

Next ==
    \/ RunThread
    \/ ShutdownStep
    \/ \E c \in Conns : ConnStep(c)
    \/ \E t \in Targets : PoolConnects(t) \/ PoolCloses(t)
    \/ OwnerGoesOn \/ ExplicitShutdown \/ Destroy
    \/ Gone

\* Threads are scheduled, and the derived class can stop its own threads.
\* Clients and the nodes that are asked owe nothing.
Fairness ==
    /\ WF_vars(RunThread)
    /\ WF_vars(ShutdownStep)
    /\ WF_vars(OwnerGoesOn)
    /\ \A c \in Conns : WF_vars(Handler(c))

Spec == Init /\ [][Next]_vars /\ Fairness

----------------------------------------------------------------------------
Handling == {"check", "recv", "waiting", "misreading", "asking"}
Alive(c) == conn[c] \in Handling \cup {"close", "untrack"}

TypeOK ==
    /\ is_running \in BOOLEAN
    /\ sock \in {"none", "open", "closed"}
    /\ run_pc \in {"start", "announce", "loop", "accept", "track", "spawn", "emplace", "done"}
    /\ accepting \in Conns \cup {NoConn}
    /\ (accepting = NoConn) <=> (run_pc \notin {"track", "spawn", "emplace"})
    /\ conn \in [Conns -> Handling \cup {"absent", "backlog", "refused", "accepted", "close",
                                         "untrack", "done"}]
    /\ peer_open \subseteq Conns
    /\ fd \in [Conns -> {0} \cup Fds]
    /\ owner \in [Fds -> Conns \cup Targets \cup {NoConn}]
    /\ pool \in [Targets -> {0} \cup Fds]
    /\ accepted_sockets \in Seq(Fds)
    /\ connection_threads \subseteq Conns
    /\ shut \in 0..Len(ShutdownSteps)
    /\ life \in {"starting", "up", "down", "stopping", "derived", "base", "destroyed"}

(***************************************************************************)
(* A connection that is being handled owns its descriptor and is in        *)
(* accepted_sockets_, so that shutdown() can end it, although a thread     *)
(* closes its descriptor before it takes the number out of the list and    *)
(* the number may have been given out again in between.                    *)
(***************************************************************************)
ConnectionsTracked ==
    (is_running /\ shut = 0) =>
        \A c \in Conns : conn[c] \in Handling =>
            /\ owner[fd[c]] = c
            /\ \E i \in 1..Len(accepted_sockets) : accepted_sockets[i] = fd[c]

(***************************************************************************)
(* While the node listens, a connection and a pooled socket own the number *)
(* by which their threads read from and close them.  shutdown() closes the *)
(* numbers of connections that are still being handled; the pool may be    *)
(* given one of them, and the connection's thread then reads from and      *)
(* closes a pooled socket, and the pool's address may be left with the     *)
(* number of another one.  But no thread ever reads from or closes another *)
(* accepted connection by its number, nor does the pool: the listening     *)
(* socket is closed before those numbers are.  The variables keep their    *)
(* types.                                                                  *)
(***************************************************************************)
DescriptorsAreOwn ==
    /\ TypeOK
    /\ \A c \in Conns : conn[c] \in Handling \cup {"accepted", "close"} =>
          /\ owner[fd[c]] \notin Conns \ {c}
          /\ sock = "open" => owner[fd[c]] = c
    /\ \A t \in Targets : pool[t] # 0 =>
          /\ owner[pool[t]] \notin Conns
          /\ sock = "open" => owner[pool[t]] = t

(***************************************************************************)
(* When the derived members are destroyed, at most one connection thread   *)
(* is still running or still to be started: the one whose connection was   *)
(* being accepted when shutdown() closed the listening socket.  (It is     *)
(* joined by the second shutdown(), or not at all.)                        *)
(***************************************************************************)
AtMostOneStraggler ==
    life \in {"base", "destroyed"} =>
        Cardinality({c \in Conns : Alive(c) \/ conn[c] = "accepted"}) <= 1

(***************************************************************************)
(* The destructor returns, with clients that stay connected and the        *)
(* threads anywhere in their loops, unless some connection thread waits    *)
(* for ever for another node's answer or on a pooled socket that has taken *)
(* the number of its connection: that wait is ended only by the other      *)
(* node, since close_all comes after the join.                             *)
(***************************************************************************)
DestructorReturns ==
    (life = "stopping") ~>
        (life = "destroyed" \/ [](\E d \in Conns : conn[d] \in {"asking", "misreading"}))
=============================================================================
