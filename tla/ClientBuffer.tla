------------------------------- MODULE ClientBuffer -------------------------------
(***************************************************************************)
(* The client side of a proxy.  Clients call Client::append                *)
(* (impl/client/client.cpp), one connection thread per client pushes the   *)
(* command into the shared ClientBufferManager                             *)
(* (impl/proxy/client_buffer_manager.h), and the timer thread drains,      *)
(* replicates and answers batches in Proxy::send_out_batch                 *)
(* (impl/proxy/proxy.cpp).                                                 *)
(*                                                                         *)
(* Sockets are file descriptors: a descriptor closed by a connection       *)
(* thread is given to the next connection that is accepted.  A connection  *)
(* may break at any time, and each side notices only when it uses it.      *)
(* Every command takes one unit of the buffer.  Replication is abstracted  *)
(* to its result (module Replication), and what an interrupted answer      *)
(* leaves in the client's ReadBuffer to module Framing.                    *)
(***************************************************************************)
EXTENDS Integers, Sequences, FiniteSets, SequencesExt

CONSTANTS
    Clients,
    NoClient,       \* the owner of a descriptor that is closed
    Ended,          \* the owner of one whose connection has ended, until its thread notices
    Fds,            \* the proxy's descriptors, numbered
    MaxAppends,     \* bounds on the appends of each client
    MaxBreaks,      \* bound on the connections that break or that a client leaves
    CAPACITY        \* ClientBufferManager::CAPACITY

ASSUME ClientAssumption ==
    /\ IsFiniteSet(Clients) /\ Fds \subseteq Nat
    /\ NoClient \notin Clients /\ Ended \notin Clients \cup {NoClient}
    /\ MaxAppends \in [Clients -> Nat] /\ MaxBreaks \in Nat /\ CAPACITY \in Nat \ {0}

VARIABLES
    client,         \* per client: its call of append, its number, its socket, the answers
    owner,          \* per descriptor: the client at the other end of its connection
    requests,       \* APPENDs on their way, per descriptor
    responses,      \* SUCCESS and FAILURE on their way, per client
    removing,       \* per descriptor: the threads that closed it and have yet to call remove
    breaks,         \* the connections that have broken or were left
    \* ClientBufferManager
    buf, write_pos, read_pos, used, participating,
    overrun,        \* a push wrote outside of buf_
    \* Proxy
    registered, paused,
    sender,         \* the timer thread in send_out_batch: pc and what it holds
    \* History
    pushed,         \* the commands pushed and not replicated yet, in that order
    outcome,        \* per command, the result of the batch that held it
    refused,        \* the commands whose push found the buffer full
    clean           \* the clients whose connection got a descriptor nothing was due on

buffer == << buf, write_pos, read_pos, used, participating, overrun >>
proxy == << registered, paused >>
net == << owner, requests, responses, removing, breaks >>
history == << pushed, outcome, refused, clean >>
vars == << client, net, buffer, proxy, sender, history >>

NoBatch == [pc |-> "idle", pos |-> 0, len |-> 0, fds |-> {}, data |-> << >>, result |-> ""]

NoFd == -1
Commands == UNION {{c} \X (1..MaxAppends[c]) : c \in Clients}

----------------------------------------------------------------------------
Init ==
    /\ client = [c \in Clients |-> [pc |-> "idle", n |-> 0, fd |-> NoFd, told |-> {}]]
    /\ owner = [f \in Fds |-> NoClient]
    /\ requests = [f \in Fds |-> << >>]
    /\ responses = [c \in Clients |-> << >>]
    /\ removing = [f \in Fds |-> 0] /\ breaks = 0
    /\ buf = [i \in 0..(CAPACITY - 1) |-> << >>]
    /\ write_pos = 0 /\ read_pos = 0 /\ used = 0
    /\ participating = {} /\ overrun = FALSE
    /\ registered = TRUE /\ paused = FALSE
    /\ sender = NoBatch
    /\ pushed = << >> /\ outcome = [cmd \in Commands |-> ""]
    /\ refused = {} /\ clean = {}

----------------------------------------------------------------------------
(***************************************************************************)
(* Client::append: connect through the pool if there is no live            *)
(* connection, send the APPEND, wait for one response and return.  If one  *)
(* of the three fails, append closes the connection and returns false.     *)
(***************************************************************************)
FreeFds == {f \in Fds : owner[f] = NoClient}
LowestFree == CHOOSE f \in FreeFds : \A g \in FreeFds : f <= g

Connected(c) == client[c].fd # NoFd /\ owner[client[c].fd] = c

\* A descriptor on which an answer or a remove is due to its last connection.
Due(f) == f \in sender.fds \/ removing[f] > 0

\* get_connection finds no socket or a dead one, and opens one.
Connect(c) ==
    /\ client[c].pc = "idle" /\ ~Connected(c)
    /\ client[c].n < MaxAppends[c]
    /\ FreeFds # {}
    /\ client' = [client EXCEPT ![c].fd = LowestFree, ![c].told = {}]
    /\ owner' = [owner EXCEPT ![LowestFree] = c]
    /\ responses' = [responses EXCEPT ![c] = << >>]
    /\ clean' = IF Due(LowestFree) THEN clean \ {c} ELSE clean \cup {c}
    /\ UNCHANGED << requests, removing, breaks, buffer, proxy, sender, pushed, outcome, refused >>

\* connect fails, or send does, so that the APPEND never arrives whole.
AppendFails(c) ==
    /\ client[c].pc = "idle" /\ ~Connected(c)
    /\ client[c].n < MaxAppends[c]
    /\ client' = [client EXCEPT ![c].n = @ + 1, ![c].fd = NoFd]
    /\ UNCHANGED << net, buffer, proxy, sender, history >>

\* send also succeeds when the connection is broken and nobody has noticed.
SendAppend(c) ==
    /\ client[c].pc = "idle" /\ client[c].fd # NoFd
    /\ client[c].n < MaxAppends[c]
    /\ client' = [client EXCEPT ![c].pc = "waiting", ![c].n = @ + 1]
    /\ requests' = IF Connected(c)
                   THEN [requests EXCEPT ![client[c].fd] = Append(@, <<c, client[c].n + 1>>)]
                   ELSE requests
    /\ UNCHANGED << owner, responses, removing, breaks, buffer, proxy, sender, history >>

\* append returns what the next response on the socket says.
RecvResponse(c) ==
    /\ client[c].pc = "waiting" /\ responses[c] # << >>
    /\ client' = [client EXCEPT ![c].pc = "idle",
                                ![c].told = @ \cup {<<client[c].n, Head(responses[c])>>}]
    /\ responses' = [responses EXCEPT ![c] = Tail(@)]
    /\ UNCHANGED << owner, requests, removing, breaks, buffer, proxy, sender, history >>

\* append returns false, whatever has become of the command.
RecvFails(c) ==
    /\ client[c].pc = "waiting" /\ ~Connected(c)
    /\ client' = [client EXCEPT ![c].pc = "idle", ![c].fd = NoFd]
    /\ responses' = [responses EXCEPT ![c] = << >>]
    /\ UNCHANGED << owner, requests, removing, breaks, buffer, proxy, sender, history >>

\* The client is destroyed or moves on with update_proxy, and perhaps comes back.
Leave(c) ==
    /\ client[c].pc = "idle" /\ Connected(c)
    /\ breaks < MaxBreaks
    /\ client' = [client EXCEPT ![c].fd = NoFd, ![c].told = {}]
    /\ owner' = [owner EXCEPT ![client[c].fd] = Ended]
    /\ responses' = [responses EXCEPT ![c] = << >>]
    /\ breaks' = breaks + 1
    /\ UNCHANGED << requests, removing, buffer, proxy, sender, history >>

\* What is on its way may still arrive.
Break(f) ==
    /\ owner[f] \in Clients /\ breaks < MaxBreaks
    /\ owner' = [owner EXCEPT ![f] = Ended]
    /\ breaks' = breaks + 1
    /\ UNCHANGED << client, requests, responses, removing, buffer, proxy, sender, history >>

----------------------------------------------------------------------------
(***************************************************************************)
(* ClientBufferManager, each operation under its mutex.  After a write     *)
(* outside of buf_ the code's behaviour is undefined, and nothing that     *)
(* touches the buffer is modelled.                                         *)
(***************************************************************************)
HasRoom == used + 1 <= CAPACITY

\* The check above looks at used_ only; the write goes to write_pos_.
push_raw(fd, cmd) ==
    IF HasRoom
    THEN /\ buf' = IF write_pos < CAPACITY THEN [buf EXCEPT ![write_pos] = cmd] ELSE buf
         /\ overrun' = (write_pos >= CAPACITY)
         /\ write_pos' = write_pos + 1
         /\ used' = used + 1
         /\ participating' = participating \cup {fd}
         /\ pushed' = Append(pushed, cmd)
         /\ UNCHANGED << read_pos, refused >>
    ELSE refused' = refused \cup {cmd} /\ UNCHANGED << buffer, pushed >>

\* Mutant: participating_ is not cleared.
DrainKeepsParticipants ==
    /\ sender' = [NoBatch EXCEPT !.pc = "drained", !.pos = read_pos, !.len = used,
                                 !.fds = participating]
    /\ UNCHANGED buffer

\* The bytes stay in buf_: the caller gets where they are.
drain ==
    /\ sender' = [NoBatch EXCEPT !.pc = "drained", !.pos = read_pos, !.len = used,
                                 !.fds = participating]
    /\ participating' = {}
    /\ UNCHANGED << buf, write_pos, read_pos, used, overrun >>

\* Mutant: the positions are reset although later commands are in the buffer.
ReleaseAlwaysResets(consumed) ==
    /\ used' = used - consumed
    /\ read_pos' = 0 /\ write_pos' = 0
    /\ UNCHANGED << buf, participating, overrun >>

\* Mutant: one unit too many is released.
ReleaseOffByOne(consumed) ==
    /\ used' = used - consumed - 1
    /\ read_pos' = read_pos + consumed + 1
    /\ UNCHANGED << buf, write_pos, participating, overrun >>

release(consumed) ==
    LET empty == used = consumed
    IN  /\ used' = used - consumed
        /\ read_pos' = IF empty THEN 0 ELSE read_pos + consumed
        /\ write_pos' = IF empty THEN 0 ELSE write_pos
        /\ UNCHANGED << buf, participating, overrun >>

remove(fd) ==
    /\ participating' = participating \ {fd}
    /\ UNCHANGED << buf, write_pos, read_pos, used, overrun >>

----------------------------------------------------------------------------
(***************************************************************************)
(* Proxy::handle_connection, the thread of one accepted connection.        *)
(***************************************************************************)
Respond(fds, r) ==
    responses' = [c \in Clients |-> IF \E f \in fds : owner[f] = c
                                    THEN Append(responses[c], r) ELSE responses[c]]

\* What push_raw returns is ignored, so that a refused command gets no answer.
HandleAppend(f) ==
    /\ ~overrun
    /\ owner[f] # NoClient /\ requests[f] # << >>
    /\ requests' = [requests EXCEPT ![f] = Tail(@)]
    /\ IF registered
       THEN push_raw(f, Head(requests[f])) /\ UNCHANGED responses
       ELSE Respond({f}, "FAILURE") /\ UNCHANGED << buffer, pushed, refused >>
    /\ UNCHANGED << client, owner, removing, breaks, proxy, sender, outcome, clean >>

\* recv reports the end of the connection, perhaps before all that was sent
\* on it has arrived: close(client_socket) ...
HandleClose(f) ==
    /\ owner[f] = Ended
    /\ owner' = [owner EXCEPT ![f] = NoClient]
    /\ requests' = [requests EXCEPT ![f] = << >>]
    /\ removing' = [removing EXCEPT ![f] = @ + 1]
    /\ UNCHANGED << client, responses, breaks, buffer, proxy, sender, history >>

\* ... and then client_buffers_.remove(client_socket).
HandleRemove(f) ==
    /\ ~overrun
    /\ removing[f] > 0
    /\ removing' = [removing EXCEPT ![f] = @ - 1]
    /\ remove(f)
    /\ UNCHANGED << client, owner, requests, responses, breaks, proxy, sender, history >>

HandleFreeze ==
    /\ registered
    /\ registered' = FALSE
    /\ paused' = TRUE
    /\ UNCHANGED << client, net, buffer, sender, history >>

----------------------------------------------------------------------------
(***************************************************************************)
(* Proxy::send_out_batch on the timer thread: drain, copy the bytes into   *)
(* the wire message, release them, replicate, answer every participant.    *)
(* Without participants it sends a SKIP and leaves the bytes alone.        *)
(***************************************************************************)
SenderTo(s) == sender' = s /\ UNCHANGED << client, net, proxy, history >>

Drain ==
    /\ ~overrun
    /\ sender.pc = "idle"
    /\ drain
    /\ UNCHANGED << client, net, proxy, history >>

\* build_wire_bytes copies what the pointer shows, without the mutex.
Build ==
    /\ ~overrun
    /\ sender.pc = "drained"
    /\ SenderTo([sender EXCEPT !.pc = "built",
                    !.data = IF sender.fds = {} THEN << >>
                             ELSE [i \in 1..sender.len |-> buf[sender.pos + i - 1]]])
    /\ UNCHANGED buffer

Release ==
    /\ ~overrun
    /\ sender.pc = "built"
    /\ release(IF sender.fds = {} THEN 0 ELSE sender.len)
    /\ SenderTo([sender EXCEPT !.pc = "replicate"])

Replicate(r) ==
    /\ sender.pc = "replicate"
    /\ outcome' = [cmd \in Commands |-> IF cmd \in Range(sender.data) THEN r ELSE outcome[cmd]]
    /\ pushed' = SubSeq(pushed, Len(sender.data) + 1, Len(pushed))
    /\ sender' = [sender EXCEPT !.pc = "answer", !.result = r]
    /\ UNCHANGED << client, net, buffer, proxy, refused, clean >>

\* Mutant: a failed batch is not reported to its clients.
AnswerSuccessOnly ==
    /\ sender.pc = "answer"
    /\ IF sender.result = "SUCCESS" THEN Respond(sender.fds, sender.result)
                                     ELSE UNCHANGED responses
    /\ sender' = NoBatch
    /\ UNCHANGED << client, owner, requests, removing, breaks, buffer, proxy, history >>

AnswerAll ==
    /\ sender.pc = "answer"
    /\ Respond(sender.fds, sender.result)
    /\ sender' = NoBatch
    /\ UNCHANGED << client, owner, requests, removing, breaks, buffer, proxy, history >>

\* A paused timer thread sends the slots of its epoch and leaves its loop.
TimerExits ==
    /\ paused
    /\ sender.pc = "idle"
    /\ sender' = [NoBatch EXCEPT !.pc = "exited"]
    /\ UNCHANGED << client, net, buffer, proxy, history >>

Results == {"SUCCESS", "FAILURE"}
SenderStep ==
    Drain \/ Build \/ Release \/ (\E r \in Results : Replicate(r)) \/ AnswerAll \/ TimerExits

----------------------------------------------------------------------------
\* All clients have made their calls or wait, some of them for ever.
Idle ==
    /\ \A c \in Clients : client[c].pc = "waiting" \/ client[c].n = MaxAppends[c]
    /\ UNCHANGED vars

ClientStep(c) ==
    Connect(c) \/ AppendFails(c) \/ SendAppend(c) \/ RecvResponse(c) \/ RecvFails(c) \/ Leave(c)

Next ==
    \/ \E c \in Clients : ClientStep(c)
    \/ \E f \in Fds : Break(f) \/ HandleAppend(f) \/ HandleClose(f) \/ HandleRemove(f)
    \/ HandleFreeze
    \/ SenderStep
    \/ Idle

\* Connection threads and the timer thread are scheduled, and epochs keep
\* coming, so a drain is never put off for ever.
Fairness ==
    /\ \A f \in Fds : WF_vars(HandleAppend(f)) /\ WF_vars(HandleRemove(f))
    /\ \A c \in Clients : WF_vars(RecvResponse(c) \/ RecvFails(c))
    /\ WF_vars(SenderStep)

Spec == Init /\ [][Next]_vars /\ Fairness

----------------------------------------------------------------------------
TypeOK ==
    /\ client \in [Clients -> [pc : {"idle", "waiting"}, n : Nat, fd : Fds \cup {NoFd},
                               told : SUBSET (Nat \X {"SUCCESS", "FAILURE"})]]
    /\ \A c \in Clients : client[c].n <= MaxAppends[c]
    /\ owner \in [Fds -> Clients \cup {NoClient, Ended}]
    /\ \A f \in Fds : requests[f] \in Seq(Commands)
    /\ \A c \in Clients : responses[c] \in Seq({"SUCCESS", "FAILURE"})
    /\ participating \subseteq Fds /\ clean \subseteq Clients
    /\ used \in 0..CAPACITY /\ read_pos \in 0..CAPACITY
    /\ registered \in BOOLEAN /\ paused \in BOOLEAN /\ overrun \in BOOLEAN

(***************************************************************************)
(* No command is lost, duplicated or reordered between a push and the      *)
(* batches, as long as no write has left buf_: what the sender has copied  *)
(* and released and what the buffer still holds are together what was      *)
(* pushed and not replicated, in that order, also when pushes and          *)
(* disconnects fall between drain, the copy and release.                   *)
(***************************************************************************)
Buffered == [i \in 1..used |-> buf[read_pos + i - 1]]
TakenOut == IF sender.pc = "replicate" THEN sender.data ELSE << >>

BufferIsFifo ==
    ~overrun => /\ read_pos + used = write_pos
                /\ pushed = TakenOut \o Buffered

(***************************************************************************)
(* A response SUCCESS says that the batch with that very command was       *)
(* replicated, and FAILURE that it was not.  (append also returns false    *)
(* without a response, and then nothing is known of the command.)          *)
(***************************************************************************)
OwnAnswers(c) ==
    \A t \in client[c].told : (t[2] = "SUCCESS") <=> (outcome[<<c, t[1]>>] = "SUCCESS")

(***************************************************************************)
(* A client is told the result of its own command, on every connection     *)
(* whose descriptor had no answer and no remove due to the connection      *)
(* before it when it was accepted: descriptors that were used before, and  *)
(* other clients that break off and come back between a drain that took    *)
(* their descriptor and the answer that is written to it, included.  (On   *)
(* the other connections it may be told another client's result: answers   *)
(* are written to numbers.)                                                *)
(***************************************************************************)
AnswersAreOwn == \A c \in clean : OwnAnswers(c)

(***************************************************************************)
(* Every append of such a client returns, whichever of push, drain, copy,  *)
(* release and answer of the batches before it the command falls between,  *)
(* except that a command for which the buffer is full is never answered,   *)
(* that a frozen proxy's timer thread leaves, and that the proxy's         *)
(* behaviour is undefined after a write outside of the buffer.             *)
(***************************************************************************)
AppendsReturn ==
    \A c \in Clients :
        (client[c].pc = "waiting" /\ c \in clean)
            ~> (client[c].pc # "waiting" \/ <<c, client[c].n>> \in refused \/ paused \/ overrun)

(***************************************************************************)
(* client_buffer_manager.h: push_raw writes "directly into ring buffer";   *)
(* no write leaves the CAPACITY bytes of buf_.                             *)
(***************************************************************************)
WritesStayInBuffer == ~overrun
=============================================================================
