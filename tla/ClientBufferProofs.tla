----------------------------- MODULE ClientBufferProofs -----------------------------
(***************************************************************************)
(* Theorems about ClientBuffer, for any number of clients, appends,        *)
(* descriptors and broken connections and every capacity of the buffer.    *)
(***************************************************************************)
EXTENDS ClientBuffer, FiniteSetTheorems, SequenceTheorems, WellFoundedInduction, TLAPS

----------------------------------------------------------------------------
(***************************************************************************)
(* The inductive invariant.                                                *)
(***************************************************************************)
ClientRecord == [pc : {"idle", "waiting"}, n : Nat, fd : Fds \cup {NoFd},
                 told : SUBSET (Nat \X Results)]
Batch == [pc : {"idle", "drained", "built", "replicate", "answer", "exited"},
          pos : Nat, len : Nat, data : Seq(Commands), fds : SUBSET Fds,
          result : Results \cup {""}]

TypeInv ==
    /\ client \in [Clients -> ClientRecord]
    /\ \A c \in Clients : client[c].n <= MaxAppends[c]
    /\ owner \in [Fds -> Clients \cup {NoClient, Ended}]
    /\ requests \in [Fds -> Seq(Commands)]
    /\ responses \in [Clients -> Seq(Results)]
    /\ removing \in [Fds -> Nat]
    /\ buf \in [0..(CAPACITY - 1) -> Commands \cup {<< >>}]
    /\ participating \subseteq Fds /\ clean \subseteq Clients
    /\ registered \in BOOLEAN /\ paused \in BOOLEAN /\ overrun \in BOOLEAN
    /\ sender \in Batch
    /\ sender.pc = "answer" => sender.result \in Results
    /\ sender.pc \in {"idle", "exited"} => sender.fds = {}
    /\ pushed \in Seq(Commands)
    /\ outcome \in [Commands -> Results \cup {""}]

\* The bytes between the positions are in use, and those that a drain has
\* shown to the sender stay where they are until it releases them.
PositionInv ==
    /\ used \in 0..CAPACITY /\ read_pos \in 0..CAPACITY /\ write_pos \in Nat
    /\ ~overrun => /\ write_pos = read_pos + used /\ write_pos <= CAPACITY
                   /\ sender.pc \in {"drained", "built"} =>
                         sender.pos = read_pos /\ sender.len <= used

\* What the sender takes for its batch is a prefix of pushed; what it has taken
\* out of the buffer is before what the buffer holds.
Taken == IF sender.pc \in {"drained", "built"}
         THEN IF sender.fds = {} THEN 0 ELSE sender.len
         ELSE IF sender.pc = "replicate" THEN Len(sender.data) ELSE 0
Out == IF sender.pc = "replicate" THEN Len(sender.data) ELSE 0

FifoInv ==
    /\ sender.pc \in {"built", "replicate"} =>
          /\ Len(sender.data) = Taken /\ Taken <= Len(pushed)
          /\ \A i \in 1..Taken : sender.data[i] = pushed[i]
    /\ ~overrun => /\ Len(pushed) = Out + used
                   /\ \A i \in 1..used : /\ read_pos + i - 1 \in 0..(CAPACITY - 1)
                                         /\ buf[read_pos + i - 1] = pushed[Out + i]

BufferInv == TypeInv /\ PositionInv /\ FifoInv

\* A descriptor that belongs to a client is the one the client uses.
OwnerInv == \A f \in Fds : owner[f] \in Clients => client[owner[f]].fd = f

\* What is left of the last connection on a descriptor that is closed.
FreeInv ==
    \A f \in Fds : owner[f] = NoClient => /\ requests[f] = << >>
                                          /\ f \in participating => removing[f] > 0

\* Nothing is known of a command that its client has not sent.
Sent(cmd) == cmd[2] <= client[cmd[1]].n
CountInv ==
    /\ \A f \in Fds : \A i \in 1..Len(requests[f]) : Sent(requests[f][i])
    /\ \A i \in 1..Len(pushed) : Sent(pushed[i])
    /\ \A cmd \in Commands : outcome[cmd] # "" => Sent(cmd)

\* A command is once on its way or in the buffer.
UniqueInv ==
    /\ \A i, j \in 1..Len(pushed) : pushed[i] = pushed[j] => i = j
    /\ \A f, g \in Fds : \A i \in 1..Len(requests[f]), j \in 1..Len(requests[g]) :
          requests[f][i] = requests[g][j] => f = g /\ i = j
    /\ \A f \in Fds : \A i \in 1..Len(requests[f]), j \in 1..Len(pushed) :
          requests[f][i] # pushed[j]

ConnectionInv == OwnerInv /\ FreeInv /\ CountInv /\ UniqueInv
BaseInv == BufferInv /\ ConnectionInv

\* Where the last command of a client is whose connection lives.
Outstanding(cmd) ==
    \/ \E i \in 1..Len(pushed) : pushed[i] = cmd
    \/ \E f \in Fds : \E i \in 1..Len(requests[f]) : requests[f][i] = cmd
Current(c) == << c, client[c].n >>
Asked(c) == requests[client[c].fd] # << >>
Listed(c) == client[c].fd \in participating
Awaited(c) == client[c].fd \in sender.fds
Answered(c) == responses[c] # << >>

IdleIsNowhere(c) ==
    client[c].pc = "idle" => ~Asked(c) /\ ~Listed(c) /\ ~Awaited(c)
AskedIsNew(c) ==
    Asked(c) => /\ requests[client[c].fd] = << Current(c) >>
                /\ ~Listed(c) /\ ~Awaited(c) /\ ~Answered(c)
                /\ outcome[Current(c)] = ""
ListedIsPushed(c) ==
    Listed(c) => /\ ~Asked(c) /\ ~Awaited(c) /\ ~Answered(c)
                 /\ \E i \in 1..Len(pushed) : i > Taken /\ pushed[i] = Current(c)
AwaitedIsTaken(c) ==
    Awaited(c) => /\ ~Asked(c) /\ ~Answered(c)
                  /\ sender.pc \in {"drained", "built", "replicate"} =>
                        \E i \in 1..Len(pushed) : i <= Taken /\ pushed[i] = Current(c)
                  /\ sender.pc = "answer" => /\ outcome[Current(c)] = sender.result
                                             /\ ~Outstanding(Current(c))
Placed(c) ==
    /\ removing[client[c].fd] = 0
    /\ IdleIsNowhere(c) /\ AskedIsNew(c) /\ ListedIsPushed(c) /\ AwaitedIsTaken(c)

AnsweredIsOwn(c) ==
    Answered(c) => /\ client[c].pc = "waiting"
                   /\ ~Outstanding(Current(c))
                   /\ \E r \in Results : /\ responses[c] = << r >>
                                         /\ r = "SUCCESS" <=> outcome[Current(c)] = "SUCCESS"
ToldIsOwn(c) ==
    \A t \in client[c].told :
        /\ << c, t[1] >> \in Commands
        /\ t[2] = "SUCCESS" <=> outcome[<< c, t[1] >>] = "SUCCESS"
        /\ ~Outstanding(<< c, t[1] >>)
        /\ t[1] <= client[c].n
        /\ client[c].pc = "waiting" => t[1] < client[c].n

CallIsNamed(c) == client[c].pc = "waiting" => Current(c) \in Commands

AnswersOf(c) ==
    /\ CallIsNamed(c) /\ AnsweredIsOwn(c) /\ ToldIsOwn(c)
    /\ Connected(c) => Placed(c)
AnswerInv == \A c \in clean : AnswersOf(c)

ClientInv == BaseInv /\ AnswerInv

----------------------------------------------------------------------------
(***************************************************************************)
(* The clients' records.                                                   *)
(***************************************************************************)

\* accept takes the lowest descriptor that is free.
LEMMA LowestIsFree == FreeFds # {} => LowestFree \in FreeFds
<1> SUFFICES ASSUME FreeFds # {} PROVE LowestFree \in FreeFds
  OBVIOUS
<1> DEFINE Below == OpToRel(<, Nat)
<1>1. FreeFds \subseteq Nat
  BY ClientAssumption DEF FreeFds
<1>2. PICK f \in FreeFds : \A g \in FreeFds : << g, f >> \notin Below
  <2>1. IsWellFoundedOn(Below, Nat)
    BY NatLessThanWellFounded
  <2>2. IsWellFoundedOn(Below, FreeFds)
    BY <1>1, <2>1, IsWellFoundedOnSubset
  <2> HIDE DEF Below
  <2> QED BY <2>2, WFMin
<1>3. \A g \in FreeFds : ~(g < f)
  BY <1>1, <1>2 DEF OpToRel
<1>4. \A g \in FreeFds : f <= g
  BY <1>1, <1>3
<1> QED BY <1>4 DEF LowestFree

\* The fields of a client's record.
LEMMA RecordFields ==
    ASSUME NEW r \in ClientRecord
    PROVE  /\ r.pc \in {"idle", "waiting"} /\ r.n \in Nat
           /\ r.fd \in Fds \cup {NoFd} /\ r.told \in SUBSET (Nat \X Results)
  BY DEF ClientRecord

\* The client's record after each step that changes it.
Renewed(c, p, n, g, t) ==
    /\ client' \in [Clients -> ClientRecord]
    /\ client'[c].pc = p /\ client'[c].n = n /\ client'[c].fd = g /\ client'[c].told = t
    /\ \A d \in Clients : d # c => client'[d] = client[d]
    /\ \A d \in Clients : client'[d].n <= MaxAppends[d]

LEMMA RenewedBy ==
    ASSUME TypeInv, NEW c \in Clients, NEW u \in ClientRecord, u.n <= MaxAppends[c],
           client' = [client EXCEPT ![c] = u]
    PROVE  Renewed(c, u.pc, u.n, u.fd, u.told)
<1>1. /\ client \in [Clients -> ClientRecord]
      /\ \A d \in Clients : client[d].n <= MaxAppends[d]
  BY DEF TypeInv
<1>2. client' \in [Clients -> ClientRecord] /\ client'[c] = u
  BY <1>1
<1>3. \A d \in Clients : d # c => client'[d] = client[d]
  BY <1>1
<1> QED BY <1>1, <1>2, <1>3 DEF Renewed

LEMMA ConnectRenews ==
    ASSUME TypeInv, NEW c \in Clients, Connect(c)
    PROVE  /\ LowestFree \in Fds /\ owner[LowestFree] = NoClient
           /\ Renewed(c, "idle", client[c].n, LowestFree, {})
<1>1. LowestFree \in Fds /\ owner[LowestFree] = NoClient
  BY LowestIsFree DEF Connect, FreeFds
<1>2. client[c] \in ClientRecord /\ client[c].n <= MaxAppends[c]
  BY DEF TypeInv
<1>3. PICK u : u = [client[c] EXCEPT !.fd = LowestFree, !.told = {}]
  OBVIOUS
<1>4. client' = [client EXCEPT ![c] = u] /\ client[c].pc = "idle"
  BY <1>3 DEF Connect
<1>5. /\ u \in ClientRecord /\ u.fd = LowestFree /\ u.told = {}
      /\ u.pc = client[c].pc /\ u.n = client[c].n
  BY <1>1, <1>2, <1>3 DEF ClientRecord
<1>6. Renewed(c, u.pc, u.n, u.fd, u.told)
  BY <1>2, <1>4, <1>5, RenewedBy
<1> QED BY <1>1, <1>4, <1>5, <1>6

\* A call of append takes the next number.
LEMMA NextNumber ==
    ASSUME TypeInv, NEW c \in Clients, client[c].n < MaxAppends[c]
    PROVE  client[c].n \in Nat /\ client[c].n + 1 \in 1..MaxAppends[c]
<1>1. client[c].n \in Nat
  BY RecordFields DEF TypeInv
<1>2. MaxAppends[c] \in Nat
  BY ClientAssumption
<1> QED BY <1>1, <1>2

LEMMA SendRenews ==
    ASSUME TypeInv, NEW c \in Clients, SendAppend(c)
    PROVE  /\ client[c].fd \in Fds
           /\ client[c].n \in Nat /\ client[c].n + 1 \in 1..MaxAppends[c]
           /\ Renewed(c, "waiting", client[c].n + 1, client[c].fd, client[c].told)
<1>1. client[c] \in ClientRecord
  BY DEF TypeInv
<1>2. client[c].fd \in Fds
  BY <1>1, RecordFields DEF SendAppend
<1>3. client[c].n \in Nat /\ client[c].n + 1 \in 1..MaxAppends[c]
  BY NextNumber DEF SendAppend
<1>4. PICK u : u = [client[c] EXCEPT !.pc = "waiting", !.n = client[c].n + 1]
  OBVIOUS
<1>5. client' = [client EXCEPT ![c] = u]
  BY <1>4 DEF SendAppend
<1>6. /\ u \in ClientRecord /\ u.pc = "waiting" /\ u.n = client[c].n + 1
      /\ u.fd = client[c].fd /\ u.told = client[c].told
  <2>1. PICK m \in Nat : m = client[c].n + 1
    BY <1>3
  <2>2. u = [client[c] EXCEPT !.pc = "waiting", !.n = m]
    BY <1>4, <2>1
  <2> QED BY <1>1, <2>1, <2>2 DEF ClientRecord
<1>7. u.n <= MaxAppends[c]
  BY <1>3, <1>6
<1>8. Renewed(c, u.pc, u.n, u.fd, u.told)
  BY <1>5, <1>6, <1>7, RenewedBy
<1> QED BY <1>2, <1>3, <1>6, <1>8

LEMMA AppendFailsRenews ==
    ASSUME TypeInv, NEW c \in Clients, AppendFails(c)
    PROVE  /\ client[c].n \in Nat
           /\ Renewed(c, "idle", client[c].n + 1, NoFd, client[c].told)
<1>1. client[c] \in ClientRecord /\ client[c].pc = "idle"
  BY DEF TypeInv, AppendFails
<1>2. client[c].n \in Nat /\ client[c].n + 1 \in 1..MaxAppends[c]
  BY NextNumber DEF AppendFails
<1>3. PICK u : u = [client[c] EXCEPT !.n = client[c].n + 1, !.fd = NoFd]
  OBVIOUS
<1>4. client' = [client EXCEPT ![c] = u]
  BY <1>3 DEF AppendFails
<1>5. /\ u \in ClientRecord /\ u.pc = client[c].pc /\ u.n = client[c].n + 1
      /\ u.fd = NoFd /\ u.told = client[c].told
  <2>1. PICK m \in Nat : m = client[c].n + 1
    BY <1>2
  <2>2. u = [client[c] EXCEPT !.n = m, !.fd = NoFd]
    BY <1>3, <2>1
  <2> QED BY <1>1, <2>1, <2>2 DEF ClientRecord
<1>6. u.n <= MaxAppends[c]
  BY <1>2, <1>5
<1>7. Renewed(c, u.pc, u.n, u.fd, u.told)
  BY <1>4, <1>5, <1>6, RenewedBy
<1> QED BY <1>1, <1>2, <1>5, <1>7

LEMMA RecvFailsRenews ==
    ASSUME TypeInv, NEW c \in Clients, RecvFails(c)
    PROVE  Renewed(c, "idle", client[c].n, NoFd, client[c].told)
<1>1. client[c] \in ClientRecord /\ client[c].n <= MaxAppends[c]
  BY DEF TypeInv
<1>2. PICK u : u = [client[c] EXCEPT !.pc = "idle", !.fd = NoFd]
  OBVIOUS
<1>3. client' = [client EXCEPT ![c] = u]
  BY <1>2 DEF RecvFails
<1>4. /\ u \in ClientRecord /\ u.pc = "idle" /\ u.n = client[c].n
      /\ u.fd = NoFd /\ u.told = client[c].told
  BY <1>1, <1>2 DEF ClientRecord
<1>5. Renewed(c, u.pc, u.n, u.fd, u.told)
  BY <1>1, <1>3, <1>4, RenewedBy
<1> QED BY <1>4, <1>5

LEMMA LeaveRenews ==
    ASSUME TypeInv, NEW c \in Clients, Leave(c)
    PROVE  /\ client[c].fd \in Fds /\ owner[client[c].fd] = c
           /\ Renewed(c, "idle", client[c].n, NoFd, {})
<1>1. client[c] \in ClientRecord /\ client[c].n <= MaxAppends[c]
  BY DEF TypeInv
<1>2. client[c].pc = "idle" /\ client[c].fd \in Fds /\ owner[client[c].fd] = c
  BY <1>1, RecordFields DEF Leave, Connected
<1>3. PICK u : u = [client[c] EXCEPT !.fd = NoFd, !.told = {}]
  OBVIOUS
<1>4. client' = [client EXCEPT ![c] = u]
  BY <1>3 DEF Leave
<1>5. /\ u \in ClientRecord /\ u.pc = client[c].pc /\ u.n = client[c].n
      /\ u.fd = NoFd /\ u.told = {}
  BY <1>1, <1>3 DEF ClientRecord
<1>6. Renewed(c, u.pc, u.n, u.fd, u.told)
  BY <1>1, <1>4, <1>5, RenewedBy
<1> QED BY <1>2, <1>5, <1>6

\* A response is taken from the socket of a client that waits for one.
LEMMA RecvRenews ==
    ASSUME TypeInv, NEW c \in Clients, RecvResponse(c)
    PROVE  /\ Head(responses[c]) \in Results /\ Len(responses[c]) > 0
           /\ responses' \in [Clients -> Seq(Results)]
           /\ responses'[c] = Tail(responses[c])
           /\ \A d \in Clients : d # c => responses'[d] = responses[d]
           /\ Renewed(c, "idle", client[c].n, client[c].fd,
                      client[c].told \cup {<< client[c].n, Head(responses[c]) >>})
<1> DEFINE t == << client[c].n, Head(responses[c]) >>
<1>1. responses \in [Clients -> Seq(Results)] /\ responses[c] \in Seq(Results) /\ responses[c] # << >>
  BY DEF TypeInv, RecvResponse
<1>2. /\ Head(responses[c]) \in Results /\ Tail(responses[c]) \in Seq(Results)
      /\ Len(responses[c]) > 0
  BY <1>1, HeadTailProperties, EmptySeq
<1>3. client[c] \in ClientRecord /\ client[c].n <= MaxAppends[c]
  BY DEF TypeInv
<1>4. client[c].told \cup {t} \in SUBSET (Nat \X Results)
  BY <1>2, <1>3, RecordFields
<1>5. PICK u : u = [client[c] EXCEPT !.pc = "idle", !.told = client[c].told \cup {t}]
  OBVIOUS
<1>6. client' = [client EXCEPT ![c] = u]
  BY <1>5 DEF RecvResponse
<1> HIDE DEF t
<1>7. /\ u \in ClientRecord /\ u.pc = "idle" /\ u.told = client[c].told \cup {t}
      /\ u.fd = client[c].fd /\ u.n = client[c].n
  BY <1>3, <1>4, <1>5 DEF ClientRecord
<1>8. Renewed(c, u.pc, u.n, u.fd, u.told)
  BY <1>3, <1>6, <1>7, RenewedBy
<1>9. responses' = [responses EXCEPT ![c] = Tail(responses[c])]
  BY DEF RecvResponse
<1>10. /\ responses' \in [Clients -> Seq(Results)]
       /\ responses'[c] = Tail(responses[c])
       /\ \A d \in Clients : d # c => responses'[d] = responses[d]
  BY <1>1, <1>2, <1>9
<1> QED BY <1>2, <1>7, <1>8, <1>10 DEF t

----------------------------------------------------------------------------
(***************************************************************************)
(* The buffer.                                                             *)
(***************************************************************************)

\* Steps that leave the buffer, the sender and pushed alone.
LEMMA BufferUntouched ==
    ASSUME BufferInv, UNCHANGED << buf, write_pos, read_pos, used, overrun, sender, pushed >>
    PROVE  PositionInv' /\ FifoInv'
  BY DEF BufferInv, PositionInv, FifoInv, Taken, Out

\* The fields of what the sender holds.
LEMMA BatchFields ==
    ASSUME NEW b \in Batch
    PROVE  /\ b.pc \in {"idle", "drained", "built", "replicate", "answer", "exited"}
           /\ b.data \in Seq(Commands) /\ Len(b.data) \in Nat /\ b.fds \in SUBSET Fds
           /\ b.pos \in Nat /\ b.len \in Nat
           /\ b.result \in Results \cup {""}
<1>1. /\ b.pc \in {"idle", "drained", "built", "replicate", "answer", "exited"}
      /\ b.data \in Seq(Commands) /\ b.fds \in SUBSET Fds /\ b.pos \in Nat /\ b.len \in Nat
      /\ b.result \in Results \cup {""}
  BY DEF Batch
<1>2. Len(b.data) \in Nat
  BY <1>1, LenProperties
<1> QED BY <1>1, <1>2

\* The sender without a batch.
LEMMA NewBatch ==
    ASSUME NEW p \in {"idle", "exited"}
    PROVE  /\ [NoBatch EXCEPT !.pc = p] \in Batch
           /\ [NoBatch EXCEPT !.pc = p].pc = p
           /\ [NoBatch EXCEPT !.pc = p].fds = {}
<1>1. << >> \in Seq(Commands) /\ {} \in SUBSET Fds /\ 0 \in Nat
  OBVIOUS
<1>2. NoBatch \in Batch /\ NoBatch.fds = {}
  BY <1>1 DEF NoBatch, Batch
<1>3. PICK b : b = [NoBatch EXCEPT !.pc = p]
  OBVIOUS
<1>4. b \in Batch /\ b.pc = p /\ b.fds = {}
  BY <1>2, <1>3 DEF Batch
<1> QED BY <1>3, <1>4

\* What the types say of the numbers that the positions are made of.
LEMMA BufferNumbers ==
    ASSUME BufferInv
    PROVE  /\ used \in Nat /\ used <= CAPACITY /\ read_pos \in Nat /\ write_pos \in Nat
           /\ CAPACITY \in Nat
           /\ pushed \in Seq(Commands) /\ Len(pushed) \in Nat
           /\ sender.len \in Nat /\ Len(sender.data) \in Nat /\ Out \in Nat /\ Taken \in Nat
<1>1. /\ used \in Nat /\ used <= CAPACITY /\ read_pos \in Nat /\ write_pos \in Nat
      /\ CAPACITY \in Nat
  BY ClientAssumption DEF BufferInv, PositionInv
<1>2. pushed \in Seq(Commands) /\ Len(pushed) \in Nat
  BY LenProperties DEF BufferInv, TypeInv
<1>3. sender.len \in Nat /\ Len(sender.data) \in Nat
  BY BatchFields DEF BufferInv, TypeInv
<1>4. Out \in Nat /\ Taken \in Nat
  BY <1>3 DEF Out, Taken
<1> QED BY <1>1, <1>2, <1>3, <1>4

LEMMA InitBuffer == Init => BufferInv
<1> SUFFICES ASSUME Init PROVE BufferInv
  OBVIOUS
<1>0. /\ CAPACITY \in Nat
      /\ used = 0 /\ read_pos = 0 /\ write_pos = 0 /\ pushed = << >> /\ ~overrun
      /\ overrun \in BOOLEAN /\ registered \in BOOLEAN /\ paused \in BOOLEAN
      /\ participating = {} /\ clean = {}
  BY ClientAssumption DEF Init
<1>1. sender \in Batch /\ sender.pc = "idle" /\ sender.fds = {}
  <2>1. << >> \in Seq(Commands) /\ {} \in SUBSET Fds /\ 0 \in Nat
    OBVIOUS
  <2>2. NoBatch \in Batch /\ NoBatch.pc = "idle" /\ NoBatch.fds = {}
    BY <2>1 DEF NoBatch, Batch
  <2> QED BY <2>2 DEF Init
<1>2. TypeInv
  <2>1. client \in [Clients -> ClientRecord] /\ \A c \in Clients : client[c].n <= MaxAppends[c]
    <3>1. PICK r : r = [pc |-> "idle", n |-> 0, fd |-> NoFd, told |-> {}]
      OBVIOUS
    <3>2. client = [c \in Clients |-> r]
      BY <3>1 DEF Init
    <3>3. r \in ClientRecord /\ r.n = 0
      BY <3>1 DEF ClientRecord
    <3>4. \A c \in Clients : MaxAppends[c] \in Nat
      BY ClientAssumption
    <3> QED BY <3>2, <3>3, <3>4
  <2>2. outcome \in [Commands -> Results \cup {""}]
    BY DEF Init
  <2>3. buf \in [0..(CAPACITY - 1) -> Commands \cup {<< >>}]
    BY DEF Init
  <2>4. owner \in [Fds -> Clients \cup {NoClient, Ended}] /\ removing \in [Fds -> Nat]
    BY DEF Init
  <2>5. requests \in [Fds -> Seq(Commands)]
    <3>1. requests = [f \in Fds |-> << >>]
      BY DEF Init
    <3> QED BY <3>1
  <2>6. responses \in [Clients -> Seq(Results)]
    <3>1. responses = [c \in Clients |-> << >>]
      BY DEF Init
    <3> QED BY <3>1
  <2>7. /\ sender.pc = "answer" => sender.result \in Results
        /\ sender.pc \in {"idle", "exited"} => sender.fds = {}
    BY <1>1
  <2>8. pushed \in Seq(Commands) /\ participating \subseteq Fds /\ clean \subseteq Clients
    BY <1>0
  <2> QED BY <1>0, <1>1, <2>1, <2>2, <2>3, <2>4, <2>5, <2>6, <2>7, <2>8, Zenon DEF TypeInv
<1>3. PositionInv
  BY <1>0, <1>1 DEF PositionInv
<1>4. FifoInv
  BY <1>0, <1>1 DEF FifoInv, Out
<1> QED BY <1>2, <1>3, <1>4 DEF BufferInv

LEMMA ConnectBuffer == ASSUME BufferInv, NEW c \in Clients, Connect(c) PROVE BufferInv'
<1>0. TypeInv
  BY DEF BufferInv
<1>1. /\ client' \in [Clients -> ClientRecord] /\ LowestFree \in Fds
      /\ \A d \in Clients : client'[d].n <= MaxAppends[d]
  BY <1>0, ConnectRenews DEF Renewed
<1>2. /\ owner' = [owner EXCEPT ![LowestFree] = c]
      /\ owner \in [Fds -> Clients \cup {NoClient, Ended}]
      /\ responses' = [responses EXCEPT ![c] = << >>] /\ responses \in [Clients -> Seq(Results)]
      /\ clean' = IF Due(LowestFree) THEN clean \ {c} ELSE clean \cup {c}
  BY <1>0 DEF Connect, TypeInv
<1>3. owner' \in [Fds -> Clients \cup {NoClient, Ended}]
  BY <1>1, <1>2
<1>4. responses' \in [Clients -> Seq(Results)]
  BY <1>2
<1>5. clean' \subseteq Clients
  BY <1>0, <1>2 DEF TypeInv
<1>6. TypeInv'
  BY <1>0, <1>1, <1>3, <1>4, <1>5 DEF TypeInv, Connect, buffer, proxy
<1>7. PositionInv' /\ FifoInv'
  BY BufferUntouched DEF Connect, buffer
<1> QED BY <1>6, <1>7 DEF BufferInv

LEMMA AppendFailsBuffer == ASSUME BufferInv, NEW c \in Clients, AppendFails(c) PROVE BufferInv'
<1>0. TypeInv
  BY DEF BufferInv
<1>1. /\ client' \in [Clients -> ClientRecord]
      /\ \A d \in Clients : client'[d].n <= MaxAppends[d]
  BY <1>0, AppendFailsRenews DEF Renewed
<1>2. TypeInv'
  BY <1>0, <1>1 DEF TypeInv, AppendFails, net, buffer, proxy, history
<1>3. PositionInv' /\ FifoInv'
  BY BufferUntouched DEF AppendFails, buffer, history
<1> QED BY <1>2, <1>3 DEF BufferInv

\* The APPEND goes to the client's descriptor, if the connection lives.
LEMMA SendFacts ==
    ASSUME TypeInv, NEW c \in Clients, SendAppend(c)
    PROVE  /\ << c, client[c].n + 1 >> \in Commands
           /\ requests' \in [Fds -> Seq(Commands)]
           /\ ~Connected(c) => requests' = requests
           /\ Connected(c) =>
                 /\ requests'[client[c].fd] = Append(requests[client[c].fd], << c, client[c].n + 1 >>)
                 /\ \A g \in Fds : g # client[c].fd => requests'[g] = requests[g]
<1>1. client[c].fd \in Fds /\ client[c].n + 1 \in 1..MaxAppends[c]
  BY SendRenews
<1>2. << c, client[c].n + 1 >> \in Commands
  BY <1>1 DEF Commands
<1>3. /\ requests \in [Fds -> Seq(Commands)]
      /\ requests' = IF Connected(c)
                     THEN [requests EXCEPT ![client[c].fd] =
                             Append(requests[client[c].fd], << c, client[c].n + 1 >>)]
                     ELSE requests
  BY DEF SendAppend, TypeInv
<1>4. Append(requests[client[c].fd], << c, client[c].n + 1 >>) \in Seq(Commands)
  BY <1>1, <1>2, <1>3
<1>5. requests' \in [Fds -> Seq(Commands)]
  BY <1>1, <1>3, <1>4
<1>6. Connected(c) =>
         /\ requests'[client[c].fd] = Append(requests[client[c].fd], << c, client[c].n + 1 >>)
         /\ \A g \in Fds : g # client[c].fd => requests'[g] = requests[g]
  BY <1>1, <1>3
<1> QED BY <1>2, <1>3, <1>5, <1>6

LEMMA SendBuffer == ASSUME BufferInv, NEW c \in Clients, SendAppend(c) PROVE BufferInv'
<1>0. TypeInv
  BY DEF BufferInv
<1>1. /\ client' \in [Clients -> ClientRecord] /\ requests' \in [Fds -> Seq(Commands)]
      /\ \A d \in Clients : client'[d].n <= MaxAppends[d]
  BY <1>0, SendRenews, SendFacts DEF Renewed
<1>2. TypeInv'
  BY <1>0, <1>1 DEF TypeInv, SendAppend, buffer, proxy, history
<1>3. PositionInv' /\ FifoInv'
  BY BufferUntouched DEF SendAppend, buffer, history
<1> QED BY <1>2, <1>3 DEF BufferInv

LEMMA RecvBuffer == ASSUME BufferInv, NEW c \in Clients, RecvResponse(c) PROVE BufferInv'
<1>0. TypeInv
  BY DEF BufferInv
<1>1. /\ client' \in [Clients -> ClientRecord] /\ responses' \in [Clients -> Seq(Results)]
      /\ \A d \in Clients : client'[d].n <= MaxAppends[d]
  BY <1>0, RecvRenews DEF Renewed
<1>2. TypeInv'
  BY <1>0, <1>1 DEF TypeInv, RecvResponse, buffer, proxy, history
<1>3. PositionInv' /\ FifoInv'
  BY BufferUntouched DEF RecvResponse, buffer, history
<1> QED BY <1>2, <1>3 DEF BufferInv

\* A socket is closed, and what has arrived on it is gone.
LEMMA Emptied ==
    ASSUME TypeInv, NEW c \in Clients, responses' = [responses EXCEPT ![c] = << >>]
    PROVE  /\ responses' \in [Clients -> Seq(Results)] /\ responses'[c] = << >>
           /\ \A d \in Clients : d # c => responses'[d] = responses[d]
<1>1. responses \in [Clients -> Seq(Results)]
  BY DEF TypeInv
<1>2. PICK e : e = << >> /\ e \in Seq(Results)
  BY EmptySeq
<1>3. responses' = [responses EXCEPT ![c] = e]
  BY <1>2
<1> QED BY <1>1, <1>2, <1>3

LEMMA RecvFailsBuffer == ASSUME BufferInv, NEW c \in Clients, RecvFails(c) PROVE BufferInv'
<1>0. TypeInv
  BY DEF BufferInv
<1>1. /\ client' \in [Clients -> ClientRecord]
      /\ \A d \in Clients : client'[d].n <= MaxAppends[d]
  BY <1>0, RecvFailsRenews DEF Renewed
<1>2. responses' \in [Clients -> Seq(Results)]
  BY <1>0, Emptied DEF RecvFails
<1>3. TypeInv'
  BY <1>0, <1>1, <1>2 DEF TypeInv, RecvFails, buffer, proxy, history
<1>4. PositionInv' /\ FifoInv'
  BY BufferUntouched DEF RecvFails, buffer, history
<1> QED BY <1>3, <1>4 DEF BufferInv

LEMMA LeaveBuffer == ASSUME BufferInv, NEW c \in Clients, Leave(c) PROVE BufferInv'
<1>0. TypeInv
  BY DEF BufferInv
<1>1. /\ client' \in [Clients -> ClientRecord] /\ client[c].fd \in Fds
      /\ \A d \in Clients : client'[d].n <= MaxAppends[d]
  BY <1>0, LeaveRenews DEF Renewed
<1>2. responses' \in [Clients -> Seq(Results)]
  BY <1>0, Emptied DEF Leave
<1>3. /\ owner' = [owner EXCEPT ![client[c].fd] = Ended]
      /\ owner \in [Fds -> Clients \cup {NoClient, Ended}]
  BY <1>0 DEF Leave, TypeInv
<1>4. owner' \in [Fds -> Clients \cup {NoClient, Ended}]
  BY <1>3
<1>5. TypeInv'
  BY <1>0, <1>1, <1>2, <1>4 DEF TypeInv, Leave, buffer, proxy, history
<1>6. PositionInv' /\ FifoInv'
  BY BufferUntouched DEF Leave, buffer, history
<1> QED BY <1>5, <1>6 DEF BufferInv

LEMMA BreakBuffer == ASSUME BufferInv, NEW f \in Fds, Break(f) PROVE BufferInv'
<1>0. TypeInv
  BY DEF BufferInv
<1>1. /\ owner' = [owner EXCEPT ![f] = Ended]
      /\ owner \in [Fds -> Clients \cup {NoClient, Ended}]
  BY <1>0 DEF Break, TypeInv
<1>2. owner' \in [Fds -> Clients \cup {NoClient, Ended}]
  BY <1>1
<1>3. TypeInv'
  BY <1>0, <1>2 DEF TypeInv, Break, buffer, proxy, history
<1>4. PositionInv' /\ FifoInv'
  BY BufferUntouched DEF Break, buffer, history
<1> QED BY <1>3, <1>4 DEF BufferInv

LEMMA HandleRemoveBuffer == ASSUME BufferInv, NEW f \in Fds, HandleRemove(f) PROVE BufferInv'
<1>0. TypeInv
  BY DEF BufferInv
<1>1. removing' = [removing EXCEPT ![f] = @ - 1] /\ removing \in [Fds -> Nat] /\ removing[f] > 0
  BY <1>0 DEF HandleRemove, TypeInv
<1>2. removing' \in [Fds -> Nat]
  BY <1>1
<1>3. participating' \subseteq Fds
  BY <1>0 DEF HandleRemove, remove, TypeInv
<1>4. TypeInv'
  BY <1>0, <1>2, <1>3 DEF TypeInv, HandleRemove, remove, proxy, history
<1>5. PositionInv' /\ FifoInv'
  BY BufferUntouched DEF HandleRemove, remove, history
<1> QED BY <1>4, <1>5 DEF BufferInv

LEMMA HandleCloseBuffer == ASSUME BufferInv, NEW f \in Fds, HandleClose(f) PROVE BufferInv'
<1>0. TypeInv
  BY DEF BufferInv
<1>1. /\ owner' = [owner EXCEPT ![f] = NoClient] /\ owner \in [Fds -> Clients \cup {NoClient, Ended}]
      /\ removing' = [removing EXCEPT ![f] = @ + 1] /\ removing \in [Fds -> Nat]
      /\ requests' = [requests EXCEPT ![f] = << >>] /\ requests \in [Fds -> Seq(Commands)]
  BY <1>0 DEF HandleClose, TypeInv
<1>2. owner' \in [Fds -> Clients \cup {NoClient, Ended}]
  BY <1>1
<1>3. removing' \in [Fds -> Nat]
  BY <1>1
<1>4. requests' \in [Fds -> Seq(Commands)]
  BY <1>1
<1>5. TypeInv'
  BY <1>0, <1>2, <1>3, <1>4 DEF TypeInv, HandleClose, buffer, proxy, history
<1>6. PositionInv' /\ FifoInv'
  BY BufferUntouched DEF HandleClose, buffer, history
<1> QED BY <1>5, <1>6 DEF BufferInv

LEMMA FreezeBuffer == ASSUME BufferInv, HandleFreeze PROVE BufferInv'
<1>1. TypeInv'
  BY DEF BufferInv, TypeInv, HandleFreeze, net, buffer, history
<1>2. PositionInv' /\ FifoInv'
  BY BufferUntouched DEF HandleFreeze, buffer, history
<1> QED BY <1>1, <1>2 DEF BufferInv

LEMMA StutterBuffer == ASSUME BufferInv, UNCHANGED vars PROVE BufferInv'
<1>1. TypeInv'
  BY DEF BufferInv, TypeInv, vars, net, buffer, proxy, history
<1>2. PositionInv' /\ FifoInv'
  BY BufferUntouched DEF vars, buffer, history
<1> QED BY <1>1, <1>2 DEF BufferInv

\* send(), once for every client behind the descriptors.
LEMMA RespondFacts ==
    ASSUME TypeInv, NEW F \in SUBSET Fds, NEW r \in Results, Respond(F, r)
    PROVE  /\ responses' \in [Clients -> Seq(Results)]
           /\ \A c \in Clients :
                 responses'[c] = IF \E f \in F : owner[f] = c
                                 THEN Append(responses[c], r) ELSE responses[c]
<1>1. responses \in [Clients -> Seq(Results)]
  BY DEF TypeInv
<1>2. \A c \in Clients : responses[c] \in Seq(Results) /\ Append(responses[c], r) \in Seq(Results)
  BY <1>1
<1> QED BY <1>2 DEF Respond

\* The thread of connection f receives the next request.
LEMMA HandleAppendFacts ==
    ASSUME TypeInv, NEW f \in Fds, HandleAppend(f)
    PROVE  /\ requests[f][1] \in Commands /\ Len(requests[f]) \in Nat /\ Len(requests[f]) > 0
           /\ Head(requests[f]) = requests[f][1]
           /\ requests' \in [Fds -> Seq(Commands)]
           /\ Len(requests'[f]) = Len(requests[f]) - 1
           /\ \A i \in 1..Len(requests'[f]) : requests'[f][i] = requests[f][i + 1]
           /\ \A g \in Fds : g # f => requests'[g] = requests[g]
           /\ ~overrun /\ owner[f] # NoClient
           /\ UNCHANGED << client, owner, removing, breaks, proxy, sender, outcome, clean >>
<1>1. /\ requests \in [Fds -> Seq(Commands)] /\ requests[f] \in Seq(Commands)
      /\ requests[f] # << >>
  BY DEF TypeInv, HandleAppend
<1>2. /\ Head(requests[f]) \in Commands /\ Tail(requests[f]) \in Seq(Commands)
      /\ Len(requests[f]) \in Nat /\ Len(requests[f]) > 0
      /\ Len(Tail(requests[f])) = Len(requests[f]) - 1
      /\ \A i \in 1..Len(Tail(requests[f])) : Tail(requests[f])[i] = requests[f][i + 1]
  BY <1>1, HeadTailProperties, EmptySeq
<1>3. Head(requests[f]) = requests[f][1]
  BY <1>1
<1>4. requests' = [requests EXCEPT ![f] = Tail(requests[f])]
  BY DEF HandleAppend
<1>5. /\ requests' \in [Fds -> Seq(Commands)]
      /\ requests'[f] = Tail(requests[f])
      /\ \A g \in Fds : g # f => requests'[g] = requests[g]
  BY <1>1, <1>2, <1>4
<1>6. /\ ~overrun /\ owner[f] # NoClient
      /\ UNCHANGED << client, owner, removing, breaks, proxy, sender, outcome, clean >>
  BY DEF HandleAppend
<1> QED BY <1>1, <1>2, <1>3, <1>5, <1>6

\* The three outcomes of an APPEND: pushed, dropped without an answer, refused.
Pushes(f) ==
    /\ HasRoom
    /\ buf' = (IF write_pos < CAPACITY THEN [buf EXCEPT ![write_pos] = requests[f][1]] ELSE buf)
    /\ overrun' = (write_pos >= CAPACITY)
    /\ used' = used + 1 /\ write_pos' = write_pos + 1
    /\ pushed' = Append(pushed, requests[f][1])
    /\ participating' = participating \cup {f}
    /\ UNCHANGED << responses, read_pos >>
Drops == UNCHANGED << buffer, pushed, responses >>
Refuses(f) == Respond({f}, "FAILURE") /\ UNCHANGED << buffer, pushed >>

LEMMA HandleAppendCases ==
    ASSUME TypeInv, NEW f \in Fds, HandleAppend(f)
    PROVE  Pushes(f) \/ Drops \/ Refuses(f)
<1>1. Head(requests[f]) = requests[f][1]
  BY HandleAppendFacts
<1>2. CASE registered
  BY <1>1, <1>2 DEF HandleAppend, push_raw, Pushes, Drops
<1>3. CASE ~registered
  BY <1>3 DEF HandleAppend, Refuses
<1> QED BY <1>2, <1>3

\* A push writes behind what is pushed.
LEMMA PushFacts ==
    ASSUME BufferInv, NEW f \in Fds, HandleAppend(f), Pushes(f)
    PROVE  /\ pushed' \in Seq(Commands) /\ Len(pushed) \in Nat /\ Len(pushed') = Len(pushed) + 1
           /\ pushed'[Len(pushed) + 1] = requests[f][1]
           /\ \A i \in 1..Len(pushed) : pushed'[i] = pushed[i]
           /\ Taken <= Len(pushed) /\ Taken' = Taken /\ Out' = Out
<1>1. pushed \in Seq(Commands) /\ pushed' = Append(pushed, requests[f][1])
      /\ requests[f][1] \in Commands
  BY HandleAppendFacts DEF BufferInv, TypeInv, Pushes
<1>2. /\ pushed' \in Seq(Commands) /\ Len(pushed) \in Nat /\ Len(pushed') = Len(pushed) + 1
      /\ pushed'[Len(pushed) + 1] = requests[f][1]
      /\ \A i \in 1..Len(pushed) : pushed'[i] = pushed[i]
  BY <1>1
<1>3. Taken <= Len(pushed)
  <2>1. ~overrun
    BY HandleAppendFacts DEF BufferInv
  <2>2. Len(pushed) = Out + used /\ (sender.pc \in {"drained", "built"} => sender.len <= used)
    BY <2>1 DEF BufferInv, FifoInv, PositionInv
  <2> QED BY <2>2, BufferNumbers DEF Taken, Out
<1>4. Taken' = Taken /\ Out' = Out
  BY HandleAppendFacts DEF Taken, Out, BufferInv
<1> QED BY <1>2, <1>3, <1>4

LEMMA PushBuffer ==
    ASSUME BufferInv, NEW f \in Fds, HandleAppend(f), Pushes(f)
    PROVE  BufferInv'
<1>0. TypeInv /\ PositionInv /\ FifoInv
  BY DEF BufferInv
<1>1. PICK cmd \in Commands : cmd = requests[f][1] /\ requests' \in [Fds -> Seq(Commands)]
  BY <1>0, HandleAppendFacts
<1>2. /\ ~overrun /\ used + 1 <= CAPACITY
      /\ buf' = IF write_pos < CAPACITY THEN [buf EXCEPT ![write_pos] = cmd] ELSE buf
      /\ overrun' = (write_pos >= CAPACITY)
      /\ write_pos' = write_pos + 1 /\ used' = used + 1 /\ read_pos' = read_pos
      /\ participating' = participating \cup {f}
      /\ UNCHANGED << client, owner, responses, removing, registered, paused, sender, outcome, clean >>
  BY <1>0, <1>1, HandleAppendFacts DEF Pushes, HasRoom, proxy
<1>3. /\ used \in Nat /\ used <= CAPACITY /\ read_pos \in Nat /\ CAPACITY \in Nat
      /\ write_pos = read_pos + used /\ write_pos <= CAPACITY /\ Out \in Nat
      /\ Len(pushed) = Out + used
  BY <1>0, <1>2, BufferNumbers DEF PositionInv, FifoInv
<1>4. overrun' \in BOOLEAN /\ (overrun' <=> write_pos = CAPACITY)
  <2>1. overrun' = (write_pos >= CAPACITY)
    BY <1>2
  <2>2. overrun' \in BOOLEAN
    BY <2>1
  <2>3. overrun' <=> write_pos >= CAPACITY
    BY <2>1
  <2> QED BY <1>3, <2>2, <2>3
<1>5. buf \in [0..(CAPACITY - 1) -> Commands \cup {<< >>}]
  BY <1>0 DEF TypeInv
<1>6. buf' \in [0..(CAPACITY - 1) -> Commands \cup {<< >>}]
  BY <1>1, <1>2, <1>5
<1>7. /\ pushed' \in Seq(Commands) /\ Len(pushed) \in Nat /\ Len(pushed') = Len(pushed) + 1
      /\ pushed'[Len(pushed) + 1] = cmd
      /\ \A i \in 1..Len(pushed) : pushed'[i] = pushed[i]
      /\ Taken <= Len(pushed) /\ Taken' = Taken /\ Out' = Out /\ Taken \in Nat
  BY <1>1, PushFacts, BufferNumbers
<1>8. TypeInv'
  <2>1. participating' \subseteq Fds
    BY <1>0, <1>2 DEF TypeInv
  <2> QED BY <1>0, <1>1, <1>2, <1>4, <1>6, <1>7, <2>1, Zenon DEF TypeInv
<1>9. PositionInv'
  <2>1. used' \in 0..CAPACITY /\ write_pos' \in Nat /\ read_pos' \in 0..CAPACITY
    BY <1>0, <1>2, <1>3 DEF PositionInv
  <2>2. ~overrun' => write_pos' = read_pos' + used' /\ write_pos' <= CAPACITY
    BY <1>2, <1>3, <1>4
  <2>3. sender'.pc \in {"drained", "built"} => sender'.pos = read_pos' /\ sender'.len <= used'
    BY <1>0, <1>2, <1>3, BufferNumbers DEF PositionInv
  <2> QED BY <2>1, <2>2, <2>3 DEF PositionInv
<1>10. FifoInv'
  <2>1. sender.pc \in {"built", "replicate"} =>
          /\ Len(sender.data) = Taken /\ Taken <= Len(pushed')
          /\ \A i \in 1..Taken : sender.data[i] = pushed'[i]
    <3>1. sender.pc \in {"built", "replicate"} =>
            /\ Len(sender.data) = Taken
            /\ \A i \in 1..Taken : sender.data[i] = pushed[i]
      BY <1>0 DEF FifoInv
    <3> QED BY <3>1, <1>7
  <2>2. /\ \A i \in 1..used : /\ read_pos + i - 1 \in 0..(CAPACITY - 1)
                              /\ buf[read_pos + i - 1] = pushed[Out + i]
    BY <1>0, <1>2 DEF FifoInv
  <2>3. ASSUME ~overrun', NEW i \in 1..used'
        PROVE  /\ read_pos + i - 1 \in 0..(CAPACITY - 1)
               /\ buf'[read_pos + i - 1] = pushed'[Out + i]
    <3>0. write_pos < CAPACITY
      BY <2>3, <1>3, <1>4
    <3>1. CASE i \in 1..used
      <4>1. read_pos + i - 1 # write_pos /\ Out + i \in 1..Len(pushed)
        BY <3>1, <1>3
      <4>2. buf'[read_pos + i - 1] = buf[read_pos + i - 1]
        BY <4>1, <1>2, <1>5, <2>2, <3>1
      <4> QED BY <3>1, <4>1, <4>2, <2>2, <1>7
    <3>2. CASE i = used + 1
      <4>0. Out + i = Len(pushed) + 1
        BY <3>2, <1>3
      <4>1. read_pos + i - 1 = write_pos /\ write_pos \in 0..(CAPACITY - 1)
        BY <3>0, <3>2, <1>3
      <4>2. buf'[write_pos] = cmd
        <5>1. buf' = [buf EXCEPT ![write_pos] = cmd]
          BY <3>0, <1>2
        <5>2. write_pos \in 0..(CAPACITY - 1) /\ write_pos \in DOMAIN buf
          BY <1>5, <4>1
        <5> QED BY <5>1, <5>2, Zenon
      <4> QED BY <4>0, <4>1, <4>2, <1>7
    <3>3. i \in 1..used \/ i = used + 1
      <4>1. used' = used + 1 /\ used \in Nat
        BY <1>2, <1>3
      <4> QED BY <4>1
    <3> QED BY <3>1, <3>2, <3>3, Zenon
  <2>4. Len(pushed') = Out + used'
    BY <1>2, <1>3, <1>7
  <2> QED BY <2>1, <2>3, <2>4, <1>2, <1>7 DEF FifoInv
<1> QED BY <1>8, <1>9, <1>10 DEF BufferInv

LEMMA HandleAppendBuffer == ASSUME BufferInv, NEW f \in Fds, HandleAppend(f) PROVE BufferInv'
<1>0. TypeInv
  BY DEF BufferInv
<1>1. CASE Pushes(f)
  BY <1>1, PushBuffer
<1>2. CASE Drops \/ Refuses(f)
  <2>1. /\ requests' \in [Fds -> Seq(Commands)]
        /\ UNCHANGED << client, owner, removing, breaks, proxy, sender, outcome, clean >>
    BY <1>0, HandleAppendFacts
  <2>2. UNCHANGED << buffer, pushed >>
    BY <1>2 DEF Drops, Refuses
  <2>3. responses' \in [Clients -> Seq(Results)]
    <3>1. CASE Drops
      BY <3>1, <1>0 DEF Drops, TypeInv
    <3>2. CASE Refuses(f)
      <4>1. Respond({f}, "FAILURE") /\ "FAILURE" \in Results /\ {f} \in SUBSET Fds
        BY <3>2 DEF Refuses, Results
      <4> QED BY <4>1, <1>0, RespondFacts
    <3> QED BY <3>1, <3>2, <1>2
  <2>4. TypeInv'
    BY <1>0, <2>1, <2>2, <2>3 DEF TypeInv, buffer, proxy
  <2>5. PositionInv' /\ FifoInv'
    BY <2>1, <2>2, BufferUntouched DEF buffer
  <2> QED BY <2>4, <2>5 DEF BufferInv
<1> QED BY <1>0, <1>1, <1>2, HandleAppendCases

\* drain shows the sender everything that is pushed.
LEMMA DrainFacts ==
    ASSUME BufferInv, Drain
    PROVE  /\ sender' \in Batch /\ sender'.pc = "drained"
           /\ sender'.pos = read_pos /\ sender'.len = used /\ sender'.fds = participating
           /\ sender.pc = "idle" /\ sender.fds = {} /\ participating' = {} /\ ~overrun
           /\ Len(pushed) = used
           /\ UNCHANGED << client, net, proxy, history, buf, write_pos, read_pos, used, overrun >>
<1>0. TypeInv /\ PositionInv /\ FifoInv /\ sender.pc = "idle" /\ ~overrun
  BY DEF BufferInv, Drain
<1>1. /\ sender' = [NoBatch EXCEPT !.pc = "drained", !.pos = read_pos, !.len = used,
                                   !.fds = participating]
      /\ participating' = {}
      /\ UNCHANGED << client, net, proxy, history, buf, write_pos, read_pos, used, overrun >>
  BY DEF Drain, drain
<1>2. participating \in SUBSET Fds /\ sender.fds = {}
  BY <1>0 DEF TypeInv
<1>3. << >> \in Seq(Commands) /\ used \in Nat /\ read_pos \in Nat
  BY BufferNumbers, EmptySeq
<1>4. /\ sender' \in Batch /\ sender'.pc = "drained"
      /\ sender'.pos = read_pos /\ sender'.len = used /\ sender'.fds = participating
  <2>1. PICK e \in Seq(Commands) : e = << >>
    BY <1>3
  <2>2. sender' = [pc |-> "drained", pos |-> read_pos, len |-> used, fds |-> participating,
                   data |-> e, result |-> ""]
    BY <1>1, <2>1 DEF NoBatch
  <2> QED BY <2>1, <2>2, <1>2, <1>3 DEF Batch
<1>5. Len(pushed) = used
  BY <1>0, BufferNumbers DEF FifoInv, Out
<1> QED BY <1>0, <1>1, <1>2, <1>4, <1>5

LEMMA DrainBuffer == ASSUME BufferInv, Drain PROVE BufferInv'
<1>0. TypeInv /\ PositionInv /\ FifoInv
  BY DEF BufferInv
<1>1. /\ sender' \in Batch /\ sender'.pc = "drained"
      /\ sender'.pos = read_pos /\ sender'.len = used /\ sender'.fds = participating
      /\ sender.pc = "idle" /\ participating' = {} /\ ~overrun
      /\ UNCHANGED << client, net, proxy, history, buf, write_pos, read_pos, used, overrun >>
  BY DrainFacts
<1>2. TypeInv'
  <2>1. participating' \subseteq Fds
    BY <1>1
  <2> QED BY <1>0, <1>1, <2>1 DEF TypeInv, net, proxy, history
<1>3. PositionInv'
  BY <1>0, <1>1, BufferNumbers DEF PositionInv
<1>4. FifoInv'
  <2>1. Out' = 0 /\ Out = 0
    BY <1>1 DEF Out
  <2> QED BY <1>0, <1>1, <2>1 DEF FifoInv, history
<1> QED BY <1>2, <1>3, <1>4 DEF BufferInv

\* What is copied is what was pushed first, since the bytes between the
\* positions are those of the commands pushed.
LEMMA BuildFacts ==
    ASSUME BufferInv, Build
    PROVE  /\ sender' \in Batch /\ sender.pc = "drained" /\ sender'.pc = "built"
           /\ sender'.pos = sender.pos /\ sender'.len = sender.len /\ sender'.fds = sender.fds
           /\ Taken' = Taken /\ Len(sender'.data) = Taken /\ Taken <= Len(pushed)
           /\ \A i \in 1..Taken : sender'.data[i] = pushed[i]
           /\ ~overrun /\ UNCHANGED << client, net, proxy, history, buffer >>
<1>0. TypeInv /\ PositionInv /\ FifoInv /\ sender.pc = "drained" /\ ~overrun
  BY DEF BufferInv, Build
<1>1. /\ sender.len <= used /\ sender.pos = read_pos /\ Len(pushed) = used
      /\ \A i \in 1..used : /\ read_pos + i - 1 \in 0..(CAPACITY - 1)
                            /\ buf[read_pos + i - 1] = pushed[0 + i]
  BY <1>0, BufferNumbers DEF PositionInv, FifoInv, Out
<1> DEFINE d == IF sender.fds = {} THEN << >>
                ELSE [i \in 1..sender.len |-> buf[sender.pos + i - 1]]
<1>2. /\ d \in Seq(Commands) /\ Len(d) = Taken
      /\ \A i \in 1..Taken : d[i] = pushed[i]
  <2>1. CASE sender.fds = {}
    BY <2>1, <1>0, EmptySeq DEF Taken
  <2>2. CASE sender.fds # {}
    <3>1. Taken = sender.len /\ sender.len \in Nat /\ used \in Nat /\ pushed \in Seq(Commands)
      BY <2>2, <1>0, BufferNumbers DEF Taken
    <3>2. \A i \in 1..sender.len : buf[sender.pos + i - 1] = pushed[i] /\ pushed[i] \in Commands
      <4> SUFFICES ASSUME NEW i \in 1..sender.len
                   PROVE  buf[sender.pos + i - 1] = pushed[i] /\ pushed[i] \in Commands
        OBVIOUS
      <4>1. i \in 1..used /\ 0 + i = i /\ i \in 1..Len(pushed)
        BY <3>1, <1>1
      <4>2. pushed[i] \in Commands
        BY <4>1, <3>1, ElementOfSeq
      <4> QED BY <4>1, <4>2, <1>1
    <3>3. d = [i \in 1..sender.len |-> buf[sender.pos + i - 1]]
      BY <2>2
    <3> HIDE DEF d
    <3>4. d \in [1..sender.len -> Commands]
      BY <3>2, <3>3
    <3>5. d \in Seq(Commands) /\ Len(d) = sender.len
      BY <3>1, <3>4
    <3> QED BY <3>1, <3>2, <3>3, <3>5
  <2> QED BY <2>1, <2>2
<1>3. sender' = [sender EXCEPT !.pc = "built", !.data = d]
  BY DEF Build, SenderTo
<1>4. Taken <= Len(pushed)
  BY <1>0, <1>1, BufferNumbers DEF Taken
<1>5. sender \in Batch
  BY <1>0 DEF TypeInv
<1> HIDE DEF d
<1>6. /\ sender' \in Batch /\ sender'.pc = "built" /\ sender'.data = d
      /\ sender'.pos = sender.pos /\ sender'.len = sender.len /\ sender'.fds = sender.fds
  BY <1>2, <1>3, <1>5 DEF Batch
<1>7. Taken' = Taken
  BY <1>0, <1>6 DEF Taken
<1> QED BY <1>0, <1>2, <1>4, <1>6, <1>7 DEF Build, SenderTo

LEMMA BuildBuffer == ASSUME BufferInv, Build PROVE BufferInv'
<1>0. TypeInv /\ PositionInv /\ FifoInv
  BY DEF BufferInv
<1>1. /\ sender' \in Batch /\ sender.pc = "drained" /\ sender'.pc = "built"
      /\ sender'.pos = sender.pos /\ sender'.len = sender.len /\ sender'.fds = sender.fds
      /\ Taken' = Taken /\ Len(sender'.data) = Taken /\ Taken <= Len(pushed)
      /\ \A i \in 1..Taken : sender'.data[i] = pushed[i]
      /\ ~overrun /\ UNCHANGED << client, net, proxy, history, buffer >>
  BY BuildFacts
<1>2. TypeInv'
  BY <1>0, <1>1 DEF TypeInv, net, proxy, history, buffer
<1>3. PositionInv'
  BY <1>0, <1>1 DEF PositionInv, buffer
<1>4. FifoInv'
  <2>1. Out' = 0 /\ Out = 0
    BY <1>1 DEF Out
  <2>2. /\ Len(sender'.data) = Taken' /\ Taken' <= Len(pushed')
        /\ \A i \in 1..Taken' : sender'.data[i] = pushed'[i]
    BY <1>1 DEF history
  <2>3. UNCHANGED << buf, used, read_pos, overrun, pushed >>
    BY <1>1 DEF buffer, history
  <2> QED BY <1>0, <2>1, <2>2, <2>3 DEF FifoInv
<1> QED BY <1>2, <1>3, <1>4 DEF BufferInv

\* release gives back what the batch has taken, and nothing for a SKIP.
LEMMA ReleaseFacts ==
    ASSUME TypeInv, Release
    PROVE  /\ sender' \in Batch
           /\ sender.pc = "built" /\ sender'.pc = "replicate"
           /\ sender'.fds = sender.fds /\ sender'.data = sender.data
           /\ ~overrun /\ UNCHANGED << client, net, proxy, history, buf, participating, overrun >>
<1>1. sender \in Batch
  BY DEF TypeInv
<1>2. sender' = [sender EXCEPT !.pc = "replicate"]
  BY DEF Release, SenderTo
<1>3. /\ sender' \in Batch /\ sender'.pc = "replicate"
      /\ sender'.fds = sender.fds /\ sender'.data = sender.data
  BY <1>1, <1>2 DEF Batch
<1>4. /\ sender.pc = "built" /\ ~overrun
      /\ UNCHANGED << client, net, proxy, history, buf, participating, overrun >>
  BY DEF Release, release, SenderTo
<1> QED BY <1>3, <1>4

LEMMA ReleaseBuffer == ASSUME BufferInv, Release PROVE BufferInv'
<1>0. TypeInv /\ PositionInv /\ FifoInv
  BY DEF BufferInv
<1>1. /\ sender' \in Batch
      /\ sender.pc = "built" /\ sender'.pc = "replicate"
      /\ sender'.fds = sender.fds /\ sender'.data = sender.data
      /\ ~overrun /\ UNCHANGED << client, net, proxy, history, buf, participating, overrun >>
  BY <1>0, ReleaseFacts
<1>2. /\ used' = used - Taken
      /\ read_pos' = IF used = Taken THEN 0 ELSE read_pos + Taken
      /\ write_pos' = IF used = Taken THEN 0 ELSE write_pos
  BY <1>1 DEF Release, release, Taken
<1>3. /\ used \in Nat /\ used <= CAPACITY /\ read_pos \in Nat /\ CAPACITY \in Nat
      /\ write_pos = read_pos + used /\ write_pos <= CAPACITY /\ write_pos \in Nat
      /\ Taken \in Nat /\ Taken <= used
  <2>1. sender.len \in Nat /\ sender.len <= used
    BY <1>0, <1>1, BufferNumbers DEF PositionInv
  <2>2. Taken <= used
    BY <2>1, <1>1, BufferNumbers DEF Taken
  <2> QED BY <2>2, <1>0, <1>1, BufferNumbers DEF PositionInv
<1>4. /\ Len(sender.data) = Taken /\ Taken <= Len(pushed)
      /\ \A i \in 1..Taken : sender.data[i] = pushed[i]
      /\ Taken' = Taken /\ Out' = Taken
  BY <1>0, <1>1 DEF FifoInv, Taken, Out
<1>5. TypeInv'
  BY <1>0, <1>1 DEF TypeInv, net, proxy, history
<1>6. PositionInv'
  <2>1. used' \in 0..CAPACITY /\ read_pos' \in 0..CAPACITY /\ write_pos' \in Nat
    BY <1>2, <1>3
  <2>2. write_pos' = read_pos' + used' /\ write_pos' <= CAPACITY
    BY <1>2, <1>3
  <2> QED BY <2>1, <2>2, <1>1 DEF PositionInv
<1>7. FifoInv'
  <2>1. /\ Len(pushed) = used
        /\ \A i \in 1..used : /\ read_pos + i - 1 \in 0..(CAPACITY - 1)
                              /\ buf[read_pos + i - 1] = pushed[0 + i]
    BY <1>0, <1>1, <1>3 DEF FifoInv, Out
  <2>2. Len(pushed) = Taken + used'
    BY <2>1, <1>2, <1>3
  <2>3. ASSUME NEW i \in 1..used'
        PROVE  /\ read_pos' + i - 1 \in 0..(CAPACITY - 1)
               /\ buf[read_pos' + i - 1] = pushed[Taken + i]
    <3>1. used # Taken /\ read_pos' = read_pos + Taken
      BY <1>2, <1>3
    <3>2. Taken + i \in 1..used /\ read_pos' + i - 1 = read_pos + (Taken + i) - 1
      BY <3>1, <1>2, <1>3
    <3>3. /\ read_pos + (Taken + i) - 1 \in 0..(CAPACITY - 1)
          /\ buf[read_pos + (Taken + i) - 1] = pushed[0 + (Taken + i)]
          /\ 0 + (Taken + i) = Taken + i
      BY <3>2, <2>1, <1>3
    <3> QED BY <3>2, <3>3
  <2>4. /\ Len(sender'.data) = Taken' /\ Taken' <= Len(pushed')
        /\ \A i \in 1..Taken' : sender'.data[i] = pushed'[i]
    BY <1>1, <1>4 DEF history
  <2> QED BY <2>2, <2>3, <2>4, <1>1, <1>4 DEF FifoInv, history
<1> QED BY <1>5, <1>6, <1>7 DEF BufferInv

\* The batch has a result: its commands leave pushed, the others move up.
LEMMA ReplicateFacts ==
    ASSUME BufferInv, NEW r \in Results, Replicate(r)
    PROVE  /\ sender' \in Batch
           /\ sender.pc = "replicate" /\ sender'.pc = "answer" /\ sender'.result = r
           /\ sender'.fds = sender.fds
           /\ Taken \in Nat /\ Taken <= Len(pushed) /\ Taken = Out /\ Taken' = 0 /\ Out' = 0
           /\ pushed' \in Seq(Commands)
           /\ Len(pushed') = Len(pushed) - Taken
           /\ \A i \in 1..Len(pushed') : pushed'[i] = pushed[Taken + i]
           /\ outcome' \in [Commands -> Results \cup {""}]
           /\ \A cmd \in Commands :
                 outcome'[cmd] = IF \E i \in 1..Taken : pushed[i] = cmd
                                 THEN r ELSE outcome[cmd]
           /\ UNCHANGED << client, net, buffer, proxy, clean >>
<1>0. TypeInv /\ PositionInv /\ FifoInv /\ sender.pc = "replicate"
  BY DEF BufferInv, Replicate
<1>1. sender \in Batch /\ sender.data \in Seq(Commands) /\ Len(sender.data) \in Nat
  BY <1>0, BatchFields DEF TypeInv
<1>2. sender' = [sender EXCEPT !.pc = "answer", !.result = r]
  BY DEF Replicate
<1>3. /\ sender' \in Batch /\ sender'.pc = "answer" /\ sender'.result = r
      /\ sender'.fds = sender.fds
  BY <1>1, <1>2 DEF Batch
<1>4. /\ Len(sender.data) = Taken /\ Taken <= Len(pushed) /\ Taken = Out
      /\ \A i \in 1..Taken : sender.data[i] = pushed[i]
      /\ Taken' = 0 /\ Out' = 0
  BY <1>0, <1>3 DEF FifoInv, Taken, Out
<1>5. pushed \in Seq(Commands) /\ Len(pushed) \in Nat /\ Taken \in Nat
  BY BufferNumbers
<1>6. pushed' = SubSeq(pushed, Taken + 1, Len(pushed))
  BY <1>4 DEF Replicate
<1>7. /\ pushed' \in Seq(Commands)
      /\ Len(pushed') = Len(pushed) - Taken
      /\ \A i \in 1..Len(pushed') : pushed'[i] = pushed[Taken + i]
  <2>1. \A i \in (Taken + 1)..Len(pushed) : pushed[i] \in Commands
    BY <1>5
  <2>2. Taken + 1 \in Int /\ Len(pushed) \in Int /\ Taken <= Len(pushed)
    BY <1>4, <1>5
  <2>3. /\ pushed' \in Seq(Commands)
        /\ Len(pushed') = IF Taken + 1 <= Len(pushed) THEN Len(pushed) - (Taken + 1) + 1 ELSE 0
        /\ \A i \in 1..(Len(pushed) - (Taken + 1) + 1) : pushed'[i] = pushed[Taken + 1 + i - 1]
    BY <1>6, <2>1, <2>2, SubSeqProperties
  <2>4. Len(pushed') = Len(pushed) - Taken
    BY <2>2, <2>3, <1>5
  <2>5. \A i \in 1..Len(pushed') : pushed'[i] = pushed[Taken + i]
    <3> SUFFICES ASSUME NEW i \in 1..Len(pushed') PROVE pushed'[i] = pushed[Taken + i]
      OBVIOUS
    <3>1. i \in 1..(Len(pushed) - (Taken + 1) + 1) /\ Taken + 1 + i - 1 = Taken + i
      BY <2>2, <2>4, <1>5
    <3> QED BY <2>3, <3>1
  <2> QED BY <2>3, <2>4, <2>5
<1>8. Range(sender.data) = {pushed[i] : i \in 1..Taken}
  <2>1. DOMAIN sender.data = 1..Taken
    BY <1>1, <1>4, LenProperties
  <2> QED BY <2>1, <1>4 DEF Range
<1>9. outcome' = [cmd \in Commands |-> IF cmd \in Range(sender.data) THEN r ELSE outcome[cmd]]
  BY DEF Replicate
<1>10. /\ outcome' \in [Commands -> Results \cup {""}]
       /\ \A cmd \in Commands :
             outcome'[cmd] = IF \E i \in 1..Taken : pushed[i] = cmd
                             THEN r ELSE outcome[cmd]
  <2>1. outcome \in [Commands -> Results \cup {""}]
    BY <1>0 DEF TypeInv
  <2>2. \A cmd \in Commands :
           cmd \in Range(sender.data) <=> \E i \in 1..Taken : pushed[i] = cmd
    BY <1>8
  <2>3. outcome' \in [Commands -> Results \cup {""}]
    BY <1>9, <2>1
  <2> QED BY <1>9, <2>2, <2>3
<1>11. UNCHANGED << client, net, buffer, proxy, clean >>
  BY DEF Replicate
<1> QED BY <1>0, <1>3, <1>4, <1>5, <1>7, <1>10, <1>11

LEMMA ReplicateBuffer == ASSUME BufferInv, NEW r \in Results, Replicate(r) PROVE BufferInv'
<1>0. TypeInv /\ PositionInv /\ FifoInv
  BY DEF BufferInv
<1>1. /\ sender' \in Batch
      /\ sender.pc = "replicate" /\ sender'.pc = "answer" /\ sender'.result = r
      /\ Taken \in Nat /\ Taken = Out /\ Out' = 0
      /\ pushed' \in Seq(Commands)
      /\ Len(pushed') = Len(pushed) - Taken
      /\ \A i \in 1..Len(pushed') : pushed'[i] = pushed[Taken + i]
      /\ outcome' \in [Commands -> Results \cup {""}]
      /\ UNCHANGED << client, net, buffer, proxy, clean >>
  BY ReplicateFacts
<1>2. TypeInv'
  BY <1>0, <1>1 DEF TypeInv, net, buffer, proxy
<1>3. PositionInv'
  BY <1>0, <1>1 DEF PositionInv, buffer
<1>4. FifoInv'
  <2>1. UNCHANGED << buf, used, read_pos, overrun >> /\ ~(sender'.pc \in {"built", "replicate"})
    BY <1>1 DEF buffer
  <2>2. used \in Nat /\ Len(pushed) \in Nat
    BY BufferNumbers
  <2>3. ASSUME ~overrun
        PROVE  /\ Len(pushed') = used
               /\ \A i \in 1..used : /\ read_pos + i - 1 \in 0..(CAPACITY - 1)
                                     /\ buf[read_pos + i - 1] = pushed'[i]
    <3>1. /\ Len(pushed) = Taken + used
          /\ \A i \in 1..used : /\ read_pos + i - 1 \in 0..(CAPACITY - 1)
                                /\ buf[read_pos + i - 1] = pushed[Taken + i]
      <4>1. /\ Len(pushed) = Out + used
            /\ \A i \in 1..used : /\ read_pos + i - 1 \in 0..(CAPACITY - 1)
                                  /\ buf[read_pos + i - 1] = pushed[Out + i]
        BY <2>3, <1>0 DEF FifoInv
      <4>2. Taken = Out
        BY <1>1
      <4> QED BY <4>1, <4>2, Zenon
    <3>2. Len(pushed') = used
      <4>1. Len(pushed') = Len(pushed) - Taken /\ Taken \in Nat
        BY <1>1
      <4>2. Len(pushed) = Taken + used
        BY <3>1
      <4> QED BY <4>1, <4>2, <2>2
    <3>3. \A i \in 1..Len(pushed') : pushed'[i] = pushed[Taken + i]
      BY <1>1
    <3> QED BY <3>1, <3>2, <3>3
  <2>4. \A i \in 1..used : 0 + i = i
    BY <2>2
  <2>5. 0 + used = used
    BY <2>2
  <2> QED BY <2>1, <2>3, <2>4, <2>5, <1>1 DEF FifoInv
<1> QED BY <1>2, <1>3, <1>4 DEF BufferInv

LEMMA AnswerFacts ==
    ASSUME TypeInv, AnswerAll
    PROVE  /\ sender.pc = "answer" /\ sender.result \in Results
           /\ sender' \in Batch /\ sender'.pc = "idle" /\ sender'.fds = {}
           /\ responses' \in [Clients -> Seq(Results)]
           /\ \A c \in Clients :
                 responses'[c] = IF \E f \in sender.fds : owner[f] = c
                                 THEN Append(responses[c], sender.result) ELSE responses[c]
           /\ UNCHANGED << client, owner, requests, removing, breaks, buffer, proxy, history >>
<1>1. sender.pc = "answer" /\ sender.result \in Results /\ sender.fds \in SUBSET Fds
  BY BatchFields DEF AnswerAll, TypeInv
<1>2. Respond(sender.fds, sender.result)
  BY DEF AnswerAll
<1>3. sender' \in Batch /\ sender'.pc = "idle" /\ sender'.fds = {}
  <2>1. sender' = NoBatch
    BY DEF AnswerAll
  <2>2. << >> \in Seq(Commands) /\ {} \in SUBSET Fds /\ 0 \in Nat
    OBVIOUS
  <2>3. NoBatch \in Batch /\ NoBatch.pc = "idle" /\ NoBatch.fds = {}
    BY <2>2 DEF NoBatch, Batch
  <2> QED BY <2>1, <2>3
<1>4. UNCHANGED << client, owner, requests, removing, breaks, buffer, proxy, history >>
  BY DEF AnswerAll
<1> QED BY <1>1, <1>2, <1>3, <1>4, RespondFacts

\* Steps after which the sender holds nothing and nothing else of the buffer
\* has changed.
LEMMA IdleSenderBuffer ==
    ASSUME BufferInv, UNCHANGED << buffer, history >>,
           sender.pc \in {"idle", "answer"}, sender'.pc \in {"idle", "exited"}
    PROVE  PositionInv' /\ FifoInv'
<1>1. Out = 0 /\ Out' = 0
  BY DEF Out
<1>2. PositionInv'
  BY DEF BufferInv, PositionInv, buffer
<1>3. FifoInv'
  BY <1>1 DEF BufferInv, FifoInv, buffer, history
<1> QED BY <1>2, <1>3

LEMMA AnswerBuffer == ASSUME BufferInv, AnswerAll PROVE BufferInv'
<1>0. TypeInv
  BY DEF BufferInv
<1>1. /\ sender.pc = "answer"
      /\ sender' \in Batch /\ sender'.pc = "idle" /\ sender'.fds = {}
      /\ responses' \in [Clients -> Seq(Results)]
      /\ UNCHANGED << client, owner, requests, removing, breaks, buffer, proxy, history >>
  BY <1>0, AnswerFacts
<1>2. TypeInv'
  BY <1>0, <1>1 DEF TypeInv, buffer, proxy, history
<1>3. PositionInv' /\ FifoInv'
  BY <1>1, IdleSenderBuffer
<1> QED BY <1>2, <1>3 DEF BufferInv

LEMMA ExitFacts ==
    ASSUME TimerExits
    PROVE  /\ sender.pc = "idle" /\ UNCHANGED << client, net, buffer, proxy, history >>
           /\ sender' \in Batch /\ sender'.pc = "exited" /\ sender'.fds = {}
<1>1. "exited" \in {"idle", "exited"} /\ sender' = [NoBatch EXCEPT !.pc = "exited"]
  BY DEF TimerExits
<1> QED BY <1>1, NewBatch DEF TimerExits

LEMMA ExitBuffer == ASSUME BufferInv, TimerExits PROVE BufferInv'
<1>1. TypeInv'
  BY ExitFacts DEF BufferInv, TypeInv, net, buffer, proxy, history
<1>2. PositionInv' /\ FifoInv'
  BY ExitFacts, IdleSenderBuffer
<1> QED BY <1>1, <1>2 DEF BufferInv

----------------------------------------------------------------------------
(***************************************************************************)
(* Clients, descriptors and commands.                                      *)
(***************************************************************************)
LEMMA NoFdIsNone == NoFd \notin Fds
  BY ClientAssumption DEF NoFd

\* A command names a client and its number.
LEMMA CommandFields ==
    ASSUME NEW cmd \in Commands
    PROVE  cmd[1] \in Clients /\ cmd[2] \in Nat /\ cmd = << cmd[1], cmd[2] >>
<1>1. PICK c \in Clients : cmd \in {c} \X (1..MaxAppends[c])
  BY DEF Commands
<1>2. MaxAppends[c] \in Nat
  BY ClientAssumption
<1> QED BY <1>1, <1>2

LEMMA CommandsOf ==
    ASSUME TypeInv
    PROVE  /\ \A i \in 1..Len(pushed) : pushed[i] \in Commands
           /\ \A f \in Fds : /\ Len(requests[f]) \in Nat
                             /\ \A i \in 1..Len(requests[f]) : requests[f][i] \in Commands
<1>1. pushed \in Seq(Commands) /\ \A f \in Fds : requests[f] \in Seq(Commands)
  BY DEF TypeInv
<1> QED BY <1>1, ElementOfSeq, LenProperties

LEMMA NumberType ==
    ASSUME TypeInv, NEW c \in Clients
    PROVE  client[c].n \in Nat
  BY RecordFields DEF TypeInv

\* No step takes a number back.
StillSent(cmd) == cmd[2] <= client'[cmd[1]].n
Counts == \A c \in Clients : client[c].n <= client'[c].n

LEMMA SentKept ==
    ASSUME TypeInv, TypeInv', Counts, NEW cmd \in Commands, Sent(cmd)
    PROVE  StillSent(cmd)
<1>1. cmd[1] \in Clients /\ cmd[2] \in Nat
  BY CommandFields
<1>2. client[cmd[1]].n \in Nat /\ client'[cmd[1]].n \in Nat
  BY <1>1, RecordFields DEF TypeInv
<1> QED BY <1>1, <1>2 DEF Sent, StillSent, Counts

LEMMA RenewedCounts ==
    ASSUME TypeInv, NEW c \in Clients, NEW p, NEW n \in Nat, NEW g, NEW t,
           Renewed(c, p, n, g, t), client[c].n <= n
    PROVE  Counts
<1>1. \A d \in Clients : client[d].n \in Nat
  BY NumberType
<1> QED BY <1>1 DEF Renewed, Counts

LEMMA CommandsUntouched ==
    ASSUME BaseInv, TypeInv', Counts, UNCHANGED << requests, pushed, outcome >>
    PROVE  CountInv' /\ UniqueInv'
<1>0. TypeInv /\ CountInv /\ UniqueInv
  BY DEF BaseInv, BufferInv, ConnectionInv
<1>1. UniqueInv'
  BY <1>0 DEF UniqueInv
<1>2. \A f \in Fds : \A i \in 1..Len(requests[f]) : StillSent(requests[f][i])
  BY <1>0, CommandsOf, SentKept DEF CountInv
<1>3. \A i \in 1..Len(pushed) : StillSent(pushed[i])
  BY <1>0, CommandsOf, SentKept DEF CountInv
<1>4. \A cmd \in Commands : outcome[cmd] # "" => StillSent(cmd)
  BY <1>0, SentKept DEF CountInv
<1> QED BY <1>1, <1>2, <1>3, <1>4 DEF CountInv, Sent, StillSent

LEMMA InitConnection == Init => ConnectionInv
<1> SUFFICES ASSUME Init PROVE ConnectionInv
  OBVIOUS
<1>1. /\ participating = {}
      /\ \A f \in Fds : owner[f] = NoClient /\ requests[f] = << >> /\ Len(requests[f]) = 0
      /\ Len(pushed) = 0
      /\ \A cmd \in Commands : outcome[cmd] = ""
  BY EmptySeq DEF Init
<1>2. OwnerInv
  BY <1>1, ClientAssumption DEF OwnerInv
<1>3. FreeInv
  BY <1>1 DEF FreeInv
<1>4. CountInv
  <2>1. 1..0 = {}
    OBVIOUS
  <2> QED BY <2>1, <1>1, Zenon DEF CountInv
<1>5. UniqueInv
  <2>1. 1..0 = {}
    OBVIOUS
  <2> QED BY <2>1, <1>1, Zenon DEF UniqueInv
<1> QED BY <1>2, <1>3, <1>4, <1>5 DEF ConnectionInv

LEMMA ConnectConnection ==
    ASSUME BaseInv, TypeInv', NEW c \in Clients, Connect(c)
    PROVE  ConnectionInv'
<1>0. TypeInv /\ OwnerInv /\ FreeInv
  BY DEF BaseInv, BufferInv, ConnectionInv
<1>1. /\ LowestFree \in Fds /\ owner[LowestFree] = NoClient
      /\ Renewed(c, "idle", client[c].n, LowestFree, {})
  BY <1>0, ConnectRenews
<1>2. /\ owner' = [owner EXCEPT ![LowestFree] = c]
      /\ owner \in [Fds -> Clients \cup {NoClient, Ended}]
      /\ ~Connected(c) /\ client[c].n \in Nat
      /\ UNCHANGED << requests, removing, participating, pushed, outcome >>
  BY <1>0, NumberType DEF Connect, TypeInv, buffer
<1>3. OwnerInv'
  <2> SUFFICES ASSUME NEW f \in Fds, owner'[f] \in Clients
               PROVE  client'[owner'[f]].fd = f
    BY DEF OwnerInv
  <2>1. CASE f = LowestFree
    BY <2>1, <1>1, <1>2 DEF Renewed
  <2>2. CASE f # LowestFree
    <3>1. owner'[f] = owner[f] /\ client[owner[f]].fd = f
      BY <2>2, <1>0, <1>2 DEF OwnerInv
    <3>2. owner[f] # c
      BY <3>1, <1>2, NoFdIsNone DEF Connected
    <3> QED BY <3>1, <3>2, <1>1 DEF Renewed
  <2> QED BY <2>1, <2>2
<1>4. FreeInv'
  <2>1. \A f \in Fds : owner'[f] = NoClient => owner[f] = NoClient
    BY <1>1, <1>2
  <2> QED BY <2>1, <1>0, <1>2 DEF FreeInv
<1>5. CountInv' /\ UniqueInv'
  <2>1. Counts
    BY <1>0, <1>1, <1>2, RenewedCounts
  <2> QED BY <2>1, <1>2, CommandsUntouched
<1> QED BY <1>3, <1>4, <1>5 DEF ConnectionInv

\* A client that gives up its descriptor had no live connection on it, or ends it.
LEMMA GivesUp ==
    ASSUME BaseInv, TypeInv', NEW c \in Clients, NEW n \in Nat, NEW t,
           Renewed(c, "idle", n, NoFd, t), client[c].n <= n,
           \A f \in Fds : owner'[f] # c,
           \A f \in Fds : owner'[f] = owner[f] \/ owner'[f] = Ended,
           UNCHANGED << requests, removing, participating, pushed, outcome >>
    PROVE  ConnectionInv'
<1>0. TypeInv /\ OwnerInv /\ FreeInv
  BY DEF BaseInv, BufferInv, ConnectionInv
<1>1. OwnerInv'
  BY <1>0, ClientAssumption DEF OwnerInv, Renewed
<1>2. FreeInv'
  BY <1>0, ClientAssumption DEF FreeInv
<1>3. CountInv' /\ UniqueInv'
  BY <1>0, RenewedCounts, CommandsUntouched
<1> QED BY <1>1, <1>2, <1>3 DEF ConnectionInv

\* Without a live connection no descriptor belongs to the client.
LEMMA NotConnected ==
    ASSUME BaseInv, NEW c \in Clients, ~Connected(c), NEW f \in Fds
    PROVE  owner[f] # c
  BY NoFdIsNone DEF BaseInv, ConnectionInv, OwnerInv, Connected

LEMMA AppendFailsConnection ==
    ASSUME BaseInv, TypeInv', NEW c \in Clients, AppendFails(c)
    PROVE  ConnectionInv'
<1>0. TypeInv
  BY DEF BaseInv, BufferInv
<1>1. client[c].n \in Nat /\ Renewed(c, "idle", client[c].n + 1, NoFd, client[c].told)
  BY <1>0, AppendFailsRenews
<1>2. client[c].n + 1 \in Nat /\ client[c].n <= client[c].n + 1
  BY <1>1
<1>3. ~Connected(c) /\ UNCHANGED << owner, requests, removing, participating, pushed, outcome >>
  BY DEF AppendFails, net, buffer, history
<1> QED BY <1>1, <1>2, <1>3, NotConnected, GivesUp

LEMMA RecvFailsConnection ==
    ASSUME BaseInv, TypeInv', NEW c \in Clients, RecvFails(c)
    PROVE  ConnectionInv'
<1>0. TypeInv
  BY DEF BaseInv, BufferInv
<1>1. Renewed(c, "idle", client[c].n, NoFd, client[c].told)
  BY <1>0, RecvFailsRenews
<1>2. client[c].n \in Nat /\ client[c].n <= client[c].n
  BY <1>0, NumberType
<1>3. ~Connected(c) /\ UNCHANGED << owner, requests, removing, participating, pushed, outcome >>
  BY DEF RecvFails, buffer, history
<1> QED BY <1>1, <1>2, <1>3, NotConnected, GivesUp

LEMMA LeaveConnection ==
    ASSUME BaseInv, TypeInv', NEW c \in Clients, Leave(c)
    PROVE  ConnectionInv'
<1>0. TypeInv /\ OwnerInv
  BY DEF BaseInv, BufferInv, ConnectionInv
<1>1. client[c].fd \in Fds /\ Renewed(c, "idle", client[c].n, NoFd, {})
  BY <1>0, LeaveRenews
<1>2. client[c].n \in Nat /\ client[c].n <= client[c].n
  BY <1>0, NumberType
<1>3. /\ owner' = [owner EXCEPT ![client[c].fd] = Ended]
      /\ owner \in [Fds -> Clients \cup {NoClient, Ended}]
      /\ UNCHANGED << requests, removing, participating, pushed, outcome >>
  BY <1>0 DEF Leave, TypeInv, buffer, history
<1>4. \A f \in Fds : owner'[f] # c
  BY <1>0, <1>1, <1>3, ClientAssumption DEF OwnerInv
<1>5. \A f \in Fds : owner'[f] = owner[f] \/ owner'[f] = Ended
  BY <1>1, <1>3
<1> QED BY <1>1, <1>2, <1>3, <1>4, <1>5, GivesUp

LEMMA BreakConnection ==
    ASSUME BaseInv, TypeInv', NEW f \in Fds, Break(f)
    PROVE  ConnectionInv'
<1>0. TypeInv /\ OwnerInv /\ FreeInv
  BY DEF BaseInv, BufferInv, ConnectionInv
<1>1. /\ owner' = [owner EXCEPT ![f] = Ended]
      /\ owner \in [Fds -> Clients \cup {NoClient, Ended}]
      /\ UNCHANGED << client, requests, removing, participating, pushed, outcome >>
  BY <1>0 DEF Break, TypeInv, buffer, history
<1>2. OwnerInv' /\ FreeInv'
  BY <1>0, <1>1, ClientAssumption DEF OwnerInv, FreeInv
<1>3. Counts
  BY <1>0, <1>1, NumberType DEF Counts
<1> QED BY <1>1, <1>2, <1>3, CommandsUntouched DEF ConnectionInv

\* A new number: the command is nowhere yet.
LEMMA NewCommand ==
    ASSUME BaseInv, NEW c \in Clients
    PROVE  /\ ~Outstanding(<< c, client[c].n + 1 >>)
           /\ << c, client[c].n + 1 >> \in Commands => outcome[<< c, client[c].n + 1 >>] = ""
<1>0. TypeInv /\ CountInv
  BY DEF BaseInv, BufferInv, ConnectionInv
<1>1. client[c].n \in Nat
  BY <1>0, NumberType
<1>2. ~Sent(<< c, client[c].n + 1 >>)
  BY <1>1 DEF Sent
<1> QED BY <1>0, <1>2 DEF CountInv, Outstanding

LEMMA SendConnection ==
    ASSUME BaseInv, TypeInv', NEW c \in Clients, SendAppend(c)
    PROVE  ConnectionInv'
<1>0. TypeInv /\ OwnerInv /\ FreeInv /\ CountInv /\ UniqueInv
  BY DEF BaseInv, BufferInv, ConnectionInv
<1> DEFINE cmd == << c, client[c].n + 1 >>
           f == client[c].fd
<1>1. /\ f \in Fds /\ client[c].n \in Nat
      /\ Renewed(c, "waiting", client[c].n + 1, f, client[c].told)
  BY <1>0, SendRenews
<1>2. /\ cmd \in Commands /\ requests' \in [Fds -> Seq(Commands)]
      /\ ~Connected(c) => requests' = requests
      /\ Connected(c) => /\ requests'[f] = Append(requests[f], cmd)
                         /\ \A g \in Fds : g # f => requests'[g] = requests[g]
  BY <1>0, SendFacts
<1>3. UNCHANGED << owner, removing, participating, pushed, outcome >>
  BY DEF SendAppend, buffer, history
<1>4. Counts
  <2>1. client[c].n + 1 \in Nat /\ client[c].n <= client[c].n + 1
    BY <1>1
  <2> QED BY <2>1, <1>0, <1>1, RenewedCounts
<1>5. OwnerInv'
  BY <1>0, <1>1, <1>3 DEF OwnerInv, Renewed
<1>6. CASE ~Connected(c)
  <2>1. FreeInv'
    BY <1>6, <1>0, <1>2, <1>3 DEF FreeInv
  <2> QED BY <2>1, <1>2, <1>3, <1>4, <1>5, <1>6, CommandsUntouched DEF ConnectionInv
<1>7. CASE Connected(c)
  <2>1. FreeInv'
    <3>1. owner[f] = c /\ c # NoClient
      BY <1>7, ClientAssumption DEF Connected
    <3> QED BY <3>1, <1>0, <1>2, <1>3, <1>7 DEF FreeInv
  <2>2. requests[f] \in Seq(Commands)
    BY <1>0, <1>1 DEF TypeInv
  <2>3. ~Outstanding(cmd) /\ StillSent(cmd)
    <3>1. StillSent(cmd)
      BY <1>1 DEF StillSent, Renewed
    <3> QED BY <3>1, NewCommand
  <2> HIDE DEF cmd
  <2>4. /\ Len(requests'[f]) = Len(requests[f]) + 1 /\ Len(requests[f]) \in Nat
        /\ requests'[f][Len(requests[f]) + 1] = cmd
        /\ \A i \in 1..Len(requests[f]) : requests'[f][i] = requests[f][i]
    BY <2>2, <1>2, <1>7
  <2>5. \A g \in Fds : \A i \in 1..Len(requests'[g]) :
           \/ i \in 1..Len(requests[g]) /\ requests'[g][i] = requests[g][i]
           \/ g = f /\ i = Len(requests[f]) + 1 /\ requests'[g][i] = cmd
    BY <2>4, <1>2, <1>7
  <2>6. CountInv'
    <3>1. \A g \in Fds : \A i \in 1..Len(requests'[g]) : StillSent(requests'[g][i])
      <4> SUFFICES ASSUME NEW g \in Fds, NEW i \in 1..Len(requests'[g])
                   PROVE  StillSent(requests'[g][i])
        OBVIOUS
      <4>1. CASE i \in 1..Len(requests[g]) /\ requests'[g][i] = requests[g][i]
        <5>1. PICK d \in Commands : d = requests[g][i] /\ Sent(d)
          BY <4>1, <1>0, CommandsOf DEF CountInv
        <5>2. StillSent(d)
          BY <5>1, <1>0, <1>4, SentKept
        <5> QED BY <4>1, <5>1, <5>2
      <4>2. CASE requests'[g][i] = cmd
        BY <4>2, <2>3
      <4> QED BY <4>1, <4>2, <2>5
    <3>2. \A i \in 1..Len(pushed) : StillSent(pushed[i])
      BY <1>0, <1>4, CommandsOf, SentKept DEF CountInv
    <3>3. \A d \in Commands : outcome[d] # "" => StillSent(d)
      BY <1>0, <1>4, SentKept DEF CountInv
    <3> QED BY <3>1, <3>2, <3>3, <1>3 DEF CountInv, Sent, StillSent
  <2>7. UniqueInv'
    <3>1. \A i, j \in 1..Len(pushed') : pushed'[i] = pushed'[j] => i = j
      BY <1>0, <1>3 DEF UniqueInv
    <3>2. \A g \in Fds : \A i \in 1..Len(requests[g]) : requests[g][i] # cmd
      BY <2>3 DEF Outstanding
    <3>3. \A g, h \in Fds : \A i \in 1..Len(requests'[g]), j \in 1..Len(requests'[h]) :
             requests'[g][i] = requests'[h][j] => g = h /\ i = j
      <4> SUFFICES ASSUME NEW g \in Fds, NEW h \in Fds, NEW i \in 1..Len(requests'[g]),
                          NEW j \in 1..Len(requests'[h]), requests'[g][i] = requests'[h][j]
                   PROVE  g = h /\ i = j
        OBVIOUS
      <4>1. CASE i \in 1..Len(requests[g]) /\ requests'[g][i] = requests[g][i]
        <5>1. requests'[h][j] # cmd
          BY <4>1, <3>2
        <5>2. j \in 1..Len(requests[h]) /\ requests'[h][j] = requests[h][j]
          BY <5>1, <2>5
        <5>3. requests[g][i] = requests[h][j]
          BY <4>1, <5>2
        <5> QED BY <4>1, <5>2, <5>3, <1>0 DEF UniqueInv
      <4>2. CASE g = f /\ i = Len(requests[f]) + 1 /\ requests'[g][i] = cmd
        <5>1. requests'[h][j] = cmd
          BY <4>2
        <5>2. h = f /\ j = Len(requests[f]) + 1
          BY <5>1, <2>5, <3>2
        <5> QED BY <4>2, <5>2
      <4> QED BY <4>1, <4>2, <2>5
    <3>4. \A g \in Fds : \A i \in 1..Len(requests'[g]), j \in 1..Len(pushed') :
             requests'[g][i] # pushed'[j]
      <4>1. \A j \in 1..Len(pushed) : pushed[j] # cmd
        BY <2>3 DEF Outstanding
      <4> QED BY <4>1, <2>5, <1>0, <1>3 DEF UniqueInv
    <3> QED BY <3>1, <3>3, <3>4 DEF UniqueInv
  <2> QED BY <2>1, <2>6, <2>7, <1>5 DEF ConnectionInv
<1> QED BY <1>6, <1>7

LEMMA RecvConnection ==
    ASSUME BaseInv, TypeInv', NEW c \in Clients, RecvResponse(c)
    PROVE  ConnectionInv'
<1>0. TypeInv /\ OwnerInv /\ FreeInv
  BY DEF BaseInv, BufferInv, ConnectionInv
<1>1. PICK t : Renewed(c, "idle", client[c].n, client[c].fd, t)
  BY <1>0, RecvRenews
<1>2. client[c].n \in Nat /\ client[c].n <= client[c].n
  BY <1>0, NumberType
<1>3. UNCHANGED << owner, requests, removing, participating, pushed, outcome >>
  BY DEF RecvResponse, buffer, history
<1>4. OwnerInv' /\ FreeInv'
  BY <1>0, <1>1, <1>3 DEF OwnerInv, FreeInv, Renewed
<1>5. Counts
  BY <1>0, <1>1, <1>2, RenewedCounts
<1> QED BY <1>3, <1>4, <1>5, CommandsUntouched DEF ConnectionInv

\* Where the commands are after the thread of connection f has read one.
LEMMA MovedCommands ==
    ASSUME BaseInv, NEW f \in Fds, HandleAppend(f)
    PROVE  /\ \A g \in Fds : \A i \in 1..Len(requests'[g]) :
                 \/ g # f /\ i \in 1..Len(requests[g]) /\ requests'[g][i] = requests[g][i]
                 \/ /\ g = f /\ i \in Nat /\ i + 1 \in 2..Len(requests[g])
                    /\ requests'[g][i] = requests[g][i + 1]
           /\ \A j \in 1..Len(pushed') :
                 \/ j \in 1..Len(pushed) /\ pushed'[j] = pushed[j]
                 \/ j = Len(pushed) + 1 /\ pushed'[j] = requests[f][1]
           /\ 1 \in 1..Len(requests[f])
<1>0. BufferInv /\ TypeInv
  BY DEF BaseInv, BufferInv
<1>1. /\ Len(requests[f]) \in Nat /\ Len(requests[f]) > 0
      /\ Len(requests'[f]) = Len(requests[f]) - 1
      /\ \A i \in 1..Len(requests'[f]) : requests'[f][i] = requests[f][i + 1]
      /\ \A g \in Fds : g # f => requests'[g] = requests[g]
  BY <1>0, HandleAppendFacts
<1>2. ASSUME NEW i \in 1..Len(requests'[f])
      PROVE  i \in Nat /\ i + 1 \in 2..Len(requests[f]) /\ requests'[f][i] = requests[f][i + 1]
  <2>1. i \in 1..(Len(requests[f]) - 1)
    BY <1>1
  <2>2. i \in Nat /\ i + 1 \in 2..Len(requests[f])
    BY <2>1, <1>1
  <2> QED BY <2>2, <1>1
<1>3. ASSUME NEW j \in 1..Len(pushed')
      PROVE  \/ j \in 1..Len(pushed) /\ pushed'[j] = pushed[j]
             \/ j = Len(pushed) + 1 /\ pushed'[j] = requests[f][1]
  <2>1. CASE Pushes(f)
    BY <2>1, <1>0, PushFacts
  <2>2. CASE Drops \/ Refuses(f)
    BY <2>2 DEF Drops, Refuses
  <2> QED BY <2>1, <2>2, <1>0, HandleAppendCases
<1> QED BY <1>1, <1>2, <1>3

LEMMA HandleAppendConnection ==
    ASSUME BaseInv, TypeInv', NEW f \in Fds, HandleAppend(f)
    PROVE  ConnectionInv'
<1>0. TypeInv /\ OwnerInv /\ FreeInv /\ CountInv /\ UniqueInv
  BY DEF BaseInv, BufferInv, ConnectionInv
<1>1. /\ owner[f] # NoClient /\ \A g \in Fds : g # f => requests'[g] = requests[g]
      /\ UNCHANGED << client, owner, removing, outcome >>
  BY <1>0, HandleAppendFacts
<1>2. participating' \subseteq participating \cup {f}
  BY <1>0, HandleAppendCases DEF Pushes, Drops, Refuses, buffer
<1>3. /\ \A g \in Fds : \A i \in 1..Len(requests'[g]) :
            \/ g # f /\ i \in 1..Len(requests[g]) /\ requests'[g][i] = requests[g][i]
            \/ /\ g = f /\ i \in Nat /\ i + 1 \in 2..Len(requests[g])
               /\ requests'[g][i] = requests[g][i + 1]
      /\ \A j \in 1..Len(pushed') :
            \/ j \in 1..Len(pushed) /\ pushed'[j] = pushed[j]
            \/ j = Len(pushed) + 1 /\ pushed'[j] = requests[f][1]
      /\ 1 \in 1..Len(requests[f])
  BY MovedCommands
<1>4. OwnerInv' /\ FreeInv'
  BY <1>0, <1>1, <1>2 DEF OwnerInv, FreeInv
<1>5. CountInv'
  <2>1. ASSUME NEW g \in Fds, NEW i \in 1..Len(requests'[g]) PROVE Sent(requests'[g][i])
    <3>1. PICK k \in 1..Len(requests[g]) : requests'[g][i] = requests[g][k]
      BY <1>3
    <3> QED BY <3>1, <1>0 DEF CountInv
  <2>2. \A j \in 1..Len(pushed') : Sent(pushed'[j])
    BY <1>0, <1>3 DEF CountInv
  <2> QED BY <2>1, <2>2, <1>0, <1>1 DEF CountInv, Sent
<1>6. UniqueInv'
  <2>1. ASSUME NEW i \in 1..Len(pushed'), NEW j \in 1..Len(pushed'), pushed'[i] = pushed'[j]
        PROVE  i = j
    <3>1. \A k \in 1..Len(pushed) : pushed[k] # requests[f][1]
      BY <1>0, <1>3 DEF UniqueInv
    <3>2. CASE i \in 1..Len(pushed) /\ pushed'[i] = pushed[i]
      <4>1. j \in 1..Len(pushed) /\ pushed'[j] = pushed[j]
        BY <3>1, <3>2, <2>1, <1>3
      <4>2. pushed[i] = pushed[j]
        BY <4>1, <3>2, <2>1
      <4> QED BY <4>1, <4>2, <3>2, <1>0 DEF UniqueInv
    <3>3. CASE i = Len(pushed) + 1 /\ pushed'[i] = requests[f][1]
      <4>1. pushed'[j] = requests[f][1]
        BY <3>3, <2>1
      <4>2. j = Len(pushed) + 1
        BY <4>1, <3>1, <1>3
      <4> QED BY <4>2, <3>3
    <3> QED BY <3>2, <3>3, <1>3
  <2>2. ASSUME NEW g \in Fds, NEW h \in Fds,
               NEW i \in 1..Len(requests'[g]), NEW j \in 1..Len(requests'[h]),
               requests'[g][i] = requests'[h][j]
        PROVE  g = h /\ i = j
    <3>1. CASE g # f /\ i \in 1..Len(requests[g]) /\ requests'[g][i] = requests[g][i]
      <4>1. CASE h # f /\ j \in 1..Len(requests[h]) /\ requests'[h][j] = requests[h][j]
        <5>1. requests[g][i] = requests[h][j]
          BY <4>1, <3>1, <2>2
        <5> QED BY <5>1, <4>1, <3>1, <1>0 DEF UniqueInv
      <4>2. CASE h = f /\ j + 1 \in 2..Len(requests[h]) /\ requests'[h][j] = requests[h][j + 1]
        <5>1. requests[g][i] = requests[h][j + 1] /\ j + 1 \in 1..Len(requests[h])
          BY <4>2, <3>1, <2>2
        <5> QED BY <5>1, <4>2, <3>1, <1>0 DEF UniqueInv
      <4> QED BY <4>1, <4>2, <1>3
    <3>2. CASE g = f /\ i \in Nat /\ i + 1 \in 2..Len(requests[g])
               /\ requests'[g][i] = requests[g][i + 1]
      <4>0. i + 1 \in 1..Len(requests[g])
        BY <3>2
      <4>1. CASE h # f /\ j \in 1..Len(requests[h]) /\ requests'[h][j] = requests[h][j]
        <5>1. requests[g][i + 1] = requests[h][j]
          BY <4>1, <3>2, <2>2
        <5> QED BY <5>1, <4>0, <4>1, <3>2, <1>0 DEF UniqueInv
      <4>2. CASE h = f /\ j \in Nat /\ j + 1 \in 2..Len(requests[h])
                 /\ requests'[h][j] = requests[h][j + 1]
        <5>1. requests[g][i + 1] = requests[h][j + 1] /\ j + 1 \in 1..Len(requests[h])
          BY <4>2, <3>2, <2>2
        <5>2. i + 1 = j + 1
          BY <5>1, <4>0, <4>2, <3>2, <1>0 DEF UniqueInv
        <5> QED BY <5>2, <4>2, <3>2
      <4> QED BY <4>1, <4>2, <1>3
    <3> QED BY <3>1, <3>2, <1>3
  <2>3. ASSUME NEW g \in Fds, NEW i \in 1..Len(requests'[g]), NEW j \in 1..Len(pushed')
        PROVE  requests'[g][i] # pushed'[j]
    <3>1. PICK k \in 1..Len(requests[g]) : /\ requests'[g][i] = requests[g][k]
                                           /\ g = f => k # 1
      <4>1. CASE g # f /\ i \in 1..Len(requests[g]) /\ requests'[g][i] = requests[g][i]
        BY <4>1
      <4>2. CASE g = f /\ i \in Nat /\ i + 1 \in 2..Len(requests[g])
                 /\ requests'[g][i] = requests[g][i + 1]
        <5>1. i + 1 \in 1..Len(requests[g]) /\ i + 1 # 1
          BY <4>2
        <5> QED BY <4>2, <5>1
      <4> QED BY <4>1, <4>2, <1>3
    <3>2. CASE j \in 1..Len(pushed) /\ pushed'[j] = pushed[j]
      BY <3>1, <3>2, <1>0 DEF UniqueInv
    <3>3. CASE pushed'[j] = requests[f][1]
      BY <3>1, <3>3, <1>0, <1>3 DEF UniqueInv
    <3> QED BY <3>2, <3>3, <1>3
  <2> QED BY <2>1, <2>2, <2>3 DEF UniqueInv
<1> QED BY <1>4, <1>5, <1>6 DEF ConnectionInv

LEMMA HandleCloseFacts ==
    ASSUME TypeInv, NEW f \in Fds, HandleClose(f)
    PROVE  /\ owner[f] = Ended /\ owner'[f] = NoClient
           /\ requests'[f] = << >> /\ removing'[f] = removing[f] + 1 /\ removing[f] \in Nat
           /\ \A g \in Fds : g # f => /\ owner'[g] = owner[g] /\ requests'[g] = requests[g]
                                      /\ removing'[g] = removing[g]
           /\ UNCHANGED << client, responses, breaks, buffer, proxy, sender, history >>
  BY DEF TypeInv, HandleClose

LEMMA HandleCloseConnection ==
    ASSUME BaseInv, TypeInv', NEW f \in Fds, HandleClose(f)
    PROVE  ConnectionInv'
<1>0. TypeInv /\ OwnerInv /\ FreeInv /\ CountInv /\ UniqueInv
  BY DEF BaseInv, BufferInv, ConnectionInv
<1>1. /\ owner'[f] = NoClient /\ requests'[f] = << >> /\ removing'[f] > 0
      /\ \A g \in Fds : g # f => /\ owner'[g] = owner[g] /\ requests'[g] = requests[g]
                                 /\ removing'[g] = removing[g]
      /\ UNCHANGED << client, participating, pushed, outcome >>
  BY <1>0, HandleCloseFacts DEF buffer, history
<1>2. OwnerInv'
  BY <1>0, <1>1, ClientAssumption DEF OwnerInv
<1>3. FreeInv'
  BY <1>0, <1>1 DEF FreeInv
<1>4. \A g \in Fds : \A i \in 1..Len(requests'[g]) : g # f /\ requests'[g] = requests[g]
  <2>1. Len(<< >>) = 0 /\ 1..0 = {}
    OBVIOUS
  <2> QED BY <2>1, <1>1
<1>5. CountInv'
  BY <1>0, <1>1, <1>4 DEF CountInv, Sent
<1>6. UniqueInv'
  <2>1. \A i, j \in 1..Len(pushed') : pushed'[i] = pushed'[j] => i = j
    BY <1>0, <1>1 DEF UniqueInv
  <2>2. ASSUME NEW g \in Fds, NEW h \in Fds,
               NEW i \in 1..Len(requests'[g]), NEW j \in 1..Len(requests'[h])
        PROVE  requests'[g][i] = requests'[h][j] => g = h /\ i = j
    <3>1. requests'[g] = requests[g] /\ requests'[h] = requests[h]
      BY <1>4
    <3> QED BY <3>1, <1>0 DEF UniqueInv
  <2>3. ASSUME NEW g \in Fds, NEW i \in 1..Len(requests'[g]), NEW j \in 1..Len(pushed')
        PROVE  requests'[g][i] # pushed'[j]
    <3>1. requests'[g] = requests[g]
      BY <1>4
    <3> QED BY <3>1, <1>0, <1>1 DEF UniqueInv
  <2> QED BY <2>1, <2>2, <2>3 DEF UniqueInv
<1> QED BY <1>2, <1>3, <1>5, <1>6 DEF ConnectionInv

LEMMA HandleRemoveFacts ==
    ASSUME TypeInv, NEW f \in Fds, HandleRemove(f)
    PROVE  /\ removing[f] > 0 /\ participating' = participating \ {f}
           /\ \A g \in Fds : g # f => removing'[g] = removing[g]
           /\ UNCHANGED << client, owner, requests, responses, breaks, proxy, sender, history >>
  BY DEF TypeInv, HandleRemove, remove

\* Steps that change no connection and no command.
LEMMA QuietConnection ==
    ASSUME BaseInv, TypeInv', UNCHANGED << client, owner, requests, pushed, outcome >>,
           participating' \subseteq participating,
           \A f \in Fds : f \in participating' => removing'[f] = removing[f]
    PROVE  ConnectionInv'
<1>0. TypeInv /\ OwnerInv /\ FreeInv
  BY DEF BaseInv, BufferInv, ConnectionInv
<1>1. OwnerInv' /\ FreeInv'
  BY <1>0 DEF OwnerInv, FreeInv
<1>2. Counts
  BY <1>0, NumberType DEF Counts
<1> QED BY <1>1, <1>2, CommandsUntouched DEF ConnectionInv

LEMMA HandleRemoveConnection ==
    ASSUME BaseInv, TypeInv', NEW f \in Fds, HandleRemove(f)
    PROVE  ConnectionInv'
  BY HandleRemoveFacts, QuietConnection DEF BaseInv, BufferInv, history

\* HandleFreeze, the steps of the sender without a result, and stuttering.
LEMMA SilentConnection ==
    ASSUME BaseInv, TypeInv',
           HandleFreeze \/ Drain \/ Build \/ Release \/ AnswerAll \/ TimerExits \/ UNCHANGED vars
    PROVE  ConnectionInv'
<1>0. BufferInv /\ TypeInv
  BY DEF BaseInv, BufferInv
<1>1. /\ UNCHANGED << client, owner, requests, removing, pushed, outcome >>
      /\ participating' \subseteq participating
  <2>1. CASE Drain
    BY <2>1, <1>0, DrainFacts DEF net, history
  <2>2. CASE Build
    BY <2>2, <1>0, BuildFacts DEF net, history, buffer
  <2>3. CASE Release
    BY <2>3, <1>0, ReleaseFacts DEF net, history
  <2>4. CASE AnswerAll
    BY <2>4, <1>0, AnswerFacts DEF history, buffer
  <2>5. CASE TimerExits
    BY <2>5, ExitFacts DEF net, history, buffer
  <2>6. CASE HandleFreeze \/ UNCHANGED vars
    BY <2>6 DEF HandleFreeze, vars, net, buffer, history
  <2> QED BY <2>1, <2>2, <2>3, <2>4, <2>5, <2>6
<1> QED BY <1>1, QuietConnection

\* The commands behind a batch move up.
LEMMA ReplicatedCommands ==
    ASSUME BaseInv, NEW r \in Results, Replicate(r)
    PROVE  \A i \in 1..Len(pushed') :
              i \in Nat /\ Taken + i \in 1..Len(pushed) /\ pushed'[i] = pushed[Taken + i]
<1>0. BufferInv
  BY DEF BaseInv
<1> SUFFICES ASSUME NEW i \in 1..Len(pushed')
             PROVE  i \in Nat /\ Taken + i \in 1..Len(pushed) /\ pushed'[i] = pushed[Taken + i]
  OBVIOUS
<1>1. /\ Len(pushed') = Len(pushed) - Taken /\ Len(pushed) \in Nat /\ Taken \in Nat
      /\ Taken <= Len(pushed) /\ pushed'[i] = pushed[Taken + i]
  BY <1>0, ReplicateFacts, BufferNumbers
<1>2. i \in 1..(Len(pushed) - Taken)
  BY <1>1
<1> QED BY <1>1, <1>2

LEMMA ReplicateConnection ==
    ASSUME BaseInv, TypeInv', NEW r \in Results, Replicate(r)
    PROVE  ConnectionInv'
<1>0. BufferInv /\ TypeInv /\ OwnerInv /\ FreeInv /\ CountInv /\ UniqueInv
  BY DEF BaseInv, BufferInv, ConnectionInv
<1>1. /\ Taken \in Nat /\ Taken <= Len(pushed) /\ Len(pushed) \in Nat
      /\ \A cmd \in Commands :
            outcome'[cmd] = IF \E i \in 1..Taken : pushed[i] = cmd THEN r ELSE outcome[cmd]
      /\ UNCHANGED << client, owner, requests, removing, participating >>
  BY <1>0, ReplicateFacts, BufferNumbers DEF net, buffer
<1>2. \A i \in 1..Len(pushed') :
         i \in Nat /\ Taken + i \in 1..Len(pushed) /\ pushed'[i] = pushed[Taken + i]
  BY ReplicatedCommands
<1>3. OwnerInv' /\ FreeInv'
  BY <1>0, <1>1 DEF OwnerInv, FreeInv
<1>4. CountInv'
  <2>1. \A i \in 1..Len(pushed') : Sent(pushed'[i])
    BY <1>0, <1>2 DEF CountInv
  <2>2. ASSUME NEW cmd \in Commands, outcome'[cmd] # "" PROVE Sent(cmd)
    <3>1. CASE \E i \in 1..Taken : pushed[i] = cmd
      <4>1. PICK i \in 1..Taken : pushed[i] = cmd
        BY <3>1
      <4>2. i \in 1..Len(pushed)
        BY <1>1
      <4> QED BY <4>1, <4>2, <1>0 DEF CountInv
    <3>2. CASE ~(\E i \in 1..Taken : pushed[i] = cmd)
      BY <3>2, <2>2, <1>0, <1>1 DEF CountInv
    <3> QED BY <3>1, <3>2
  <2> QED BY <2>1, <2>2, <1>0, <1>1 DEF CountInv, Sent
<1>5. UniqueInv'
  <2>1. ASSUME NEW i \in 1..Len(pushed'), NEW j \in 1..Len(pushed'), pushed'[i] = pushed'[j]
        PROVE  i = j
    <3>1. pushed[Taken + i] = pushed[Taken + j]
      BY <2>1, <1>2
    <3>2. Taken + i = Taken + j
      BY <3>1, <1>0, <1>2 DEF UniqueInv
    <3> QED BY <3>2, <1>1, <1>2
  <2>2. ASSUME NEW g \in Fds, NEW i \in 1..Len(requests[g]), NEW j \in 1..Len(pushed')
        PROVE  requests[g][i] # pushed'[j]
    BY <1>0, <1>2 DEF UniqueInv
  <2> QED BY <2>1, <2>2, <1>0, <1>1 DEF UniqueInv
<1> QED BY <1>3, <1>4, <1>5 DEF ConnectionInv

----------------------------------------------------------------------------
(***************************************************************************)
(* Every reachable state.                                                  *)
(***************************************************************************)
LEMMA StepKeepsBase == BaseInv /\ [Next]_vars => BaseInv'
<1> SUFFICES ASSUME BaseInv, [Next]_vars PROVE BufferInv' /\ ConnectionInv'
  BY DEF BaseInv
<1>0. BufferInv /\ (BufferInv' => TypeInv')
  BY DEF BaseInv, BufferInv
<1>1. ASSUME NEW c \in Clients, Connect(c) PROVE BufferInv' /\ ConnectionInv'
  BY <1>0, <1>1, ConnectBuffer, ConnectConnection
<1>2. ASSUME NEW c \in Clients, AppendFails(c) PROVE BufferInv' /\ ConnectionInv'
  BY <1>0, <1>2, AppendFailsBuffer, AppendFailsConnection
<1>3. ASSUME NEW c \in Clients, SendAppend(c) PROVE BufferInv' /\ ConnectionInv'
  BY <1>0, <1>3, SendBuffer, SendConnection
<1>4. ASSUME NEW c \in Clients, RecvResponse(c) PROVE BufferInv' /\ ConnectionInv'
  BY <1>0, <1>4, RecvBuffer, RecvConnection
<1>5. ASSUME NEW c \in Clients, RecvFails(c) PROVE BufferInv' /\ ConnectionInv'
  BY <1>0, <1>5, RecvFailsBuffer, RecvFailsConnection
<1>6. ASSUME NEW c \in Clients, Leave(c) PROVE BufferInv' /\ ConnectionInv'
  BY <1>0, <1>6, LeaveBuffer, LeaveConnection
<1>7. ASSUME NEW f \in Fds, Break(f) PROVE BufferInv' /\ ConnectionInv'
  BY <1>0, <1>7, BreakBuffer, BreakConnection
<1>8. ASSUME NEW f \in Fds, HandleAppend(f) PROVE BufferInv' /\ ConnectionInv'
  BY <1>0, <1>8, HandleAppendBuffer, HandleAppendConnection
<1>9. ASSUME NEW f \in Fds, HandleClose(f) PROVE BufferInv' /\ ConnectionInv'
  BY <1>0, <1>9, HandleCloseBuffer, HandleCloseConnection
<1>10. ASSUME NEW f \in Fds, HandleRemove(f) PROVE BufferInv' /\ ConnectionInv'
  BY <1>0, <1>10, HandleRemoveBuffer, HandleRemoveConnection
<1>11. CASE HandleFreeze
  BY <1>0, <1>11, FreezeBuffer, SilentConnection
<1>12. CASE Drain
  BY <1>0, <1>12, DrainBuffer, SilentConnection
<1>13. CASE Build
  BY <1>0, <1>13, BuildBuffer, SilentConnection
<1>14. CASE Release
  BY <1>0, <1>14, ReleaseBuffer, SilentConnection
<1>15. ASSUME NEW r \in Results, Replicate(r) PROVE BufferInv' /\ ConnectionInv'
  BY <1>0, <1>15, ReplicateBuffer, ReplicateConnection
<1>16. CASE AnswerAll
  BY <1>0, <1>16, AnswerBuffer, SilentConnection
<1>17. CASE TimerExits
  BY <1>0, <1>17, ExitBuffer, SilentConnection
<1>18. CASE UNCHANGED vars
  BY <1>0, <1>18, StutterBuffer, SilentConnection
<1> QED BY <1>1, <1>2, <1>3, <1>4, <1>5, <1>6, <1>7, <1>8, <1>9, <1>10, <1>11, <1>12, <1>13,
           <1>14, <1>15, <1>16, <1>17, <1>18 DEF Next, ClientStep, SenderStep, Idle

THEOREM BaseInvariant == Spec => []BaseInv
<1>1. Init => BaseInv
  BY InitBuffer, InitConnection DEF BaseInv
<1>2. BaseInv /\ [Next]_vars => BaseInv'
  BY StepKeepsBase
<1> QED BY <1>1, <1>2, PTL DEF Spec

(***************************************************************************)
(* push_raw, drain, release and remove, in any order with the steps of the *)
(* sender, keep used_ and read_pos_ within the capacity and the            *)
(* participants among the descriptors, whatever the clients and the        *)
(* network do.                                                             *)
(***************************************************************************)
THEOREM TypeCorrect == Spec => []TypeOK
<1>1. BaseInv => TypeOK
  <2> SUFFICES ASSUME BaseInv PROVE TypeOK
    OBVIOUS
  <2>0. TypeInv /\ PositionInv
    BY DEF BaseInv, BufferInv
  <2>1. used \in 0..CAPACITY /\ read_pos \in 0..CAPACITY
    BY <2>0 DEF PositionInv
  <2>2. client \in [Clients -> [pc : {"idle", "waiting"}, n : Nat, fd : Fds \cup {NoFd},
                                told : SUBSET (Nat \X {"SUCCESS", "FAILURE"})]]
    BY <2>0 DEF TypeInv, ClientRecord, Results
  <2>3. /\ owner \in [Fds -> Clients \cup {NoClient, Ended}]
        /\ \A f \in Fds : requests[f] \in Seq(Commands)
        /\ \A c \in Clients : responses[c] \in Seq({"SUCCESS", "FAILURE"})
    BY <2>0 DEF TypeInv, Results
  <2>4. /\ participating \subseteq Fds /\ clean \subseteq Clients
        /\ registered \in BOOLEAN /\ paused \in BOOLEAN /\ overrun \in BOOLEAN
        /\ \A c \in Clients : client[c].n <= MaxAppends[c]
    BY <2>0 DEF TypeInv
  <2> QED BY <2>1, <2>2, <2>3, <2>4, Zenon DEF TypeOK
<1> QED BY <1>1, BaseInvariant, PTL

(***************************************************************************)
(* ClientBufferManager and send_out_batch: as long as no push has written  *)
(* behind the end of buf_, no command is lost, duplicated or reordered     *)
(* between push_raw and the batches, although the batch copies its bytes   *)
(* without the mutex.                                                      *)
(***************************************************************************)
THEOREM FifoCorrect == Spec => []BufferIsFifo
<1>1. BaseInv => BufferIsFifo
  <2> SUFFICES ASSUME BaseInv, ~overrun
               PROVE  read_pos + used = write_pos /\ pushed = TakenOut \o Buffered
    BY DEF BufferIsFifo
  <2>0. BufferInv /\ TypeInv /\ PositionInv /\ FifoInv
    BY DEF BaseInv, BufferInv
  <2>1. used \in Nat /\ read_pos + used = write_pos
    BY <2>0, BufferNumbers DEF PositionInv
  <2>2. PICK t \in Seq(Commands) : t = TakenOut /\ Len(t) = Out
    <3>1. sender.data \in Seq(Commands)
      BY <2>0, BatchFields DEF TypeInv
    <3>2. CASE sender.pc = "replicate"
      BY <3>1, <3>2 DEF TakenOut, Out
    <3>3. CASE sender.pc # "replicate"
      BY <3>3, EmptySeq DEF TakenOut, Out
    <3> QED BY <3>2, <3>3
  <2>3. pushed \in Seq(Commands) /\ Len(pushed) \in Nat /\ Len(t) \in Nat
    BY <2>0, LenProperties DEF TypeInv
  <2>4. /\ Len(pushed) = Len(t) + used
        /\ \A i \in 1..used : buf[read_pos + i - 1] = pushed[Len(t) + i]
    <3>1. /\ Len(pushed) = Out + used
          /\ \A i \in 1..used : buf[read_pos + i - 1] = pushed[Out + i]
      BY <2>0 DEF FifoInv
    <3>2. Len(t) = Out
      BY <2>2
    <3> QED BY <3>1, <3>2, Zenon
  <2>5. \A i \in 1..Len(t) : t[i] = pushed[i]
    <3>1. CASE sender.pc = "replicate"
      BY <3>1, <2>0, <2>2 DEF FifoInv, TakenOut, Taken
    <3>2. CASE sender.pc # "replicate"
      <4>1. Len(t) = 0
        BY <3>2, <2>2 DEF Out
      <4> QED BY <4>1
    <3> QED BY <3>1, <3>2
  <2>6. PICK b : b = [i \in 1..used |-> buf[read_pos + i - 1]]
    OBVIOUS
  <2>7. b \in Seq(Commands) /\ Len(b) = used /\ \A i \in 1..used : b[i] = pushed[Len(t) + i]
    <3>1. \A i \in 1..used : buf[read_pos + i - 1] \in Commands
      <4>1. \A i \in 1..used : Len(t) + i \in 1..Len(pushed)
        BY <2>1, <2>3, <2>4
      <4> QED BY <4>1, <2>3, <2>4, ElementOfSeq
    <3>2. b \in [1..used -> Commands]
      BY <3>1, <2>6
    <3> QED BY <3>2, <2>1, <2>4, <2>6
  <2>8. /\ t \o b \in Seq(Commands) /\ Len(t \o b) = Len(t) + Len(b)
        /\ \A i \in 1..(Len(t) + Len(b)) :
              (t \o b)[i] = IF i <= Len(t) THEN t[i] ELSE b[i - Len(t)]
    BY <2>2, <2>7, ConcatProperties
  <2>9. pushed = t \o b
    <3>1. Len(pushed) = Len(t \o b)
      BY <2>4, <2>7, <2>8
    <3>2. ASSUME NEW i \in 1..Len(pushed) PROVE pushed[i] = (t \o b)[i]
      <4>0. (t \o b)[i] = IF i <= Len(t) THEN t[i] ELSE b[i - Len(t)]
        BY <3>1, <2>8
      <4>1. CASE i <= Len(t)
        <5>1. i \in 1..Len(t)
          BY <4>1, <2>3
        <5> QED BY <5>1, <4>0, <4>1, <2>5
      <4>2. CASE ~(i <= Len(t))
        <5>1. i - Len(t) \in 1..used /\ Len(t) + (i - Len(t)) = i
          BY <4>2, <2>1, <2>3, <2>4
        <5> QED BY <5>1, <4>0, <4>2, <2>7
      <4> QED BY <4>1, <4>2
    <3> QED BY <3>1, <3>2, <2>3, <2>8, SeqEqual
  <2> QED BY <2>1, <2>2, <2>6, <2>9 DEF Buffered
<1> QED BY <1>1, BaseInvariant, PTL

----------------------------------------------------------------------------
(***************************************************************************)
(* Answers.                                                                *)
(***************************************************************************)

\* The next state's Outstanding, of a command of this one.
StillOutstanding(cmd) ==
    \/ \E i \in 1..Len(pushed') : pushed'[i] = cmd
    \/ \E f \in Fds : \E i \in 1..Len(requests'[f]) : requests'[f][i] = cmd

\* The step happens to somebody else, or ends the connection.
Elsewhere(c) ==
    /\ client'[c] = client[c] /\ responses'[c] = responses[c]
    /\ UNCHANGED << sender, outcome >>
    /\ \A n : StillOutstanding(<< c, n >>) => Outstanding(<< c, n >>)
    /\ \A i \in 1..Len(pushed) : i \in 1..Len(pushed') /\ pushed'[i] = pushed[i]
    /\ Connected(c)' => /\ Connected(c)
                        /\ requests'[client[c].fd] = requests[client[c].fd]
                        /\ removing'[client[c].fd] = removing[client[c].fd]
                        /\ client[c].fd \in participating' <=> client[c].fd \in participating

LEMMA ElsewhereKeepsAnswers ==
    ASSUME NEW c \in Clients, AnswersOf(c), Elsewhere(c)
    PROVE  AnswersOf(c)'
<1>0. /\ client'[c] = client[c] /\ responses'[c] = responses[c]
      /\ sender' = sender /\ outcome' = outcome /\ Taken' = Taken
      /\ \A n : StillOutstanding(<< c, n >>) => Outstanding(<< c, n >>)
  BY DEF Elsewhere, Taken
<1>1. AnsweredIsOwn(c)'
  <2> SUFFICES ASSUME responses'[c] # << >>
               PROVE  /\ client'[c].pc = "waiting" /\ ~StillOutstanding(<< c, client'[c].n >>)
                      /\ \E r \in Results :
                            /\ responses'[c] = << r >>
                            /\ r = "SUCCESS" <=> outcome'[<< c, client'[c].n >>] = "SUCCESS"
    BY DEF AnsweredIsOwn, Answered, Current, Outstanding, StillOutstanding
  <2> QED BY <1>0 DEF AnswersOf, AnsweredIsOwn, Answered, Current
<1>2. ToldIsOwn(c)'
  <2> SUFFICES ASSUME NEW t \in client'[c].told
               PROVE  /\ << c, t[1] >> \in Commands
                      /\ t[2] = "SUCCESS" <=> outcome'[<< c, t[1] >>] = "SUCCESS"
                      /\ ~StillOutstanding(<< c, t[1] >>)
                      /\ t[1] <= client'[c].n
                      /\ client'[c].pc = "waiting" => t[1] < client'[c].n
    BY DEF ToldIsOwn, Outstanding, StillOutstanding
  <2> QED BY <1>0 DEF AnswersOf, ToldIsOwn
<1>3. ASSUME Connected(c)' PROVE Placed(c)'
  <2>1. /\ Connected(c) /\ Placed(c)
        /\ requests'[client[c].fd] = requests[client[c].fd]
        /\ removing'[client[c].fd] = removing[client[c].fd]
        /\ client[c].fd \in participating' <=> client[c].fd \in participating
    BY <1>3 DEF Elsewhere, AnswersOf
  <2>2. /\ Asked(c)' <=> Asked(c)
        /\ Listed(c)' <=> Listed(c)
        /\ Awaited(c)' <=> Awaited(c)
        /\ Answered(c)' <=> Answered(c)
        /\ Current(c)' = Current(c)
    BY <1>0, <2>1 DEF Asked, Listed, Awaited, Answered, Current
  <2>3. /\ removing'[client'[c].fd] = 0 /\ IdleIsNowhere(c)'
    BY <1>0, <2>1, <2>2 DEF Placed, IdleIsNowhere
  <2>4. AskedIsNew(c)'
    BY <1>0, <2>1, <2>2 DEF Placed, AskedIsNew
  <2>5. ListedIsPushed(c)'
    <3>1. Listed(c) => /\ ~Asked(c) /\ ~Awaited(c) /\ ~Answered(c)
                       /\ \E i \in 1..Len(pushed) : i > Taken /\ pushed[i] = Current(c)
      BY <2>1 DEF Placed, ListedIsPushed
    <3>2. \A i \in 1..Len(pushed) : i \in 1..Len(pushed') /\ pushed'[i] = pushed[i]
      BY DEF Elsewhere
    <3>3. Listed(c) => \E i \in 1..Len(pushed') : i > Taken /\ pushed'[i] = Current(c)
      BY <3>1, <3>2
    <3> QED BY <1>0, <2>2, <3>1, <3>3 DEF ListedIsPushed
  <2>6. AwaitedIsTaken(c)'
    <3>1. Awaited(c) => /\ ~Asked(c) /\ ~Answered(c)
                        /\ sender.pc \in {"drained", "built", "replicate"} =>
                              \E i \in 1..Len(pushed) : i <= Taken /\ pushed[i] = Current(c)
                        /\ sender.pc = "answer" => /\ outcome[Current(c)] = sender.result
                                                   /\ ~Outstanding(Current(c))
      BY <2>1 DEF Placed, AwaitedIsTaken
    <3>2. \A i \in 1..Len(pushed) : i \in 1..Len(pushed') /\ pushed'[i] = pushed[i]
      BY DEF Elsewhere
    <3>3. (Awaited(c) /\ sender.pc \in {"drained", "built", "replicate"})
             => \E i \in 1..Len(pushed') : i <= Taken /\ pushed'[i] = Current(c)
      BY <3>1, <3>2
    <3>4. (Awaited(c) /\ sender.pc = "answer") => ~StillOutstanding(Current(c))
      BY <1>0, <3>1 DEF Current
    <3> HIDE <1>0
    <3>5. sender' = sender /\ outcome' = outcome /\ Taken' = Taken
      BY <1>0
    <3> QED BY <2>2, <3>1, <3>3, <3>4, <3>5 DEF AwaitedIsTaken, Outstanding, StillOutstanding
  <2> QED BY <2>3, <2>4, <2>5, <2>6 DEF Placed
<1>4. CallIsNamed(c)'
  BY <1>0 DEF AnswersOf, CallIsNamed, Current
<1> QED BY <1>1, <1>2, <1>3, <1>4 DEF AnswersOf

\* What the sender's steps between drain and the result leave as it is.
LEMMA SenderMovesOn ==
    ASSUME NEW c \in Clients, AnswersOf(c),
           UNCHANGED << client, owner, requests, responses, removing, participating, pushed, outcome >>,
           sender'.fds = sender.fds, Taken' = Taken,
           sender.pc \in {"drained", "built"}, sender'.pc \in {"built", "replicate"}
    PROVE  AnswersOf(c)'
<1>1. (CallIsNamed(c) /\ AnsweredIsOwn(c) /\ ToldIsOwn(c))'
  BY DEF AnswersOf, CallIsNamed, AnsweredIsOwn, ToldIsOwn, Answered, Current, Outstanding
<1>2. ASSUME Connected(c)' PROVE Placed(c)'
  <2>1. Placed(c)
    BY <1>2 DEF AnswersOf, Connected
  <2>2. (IdleIsNowhere(c) /\ AskedIsNew(c) /\ ListedIsPushed(c))' /\ removing'[client'[c].fd] = 0
    BY <2>1 DEF Placed, IdleIsNowhere, AskedIsNew, ListedIsPushed, Asked, Listed, Awaited,
                Answered, Current
  <2>3. AwaitedIsTaken(c)'
    BY <2>1 DEF Placed, AwaitedIsTaken, Asked, Awaited, Answered, Current
  <2> QED BY <2>2, <2>3 DEF Placed
<1> QED BY <1>1, <1>2 DEF AnswersOf

\* A client without a live connection and without a response.
LEMMA Disconnected ==
    ASSUME NEW c \in Clients, ToldIsOwn(c)', ~Connected(c)', responses'[c] = << >>,
           client'[c].pc = "idle"
    PROVE  AnswersOf(c)'
  BY DEF AnswersOf, CallIsNamed, AnsweredIsOwn, Answered

LEMMA NoLongerConnected ==
    ASSUME NEW c \in Clients, client'[c].fd = NoFd
    PROVE  ~Connected(c)'
  BY DEF Connected

\* The steps of one client, for another.
LEMMA ClientElsewhere ==
    ASSUME BaseInv, NEW c \in Clients, NEW d \in Clients, c # d, ClientStep(d)
    PROVE  Elsewhere(c)
<1>0. /\ TypeInv /\ client \in [Clients -> ClientRecord] /\ responses \in [Clients -> Seq(Results)]
      /\ owner \in [Fds -> Clients \cup {NoClient, Ended}]
  BY DEF BaseInv, BufferInv, TypeInv
<1>1. CASE Connect(d)
  <2>1. /\ LowestFree \in Fds /\ owner' = [owner EXCEPT ![LowestFree] = d]
        /\ client'[c] = client[c] /\ responses'[c] = responses[c]
        /\ UNCHANGED << requests, removing, participating, sender, pushed, outcome >>
    BY <1>0, <1>1, ConnectRenews DEF Connect, Renewed, buffer
  <2>2. Connected(c)' => Connected(c)
    BY <2>1, <1>0, RecordFields DEF Connected
  <2> QED BY <2>1, <2>2 DEF Elsewhere, Outstanding, StillOutstanding
<1>2. CASE AppendFails(d)
  <2>1. /\ client'[c] = client[c] /\ responses'[c] = responses[c]
        /\ UNCHANGED << owner, requests, removing, participating, sender, pushed, outcome >>
    BY <1>0, <1>2, AppendFailsRenews DEF AppendFails, Renewed, net, buffer, history
  <2> QED BY <2>1 DEF Elsewhere, Connected, Outstanding, StillOutstanding
<1>3. CASE SendAppend(d)
  <2> DEFINE f == client[d].fd
             cmd == << d, client[d].n + 1 >>
  <2>1. /\ client'[c] = client[c] /\ responses'[c] = responses[c] /\ f \in Fds
        /\ UNCHANGED << owner, removing, participating, sender, pushed, outcome >>
    BY <1>0, <1>3, SendRenews DEF SendAppend, Renewed, buffer, history
  <2>2. CASE ~Connected(d)
    <3>1. requests' = requests
      BY <2>2, <1>0, <1>3, SendFacts
    <3> QED BY <2>1, <3>1 DEF Elsewhere, Connected, Outstanding, StillOutstanding
  <2>3. CASE Connected(d)
    <3>1. /\ requests[f] \in Seq(Commands) /\ cmd \in Commands
          /\ requests'[f] = Append(requests[f], cmd)
          /\ \A g \in Fds : g # f => requests'[g] = requests[g]
      BY <2>1, <2>3, <1>0, <1>3, SendFacts DEF TypeInv
    <3>2. cmd[1] = d
      OBVIOUS
    <3> HIDE DEF cmd
    <3>3. \A i \in 1..Len(requests'[f]) :
             (i \in 1..Len(requests[f]) /\ requests'[f][i] = requests[f][i]) \/ requests'[f][i] = cmd
      BY <3>1
    <3>4. ASSUME NEW n, StillOutstanding(<< c, n >>) PROVE Outstanding(<< c, n >>)
      <4>1. cmd # << c, n >>
        BY <3>2
      <4> QED BY <4>1, <3>1, <3>3, <3>4, <2>1 DEF Outstanding, StillOutstanding
    <3>5. Connected(c)' => Connected(c) /\ client[c].fd \in Fds /\ client[c].fd # f
      BY <2>1, <2>3, <1>0, RecordFields DEF Connected
    <3> QED BY <2>1, <3>1, <3>4, <3>5 DEF Elsewhere
  <2> QED BY <2>2, <2>3
<1>4. CASE RecvResponse(d)
  <2>1. /\ client'[c] = client[c] /\ responses'[c] = responses[c]
        /\ UNCHANGED << owner, requests, removing, participating, sender, pushed, outcome >>
    BY <1>0, <1>4, RecvRenews DEF RecvResponse, Renewed, buffer, history
  <2> QED BY <2>1 DEF Elsewhere, Connected, Outstanding, StillOutstanding
<1>5. CASE RecvFails(d)
  <2>1. /\ client'[c] = client[c] /\ responses'[c] = responses[c]
        /\ UNCHANGED << owner, requests, removing, participating, sender, pushed, outcome >>
    BY <1>0, <1>5, RecvFailsRenews, Emptied DEF RecvFails, Renewed, buffer, history
  <2> QED BY <2>1 DEF Elsewhere, Connected, Outstanding, StillOutstanding
<1>6. CASE Leave(d)
  <2>1. /\ client'[c] = client[c] /\ responses'[c] = responses[c]
        /\ owner' = [owner EXCEPT ![client[d].fd] = Ended]
        /\ UNCHANGED << requests, removing, participating, sender, pushed, outcome >>
    BY <1>0, <1>6, LeaveRenews, Emptied DEF Leave, Renewed, buffer, history
  <2>2. Connected(c)' => Connected(c)
    BY <2>1, <1>0, RecordFields, ClientAssumption DEF Connected
  <2> QED BY <2>1, <2>2 DEF Elsewhere, Outstanding, StillOutstanding
<1> QED BY <1>1, <1>2, <1>3, <1>4, <1>5, <1>6 DEF ClientStep

\* The network, the end of a connection and FREEZE.
LEMMA BreakElsewhere ==
    ASSUME BaseInv, NEW c \in Clients, NEW f \in Fds, Break(f)
    PROVE  Elsewhere(c)
<1>1. /\ owner \in [Fds -> Clients \cup {NoClient, Ended}] /\ client[c] \in ClientRecord
      /\ owner' = [owner EXCEPT ![f] = Ended]
      /\ UNCHANGED << client, requests, responses, removing, participating, sender, pushed, outcome >>
  BY DEF BaseInv, BufferInv, TypeInv, Break, buffer, history
<1>2. Connected(c)' => Connected(c)
  BY <1>1, RecordFields, ClientAssumption DEF Connected
<1> QED BY <1>1, <1>2 DEF Elsewhere, Outstanding, StillOutstanding

LEMMA HandleCloseElsewhere ==
    ASSUME BaseInv, NEW c \in Clients, NEW f \in Fds, HandleClose(f)
    PROVE  Elsewhere(c)
<1>0. TypeInv /\ client[c] \in ClientRecord
  BY DEF BaseInv, BufferInv, TypeInv
<1>1. /\ owner'[f] = NoClient /\ requests'[f] = << >>
      /\ \A g \in Fds : g # f => /\ owner'[g] = owner[g] /\ requests'[g] = requests[g]
                                 /\ removing'[g] = removing[g]
      /\ UNCHANGED << client, responses, participating, sender, pushed, outcome >>
  BY <1>0, HandleCloseFacts DEF buffer, history
<1>2. Connected(c)' => client[c].fd \in Fds /\ client[c].fd # f /\ Connected(c)
  BY <1>0, <1>1, RecordFields, ClientAssumption DEF Connected
<1>3. Len(<< >>) = 0 /\ 1..0 = {}
  OBVIOUS
<1>4. ASSUME NEW n, StillOutstanding(<< c, n >>) PROVE Outstanding(<< c, n >>)
  BY <1>1, <1>3, <1>4 DEF Outstanding, StillOutstanding
<1> QED BY <1>1, <1>2, <1>4 DEF Elsewhere

LEMMA HandleRemoveElsewhere ==
    ASSUME BaseInv, NEW c \in Clients, AnswersOf(c), NEW f \in Fds, HandleRemove(f)
    PROVE  Elsewhere(c)
<1>0. TypeInv /\ client[c] \in ClientRecord
  BY DEF BaseInv, BufferInv, TypeInv
<1>1. /\ removing[f] > 0 /\ participating' = participating \ {f}
      /\ \A g \in Fds : g # f => removing'[g] = removing[g]
      /\ UNCHANGED << client, owner, requests, responses, sender, pushed, outcome >>
  BY <1>0, HandleRemoveFacts DEF history
<1>2. Connected(c)' => client[c].fd \in Fds /\ client[c].fd # f /\ Connected(c)
  BY <1>0, <1>1, RecordFields DEF Connected, AnswersOf, Placed
<1> QED BY <1>1, <1>2 DEF Elsewhere, Outstanding, StillOutstanding

LEMMA QuietElsewhere ==
    ASSUME NEW c \in Clients, HandleFreeze \/ UNCHANGED vars
    PROVE  Elsewhere(c)
<1>1. UNCHANGED << client, owner, requests, responses, removing, participating, sender, pushed,
                   outcome >>
  BY DEF HandleFreeze, vars, net, buffer, history
<1> QED BY <1>1 DEF Elsewhere, Connected, Outstanding, StillOutstanding

\* An APPEND that is taken from its connection is outstanding already.
LEMMA AppendMoves ==
    ASSUME BaseInv, NEW f \in Fds, HandleAppend(f)
    PROVE  \A cmd : StillOutstanding(cmd) => Outstanding(cmd)
<1> SUFFICES ASSUME NEW cmd, StillOutstanding(cmd) PROVE Outstanding(cmd)
  OBVIOUS
<1>1. CASE \E j \in 1..Len(pushed') : pushed'[j] = cmd
  BY <1>1, MovedCommands DEF Outstanding
<1>2. CASE \E g \in Fds : \E i \in 1..Len(requests'[g]) : requests'[g][i] = cmd
  <2>0. PICK g \in Fds : \E i \in 1..Len(requests'[g]) : requests'[g][i] = cmd
    BY <1>2
  <2>1. PICK i \in 1..Len(requests'[g]) : requests'[g][i] = cmd
    BY <2>0
  <2>2. \E k \in 1..Len(requests[g]) : requests[g][k] = cmd
    <3>1. CASE i \in 1..Len(requests[g]) /\ requests'[g][i] = requests[g][i]
      BY <3>1, <2>1
    <3>2. CASE i + 1 \in 2..Len(requests[g]) /\ requests'[g][i] = requests[g][i + 1]
      <4>1. i + 1 \in 1..Len(requests[g])
        BY <3>2
      <4> QED BY <3>2, <4>1, <2>1
    <3> QED BY <3>1, <3>2, MovedCommands
  <2> QED BY <2>2 DEF Outstanding
<1> QED BY <1>1, <1>2 DEF StillOutstanding

\* The thread of another connection.
LEMMA HandleAppendElsewhere ==
    ASSUME BaseInv, NEW c \in Clients, NEW f \in Fds, HandleAppend(f),
           ~(Connected(c) /\ client[c].fd = f)
    PROVE  Elsewhere(c)
<1>0. BufferInv /\ TypeInv /\ OwnerInv /\ client[c] \in ClientRecord
  BY DEF BaseInv, BufferInv, ConnectionInv, TypeInv
<1>1. /\ \A g \in Fds : g # f => requests'[g] = requests[g]
      /\ UNCHANGED << client, owner, removing, sender, outcome >>
  BY <1>0, HandleAppendFacts
<1>2. owner[f] # c
  BY <1>0, NoFdIsNone DEF OwnerInv, Connected
<1>3. responses'[c] = responses[c]
  <2>1. CASE Pushes(f) \/ Drops
    BY <2>1 DEF Pushes, Drops
  <2>2. CASE Refuses(f)
    <3>1. {f} \in SUBSET Fds /\ "FAILURE" \in Results /\ Respond({f}, "FAILURE")
      BY <2>2 DEF Refuses, Results
    <3>2. \A d \in Clients : responses'[d] = IF \E g \in {f} : owner[g] = d
                                             THEN Append(responses[d], "FAILURE")
                                             ELSE responses[d]
      BY <3>1, <1>0, RespondFacts
    <3> QED BY <3>2, <1>2
  <2> QED BY <2>1, <2>2, <1>0, HandleAppendCases
<1>4. \A i \in 1..Len(pushed) : i \in 1..Len(pushed') /\ pushed'[i] = pushed[i]
  <2>1. CASE Pushes(f)
    BY <2>1, <1>0, PushFacts
  <2>2. CASE Drops \/ Refuses(f)
    BY <2>2 DEF Drops, Refuses
  <2> QED BY <2>1, <2>2, <1>0, HandleAppendCases
<1>5. \A n : StillOutstanding(<< c, n >>) => Outstanding(<< c, n >>)
  BY AppendMoves
<1>6. Connected(c)' => /\ Connected(c) /\ requests'[client[c].fd] = requests[client[c].fd]
                       /\ client[c].fd \in participating' <=> client[c].fd \in participating
  <2>1. Connected(c)' => Connected(c) /\ client[c].fd \in Fds /\ client[c].fd # f
    BY <1>0, <1>1, RecordFields DEF Connected
  <2>2. participating' = participating \/ participating' = participating \cup {f}
    BY <1>0, HandleAppendCases DEF Pushes, Drops, Refuses, buffer
  <2> QED BY <2>1, <2>2, <1>1
<1> QED BY <1>1, <1>3, <1>4, <1>5, <1>6 DEF Elsewhere

\* A connection on a clean descriptor starts with nothing to its name.
LEMMA ConnectOwn ==
    ASSUME BaseInv, NEW c \in Clients, Connect(c), c \in clean'
    PROVE  AnswersOf(c)'
<1>0. TypeInv /\ FreeInv
  BY DEF BaseInv, BufferInv, ConnectionInv
<1>1. PICK f \in Fds : f = LowestFree
  BY <1>0, ConnectRenews
<1>2. /\ owner[f] = NoClient /\ client'[c].fd = f /\ client'[c].told = {}
      /\ client'[c].pc = "idle"
  BY <1>0, <1>1, ConnectRenews DEF Renewed
<1>3. /\ f \notin sender.fds /\ ~(removing[f] > 0)
  <2>1. clean' = IF Due(f) THEN clean \ {c} ELSE clean \cup {c}
    BY <1>1 DEF Connect
  <2>2. ~Due(f)
    BY <2>1
  <2> QED BY <2>2 DEF Due
<1>4. removing[f] = 0
  <2>1. removing[f] \in Nat
    BY <1>0 DEF TypeInv
  <2> QED BY <2>1, <1>3
<1>5. /\ responses' = [responses EXCEPT ![c] = << >>]
      /\ UNCHANGED << requests, removing, participating, sender, pushed, outcome >>
  BY DEF Connect, buffer
<1>6. responses'[c] = << >> /\ requests[f] = << >> /\ f \notin participating
  BY <1>0, <1>2, <1>3, <1>5, Emptied DEF FreeInv
<1>7. Placed(c)'
  BY <1>2, <1>3, <1>4, <1>5, <1>6
     DEF Placed, IdleIsNowhere, AskedIsNew, ListedIsPushed, AwaitedIsTaken, Asked, Listed, Awaited
<1> QED BY <1>2, <1>6, <1>7 DEF AnswersOf, CallIsNamed, AnsweredIsOwn, ToldIsOwn, Answered

LEMMA ToldNumbers ==
    ASSUME TypeInv, NEW c \in Clients, NEW t \in client[c].told
    PROVE  t[1] \in Nat
<1>1. client[c].told \in SUBSET (Nat \X Results)
  BY RecordFields DEF TypeInv
<1> QED BY <1>1

\* A client of which nothing is told any more, or nothing new.
LEMMA AppendFailsOwn ==
    ASSUME BaseInv, NEW c \in Clients, AppendFails(c), AnswersOf(c)
    PROVE  AnswersOf(c)'
<1>0. TypeInv
  BY DEF BaseInv, BufferInv
<1>1. /\ client[c].n \in Nat /\ client'[c].n = client[c].n + 1 /\ client'[c].pc = "idle"
      /\ client'[c].fd = NoFd /\ client'[c].told = client[c].told /\ client[c].pc = "idle"
      /\ UNCHANGED << responses, requests, pushed, outcome >>
  BY <1>0, AppendFailsRenews DEF AppendFails, Renewed, net, history
<1>2. responses'[c] = << >>
  BY <1>1 DEF AnswersOf, AnsweredIsOwn, Answered
<1>3. ToldIsOwn(c)'
  <2> SUFFICES ASSUME NEW t \in client[c].told
               PROVE  /\ << c, t[1] >> \in Commands
                      /\ t[2] = "SUCCESS" <=> outcome[<< c, t[1] >>] = "SUCCESS"
                      /\ ~Outstanding(<< c, t[1] >>) /\ t[1] <= client[c].n + 1
    BY <1>1 DEF ToldIsOwn, Outstanding
  <2>1. /\ << c, t[1] >> \in Commands
        /\ t[2] = "SUCCESS" <=> outcome[<< c, t[1] >>] = "SUCCESS"
        /\ ~Outstanding(<< c, t[1] >>) /\ t[1] <= client[c].n
    BY DEF AnswersOf, ToldIsOwn
  <2>2. t[1] \in Nat
    BY <1>0, ToldNumbers
  <2> QED BY <2>1, <2>2, <1>1
<1> QED BY <1>1, <1>2, <1>3, Disconnected, NoLongerConnected

LEMMA RecvFailsOwn ==
    ASSUME BaseInv, NEW c \in Clients, RecvFails(c), AnswersOf(c)
    PROVE  AnswersOf(c)'
<1>0. TypeInv
  BY DEF BaseInv, BufferInv
<1>1. /\ client'[c].n = client[c].n /\ client'[c].pc = "idle"
      /\ client'[c].fd = NoFd /\ client'[c].told = client[c].told
      /\ responses'[c] = << >>
      /\ UNCHANGED << requests, pushed, outcome >>
  BY <1>0, RecvFailsRenews, Emptied DEF RecvFails, Renewed, history
<1>2. ToldIsOwn(c)'
  BY <1>1 DEF AnswersOf, ToldIsOwn, Outstanding
<1> QED BY <1>1, <1>2, Disconnected, NoLongerConnected

LEMMA LeaveOwn ==
    ASSUME BaseInv, NEW c \in Clients, Leave(c)
    PROVE  AnswersOf(c)'
<1>0. TypeInv
  BY DEF BaseInv, BufferInv
<1>1. /\ client'[c].fd = NoFd /\ client'[c].told = {} /\ responses'[c] = << >>
      /\ client'[c].pc = "idle"
  BY <1>0, LeaveRenews, Emptied DEF Leave, Renewed
<1> QED BY <1>1, Disconnected, NoLongerConnected DEF ToldIsOwn

\* The new command is the client's last, and on its descriptor alone.
LEMMA SendOwn ==
    ASSUME BaseInv, NEW c \in Clients, SendAppend(c), AnswersOf(c)
    PROVE  AnswersOf(c)'
<1>0. TypeInv
  BY DEF BaseInv, BufferInv
<1> DEFINE f == client[c].fd
           cmd == << c, client[c].n + 1 >>
<1>1. /\ f \in Fds /\ client[c].n \in Nat /\ client[c].pc = "idle"
      /\ client'[c].pc = "waiting" /\ client'[c].n = client[c].n + 1
      /\ client'[c].fd = f /\ client'[c].told = client[c].told
  BY <1>0, SendRenews DEF Renewed, SendAppend
<1>2. UNCHANGED << owner, responses, removing, participating, sender, pushed, outcome >>
  BY DEF SendAppend, buffer, history
<1>3. /\ cmd \in Commands
      /\ ~Connected(c) => requests' = requests
      /\ Connected(c) => /\ requests'[f] = Append(requests[f], cmd)
                         /\ \A g \in Fds : g # f => requests'[g] = requests[g]
  BY <1>0, SendFacts
<1>4. ~Answered(c) /\ responses'[c] = << >>
  BY <1>1, <1>2 DEF AnswersOf, AnsweredIsOwn, Answered
<1>5. ToldIsOwn(c)'
  <2>1. ASSUME NEW t \in client[c].told
        PROVE  /\ << c, t[1] >> \in Commands
               /\ t[2] = "SUCCESS" <=> outcome[<< c, t[1] >>] = "SUCCESS"
               /\ ~Outstanding(<< c, t[1] >>) /\ t[1] \in Nat
               /\ t[1] < client[c].n + 1 /\ t[1] <= client[c].n + 1
    <3>1. t[1] <= client[c].n /\ t[1] \in Nat
      BY <1>0, ToldNumbers DEF AnswersOf, ToldIsOwn
    <3>2. t[1] < client[c].n + 1 /\ t[1] <= client[c].n + 1
      <4>1. client[c].n \in Nat
        BY <1>1
      <4> QED BY <3>1, <4>1
    <3>3. /\ << c, t[1] >> \in Commands
          /\ t[2] = "SUCCESS" <=> outcome[<< c, t[1] >>] = "SUCCESS"
          /\ ~Outstanding(<< c, t[1] >>)
      BY DEF AnswersOf, ToldIsOwn
    <3> QED BY <3>1, <3>2, <3>3
  <2>2. ASSUME NEW t \in client[c].told PROVE ~StillOutstanding(<< c, t[1] >>)
    <3>0. t[1] # client[c].n + 1
      <4>1. t[1] \in Nat /\ t[1] < client[c].n + 1 /\ client[c].n \in Nat
        BY <2>1, <1>1
      <4> HIDE DEF cmd, f
      <4> QED BY <4>1
    <3>1. cmd # << c, t[1] >>
      BY <3>0
    <3> HIDE DEF cmd
    <3>2. ~Outstanding(<< c, t[1] >>)
      BY <2>1
    <3>3. CASE ~Connected(c)
      BY <3>2, <3>3, <1>2, <1>3 DEF Outstanding, StillOutstanding
    <3>4. CASE Connected(c)
      <4>1. requests[f] \in Seq(Commands)
        BY <1>0, <1>1 DEF TypeInv
      <4>2. \A i \in 1..Len(requests'[f]) :
               (i \in 1..Len(requests[f]) /\ requests'[f][i] = requests[f][i]) \/ requests'[f][i] = cmd
        BY <4>1, <3>4, <1>3
      <4> QED BY <4>2, <3>1, <3>2, <3>4, <1>1, <1>2, <1>3 DEF Outstanding, StillOutstanding
    <3> QED BY <3>3, <3>4
  <2> QED BY <2>1, <2>2, <1>1, <1>2 DEF ToldIsOwn, Outstanding, StillOutstanding
<1>6. ASSUME Connected(c)' PROVE Placed(c)'
  <2>1. Connected(c) /\ Placed(c)
    BY <1>1, <1>2, <1>6 DEF Connected, AnswersOf
  <2>2. requests[f] = << >> /\ f \notin participating /\ f \notin sender.fds /\ removing[f] = 0
    BY <2>1, <1>1 DEF Placed, IdleIsNowhere, Asked, Listed, Awaited
  <2>3. requests'[f] = << cmd >>
    BY <2>1, <2>2, <1>3
  <2>4. outcome[cmd] = ""
    BY <1>3, NewCommand
  <2>5. Current(c)' = cmd
    BY <1>1 DEF Current
  <2> QED BY <2>2, <2>3, <2>4, <2>5, <1>1, <1>2, <1>4
          DEF Placed, IdleIsNowhere, AskedIsNew, ListedIsPushed, AwaitedIsTaken,
              Asked, Listed, Awaited, Answered
<1>7. Current(c)' \in Commands
  BY <1>1, <1>3 DEF Current
<1> QED BY <1>4, <1>5, <1>6, <1>7 DEF AnswersOf, CallIsNamed, AnsweredIsOwn, Answered

\* What is received is the only response, and the result of the last command.
LEMMA RecvOwn ==
    ASSUME BaseInv, NEW c \in Clients, RecvResponse(c), AnswersOf(c)
    PROVE  AnswersOf(c)'
<1>0. TypeInv
  BY DEF BaseInv, BufferInv
<1>1. /\ client[c].n \in Nat /\ client'[c].n = client[c].n /\ client'[c].pc = "idle"
      /\ client'[c].fd = client[c].fd
      /\ client'[c].told = client[c].told \cup {<< client[c].n, Head(responses[c]) >>}
      /\ responses'[c] = Tail(responses[c])
  BY <1>0, RecvRenews, NumberType DEF Renewed
<1>2. UNCHANGED << owner, requests, removing, participating, sender, pushed, outcome >>
  BY DEF RecvResponse, buffer, history
<1>3. Answered(c) /\ client[c].pc = "waiting"
  BY DEF RecvResponse, Answered
<1>8. Current(c) \in Commands
  BY <1>3 DEF AnswersOf, CallIsNamed
<1>4. PICK r \in Results : /\ responses[c] = << r >> /\ ~Outstanding(Current(c))
                           /\ r = "SUCCESS" <=> outcome[Current(c)] = "SUCCESS"
  BY <1>3 DEF AnswersOf, AnsweredIsOwn
<1>5. responses'[c] = << >> /\ Head(responses[c]) = r
  BY <1>1, <1>4
<1>6. ToldIsOwn(c)'
  <2> SUFFICES ASSUME NEW t \in client'[c].told
               PROVE  /\ << c, t[1] >> \in Commands
                      /\ t[2] = "SUCCESS" <=> outcome[<< c, t[1] >>] = "SUCCESS"
                      /\ ~Outstanding(<< c, t[1] >>) /\ t[1] <= client[c].n
    BY <1>1, <1>2 DEF ToldIsOwn, Outstanding
  <2>1. CASE t \in client[c].told
    BY <2>1 DEF AnswersOf, ToldIsOwn
  <2>2. CASE t = << client[c].n, r >>
    BY <2>2, <1>1, <1>4, <1>8 DEF Current
  <2> QED BY <2>1, <2>2, <1>1, <1>5
<1>7. ASSUME Connected(c)' PROVE Placed(c)'
  <2>1. Connected(c) /\ Placed(c)
    BY <1>1, <1>2, <1>7 DEF Connected, AnswersOf
  <2>2. ~Asked(c) /\ ~Listed(c) /\ ~Awaited(c) /\ removing[client[c].fd] = 0
    BY <2>1, <1>3 DEF Placed, AskedIsNew, ListedIsPushed, AwaitedIsTaken
  <2> QED BY <2>2, <1>1, <1>2
          DEF Placed, IdleIsNowhere, AskedIsNew, ListedIsPushed, AwaitedIsTaken,
              Asked, Listed, Awaited
<1> QED BY <1>1, <1>5, <1>6, <1>7 DEF AnswersOf, CallIsNamed, AnsweredIsOwn, Answered

\* What the answers need to know of the client's descriptor, in any state.
LEMMA OwnDescriptor ==
    ASSUME BaseInv, NEW c \in Clients, Connected(c)
    PROVE  client[c].fd \in Fds /\ \A f \in Fds : owner[f] = c <=> f = client[c].fd
<1>1. client[c].fd \in Fds
  BY RecordFields DEF BaseInv, BufferInv, TypeInv, Connected
<1> QED BY <1>1 DEF BaseInv, ConnectionInv, OwnerInv, Connected


LEMMA TakenNumber == ASSUME BufferInv PROVE Taken \in Nat
<1>1. sender.len \in Nat /\ Len(sender.data) \in Nat
  BY BatchFields DEF BufferInv, TypeInv
<1> QED BY <1>1 DEF Taken

LEMMA OneCommand ==
    ASSUME NEW x
    PROVE  Len(<< x >>) = 1 /\ << x >>[1] = x /\ 1 \in 1..1
  OBVIOUS

\* The thread of the client's own connection.
LEMMA HandleAppendOwn ==
    ASSUME BaseInv, NEW c \in Clients, AnswersOf(c), NEW f \in Fds, client[c].fd = f, owner[f] = c,
           HandleAppend(f)
    PROVE  AnswersOf(c)'
<1>0. BufferInv /\ TypeInv /\ UniqueInv /\ Connected(c)
  BY NoFdIsNone DEF BaseInv, BufferInv, ConnectionInv, Connected
<1> PICK cmd : cmd = Current(c)
  OBVIOUS
<1>1. /\ requests[f] # << >>
      /\ Len(requests'[f]) = Len(requests[f]) - 1
      /\ requests'[f] \in Seq(Commands)
      /\ UNCHANGED << client, owner, removing, sender, outcome >>
  BY <1>0, HandleAppendFacts DEF HandleAppend
<1>2. Placed(c) /\ Asked(c)
  BY <1>0, <1>1 DEF AnswersOf, Asked
<1>3. /\ requests[f] = << cmd >> /\ f \notin participating /\ f \notin sender.fds
      /\ responses[c] = << >> /\ outcome[cmd] = "" /\ client[c].pc = "waiting"
      /\ removing[f] = 0
  <2>1. client[c].pc \in {"idle", "waiting"}
    BY <1>0, RecordFields DEF TypeInv
  <2> QED BY <1>2, <2>1 DEF Placed, AskedIsNew, IdleIsNowhere, Listed, Awaited, Answered
<1>4. requests'[f] = << >>
  <2>1. Len(requests[f]) = 1
    BY <1>3, OneCommand
  <2>2. Len(requests'[f]) = Len(requests[f]) - 1 /\ requests'[f] \in Seq(Commands)
    BY <1>1
  <2>3. Len(requests'[f]) = 0
    BY <2>1, <2>2
  <2> QED BY <2>2, <2>3, EmptySeq
<1>5. ToldIsOwn(c)'
  <2>1. \A cm : StillOutstanding(cm) => Outstanding(cm)
    BY <1>0, AppendMoves
  <2> SUFFICES ASSUME NEW t \in client[c].told
               PROVE  /\ << c, t[1] >> \in Commands
                      /\ t[2] = "SUCCESS" <=> outcome[<< c, t[1] >>] = "SUCCESS"
                      /\ ~StillOutstanding(<< c, t[1] >>)
                      /\ t[1] <= client[c].n
                      /\ client[c].pc = "waiting" => t[1] < client[c].n
    BY <1>1 DEF ToldIsOwn, Outstanding, StillOutstanding
  <2> QED BY <2>1 DEF AnswersOf, ToldIsOwn
<1>8. CallIsNamed(c)'
  BY <1>1 DEF AnswersOf, CallIsNamed, Current
<1>6. CASE Pushes(f)
  <2>1. /\ f \in participating' /\ responses'[c] = << >>
        /\ Len(pushed) + 1 \in 1..Len(pushed') /\ pushed'[Len(pushed) + 1] = cmd
        /\ Len(pushed) + 1 > Taken'
    <3>1. /\ Taken <= Len(pushed) /\ Taken' = Taken
          /\ Len(pushed) \in Nat /\ Len(pushed') = Len(pushed) + 1
          /\ pushed'[Len(pushed) + 1] = requests[f][1]
      BY <1>0, <1>6, PushFacts
    <3>2. Taken \in Nat
      BY <1>0, TakenNumber
    <3>3. Len(pushed) + 1 \in 1..Len(pushed') /\ Len(pushed) + 1 > Taken'
      BY <3>1, <3>2
    <3>4. f \in participating' /\ responses'[c] = << >>
      BY <1>3, <1>6 DEF Pushes
    <3>5. pushed'[Len(pushed) + 1] = cmd
      BY <1>3, <3>1, OneCommand
    <3> QED BY <3>3, <3>4, <3>5
  <2>2. ListedIsPushed(c)'
    BY <2>1, <1>1, <1>3, <1>4 DEF ListedIsPushed, Asked, Awaited, Answered, Current
  <2>3. Placed(c)'
    BY <2>2, <1>1, <1>3, <1>4
       DEF Placed, IdleIsNowhere, AskedIsNew, AwaitedIsTaken, Asked, Awaited
  <2> QED BY <2>1, <2>3, <1>5, <1>8 DEF AnswersOf, AnsweredIsOwn, Answered
<1>7. CASE Drops \/ Refuses(f)
  <2>1. participating' = participating /\ pushed' = pushed
    BY <1>7 DEF Drops, Refuses, buffer
  <2>2. Placed(c)'
    BY <2>1, <1>1, <1>3, <1>4
       DEF Placed, IdleIsNowhere, AskedIsNew, ListedIsPushed, AwaitedIsTaken, Asked, Listed, Awaited
  <2>3. AnsweredIsOwn(c)'
    <3>1. CASE Drops
      BY <3>1, <1>3 DEF Drops, AnsweredIsOwn, Answered
    <3>2. CASE Refuses(f)
      <4>1. responses'[c] = << "FAILURE" >>
        <5>1. \A d \in Clients : responses'[d] = IF \E g \in {f} : owner[g] = d
                                                THEN Append(responses[d], "FAILURE")
                                                ELSE responses[d]
          <6>1. {f} \in SUBSET Fds /\ "FAILURE" \in Results /\ Respond({f}, "FAILURE")
            BY <3>2 DEF Refuses, Results
          <6> QED BY <6>1, <1>0, RespondFacts
        <5>2. responses'[c] = Append(<< >>, "FAILURE")
          BY <5>1, <1>3
        <5> QED BY <5>2
      <4>2. ~StillOutstanding(cmd)
        <5>0. requests[f][1] = cmd /\ 1 \in 1..Len(requests[f]) /\ Len(requests[f]) = 1
          BY <1>3, OneCommand
        <5>1. \A j \in 1..Len(pushed') : pushed'[j] # cmd
          BY <2>1, <5>0, <1>0 DEF UniqueInv
        <5>2. ASSUME NEW g \in Fds, NEW i \in 1..Len(requests'[g]), requests'[g][i] = cmd
              PROVE  FALSE
          <6>1. CASE g # f /\ i \in 1..Len(requests[g]) /\ requests'[g][i] = requests[g][i]
            <7>1. \A h, k \in Fds : \A i1 \in 1..Len(requests[h]), j1 \in 1..Len(requests[k]) :
                     requests[h][i1] = requests[k][j1] => h = k
              BY <1>0 DEF UniqueInv
            <7>2. requests[g][i] = requests[f][1] /\ i \in 1..Len(requests[g])
              BY <6>1, <5>0, <5>2
            <7> QED BY <6>1, <7>1, <7>2, <5>0
          <6>2. CASE g = f /\ i \in Nat /\ i + 1 \in 2..Len(requests[f])
            BY <6>2, <5>0
          <6> QED BY <6>1, <6>2, <1>0, MovedCommands
        <5> QED BY <5>1, <5>2 DEF StillOutstanding
      <4>3. outcome'[cmd] # "SUCCESS" /\ client'[c].pc = "waiting" /\ Current(c)' = cmd
        BY <1>1, <1>3 DEF Current
      <4>4. "FAILURE" \in Results
        BY DEF Results
      <4>5. ~Outstanding(Current(c))'
        BY <4>2, <4>3 DEF Outstanding, StillOutstanding
      <4> QED BY <4>1, <4>3, <4>4, <4>5 DEF AnsweredIsOwn
    <3> QED BY <1>7, <3>1, <3>2
  <2> QED BY <2>2, <2>3, <1>5, <1>8 DEF AnswersOf
<1> QED BY <1>0, <1>6, <1>7, HandleAppendCases

\* The sender's steps.
LEMMA DrainOwn ==
    ASSUME BaseInv, NEW c \in Clients, AnswersOf(c), Drain
    PROVE  AnswersOf(c)'
<1>0. BufferInv
  BY DEF BaseInv
<1>1. /\ sender'.pc = "drained" /\ sender'.len = used /\ sender'.fds = participating
      /\ sender.pc = "idle" /\ sender.fds = {} /\ participating' = {}
      /\ Len(pushed) = used
      /\ UNCHANGED << client, owner, requests, responses, removing, pushed, outcome >>
  BY <1>0, DrainFacts DEF net, history
<1>2. (CallIsNamed(c) /\ AnsweredIsOwn(c) /\ ToldIsOwn(c))'
  BY <1>1 DEF AnswersOf, CallIsNamed, AnsweredIsOwn, ToldIsOwn, Answered, Current, Outstanding
<1>3. ASSUME Connected(c)' PROVE Placed(c)'
  <2>1. Placed(c)
    BY <1>1, <1>3 DEF AnswersOf, Connected
  <2>2. /\ ~Listed(c)' /\ (Awaited(c)' <=> Listed(c)) /\ (Asked(c)' <=> Asked(c))
        /\ (Answered(c)' <=> Answered(c)) /\ Current(c)' = Current(c)
    BY <1>1 DEF Listed, Awaited, Asked, Answered, Current
  <2>3. /\ removing'[client'[c].fd] = 0
        /\ IdleIsNowhere(c)' /\ AskedIsNew(c)' /\ ListedIsPushed(c)'
    BY <2>1, <2>2, <1>1 DEF Placed, IdleIsNowhere, AskedIsNew, ListedIsPushed, Asked
  <2>4. AwaitedIsTaken(c)'
    <3>1. SUFFICES ASSUME Listed(c)
                   PROVE  /\ ~Asked(c) /\ ~Answered(c)
                          /\ \E i \in 1..Len(pushed) : i <= Taken' /\ pushed[i] = Current(c)
      BY <2>2, <1>1 DEF AwaitedIsTaken
    <3>2. Taken' = Len(pushed)
      BY <3>1, <1>1 DEF Taken, Listed
    <3>3. Len(pushed) \in Nat
      BY <1>0, BufferNumbers
    <3> QED BY <2>1, <3>1, <3>2, <3>3 DEF Placed, ListedIsPushed
  <2> QED BY <2>3, <2>4 DEF Placed
<1> QED BY <1>2, <1>3 DEF AnswersOf

LEMMA BuildOwn ==
    ASSUME BaseInv, NEW c \in Clients, AnswersOf(c), Build
    PROVE  AnswersOf(c)'
<1>1. /\ sender.pc = "drained" /\ sender'.pc = "built" /\ sender'.fds = sender.fds
      /\ Taken' = Taken /\ UNCHANGED << client, net, proxy, history, buffer >>
  BY BuildFacts DEF BaseInv
<1> QED BY <1>1, SenderMovesOn DEF net, history, buffer

LEMMA ReleaseOwn ==
    ASSUME BaseInv, NEW c \in Clients, AnswersOf(c), Release
    PROVE  AnswersOf(c)'
<1>1. /\ sender.pc = "built" /\ sender'.pc = "replicate" /\ sender'.fds = sender.fds
      /\ sender'.data = sender.data /\ participating' = participating
      /\ UNCHANGED << client, net, proxy, history >>
  BY ReleaseFacts DEF BaseInv, BufferInv
<1>2. Taken' = Taken
  BY <1>1 DEF Taken, BaseInv, BufferInv, FifoInv
<1> QED BY <1>1, <1>2, SenderMovesOn DEF net, history

\* The result reaches the commands of the batch, and no other.
LEMMA ReplicateOwn ==
    ASSUME BaseInv, NEW c \in Clients, AnswersOf(c), NEW r \in Results, Replicate(r)
    PROVE  AnswersOf(c)'
<1>0. BufferInv /\ TypeInv /\ UniqueInv
  BY DEF BaseInv, BufferInv, ConnectionInv
<1>1. /\ sender.pc = "replicate" /\ sender'.pc = "answer" /\ sender'.result = r
      /\ sender'.fds = sender.fds
      /\ UNCHANGED << client, owner, requests, responses, removing, participating >>
  BY <1>0, ReplicateFacts DEF net, buffer
<1>2. /\ Taken \in Nat /\ Len(pushed) \in Nat /\ Taken <= Len(pushed) /\ Taken' = 0
      /\ Len(pushed') = Len(pushed) - Taken
  BY <1>0, ReplicateFacts, BufferNumbers
<1>3. \A i \in 1..Len(pushed') :
         i \in Nat /\ Taken + i \in 1..Len(pushed) /\ pushed'[i] = pushed[Taken + i]
  BY ReplicatedCommands
<1>4. \A cmd : StillOutstanding(cmd) => Outstanding(cmd)
  BY <1>1, <1>3 DEF StillOutstanding, Outstanding
<1>5. \A cmd \in Commands : outcome'[cmd] = IF \E i \in 1..Taken : pushed[i] = cmd
                                            THEN r ELSE outcome[cmd]
  BY <1>0, ReplicateFacts
<1>6. \A i \in 1..Taken : i \in 1..Len(pushed)
  BY <1>2
<1>7. ASSUME NEW cmd \in Commands, ~Outstanding(cmd) PROVE outcome'[cmd] = outcome[cmd]
  BY <1>5, <1>6, <1>7 DEF Outstanding
<1>8. CallIsNamed(c)'
  BY <1>1 DEF AnswersOf, CallIsNamed, Current
<1>9. AnsweredIsOwn(c)'
  <2> SUFFICES ASSUME responses[c] # << >>
               PROVE  /\ client[c].pc = "waiting" /\ ~StillOutstanding(Current(c))
                      /\ \E s \in Results : /\ responses[c] = << s >>
                                            /\ s = "SUCCESS" <=> outcome'[Current(c)] = "SUCCESS"
    BY <1>1 DEF AnsweredIsOwn, Answered, Current, Outstanding, StillOutstanding
  <2>1. /\ client[c].pc = "waiting" /\ ~Outstanding(Current(c)) /\ Current(c) \in Commands
        /\ \E s \in Results : /\ responses[c] = << s >>
                              /\ s = "SUCCESS" <=> outcome[Current(c)] = "SUCCESS"
    BY DEF AnswersOf, AnsweredIsOwn, Answered, CallIsNamed
  <2> QED BY <2>1, <1>4, <1>7
<1>10. ToldIsOwn(c)'
  <2> SUFFICES ASSUME NEW t \in client[c].told
               PROVE  /\ << c, t[1] >> \in Commands
                      /\ t[2] = "SUCCESS" <=> outcome'[<< c, t[1] >>] = "SUCCESS"
                      /\ ~StillOutstanding(<< c, t[1] >>)
                      /\ t[1] <= client[c].n
                      /\ client[c].pc = "waiting" => t[1] < client[c].n
    BY <1>1 DEF ToldIsOwn, Outstanding, StillOutstanding
  <2>1. /\ << c, t[1] >> \in Commands
        /\ t[2] = "SUCCESS" <=> outcome[<< c, t[1] >>] = "SUCCESS"
        /\ ~Outstanding(<< c, t[1] >>)
        /\ t[1] <= client[c].n
        /\ client[c].pc = "waiting" => t[1] < client[c].n
    BY DEF AnswersOf, ToldIsOwn
  <2> QED BY <2>1, <1>4, <1>7
<1>11. ASSUME Connected(c)' PROVE Placed(c)'
  <2> PICK cmd : cmd = Current(c)
    OBVIOUS
  <2>1. Placed(c) /\ client[c].fd \in Fds
    BY <1>1, <1>11, OwnDescriptor DEF AnswersOf, Connected
  <2>2. /\ (Listed(c)' <=> Listed(c)) /\ (Awaited(c)' <=> Awaited(c)) /\ (Asked(c)' <=> Asked(c))
        /\ (Answered(c)' <=> Answered(c)) /\ Current(c)' = cmd
        /\ removing'[client'[c].fd] = 0 /\ requests'[client'[c].fd] = requests[client[c].fd]
    BY <1>1, <2>1 DEF Listed, Awaited, Asked, Answered, Current, Placed
  <2>3. IdleIsNowhere(c)'
    BY <2>1, <2>2, <1>1 DEF Placed, IdleIsNowhere
  <2>4. AskedIsNew(c)'
    <3>1. SUFFICES ASSUME Asked(c)
                   PROVE  /\ requests[client[c].fd] = << cmd >>
                          /\ ~Listed(c) /\ ~Awaited(c) /\ ~Answered(c) /\ outcome'[cmd] = ""
      BY <2>2 DEF AskedIsNew
    <3>2. /\ requests[client[c].fd] = << cmd >>
          /\ ~Listed(c) /\ ~Awaited(c) /\ ~Answered(c) /\ outcome[cmd] = ""
      BY <2>1, <3>1 DEF Placed, AskedIsNew
    <3>3. 1 \in 1..Len(requests[client[c].fd]) /\ requests[client[c].fd][1] = cmd
      BY <3>2, OneCommand
    <3>4. cmd \in Commands
      BY <2>1, <3>3, <1>0, CommandsOf
    <3>5. ~\E i \in 1..Taken : pushed[i] = cmd
      BY <1>0, <1>6, <2>1, <3>3 DEF UniqueInv
    <3> QED BY <3>2, <3>4, <3>5, <1>5
  <2>5. ListedIsPushed(c)'
    <3>1. SUFFICES ASSUME Listed(c)
                   PROVE  /\ ~Asked(c) /\ ~Awaited(c) /\ ~Answered(c)
                          /\ \E i \in 1..Len(pushed') : i > 0 /\ pushed'[i] = cmd
      BY <2>2, <1>2 DEF ListedIsPushed
    <3>2. ~Asked(c) /\ ~Awaited(c) /\ ~Answered(c)
      BY <2>1, <3>1 DEF Placed, ListedIsPushed
    <3>3. PICK j \in 1..Len(pushed) : j > Taken /\ pushed[j] = cmd
      BY <2>1, <3>1 DEF Placed, ListedIsPushed
    <3>4. PICK i : i = j - Taken
      OBVIOUS
    <3>5. i \in 1..Len(pushed') /\ i > 0 /\ Taken + i = j
      BY <3>3, <3>4, <1>2
    <3>6. pushed'[i] = cmd
      BY <3>3, <3>5, <1>3
    <3> QED BY <3>2, <3>5, <3>6
  <2>6. AwaitedIsTaken(c)'
    <3>1. SUFFICES ASSUME Awaited(c)
                   PROVE  /\ ~Asked(c) /\ ~Answered(c) /\ outcome'[cmd] = r
                          /\ ~StillOutstanding(cmd)
      BY <2>2, <1>1 DEF AwaitedIsTaken, Outstanding, StillOutstanding
    <3>2. ~Asked(c) /\ ~Answered(c)
      BY <2>1, <3>1 DEF Placed, AwaitedIsTaken
    <3>3. PICK i \in 1..Len(pushed) : i <= Taken /\ pushed[i] = cmd
      BY <2>1, <3>1, <1>1 DEF Placed, AwaitedIsTaken
    <3>4. cmd \in Commands /\ i \in 1..Taken
      BY <3>3, <1>0, <1>2, CommandsOf
    <3>5. outcome'[cmd] = r
      BY <3>3, <3>4, <1>5
    <3>6. ASSUME NEW j \in 1..Len(pushed'), pushed'[j] = cmd PROVE FALSE
      <4>1. j \in 1..Len(pushed') /\ Taken + j \in 1..Len(pushed) /\ pushed[Taken + j] = pushed[i]
        BY <1>3, <3>3, <3>6
      <4>2. Taken + j = i
        BY <4>1, <1>0 DEF UniqueInv
      <4> QED BY <4>1, <4>2, <3>4, <1>2
    <3>7. ASSUME NEW g \in Fds, NEW j \in 1..Len(requests'[g]), requests'[g][j] = cmd PROVE FALSE
      BY <1>0, <1>1, <3>3, <3>7 DEF UniqueInv
    <3> QED BY <3>2, <3>5, <3>6, <3>7 DEF StillOutstanding
  <2> QED BY <2>2, <2>3, <2>4, <2>5, <2>6 DEF Placed
<1> QED BY <1>8, <1>9, <1>10, <1>11 DEF AnswersOf

\* An answer reaches the client whose command was in the batch.
LEMMA AnswerOwn ==
    ASSUME BaseInv, NEW c \in Clients, AnswersOf(c), AnswerAll
    PROVE  AnswersOf(c)'
<1>0. TypeInv
  BY DEF BaseInv, BufferInv
<1>1. /\ sender.pc = "answer" /\ sender.result \in Results
      /\ sender'.pc = "idle" /\ sender'.fds = {}
      /\ UNCHANGED << client, owner, requests, removing, participating, pushed, outcome >>
  BY <1>0, AnswerFacts DEF buffer, history
<1>2. responses'[c] = IF \E f \in sender.fds : owner[f] = c
                      THEN Append(responses[c], sender.result) ELSE responses[c]
  BY <1>0, AnswerFacts
<1>3. (CallIsNamed(c) /\ ToldIsOwn(c))'
  BY <1>1 DEF AnswersOf, CallIsNamed, ToldIsOwn, Current, Outstanding
<1>4. sender.fds \subseteq Fds
  BY <1>0, BatchFields DEF TypeInv
<1>5. (\E f \in sender.fds : owner[f] = c) <=> Connected(c) /\ Awaited(c)
  <2>1. CASE Connected(c)
    BY <2>1, <1>4, OwnDescriptor DEF Awaited
  <2>2. CASE ~Connected(c)
    BY <2>2, <1>4, NotConnected
  <2> QED BY <2>1, <2>2
<1>6. CASE Connected(c) /\ Awaited(c)
  <2>1. Placed(c)
    BY <1>6 DEF AnswersOf
  <2>2. responses[c] = << >> /\ ~Asked(c) /\ ~Outstanding(Current(c))
        /\ outcome[Current(c)] = sender.result
    BY <2>1, <1>1, <1>6 DEF Placed, AwaitedIsTaken, Answered
  <2>3. client[c].pc = "waiting" /\ ~Listed(c)
    <3>1. client[c].pc \in {"idle", "waiting"}
      BY <1>0, RecordFields DEF TypeInv
    <3> QED BY <2>1, <3>1, <1>6 DEF Placed, IdleIsNowhere, ListedIsPushed
  <2>4. responses'[c] = << sender.result >>
    <3>1. responses'[c] = Append(<< >>, sender.result)
      BY <1>2, <1>5, <1>6, <2>2
    <3> QED BY <3>1
  <2>5. AnsweredIsOwn(c)'
    BY <2>2, <2>3, <2>4, <1>1 DEF AnsweredIsOwn, Current, Outstanding
  <2>6. Placed(c)'
    BY <2>1, <2>2, <2>3, <1>1
       DEF Placed, IdleIsNowhere, AskedIsNew, ListedIsPushed, AwaitedIsTaken, Asked, Listed, Awaited
  <2> QED BY <1>3, <2>5, <2>6 DEF AnswersOf
<1>7. CASE ~(Connected(c) /\ Awaited(c))
  <2>1. responses'[c] = responses[c]
    BY <1>2, <1>5, <1>7
  <2>2. AnsweredIsOwn(c)'
    BY <2>1, <1>1 DEF AnswersOf, AnsweredIsOwn, Answered, Current, Outstanding
  <2>3. ASSUME Connected(c)' PROVE Placed(c)'
    <3>1. Connected(c) /\ Placed(c) /\ ~Awaited(c)
      BY <2>3, <1>1, <1>7 DEF AnswersOf, Connected
    <3>2. Taken' = 0 /\ Taken = 0
      BY <1>1 DEF Taken
    <3> QED BY <3>1, <3>2, <2>1, <1>1
            DEF Placed, IdleIsNowhere, AskedIsNew, ListedIsPushed, AwaitedIsTaken,
                Asked, Listed, Awaited, Answered, Current
  <2> QED BY <1>3, <2>2, <2>3 DEF AnswersOf
<1> QED BY <1>6, <1>7

LEMMA ExitOwn ==
    ASSUME BaseInv, NEW c \in Clients, AnswersOf(c), TimerExits
    PROVE  AnswersOf(c)'
<1>1. /\ sender.pc = "idle" /\ sender.fds = {} /\ sender'.pc = "exited" /\ sender'.fds = {}
      /\ UNCHANGED << client, owner, requests, responses, removing, participating, pushed, outcome >>
  BY ExitFacts DEF BaseInv, BufferInv, TypeInv, net, buffer, history
<1>2. (CallIsNamed(c) /\ AnsweredIsOwn(c) /\ ToldIsOwn(c))'
  BY <1>1 DEF AnswersOf, CallIsNamed, AnsweredIsOwn, ToldIsOwn, Answered, Current, Outstanding
<1>3. ASSUME Connected(c)' PROVE Placed(c)'
  <2>1. Placed(c)
    BY <1>1, <1>3 DEF AnswersOf, Connected
  <2>2. Taken' = 0 /\ Taken = 0
    BY <1>1 DEF Taken
  <2> QED BY <2>1, <2>2, <1>1
          DEF Placed, IdleIsNowhere, AskedIsNew, ListedIsPushed, AwaitedIsTaken,
              Asked, Listed, Awaited, Answered, Current
<1> QED BY <1>2, <1>3 DEF AnswersOf

\* A step keeps what is said of a client, or makes it true.
LEMMA StepKeepsAnswers == BaseInv /\ AnswerInv /\ [Next]_vars => AnswerInv'
<1> SUFFICES ASSUME BaseInv, AnswerInv, [Next]_vars, NEW c \in clean'
             PROVE  AnswersOf(c)'
  BY DEF AnswerInv
<1>0. clean \subseteq Clients /\ TypeInv
  BY DEF BaseInv, BufferInv, TypeInv
<1>1. ASSUME NEW d \in Clients, Connect(d) PROVE AnswersOf(c)'
  <2>1. c \in Clients /\ (c # d => c \in clean)
    BY <1>0, <1>1 DEF Connect
  <2>2. CASE c = d
    BY <2>1, <2>2, <1>1, ConnectOwn
  <2>3. CASE c # d
    <3>1. ClientStep(d) /\ AnswersOf(c)
      BY <2>1, <2>3, <1>1 DEF ClientStep, AnswerInv
    <3>2. Elsewhere(c)
      BY <2>1, <2>3, <3>1, ClientElsewhere
    <3> QED BY <2>1, <3>1, <3>2, ElsewhereKeepsAnswers
  <2> QED BY <2>2, <2>3
<1>2. CASE ~\E d \in Clients : Connect(d)
  <2>1. clean' = clean
    BY <1>2 DEF Next, ClientStep, SenderStep, Idle, AppendFails, SendAppend, RecvResponse,
                RecvFails, Leave, Break, HandleAppend, HandleClose, HandleRemove, HandleFreeze,
                SenderTo, Drain, Build, Release, Replicate, AnswerAll, TimerExits, vars, history
  <2>2. c \in Clients /\ AnswersOf(c)
    BY <2>1, <1>0 DEF AnswerInv
  <2>3. Elsewhere(c) => AnswersOf(c)'
    BY <2>2, ElsewhereKeepsAnswers
  <2>4. ASSUME NEW d \in Clients, ClientStep(d) PROVE AnswersOf(c)'
    <3>1. CASE c # d
      BY <2>2, <2>3, <2>4, <3>1, ClientElsewhere
    <3>2. CASE c = d
      BY <2>2, <2>4, <3>2, <1>2, AppendFailsOwn, SendOwn, RecvOwn, RecvFailsOwn, LeaveOwn
         DEF ClientStep
    <3> QED BY <3>1, <3>2
  <2>5. ASSUME NEW f \in Fds, HandleAppend(f) PROVE AnswersOf(c)'
    <3>1. CASE Connected(c) /\ client[c].fd = f
      BY <2>2, <2>5, <3>1, HandleAppendOwn DEF Connected
    <3>2. CASE ~(Connected(c) /\ client[c].fd = f)
      BY <2>2, <2>3, <2>5, <3>2, HandleAppendElsewhere
    <3> QED BY <3>1, <3>2
  <2>6. ASSUME NEW f \in Fds, Break(f) \/ HandleClose(f) \/ HandleRemove(f) PROVE AnswersOf(c)'
    BY <2>2, <2>3, <2>6, BreakElsewhere, HandleCloseElsewhere, HandleRemoveElsewhere
  <2>7. CASE HandleFreeze \/ UNCHANGED vars
    BY <2>2, <2>3, <2>7, QuietElsewhere
  <2>8. CASE SenderStep
    BY <2>2, <2>8, DrainOwn, BuildOwn, ReleaseOwn, ReplicateOwn, AnswerOwn, ExitOwn DEF SenderStep
  <2> QED BY <2>4, <2>5, <2>6, <2>7, <2>8 DEF Next, Idle
<1> QED BY <1>1, <1>2

(***************************************************************************)
(* The value append returns after a response is the result of the batch    *)
(* that held its command, on every connection accepted on a descriptor on  *)
(* which the proxy owed nothing any more to the connection before it       *)
(* (proxy.cpp:202-206 answers numbers).                                    *)
(***************************************************************************)
THEOREM AnswersCorrect == Spec => []AnswersAreOwn
<1>1. Init => ClientInv
  BY InitBuffer, InitConnection DEF ClientInv, BaseInv, AnswerInv, Init
<1>2. ClientInv /\ [Next]_vars => ClientInv'
  BY StepKeepsBase, StepKeepsAnswers DEF ClientInv
<1>3. ClientInv => AnswersAreOwn
  BY DEF ClientInv, AnswerInv, AnswersAreOwn, AnswersOf, ToldIsOwn, OwnAnswers
<1> QED BY <1>1, <1>2, <1>3, PTL DEF Spec

=============================================================================
