---------------------------------- MODULE Framing ----------------------------------
(***************************************************************************)
(* One direction of a TCP connection as api/network_utils.* and            *)
(* api/message.* use it: messages are laid out field by field behind a     *)
(* length prefix of 16 bits, the stream is cut into arbitrary pieces, and  *)
(* one of three receivers puts the messages together again:                *)
(*    "raw"       recv_raw_buffered with MessageHeader::peek and           *)
(*                get_data_ptr (proxy, server, subscriber, client),        *)
(*    "buffered"  recv_message_buffered (ServerReplicator),                *)
(*    "exact"     recv_message, which reads no byte too many (Zipper).     *)
(*                                                                         *)
(* The model is scaled down.  A byte string is a sequence of cells; the    *)
(* prefix has two (each may arrive alone), the header of 20 bytes, the two *)
(* length fields, a data byte and an ordering value have one each.         *)
(* MAX_MESSAGE_SIZE is, as in the code, the largest value of the prefix.   *)
(***************************************************************************)
EXTENDS Integers, Sequences, SequencesExt

CONSTANTS
    MAX_MESSAGE_SIZE,
    Payloads,           \* pairs: number of data bytes, of ordering values
    MaxMessages         \* bound on the messages of one connection

FIXED == 3              \* header, data length, ordering length: 28 bytes
CAPACITY == 2 * MAX_MESSAGE_SIZE

ASSUME FramingAssumption ==
    /\ MAX_MESSAGE_SIZE \in Nat /\ MAX_MESSAGE_SIZE > FIXED
    /\ Payloads \subseteq Nat \X Nat
    /\ MaxMessages \in Nat

VARIABLES
    mode,           \* which receiver reads this connection
    sent,           \* the messages handed to send, the last one maybe in part
    stream,         \* cells on their way
    closed,         \* the sending side is closed
    rb,             \* ReadBuffer: buf, head, tail
    delivered,      \* the messages the handler was given
    rstate,         \* "open"; "failed", the call failed and the handler closes;
                    \* "garbled", the handler takes other bytes for a message
    leftover        \* rb holds bytes of an earlier connection

vars == << mode, sent, stream, closed, rb, delivered, rstate, leftover >>

----------------------------------------------------------------------------
(***************************************************************************)
(* The wire format.  Data and ordering values are tagged with the message  *)
(* they belong to.                                                         *)
(***************************************************************************)
Tagged(kind, n, count) == [i \in 1..count |-> << kind, 100 * n + i >>]

NewMessage(n, p) ==
    [header |-> n, data |-> Tagged("data", n, p[1]),
     ordering_values |-> Tagged("ordering", n, p[2])]

layout(msg) ==
    << <<"header", msg.header>>, <<"data_len", Len(msg.data)>> >> \o msg.data
        \o << <<"ordering_len", Len(msg.ordering_values)>> >> \o msg.ordering_values

\* The length is cast to 16 bits.
prefixed(bytes) ==
    LET len == Len(bytes) % (MAX_MESSAGE_SIZE + 1)
    IN  << <<"len_hi", len>>, <<"len_lo", len>> >> \o bytes

\* Empty when the message is too large.
serialize(msg) == IF Len(layout(msg)) > MAX_MESSAGE_SIZE THEN << >> ELSE layout(msg)

\* Never looks at the size; there are no ordering values.
build_wire_bytes(msg) == prefixed(layout(msg))

\* The message in a body, as <<msg>>, or << >> for nullopt.
deserialize(body) ==
    LET size == Len(body)
        data_len == body[2][2]
        ordering_len == body[FIXED + data_len][2]
    IN  IF \/ size < FIXED
           \/ 2 + data_len > size
           \/ FIXED + data_len > size
           \/ FIXED + data_len + ordering_len > size
        THEN << >>
        ELSE << [header |-> body[1][2],
                 data |-> SubSeq(body, 3, 2 + data_len),
                 ordering_values |-> SubSeq(body, FIXED + data_len + 1,
                                            FIXED + data_len + ordering_len)] >>

\* MessageHeader::peek and get_data_ptr, which checks nothing but that the
\* length field is there: what it names may lie behind the body.
peek(body) ==
    LET data_len == IF Len(body) < 2 THEN 0 ELSE body[2][2]
    IN  << [header |-> body[1][2], data |-> SubSeq(body, 3, 2 + data_len),
            ordering_values |-> << >>] >>

DataBehindBody(body) == Len(body) >= 2 /\ 2 + body[2][2] > Len(body)

----------------------------------------------------------------------------
(* ReadBuffer.  buf has the bytes from head up to tail; no other is read.  *)

EmptyBuffer == [buf |-> << >>, head |-> 0, tail |-> 0]

available(r) == r.tail - r.head
Unread(r) == [i \in 1..available(r) |-> r.buf[r.head + i - 1]]

\* Mutant: the length prefix is forgotten.
ConsumeBodyOnly(r, n) ==
    LET head == r.head + n - 2
    IN  IF head = r.tail THEN EmptyBuffer
        ELSE [r EXCEPT !.head = head, !.buf = [i \in head..(r.tail - 1) |-> r.buf[i]]]

consume(r, n) ==
    LET head == r.head + n
    IN  IF head = r.tail THEN EmptyBuffer
        ELSE [r EXCEPT !.head = head, !.buf = [i \in head..(r.tail - 1) |-> r.buf[i]]]

memmove(r) ==
    [buf |-> [i \in 0..(available(r) - 1) |-> r.buf[r.head + i]],
     head |-> 0, tail |-> available(r)]

\* Mutant: the buffer is shifted only when head is at its very end.
ShiftLate(r) == IF r.head > CAPACITY - 2 THEN memmove(r) ELSE r

\* refill_spin moves the unread bytes to the front if head is past the middle.
shift(r) == IF r.head > CAPACITY \div 2 THEN memmove(r) ELSE r

\* The prefix at head, when both of its cells are there.
HasPrefix == available(rb) >= 2
Aligned == rb.buf[rb.head][1] = "len_hi" /\ rb.buf[rb.head + 1][1] = "len_lo"
msg_len == rb.buf[rb.head][2]

\* Mutant: one byte more than the message has is waited for.
TotalNeededOffByOne == IF HasPrefix THEN 3 + msg_len ELSE 2

\* How many bytes the receiver waits for.
total_needed == IF HasPrefix THEN 2 + msg_len ELSE 2

Waiting == rstate = "open" /\ (HasPrefix => Aligned) /\ available(rb) < total_needed

\* Mutant: the room is counted from head.
RoomFromHead(r) == IF mode = "exact" THEN total_needed - available(r) ELSE CAPACITY - r.head

\* The size recv is called with.  The exact receiver asks for what it needs.
Room(r) == IF mode = "exact" THEN total_needed - available(r) ELSE CAPACITY - r.tail

----------------------------------------------------------------------------
Init ==
    /\ mode \in {"raw", "buffered", "exact"}
    /\ sent = << >>
    /\ stream = << >>
    /\ closed = FALSE
    /\ rb = EmptyBuffer
    /\ delivered = << >>
    /\ rstate = "open"
    /\ leftover = FALSE

(***************************************************************************)
(* The sender.  send_bytes_raw sends what build_wire_bytes made,           *)
(* send_message what serialize made, and sends nothing if that is empty.   *)
(***************************************************************************)
MaySend == ~closed /\ rstate = "open" /\ Len(sent) < MaxMessages

Send(msg, wire) ==
    /\ sent' = Append(sent, msg)
    /\ stream' = stream \o wire
    /\ UNCHANGED << mode, closed, rb, delivered, rstate, leftover >>

SendBytesRaw(p) ==
    LET msg == NewMessage(Len(sent) + 1, p)
    IN  MaySend /\ p[2] = 0 /\ Send(msg, build_wire_bytes(msg))

SendMessage(p) ==
    LET msg == NewMessage(Len(sent) + 1, p)
    IN  MaySend /\ serialize(msg) # << >> /\ Send(msg, prefixed(serialize(msg)))

\* sendmsg fails after some of the bytes, and the connection is given up.
SendFails(p) ==
    LET msg == NewMessage(Len(sent) + 1, p)
    IN  /\ MaySend /\ serialize(msg) # << >>
        /\ sent' = Append(sent, msg)
        /\ \E k \in 0..(Len(layout(msg)) + 1) :
              stream' = stream \o SubSeq(prefixed(layout(msg)), 1, k)
        /\ closed' = TRUE
        /\ UNCHANGED << mode, rb, delivered, rstate, leftover >>

Close ==
    /\ ~closed
    /\ closed' = TRUE
    /\ UNCHANGED << mode, sent, stream, rb, delivered, rstate, leftover >>

----------------------------------------------------------------------------
(***************************************************************************)
(* The receiver.                                                           *)
(***************************************************************************)
\* One recv, of any part of what is on its way.
Refill(k) ==
    LET r == shift(rb)
    IN  /\ Waiting
        /\ k <= Len(stream) /\ k <= Room(r)
        /\ rb' = [r EXCEPT !.buf = [i \in r.head..(r.tail + k - 1) |->
                                      IF i < r.tail THEN r.buf[i]
                                      ELSE stream[i - r.tail + 1]],
                           !.tail = @ + k]
        /\ stream' = SubSeq(stream, k + 1, Len(stream))
        /\ UNCHANGED << mode, sent, closed, delivered, rstate, leftover >>

\* recv returns 0: the peer has closed, or recv was asked for no byte at all
\* while some are there.  Both count as "connection closed".
RecvReturnsZero ==
    /\ Waiting
    /\ \/ stream = << >> /\ closed
       \/ stream # << >> /\ Room(shift(rb)) = 0
    /\ rb' = shift(rb)
    /\ rstate' = "failed"
    /\ UNCHANGED << mode, sent, stream, closed, delivered, leftover >>

Body == [i \in 1..msg_len |-> rb.buf[rb.head + 1 + i]]

\* What the handler is given for a body.
Parsed(body) ==
    IF mode # "raw" THEN deserialize(body)
    ELSE IF Len(body) < 1 THEN << >> ELSE peek(body)

Deliver ==
    /\ rstate = "open" /\ HasPrefix /\ Aligned
    /\ available(rb) >= total_needed
    /\ ~(mode = "raw" /\ DataBehindBody(Body))
    /\ rb' = consume(rb, 2 + msg_len)
    /\ delivered' = delivered \o Parsed(Body)
    /\ rstate' = IF Parsed(Body) = << >> THEN "failed" ELSE "open"
    /\ UNCHANGED << mode, sent, stream, closed, leftover >>

\* Two bytes that are not a length are taken for one, or data is read from
\* behind the message.  What the handler does then is not followed further.
Garble ==
    /\ rstate = "open" /\ HasPrefix
    /\ \/ ~Aligned
       \/ available(rb) >= total_needed /\ mode = "raw" /\ DataBehindBody(Body)
    /\ rstate' = "garbled"
    /\ UNCHANGED << mode, sent, stream, closed, rb, delivered, leftover >>

(***************************************************************************)
(* Client::append after a failed recv: the connection is closed and the    *)
(* next append opens another one, but rb_ belongs to the client and is not *)
(* reset.  What it still holds is taken for the start of the next answer,  *)
(* which is not followed further.  Every other ReadBuffer ends with its    *)
(* connection.                                                             *)
(***************************************************************************)
Reconnect ==
    /\ rstate = "failed" /\ mode = "raw"
    /\ leftover' = (available(rb) > 0)
    /\ rstate' = IF leftover' THEN "garbled" ELSE "open"
    /\ closed' = FALSE
    /\ sent' = << >> /\ stream' = << >> /\ delivered' = << >>
    /\ UNCHANGED << mode, rb >>

\* Nothing more is sent or received on this connection.
Done ==
    /\ rstate = "garbled" \/ (rstate = "failed" /\ mode # "raw")
    /\ UNCHANGED vars

Next ==
    \/ \E p \in Payloads : SendBytesRaw(p) \/ SendMessage(p) \/ SendFails(p)
    \/ Close
    \/ \E k \in 1..CAPACITY : Refill(k)
    \/ RecvReturnsZero
    \/ Deliver
    \/ Garble
    \/ Reconnect
    \/ Done

\* TCP delivers what was sent, and the receiver's loop keeps calling recv.
Fairness ==
    /\ WF_vars(\E k \in 1..CAPACITY : Refill(k))
    /\ WF_vars(Deliver)

Spec == Init /\ [][Next]_vars /\ Fairness

----------------------------------------------------------------------------
TypeOK ==
    /\ mode \in {"raw", "buffered", "exact"}
    /\ Len(sent) <= MaxMessages /\ Len(delivered) <= MaxMessages
    /\ closed \in BOOLEAN /\ leftover \in BOOLEAN
    /\ rb.head \in 0..CAPACITY /\ rb.tail \in rb.head..CAPACITY
    /\ rstate \in {"open", "failed", "garbled"}

Size(msg) == Len(layout(msg))
Wire(msgs) == FlattenSeq([i \in 1..Len(msgs) |-> prefixed(layout(msgs[i]))])
FirstN(seq, n) == SubSeq(seq, 1, n)

\* The first n messages all fit the length prefix, on a buffer that was empty.
Fit(n) ==
    ~leftover /\ \A i \in 1..Len(sent) : i <= n => Size(sent[i]) <= MAX_MESSAGE_SIZE

(***************************************************************************)
(* However the stream is cut, and wherever the unread bytes lie or are     *)
(* moved to in the ReadBuffer, the handler gets the messages that were     *)
(* sent, whole and in order, up to the first one that does not fit the 16  *)
(* bits of the prefix; until then the receiver stands at the start of a    *)
(* message and no byte is lost or doubled.                                 *)
(***************************************************************************)
FramesIntact ==
    LET n == Len(delivered)
    IN  /\ Fit(n) => /\ n <= Len(sent)
                     /\ \A i \in 1..n : \/ delivered[i] = sent[i]
                                        \/ /\ mode = "raw"
                                           /\ delivered[i].header = sent[i].header
                                           /\ delivered[i].data = sent[i].data
        /\ Fit(n + 1) => rstate # "garbled"
        /\ (Fit(Len(sent)) /\ rstate = "open") =>
              IsPrefix(Wire(FirstN(sent, n)) \o Unread(rb) \o stream, Wire(sent))

(***************************************************************************)
(* A receiver gives up a connection its peer has not closed only in the    *)
(* middle of a message that takes, with its prefix, more than half of the  *)
(* ReadBuffer: such a message may not fit behind a head that is close to   *)
(* the middle but not past it.  The exact receiver never does.             *)
(***************************************************************************)
ClosesOnlyWhenFull ==
    (rstate = "failed" /\ ~closed /\ Fit(Len(delivered) + 1)) =>
        /\ mode # "exact"
        /\ Size(sent[Len(delivered) + 1]) + 2 > CAPACITY \div 2

(***************************************************************************)
(* A message sent on an open connection is delivered if neither it nor one *)
(* before it is longer than half of the ReadBuffer.                        *)
(***************************************************************************)
ShortMessagesArrive ==
    \A n \in 1..MaxMessages :
        (/\ n <= Len(sent) /\ ~closed /\ ~leftover
         /\ \A i \in 1..Len(sent) : i <= n => Size(sent[i]) + 2 <= CAPACITY \div 2)
            ~> n <= Len(delivered)
=============================================================================
