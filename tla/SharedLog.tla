-------------------------------- MODULE SharedLog --------------------------------
(***************************************************************************)
(* What ziplog promises its users: appended batches get one order, and     *)
(* every subscriber reads that order from its beginning, each at its own   *)
(* pace, never revising what it has read.  A batch is answered at most     *)
(* once, and only after it has its place in the order.                     *)
(***************************************************************************)
EXTENDS Integers, Sequences

CONSTANTS Batches, Subscribers, MaxSeq

VARIABLES
    order,      \* the batches in the order of their sequence numbers
    answered,   \* the positions whose clients were told SUCCESS
    logs        \* what each subscriber has read

vars == << order, answered, logs >>

Init ==
    /\ order = << >>
    /\ answered = {}
    /\ logs = [u \in Subscribers |-> << >>]

\* A batch takes the next place in the order.
Place(batch) ==
    /\ Len(order) < MaxSeq
    /\ order' = Append(order, batch)
    /\ UNCHANGED << answered, logs >>

\* The clients of the batch placed last learn that it succeeded.
AnswerLast ==
    /\ Len(order) > 0
    /\ Len(order) \notin answered
    /\ answered' = answered \cup {Len(order)}
    /\ UNCHANGED << order, logs >>

\* A subscriber reads further along the order.
Read(u, n) ==
    /\ n \in (Len(logs[u]) + 1)..Len(order)
    /\ logs' = [logs EXCEPT ![u] = SubSeq(order, 1, n)]
    /\ UNCHANGED << order, answered >>

Next ==
    \/ \E batch \in Batches : Place(batch)
    \/ AnswerLast
    \/ \E u \in Subscribers, n \in 1..MaxSeq : Read(u, n)

Spec == Init /\ [][Next]_vars

=============================================================================
