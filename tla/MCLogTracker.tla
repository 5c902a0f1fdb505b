------------------------------ MODULE MCLogTracker ------------------------------
(***************************************************************************)
(* LogTracker for TLC: two servers' votes make a quorum, and a message     *)
(* carries either a SKIP or a batch of two commands.                       *)
(***************************************************************************)
EXTENDS LogTracker

CONSTANTS c1, c2

MCBatches == { << >>, <<c1, c2>> }

\* A server holds one batch per sequence number and sends no other for it.
ServersAreConsistent ==
    \A s \in SeqNums : \A h, g \in heard[s] : h[1] = g[1] => h[2] = g[2]
=============================================================================
