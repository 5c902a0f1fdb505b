------------------------------ MODULE MCReplication ------------------------------
(***************************************************************************)
(* Replication for TLC: a drained buffer is empty (a SKIP is sent) or      *)
(* holds one command.  The servers are interchangeable in the safety runs. *)
(***************************************************************************)
EXTENDS Replication

CONSTANT c1

MCBatches == { << >>, <<c1>> }
SkipOnly == { << >> }

\* No step looks into a batch, so batches that differ are the general case.
CommandThenSkip ==
    \A p \in Proxies : \A n \in 1..Len(sent[p]) : (sent[p][n].batch = << >>) <=> (n % 2 = 0)

ServerSymmetry == Permutations(Servers)
=============================================================================
