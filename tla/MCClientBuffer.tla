------------------------------ MODULE MCClientBuffer ------------------------------
(***************************************************************************)
(* Constants for the runs of ClientBuffer: one client that can be told two *)
(* results, and one that comes between.                                    *)
(***************************************************************************)
EXTENDS ClientBuffer

CONSTANTS c1, c2

AppendsOfTwo == [c \in {c1, c2} |-> IF c = c1 THEN 2 ELSE 1]
=============================================================================
