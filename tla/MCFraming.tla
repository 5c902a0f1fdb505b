--------------------------------- MODULE MCFraming ---------------------------------
(***************************************************************************)
(* Framing for TLC.  With MAX_MESSAGE_SIZE = 6 the payloads give messages  *)
(* of 3 (an ACK), 4, 5 and 6 cells, and two that are too large: 8 and 11   *)
(* cells, whose prefixes say 1 and 4.                                      *)
(***************************************************************************)
EXTENDS Framing

MCPayloads == { <<0, 0>>, <<0, 1>>, <<1, 1>>, <<3, 0>>, <<5, 0>>, <<8, 0>> }
=============================================================================
