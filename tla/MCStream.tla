------------------------------ MODULE MCStream ------------------------------
(* Delays of the reader: ahead of the last frame, within the queue, beyond it. *)
EXTENDS Stream

MCOffsets == {-1, 1, 3}
=============================================================================
