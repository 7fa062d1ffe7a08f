----------------------------- MODULE MCTextOutbox -----------------------------
(* An instance of TextOutbox for TLC.                                         *)
EXTENDS TextOutbox

MCTwo == 1 .. 2
MCTimes == 1 .. 2
=============================================================================
