--------------------------- MODULE MCSessionFallback ---------------------------
(* The instances of SessionFallback that TLC checks. *)
EXTENDS SessionFallback

CONSTANTS q1, q2, q3

MCTwoRequests == {q1, q2}
MCThreeRequests == {q1, q2, q3}
================================================================================
