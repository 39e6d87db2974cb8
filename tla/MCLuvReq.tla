------------------------------ MODULE MCLuvReq ------------------------------
(* LuvReq.tla for TLC: more requests than workers, so that work waits in    *)
(* the queue and can be cancelled there.                                    *)
EXTENDS LuvReq
=============================================================================
