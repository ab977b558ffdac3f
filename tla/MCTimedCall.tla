--------------------------- MODULE MCTimedCall ---------------------------
(* Small instance of TimedCall: three workers, two depths of the stack.    *)
EXTENDS TimedCall
=============================================================================
