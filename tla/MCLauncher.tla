--------------------------- MODULE MCLauncher ---------------------------
(* Every file of up to eight lines, every thread count up to five. *)
EXTENDS Launcher
=============================================================================
