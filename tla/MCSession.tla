---------------------------- MODULE MCSession ----------------------------
(* Small instances of Session. *)
EXTENDS Session, TLC

(* The handshake is called from ws_connect, one frame deeper than the     *)
(* calls that write.                                                       *)
TwoFrames == [op \in Ops |-> IF op = "handshake" THEN "connect" ELSE "manage"]

(* ws_connect inlined in ws_manage_ws: every call has the same depth. *)
OneFrame == [op \in Ops |-> "manage"]

Threads == Permutations(Workers) \cup Permutations(Readers)
=============================================================================
