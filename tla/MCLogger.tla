----------------------------- MODULE MCLogger -----------------------------
(* Two threads, one of which logs twice, log to two sinks: a file that is  *)
(* flushed at intervals and takes fewer messages, and a terminal whose     *)
(* lines are all flushed and that skips the header.                        *)
EXTENDS Logger

File == [verbosity |-> 0, flush_interval |-> 1, header |-> TRUE]
Terminal == [verbosity |-> 1, flush_interval |-> 0, header |-> FALSE]
TwoSinks == {<<File, Terminal>>}
DefaultSink == {<<[verbosity |-> 1, flush_interval |-> 0, header |-> TRUE]>>}
TwoAndOne == [t1 |-> 2, t2 |-> 1]
=============================================================================
