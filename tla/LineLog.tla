----------------------------- MODULE LineLog -----------------------------
(***************************************************************************)
(* What a sink of the logger (utl_log.hpp) promises its threads: a call    *)
(* adds the message it was made with to the log as one whole line, once,   *)
(* before it returns, and nothing if the sink does not accept it.  Logger  *)
(* implements it once for every sink.                                      *)
(***************************************************************************)
EXTENDS Naturals, Sequences

CONSTANTS
    Threads,
    Messages,       \* with the fields `by`, the thread, and `n`, its n-th call
    NoMessage

VARIABLES
    accepted,   \* the messages the sink lets through, chosen when it is made
    lines,      \* the log: what each line holds, a set of messages
    made,       \* how many calls each thread has made
    busy        \* the message a thread is logging, or NoMessage

lineVars == <<accepted, lines, made, busy>>

LineInit ==
    /\ accepted \subseteq Messages
    /\ lines = <<>>
    /\ made = [t \in Threads |-> 0]
    /\ busy = [t \in Threads |-> NoMessage]

Begin(t) ==
    /\ busy[t] = NoMessage
    /\ made' = [made EXCEPT ![t] = @ + 1]
    /\ \E m \in Messages : m.by = t /\ m.n = made'[t] /\ busy' = [busy EXCEPT ![t] = m]
    /\ UNCHANGED <<accepted, lines>>

Line(t) ==
    /\ busy[t] \in accepted
    /\ lines' = Append(lines, {busy[t]})
    /\ busy' = [busy EXCEPT ![t] = NoMessage]
    /\ UNCHANGED <<accepted, made>>

Skip(t) ==
    /\ busy[t] \notin accepted \cup {NoMessage}
    /\ busy' = [busy EXCEPT ![t] = NoMessage]
    /\ UNCHANGED <<accepted, lines, made>>

LineNext == \E t \in Threads : Begin(t) \/ Line(t) \/ Skip(t)

LineSpec == LineInit /\ [][LineNext]_lineVars

=============================================================================
