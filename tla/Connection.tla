---------------------------- MODULE Connection ----------------------------
(***************************************************************************)
(* What a device (main.cpp) promises the peer about its connection: it is  *)
(* opened by a handshake that was tried on a closed one, every handshake   *)
(* that succeeds starts one more reader, and an open connection ends when  *)
(* it fails, not by being replaced.  A handshake that was given up may     *)
(* still succeed, and without a thread for a reader a connection is not    *)
(* taken for one; from then on the stream opens and closes by itself.      *)
(***************************************************************************)
CONSTANTS Readers

VARIABLES
    phase,      \* "closed", "shaking" or "open"
    started,    \* the readers started
    spoiled     \* a call was given up where the handshake has its `done`, or
                \* no thread is left for a reader

connVars == <<phase, started, spoiled>>

ConnInit == phase = "closed" /\ started = {} /\ spoiled = (Readers = {})

Try ==
    /\ phase = "closed"
    /\ phase' = "shaking"
    /\ UNCHANGED <<started, spoiled>>

(* No thread for the handshake. *)
Fruitless ==
    /\ phase = "shaking"
    /\ phase' = "closed"
    /\ UNCHANGED <<started, spoiled>>

(* The stream may have failed again by now. *)
Succeed ==
    /\ phase = "shaking"
    /\ phase' \in {"open", "closed"}
    /\ \E r \in Readers \ started : started' = started \cup {r}
    /\ spoiled' = (spoiled \/ started' = Readers)

(* A call at the address of the handshake's, the handshake or another one. *)
GiveUp ==
    /\ phase' = phase \/ (phase = "shaking" /\ phase' \in {"open", "closed"})
    /\ spoiled' = TRUE
    /\ UNCHANGED started

Fail ==
    /\ phase = "open"
    /\ phase' = "closed"
    /\ UNCHANGED <<started, spoiled>>

(* The exceptions: a late handshake opens the stream, an open one is torn. *)
Stray ==
    /\ spoiled
    /\ \/ phase = "closed" /\ phase' = "open"
       \/ phase = "open" /\ phase' = "shaking"
    /\ UNCHANGED <<started, spoiled>>

ConnNext == Try \/ Fruitless \/ Succeed \/ GiveUp \/ Fail \/ Stray

ConnSpec == ConnInit /\ [][ConnNext]_connVars

=============================================================================
