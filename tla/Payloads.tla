----------------------------- MODULE Payloads -----------------------------
(***************************************************************************)
(* ws_get_payload when the request is a main packet (device_payloads.cpp): *)
(* every second call picks the bad packet, if the caller wants bad ones.   *)
(* The counter is a static of the function that workers and readers use    *)
(* without synchronisation; only its parity matters, which survives the    *)
(* overflow of size_t.                                                     *)
(***************************************************************************)
EXTENDS Naturals

CONSTANTS Callers

VARIABLES
    which,      \* which_main_payload % 2
    step,       \* where each caller is, "good" or "bad" once it has picked
    wantsBad,   \* its include_bad_payloads, during a call
    alone,      \* history: no other call was under way during its call so far
    previous    \* history: what the last call picked, if alone and wanting bad ones

payloadVars == <<which, step, wantsBad, alone, previous>>

PayloadTypeOK ==
    /\ which \in {0, 1}
    /\ step \in [Callers -> {"idle", "called", "good", "bad", "picked"}]
    /\ wantsBad \in [Callers -> BOOLEAN]
    /\ alone \in [Callers -> BOOLEAN]
    /\ previous \in {"none", "good", "bad"}

PayloadInit ==
    /\ which = 1
    /\ step = [c \in Callers |-> "idle"]
    /\ wantsBad = [c \in Callers |-> FALSE]
    /\ alone = [c \in Callers |-> FALSE]
    /\ previous = "none"

Calling == {c \in Callers : step[c] \in {"called", "good", "bad"}}

Enter(c, include_bad_payloads) ==
    /\ step' = [step EXCEPT ![c] = "called"]
    /\ wantsBad' = [wantsBad EXCEPT ![c] = include_bad_payloads]
    /\ alone' = [d \in Callers |-> IF d = c THEN Calling = {} ELSE alone[d] /\ d \notin Calling]
    /\ UNCHANGED <<which, previous>>

Pick(c) ==
    /\ step[c] = "called"
    /\ step' = [step EXCEPT ![c] = IF which = 0 /\ wantsBad[c] THEN "bad" ELSE "good"]
    /\ UNCHANGED <<which, wantsBad, alone, previous>>

(* Mutant: only good packets are counted. *)
CountGood(c) ==
    /\ step[c] \in {"good", "bad"}
    /\ step' = [step EXCEPT ![c] = "picked"]
    /\ which' = IF step[c] = "good" THEN 1 - which ELSE which
    /\ previous' = IF alone[c] /\ wantsBad[c] THEN step[c] ELSE "none"
    /\ wantsBad' = [wantsBad EXCEPT ![c] = FALSE]
    /\ alone' = [alone EXCEPT ![c] = FALSE]

(* which_main_payload++, a data race if another call is under way. *)
Count(c) ==
    /\ step[c] \in {"good", "bad"}
    /\ step' = [step EXCEPT ![c] = "picked"]
    /\ which' \in IF alone[c] THEN {1 - which} ELSE {0, 1}
    /\ previous' = IF alone[c] /\ wantsBad[c] THEN step[c] ELSE "none"
    /\ wantsBad' = [wantsBad EXCEPT ![c] = FALSE]
    /\ alone' = [alone EXCEPT ![c] = FALSE]

-----------------------------------------------------------------------------

(* Of two calls in a row that no other call overlapped one picks the bad   *)
(* packet, whatever races there were before them.                          *)
Alternate ==
    \A c \in Callers :
        step[c] \in {"good", "bad"} /\ alone[c] /\ wantsBad[c] => step[c] # previous

=============================================================================
