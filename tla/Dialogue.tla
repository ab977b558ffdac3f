----------------------------- MODULE Dialogue -----------------------------
(***************************************************************************)
(* What a session of the HTTP server promises its client (server.h): one   *)
(* request is taken at a time and answered before the next one is, with    *)
(* its own answer; the request that asks for the end of the connection     *)
(* is the last; the session may break off at any time, and then it is      *)
(* over.  HttpServer implements it once for every connection.              *)
(***************************************************************************)
EXTENDS Naturals, Sequences

CONSTANTS
    Requests,   \* with the field `keep`
    AnswerTo    \* the answer to each request

VARIABLES
    phase,      \* "none", "open", "over"
    asked,      \* the requests taken
    answers     \* the answers given

dialogueVars == <<phase, asked, answers>>

DialogueInit == phase = "none" /\ asked = <<>> /\ answers = <<>>

Open ==
    /\ phase = "none"
    /\ phase' = "open"
    /\ UNCHANGED <<asked, answers>>

Take ==
    /\ phase = "open"
    /\ Len(answers) = Len(asked)
    /\ \E r \in Requests : asked' = Append(asked, r)
    /\ UNCHANGED <<phase, answers>>

Give ==
    /\ phase = "open"
    /\ Len(answers) < Len(asked)
    /\ LET r == asked[Len(asked)] IN
        /\ answers' = Append(answers, AnswerTo[r])
        /\ phase' = IF r.keep THEN "open" ELSE "over"
    /\ UNCHANGED asked

BreakOff ==
    /\ phase = "open"
    /\ phase' = "over"
    /\ UNCHANGED <<asked, answers>>

DialogueNext == Open \/ Take \/ Give \/ BreakOff

DialogueSpec == DialogueInit /\ [][DialogueNext]_dialogueVars

=============================================================================
