------------------------- MODULE HttpServerProofs -------------------------
(***************************************************************************)
(* The sessions of the HTTP server, for any clients, requests and files.   *)
(* SessionOf says what the one operation of a session tells about what it  *)
(* has read and answered: between two requests every request is answered   *)
(* and none closes the connection; during a write the last one is not      *)
(* answered yet, and the response under way is its own.                    *)
(***************************************************************************)
EXTENDS HttpServer, SequenceTheorems, WellFoundedInduction, TLAPS

Between(c) ==
    /\ ops[c] \in {{Dispatch}, {Reading}}
    /\ Len(answers[c]) = Len(asked[c])
    /\ \A i \in DOMAIN asked[c] : asked[c][i].keep

Answering(c) ==
    /\ Len(asked[c]) = Len(answers[c]) + 1
    /\ ops[c] = {Writing(Response(asked[c][Len(asked[c])]))}

Answered(c) ==
    /\ Len(answers[c]) <= Len(asked[c])
    /\ \A i \in DOMAIN answers[c] : answers[c][i] = Response(asked[c][i])
    /\ \A i \in DOMAIN asked[c] : i < Len(asked[c]) => asked[c][i].keep

SessionOf(c) ==
    /\ Answered(c)
    /\ ops[c] = {} \/ Between(c) \/ Answering(c)
    /\ stage[c] # "session" => ops[c] = {} /\ asked[c] = <<>> /\ answers[c] = <<>>

HttpInv == HttpTypeOK /\ \A c \in Conns : SessionOf(c)

(* A response keeps the connection if the request asks for it. *)
LEMMA ResponseOf ==
    ASSUME NEW r \in Requests
    PROVE  Response(r) \in Responses /\ Response(r).keep = r.keep
  <1> DEFINE Of(status, body) == [status |-> status, body |-> body, keep |-> r.keep]
             file == Resolve(FilePath(r.target))
  <1>1. r.keep \in BOOLEAN /\ r.method \in {"GET", "HEAD", "POST"}
    BY HttpAssumption
  <1>2. \A s \in {200, 400, 404, 500}, b \in {"text", "none", "file"} :
            Of(s, b) \in Responses /\ Of(s, b).keep = r.keep
    BY <1>1 DEF Responses
  <1>3. \E s \in {200, 400, 404, 500}, b \in {"text", "none", "file"} : Response(r) = Of(s, b)
    <2>1. CASE r.method \notin {"GET", "HEAD"} \/ ~Legal(r.target)
      <3>1. ~OpensFile(r)
        BY <2>1 DEF OpensFile
      <3> QED
        BY <2>1, <3>1 DEF Response
    <2> QED
      BY <1>1, <2>1 DEF Response, OpensFile
  <1> QED
    BY <1>2, <1>3

LEMMA OperationOf ==
    /\ Dispatch \in Operations /\ Reading \in Operations
    /\ Dispatch # Reading
    /\ \A x \in Responses :
        /\ Writing(x) \in Operations /\ Writing(x).op = "write" /\ Writing(x).response = x
        /\ Writing(x) # Dispatch /\ Writing(x) # Reading
    /\ Dispatch.op = "dispatch" /\ Reading.op = "read"
  BY DEF Dispatch, Reading, Writing, Operations

LEMMA HttpInit == Init => HttpInv
  <1> SUFFICES ASSUME Init PROVE HttpInv
    OBVIOUS
  <1>1. HttpTypeOK
    BY DEF Init, HttpTypeOK, Construction, Range
  <1>2. \A c \in Conns : SessionOf(c)
    BY DEF Init, SessionOf, Answered
  <1> QED
    BY <1>1, <1>2 DEF HttpInv

(* A session that a step leaves alone. *)
LEMMA OtherSession ==
    ASSUME NEW d \in Conns, SessionOf(d),
           ops'[d] = ops[d], asked'[d] = asked[d], answers'[d] = answers[d],
           stage'[d] = stage[d]
    PROVE  SessionOf(d)'
  BY DEF SessionOf, Answered, Between, Answering

(* The one operation of a session, and what is left when it completes. *)
LEMMA OneCompletes ==
    ASSUME HttpInv, NEW c \in Conns, NEW o, NEW next, Completes(c, o, next)
    PROVE  ops[c] = {o} /\ ops' = [ops EXCEPT ![c] = next] /\ stage[c] = "session"
  <1>1. ops[c] = {o}
    BY DEF HttpInv, SessionOf, Between, Answering, Completes
  <1>2. ({o} \ {o}) \cup next = next
    OBVIOUS
  <1> QED
    BY <1>1, <1>2 DEF HttpInv, SessionOf, Completes

LEMMA ListenerInv == HttpInv /\ (Construct \/ Run \/ AcceptError) => HttpInv'
  <1> SUFFICES ASSUME HttpInv, Construct \/ Run \/ AcceptError PROVE HttpInv'
    OBVIOUS
  <1> USE DEF clientVars
  <1>1. listener' \in Range(Construction) \cup {"ready", "failed", "accepting", "broken", "stopped"}
    BY DEF Construct, Run, AcceptError, Construction, Range
  <1>2. HttpTypeOK'
    BY <1>1 DEF HttpInv, HttpTypeOK, Construct, Run, AcceptError
  <1>3. \A d \in Conns : SessionOf(d)'
    BY OtherSession DEF HttpInv, Construct, Run, AcceptError
  <1> QED
    BY <1>2, <1>3 DEF HttpInv

LEMMA AcceptInv == ASSUME HttpInv, NEW c \in Conns, Accept(c) PROVE HttpInv'
  <1> USE DEF Accept, clientVars
  <1>1. HttpTypeOK'
    BY OperationOf DEF HttpInv, HttpTypeOK
  <1>2. SessionOf(c)'
    BY DEF HttpInv, HttpTypeOK, SessionOf, Answered, Between
  <1>3. \A d \in Conns \ {c} : SessionOf(d)'
    BY OtherSession DEF HttpInv, HttpTypeOK
  <1> QED
    BY <1>1, <1>2, <1>3 DEF HttpInv

LEMMA StartInv == ASSUME HttpInv, NEW c \in Conns, Start(c) PROVE HttpInv'
  <1> USE DEF Start, DoRead, clientVars
  <1>1. ops[c] = {Dispatch} /\ ops' = [ops EXCEPT ![c] = {Reading}] /\ stage[c] = "session"
    BY OneCompletes
  <1>2. HttpTypeOK'
    BY <1>1, OperationOf DEF HttpInv, HttpTypeOK
  <1>3. Between(c)
    <2>1. \A x : Writing(x) # Dispatch
      BY DEF Writing, Dispatch
    <2> QED
      BY <1>1, <2>1 DEF HttpInv, SessionOf, Answering
  <1>4. SessionOf(c)'
    BY <1>1, <1>3 DEF HttpInv, HttpTypeOK, SessionOf, Answered, Between
  <1>5. \A d \in Conns \ {c} : SessionOf(d)'
    BY <1>1, OtherSession DEF HttpInv, HttpTypeOK
  <1> QED
    BY <1>2, <1>4, <1>5 DEF HttpInv

LEMMA OnReadInv == ASSUME HttpInv, NEW c \in Conns, OnRead(c) PROVE HttpInv'
  <1> DEFINE r == Head(inbox[c])
  <1>1. r \in Requests /\ inbox' = [inbox EXCEPT ![c] = Tail(inbox[c])]
        /\ inbox' \in [Conns -> Seq(Requests \cup {Malformed})]
    BY DEF HttpInv, HttpTypeOK, OnRead
  <1>2. ops[c] = {Reading} /\ ops' = [ops EXCEPT ![c] = {Writing(Response(r))}] /\ stage[c] = "session"
    BY OneCompletes DEF OnRead
  <1>3. asked' = [asked EXCEPT ![c] = Append(asked[c], r)] /\ UNCHANGED <<listener, stage, late, peer, answers>>
    BY DEF OnRead
  <1>4. Response(r) \in Responses /\ Writing(Response(r)) \in Operations
    BY <1>1, ResponseOf, OperationOf
  <1>5. asked[c] \in Seq(Requests) /\ answers[c] \in Seq(Responses)
    BY DEF HttpInv, HttpTypeOK
  <1> HIDE DEF r
  <1>6. asked'[c] = Append(asked[c], r) /\ answers'[c] = answers[c]
        /\ ops'[c] = {Writing(Response(r))} /\ stage'[c] = "session"
    BY <1>2, <1>3 DEF HttpInv, HttpTypeOK
  <1>7. HttpTypeOK'
    <2>1. asked' \in [Conns -> Seq(Requests)]
      BY <1>1, <1>3, <1>5 DEF HttpInv, HttpTypeOK
    <2>2. ops' \in [Conns -> SUBSET Operations]
      BY <1>2, <1>4 DEF HttpInv, HttpTypeOK
    <2> QED
      BY <1>1, <1>3, <2>1, <2>2 DEF HttpInv, HttpTypeOK
  <1>8. Between(c)
    <2>1. \A x : Writing(x) # Reading
      BY DEF Writing, Reading
    <2> QED
      BY <1>2, <2>1 DEF HttpInv, SessionOf, Answering
  <1>9. SessionOf(c)'
    <2>1. Answering(c)'
      BY <1>1, <1>5, <1>6, <1>8 DEF Between, Answering
    <2>2. Answered(c)'
      BY <1>1, <1>5, <1>6, <1>8 DEF HttpInv, SessionOf, Answered, Between
    <2> QED
      BY <1>6, <2>1, <2>2 DEF SessionOf
  <1>10. \A d \in Conns \ {c} : SessionOf(d)'
    BY <1>2, <1>3, OtherSession DEF HttpInv, HttpTypeOK
  <1> QED
    BY <1>7, <1>9, <1>10 DEF HttpInv

(* An operation that ends a session. *)
LEMMA EndInv ==
    ASSUME HttpInv, NEW c \in Conns, NEW o, Completes(c, o, {}),
           UNCHANGED <<listener, stage, late, clientVars, asked, answers>>
    PROVE  HttpInv'
  <1>1. ops' = [ops EXCEPT ![c] = {}] /\ stage[c] = "session"
    BY OneCompletes
  <1>2. HttpTypeOK'
    BY <1>1 DEF HttpInv, HttpTypeOK, clientVars
  <1>3. SessionOf(c)'
    BY <1>1 DEF HttpInv, HttpTypeOK, SessionOf, Answered
  <1>4. \A d \in Conns \ {c} : SessionOf(d)'
    BY <1>1, OtherSession DEF HttpInv, HttpTypeOK
  <1> QED
    BY <1>2, <1>3, <1>4 DEF HttpInv

(* The response that is written is that to the last request taken.         *)
LEMMA OnWriteLast ==
    ASSUME HttpInv, NEW c \in Conns, NEW o, OnWrite(c, o)
    PROVE  LET last == asked[c][Len(asked[c])] IN
           /\ ops[c] = {o} /\ ops' = [ops EXCEPT ![c] = IF last.keep THEN {Reading} ELSE {}]
           /\ stage[c] = "session"
           /\ Answering(c) /\ last \in Requests
           /\ o.response = Response(last) /\ o.response \in Responses
  <1> DEFINE n == Len(asked[c])
             last == asked[c][n]
  <1>1. ops[c] = {o} /\ stage[c] = "session"
        /\ ops' = [ops EXCEPT ![c] = IF o.response.keep THEN {Reading} ELSE {}]
    <2>1. CASE o.response.keep
      BY <2>1, OneCompletes DEF OnWrite, DoRead
    <2>2. CASE ~o.response.keep
      BY <2>2, OneCompletes DEF OnWrite
    <2> QED
      BY <2>1, <2>2
  <1>2. asked[c] \in Seq(Requests) /\ answers[c] \in Seq(Responses)
    BY DEF HttpInv, HttpTypeOK
  <1>3. Answering(c) /\ n = Len(answers[c]) + 1 /\ o = Writing(Response(last))
    <2>1. o # Dispatch /\ o # Reading
      BY OperationOf DEF OnWrite
    <2> QED
      BY <1>1, <2>1 DEF HttpInv, SessionOf, Between, Answering
  <1>4. last \in Requests
    BY <1>2, <1>3
  <1>5. o.response = Response(last) /\ o.response \in Responses /\ o.response.keep = last.keep
    BY <1>3, <1>4, ResponseOf, OperationOf
  <1> QED
    BY <1>1, <1>3, <1>4, <1>5

LEMMA OnWriteInv == ASSUME HttpInv, NEW c \in Conns, NEW o, OnWrite(c, o) PROVE HttpInv'
  <1> DEFINE n == Len(asked[c])
             last == asked[c][n]
             next == IF last.keep THEN {Reading} ELSE {}
  <1>1. ops' = [ops EXCEPT ![c] = next] /\ stage[c] = "session"
    BY OnWriteLast
  <1>2. asked[c] \in Seq(Requests) /\ answers[c] \in Seq(Responses)
    BY DEF HttpInv, HttpTypeOK
  <1>3. n = Len(answers[c]) + 1
    BY OnWriteLast DEF Answering
  <1>5. o.response = Response(last) /\ o.response \in Responses
    BY OnWriteLast
  <1>6. answers' = [answers EXCEPT ![c] = Append(answers[c], o.response)] /\ late' \in [Conns -> BOOLEAN]
        /\ UNCHANGED <<listener, stage, clientVars, asked>>
    BY DEF HttpInv, HttpTypeOK, OnWrite, DoRead
  <1>7. HttpTypeOK'
    <2>1. answers' \in [Conns -> Seq(Responses)]
      BY <1>2, <1>5, <1>6 DEF HttpInv, HttpTypeOK
    <2>2. ops' \in [Conns -> SUBSET Operations]
      BY <1>1, OperationOf DEF HttpInv, HttpTypeOK
    <2> QED
      BY <1>6, <2>1, <2>2 DEF HttpInv, HttpTypeOK, clientVars
  <1>8. answers'[c] = Append(answers[c], Response(last)) /\ asked'[c] = asked[c]
        /\ ops'[c] = next /\ stage'[c] = "session"
    BY <1>1, <1>5, <1>6 DEF HttpInv, HttpTypeOK
  <1>9. next = {} \/ (next = {Reading} /\ last.keep)
    OBVIOUS
  <1>10. \A i \in DOMAIN asked[c] : i < n => asked[c][i].keep
    BY DEF HttpInv, SessionOf, Answered
  <1>11. \A i \in DOMAIN answers[c] : answers[c][i] = Response(asked[c][i])
    BY DEF HttpInv, SessionOf, Answered
  <1> HIDE DEF next
  <1>12. Len(answers'[c]) = n /\ \A i \in DOMAIN answers'[c] : answers'[c][i] = Response(asked[c][i])
    <2>1. /\ answers'[c] = Append(answers[c], Response(last)) /\ Response(last) \in Responses
          /\ answers[c] \in Seq(Responses) /\ n = Len(answers[c]) + 1
      BY <1>2, <1>3, <1>5, <1>8
    <2>2. /\ Len(answers'[c]) = n /\ DOMAIN answers'[c] = 1 .. n
          /\ \A i \in 1 .. n : answers'[c][i] = IF i = n THEN Response(last) ELSE answers[c][i]
      BY ONLY <2>1
    <2>3. \A i \in 1 .. n : i # n => i \in DOMAIN answers[c]
      BY ONLY <2>1
    <2> QED
      BY <1>11, <2>2, <2>3
  <1>13. Answered(c)'
    BY <1>2, <1>8, <1>10, <1>12 DEF Answered
  <1>14. ops'[c] = {} \/ Between(c)'
    <2>1. last.keep => \A i \in DOMAIN asked[c] : asked[c][i].keep
      BY <1>2, <1>10
    <2> QED
      BY <1>8, <1>9, <1>12, <2>1 DEF Between
  <1>15. SessionOf(c)'
    BY <1>8, <1>13, <1>14 DEF SessionOf
  <1>16. \A d \in Conns \ {c} : SessionOf(d)'
    BY <1>1, <1>6, OtherSession DEF HttpInv, HttpTypeOK
  <1> QED
    BY <1>7, <1>15, <1>16 DEF HttpInv

LEMMA LateInv == ASSUME HttpInv, NEW c \in Conns, Late(c) PROVE HttpInv'
  <1>1. HttpTypeOK'
    BY DEF HttpInv, HttpTypeOK, Late, clientVars
  <1>2. \A d \in Conns : SessionOf(d)'
    BY OtherSession DEF HttpInv, Late
  <1> QED
    BY <1>1, <1>2 DEF HttpInv

LEMMA ClientInv == ASSUME HttpInv, NEW c \in Conns, Client(c) PROVE HttpInv'
  <1> USE DEF Client, clientVars
  <1>1. stage' \in [Conns -> {"away", "queued", "session"}] /\ peer' \in [Conns -> {"up", "eof", "reset"}]
    BY DEF HttpInv, HttpTypeOK
  <1>2. inbox' \in [Conns -> Seq(Requests \cup {Malformed})]
    <2>1. /\ inbox \in [Conns -> Seq(Requests \cup {Malformed})]
          /\ \/ inbox' = inbox
             \/ \E m \in Requests \cup {Malformed} : inbox' = [inbox EXCEPT ![c] = Append(inbox[c], m)]
      BY DEF HttpInv, HttpTypeOK
    <2> QED
      BY ONLY <2>1, c \in Conns
  <1>3. HttpTypeOK'
    <2>1. UNCHANGED <<listener, ops, late, asked, answers>>
      OBVIOUS
    <2> QED
      BY ONLY <1>1, <1>2, <2>1, HttpInv DEF HttpInv, HttpTypeOK
  <1>4. SessionOf(c)'
    <2>1. stage'[c] = stage[c] \/ (stage[c] = "away" /\ stage'[c] = "queued")
      BY DEF HttpInv, HttpTypeOK
    <2>2. UNCHANGED <<ops, asked, answers>>
      OBVIOUS
    <2> QED
      BY ONLY <2>1, <2>2, HttpInv, c \in Conns DEF HttpInv, SessionOf, Answered, Between, Answering
  <1>5. \A d \in Conns \ {c} : SessionOf(d)'
    BY OtherSession DEF HttpInv, HttpTypeOK
  <1> QED
    BY <1>3, <1>4, <1>5 DEF HttpInv

LEMMA HttpStep == HttpInv /\ [Next]_vars => HttpInv'
  <1> SUFFICES ASSUME HttpInv, [Next]_vars PROVE HttpInv'
    OBVIOUS
  <1>1. ASSUME NEW c \in Conns, Ends(c) PROVE HttpInv'
    BY <1>1, EndInv DEF Ends, ReadEnds, WriteEnds
  <1>2. ASSUME NEW c \in Conns, Write(c) PROVE HttpInv'
    BY <1>2, EndInv, OnWriteInv DEF Write, FileEnds
  <1>3. CASE UNCHANGED vars
    <2>1. HttpTypeOK'
      BY <1>3 DEF HttpInv, HttpTypeOK, vars, clientVars
    <2>2. \A d \in Conns : SessionOf(d)'
      BY <1>3, OtherSession DEF HttpInv, vars
    <2> QED
      BY <2>1, <2>2 DEF HttpInv
  <1> QED
    BY <1>1, <1>2, <1>3, ListenerInv, AcceptInv, StartInv, OnReadInv, LateInv, ClientInv DEF Next, Handler

LEMMA HttpInvariant == Spec => []HttpInv
  BY HttpInit, HttpStep, PTL DEF Spec

(* The variables of the server keep their types (server.h). *)
THEOREM HttpTypeCorrect == Spec => []HttpTypeOK
  <1>1. HttpInv => HttpTypeOK
    BY DEF HttpInv
  <1> QED
    BY <1>1, HttpInvariant, PTL

(* A session has one operation under way at most (server.h, do_read and    *)
(* send_response).                                                         *)
THEOREM SessionsSequential == Spec => []OneOperation
  <1>1. HttpInv => OneOperation
    BY DEF HttpInv, SessionOf, Between, Answering, OneOperation
  <1> QED
    BY <1>1, HttpInvariant, PTL

(* Answers come in the order of the requests, each to its own (server.h,   *)
(* on_read to on_write).                                                   *)
THEOREM AnswersOrdered == Spec => []AnswersInOrder
  <1>1. HttpInv => AnswersInOrder
    BY DEF HttpInv, SessionOf, Answered, AnswersInOrder
  <1> QED
    BY <1>1, HttpInvariant, PTL

(* No request is taken after one that closes the connection (server.h,     *)
(* on_write and do_close).                                                 *)
THEOREM LastStaysLast == Spec => []LastIsLast
  <1>1. HttpInv => LastIsLast
    BY DEF HttpInv, SessionOf, Answered, LastIsLast
  <1> QED
    BY <1>1, HttpInvariant, PTL

-----------------------------------------------------------------------------
(* The dialogues. *)

(* What a dialogue does not see. *)
LEMMA Unseen ==
    ASSUME NEW c \in Conns, asked'[c] = asked[c], answers'[c] = answers[c],
           (stage'[c] = "session") <=> (stage[c] = "session"), (ops'[c] = {}) <=> (ops[c] = {})
    PROVE  UNCHANGED Serving(c)!dialogueVars
  BY DEF Serving!dialogueVars, Phase

(* An operation that ends a session breaks the dialogue off. *)
LEMMA EndBreaks ==
    ASSUME HttpInv, NEW c \in Conns, NEW o, Completes(c, o, {}), UNCHANGED <<stage, asked, answers>>
    PROVE  \A d \in Conns : [Serving(d)!DialogueNext]_(Serving(d)!dialogueVars)
  <1>1. ops[c] = {o} /\ ops' = [ops EXCEPT ![c] = {}] /\ stage[c] = "session"
    BY OneCompletes
  <1>2. ops'[c] = {} /\ \A d \in Conns \ {c} : ops'[d] = ops[d]
    BY <1>1 DEF HttpInv, HttpTypeOK
  <1>3. Serving(c)!BreakOff
    BY <1>1, <1>2 DEF Serving!BreakOff, Phase
  <1>4. \A d \in Conns \ {c} : UNCHANGED Serving(d)!dialogueVars
    BY <1>2, Unseen
  <1> QED
    BY <1>3, <1>4 DEF Serving!DialogueNext

LEMMA ReadTakes ==
    ASSUME HttpInv, NEW c \in Conns, OnRead(c)
    PROVE  \A d \in Conns : [Serving(d)!DialogueNext]_(Serving(d)!dialogueVars)
  <1> DEFINE r == Head(inbox[c])
  <1>1. r \in Requests
    BY DEF HttpInv, HttpTypeOK, OnRead
  <1>2. ops[c] = {Reading} /\ ops' = [ops EXCEPT ![c] = {Writing(Response(r))}] /\ stage[c] = "session"
    BY OneCompletes DEF OnRead
  <1>3. asked' = [asked EXCEPT ![c] = Append(asked[c], r)] /\ UNCHANGED <<stage, answers>>
    BY DEF OnRead
  <1> HIDE DEF r
  <1>4. ops'[c] # {} /\ asked'[c] = Append(asked[c], r) /\ answers'[c] = answers[c] /\ stage'[c] = "session"
    BY <1>2, <1>3 DEF HttpInv, HttpTypeOK
  <1>5. Len(answers[c]) = Len(asked[c])
    <2>1. \A x : Writing(x) # Reading
      BY DEF Writing, Reading
    <2> QED
      BY <1>2, <2>1 DEF HttpInv, SessionOf, Between, Answering
  <1>6. Serving(c)!Take
    BY <1>1, <1>2, <1>4, <1>5 DEF Serving!Take, Phase
  <1>7. ASSUME NEW d \in Conns \ {c} PROVE UNCHANGED Serving(d)!dialogueVars
    <2>1. ops'[d] = ops[d] /\ asked'[d] = asked[d] /\ answers'[d] = answers[d] /\ stage'[d] = stage[d]
      BY <1>2, <1>3 DEF HttpInv, HttpTypeOK
    <2> QED
      BY <2>1, Unseen
  <1> QED
    BY <1>6, <1>7 DEF Serving!DialogueNext

LEMMA WriteGives ==
    ASSUME HttpInv, NEW c \in Conns, NEW o, OnWrite(c, o)
    PROVE  \A d \in Conns : [Serving(d)!DialogueNext]_(Serving(d)!dialogueVars)
  <1> DEFINE last == asked[c][Len(asked[c])]
  <1>1. /\ ops[c] # {} /\ stage[c] = "session" /\ Answering(c)
        /\ ops' = [ops EXCEPT ![c] = IF last.keep THEN {Reading} ELSE {}]
        /\ last \in Requests /\ o.response = Response(last)
    BY OnWriteLast
  <1>2. answers' = [answers EXCEPT ![c] = Append(answers[c], o.response)] /\ UNCHANGED <<stage, asked>>
    BY DEF OnWrite
  <1>3. Len(answers[c]) < Len(asked[c])
    <2>1. Len(answers[c]) \in Nat /\ Len(asked[c]) = Len(answers[c]) + 1
      BY <1>1 DEF Answering, HttpInv, HttpTypeOK
    <2> QED
      BY <2>1
  <1>4. answers'[c] = Append(answers[c], AnswerTo[last]) /\ asked'[c] = asked[c] /\ stage'[c] = "session"
        /\ ops'[c] = IF last.keep THEN {Reading} ELSE {}
    BY <1>1, <1>2 DEF AnswerTo, HttpInv, HttpTypeOK
  <1> HIDE DEF last
  <1>5. Phase(c) = "open" /\ Phase(c)' = IF last.keep THEN "open" ELSE "over"
    BY <1>1, <1>4 DEF Phase
  <1>6. Serving(c)!Give
    BY <1>3, <1>4, <1>5 DEF Serving!Give, last
  <1>7. ASSUME NEW d \in Conns \ {c} PROVE UNCHANGED Serving(d)!dialogueVars
    <2>1. ops'[d] = ops[d] /\ asked'[d] = asked[d] /\ answers'[d] = answers[d] /\ stage'[d] = stage[d]
      BY <1>1, <1>2 DEF HttpInv, HttpTypeOK
    <2> QED
      BY <2>1, Unseen
  <1> QED
    BY <1>6, <1>7 DEF Serving!DialogueNext

LEMMA DialogueStep ==
    HttpInv /\ [Next]_vars => \A c \in Conns : [Serving(c)!DialogueNext]_(Serving(c)!dialogueVars)
  <1> DEFINE Refines == \A c \in Conns : [Serving(c)!DialogueNext]_(Serving(c)!dialogueVars)
  <1> SUFFICES ASSUME HttpInv, [Next]_vars PROVE Refines
    OBVIOUS
  <1>1. CASE Construct \/ Run \/ AcceptError \/ UNCHANGED vars
    BY <1>1, Unseen DEF Construct, Run, AcceptError, vars
  <1>2. ASSUME NEW c \in Conns, Accept(c) PROVE Refines
    <2>1. stage[c] = "queued" /\ stage'[c] = "session" /\ ops'[c] # {} /\ UNCHANGED <<asked, answers>>
      BY <1>2 DEF Accept, HttpInv, HttpTypeOK
    <2>2. Serving(c)!Open
      BY <2>1 DEF Serving!Open, Phase
    <2>3. \A d \in Conns \ {c} : stage'[d] = stage[d] /\ ops'[d] = ops[d]
      BY <1>2 DEF Accept, HttpInv, HttpTypeOK
    <2> QED
      BY <2>1, <2>2, <2>3, Unseen DEF Serving!DialogueNext
  <1>3. ASSUME NEW c \in Conns, Start(c) PROVE Refines
    <2>1. ops[c] = {Dispatch} /\ ops' = [ops EXCEPT ![c] = {Reading}] /\ UNCHANGED <<stage, asked, answers>>
      BY <1>3, OneCompletes DEF Start, DoRead
    <2>2. \A d \in Conns : ops'[d] = {} <=> ops[d] = {}
      BY <2>1 DEF HttpInv, HttpTypeOK
    <2> QED
      BY <2>1, <2>2, Unseen
  <1>4. ASSUME NEW c \in Conns, Late(c) PROVE Refines
    BY <1>4, Unseen DEF Late
  <1>5. ASSUME NEW c \in Conns, Client(c) PROVE Refines
    <2>1. UNCHANGED <<ops, asked, answers>>
      BY <1>5 DEF Client
    <2>2. \A d \in Conns : stage'[d] = "session" <=> stage[d] = "session"
      BY <1>5 DEF Client, HttpInv, HttpTypeOK
    <2> QED
      BY <2>1, <2>2, Unseen
  <1>6. ASSUME NEW c \in Conns, Ends(c) PROVE Refines
    BY <1>6, EndBreaks DEF Ends, ReadEnds, WriteEnds
  <1>7. ASSUME NEW c \in Conns, Write(c) PROVE Refines
    BY <1>7, EndBreaks, WriteGives DEF Write, FileEnds
  <1> HIDE DEF Refines
  <1> QED
    BY <1>1, <1>2, <1>3, <1>4, <1>5, <1>6, <1>7, ReadTakes DEF Next, Handler, Refines

(* Every session is a dialogue: it takes one request at a time, answers it *)
(* before the next, and nothing follows its end (server.h, on_read to      *)
(* on_write).                                                              *)
THEOREM SessionsImplementDialogue == Spec => SessionsAreDialogues
  <1>1. Init => \A c \in Conns : Serving(c)!DialogueInit
    BY DEF Init, Serving!DialogueInit, Phase
  <1>2. HttpInv /\ [Next]_vars => \A c \in Conns : [Serving(c)!DialogueNext]_(Serving(c)!dialogueVars)
    BY DialogueStep
  <1> QED
    BY <1>1, <1>2, HttpInvariant, PTL DEF Spec, SessionsAreDialogues

-----------------------------------------------------------------------------
(* The paths that are opened. *)

(* Induction, as the least number a set of numbers lacks. *)
LEMMA UpTo ==
    ASSUME NEW S, 0 \in S, \A n \in Nat : n \in S => n + 1 \in S
    PROVE  Nat \subseteq S
  <1> DEFINE T == Nat \ S
  <1> SUFFICES ASSUME T # {} PROVE FALSE
    OBVIOUS
  <1>1. T \subseteq Nat
    OBVIOUS
  <1> HIDE DEF T
  <1>2. PICK x \in T : \A y \in T : ~(<<y, x>> \in OpToRel(<, Nat))
    BY ONLY <1>1, T # {}, NatLessThanWellFounded, WFMin
  <1>3. x \in Nat /\ x \notin S /\ x # 0
    BY DEF T
  <1>4. x - 1 \in Nat /\ (x - 1) + 1 = x /\ x - 1 < x
    BY <1>3
  <1>5. x - 1 \in T
    BY <1>3, <1>4 DEF T
  <1>6. <<x - 1, x>> \in OpToRel(<, Nat)
    BY <1>3, <1>4 DEF OpToRel
  <1> QED
    BY <1>2, <1>5, <1>6

(* f is the way path is walked. *)
Walk(N, path, f) ==
    /\ f \in [0 .. Len(path) -> Seq(N)]
    /\ f[0] = <<>>
    /\ \A i \in 1 .. Len(path) : f[i] = Enter(f[i - 1], path[i])

LEMMA EnterType ==
  ASSUME NEW N, NEW at \in Seq(N), NEW name \in N
  PROVE  Enter(at, name) \in Seq(N)
  <1>1. ASSUME at # <<>> PROVE Front(at) \in Seq(N)
    <2>1. \A i \in 1 .. Len(at) - 1 : at[i] \in N
      OBVIOUS
    <2>2. SubSeq(at, 1, Len(at) - 1) \in Seq(N)
      <3>1. Len(at) - 1 \in Int
        OBVIOUS
      <3> QED
        BY <2>1, <3>1, SubSeqProperties
    <2> QED
      BY <2>2 DEF Front
  <1> QED
    BY <1>1 DEF Enter

(* Every path can be walked. *)
LEMMA WalkExists ==
  ASSUME NEW N, NEW path \in Seq(N)
  PROVE  \E f : Walk(N, path, f)
  <1> DEFINE W(n, f) == /\ f \in [0 .. n -> Seq(N)]
                        /\ f[0] = <<>>
                        /\ \A i \in 1 .. n : f[i] = Enter(f[i - 1], path[i])
             S == {n \in Nat : n <= Len(path) => \E f : W(n, f)}
  <1>1. 0 \in S
    <2>1. W(0, [i \in 0 .. 0 |-> <<>>])
      OBVIOUS
    <2> QED
      BY <2>1
  <1>2. ASSUME NEW n \in Nat, n \in S, n + 1 <= Len(path) PROVE \E f : W(n + 1, f)
    <2>1. PICK f : W(n, f)
      <3>1. n <= Len(path) /\ \E f : W(n, f)
        <4>1. n <= Len(path)
          BY <1>2
        <4> HIDE DEF W
        <4> QED
          BY <1>2, <4>1
      <3> QED
        BY <3>1
    <2> DEFINE g == [i \in 0 .. n + 1 |-> IF i = n + 1 THEN Enter(f[n], path[n + 1]) ELSE f[i]]
    <2>2. f[n] \in Seq(N) /\ path[n + 1] \in N
      BY <1>2, <2>1
    <2>3. Enter(f[n], path[n + 1]) \in Seq(N)
      BY <2>2, EnterType
    <2>4. g \in [0 .. n + 1 -> Seq(N)] /\ g[0] = <<>>
      BY <1>2, <2>1, <2>3
    <2>5. ASSUME NEW i \in 1 .. n + 1 PROVE g[i] = Enter(g[i - 1], path[i])
      <3>1. CASE i = n + 1
        <4>1. g[i] = Enter(f[n], path[n + 1]) /\ g[i - 1] = f[n]
          BY <1>2, <3>1
        <4> QED
          BY <3>1, <4>1
      <3>2. CASE i \in 1 .. n
        <4>1. g[i] = f[i] /\ g[i - 1] = f[i - 1]
          BY <1>2, <3>2
        <4> QED
          BY <2>1, <3>2, <4>1
      <3> QED
        BY <1>2, <3>1, <3>2
    <2> HIDE DEF g
    <2> QED
      BY <2>4, <2>5
  <1>3. \A n \in Nat : n \in S => n + 1 \in S
    <2> HIDE DEF W
    <2> QED
      BY <1>2
  <1> HIDE DEF S
  <1>4. Len(path) \in S
    BY <1>1, <1>3, UpTo
  <1> QED
    BY <1>4 DEF S, Walk

LEMMA ResolveWalks ==
  ASSUME NEW N, NEW path \in Seq(N), NEW f, Walk(N, path, f)
  PROVE  Resolve(path) = f[Len(path)]
  <1> DEFINE P(g) == g = [i \in 0 .. Len(path) |-> IF i = 0 THEN <<>> ELSE Enter(g[i - 1], path[i])]
             at == CHOOSE g : P(g)
  <1>1. P(f)
    <2>1. f = [i \in 0 .. Len(path) |-> f[i]]
      BY DEF Walk
    <2>2. \A i \in 0 .. Len(path) : f[i] = IF i = 0 THEN <<>> ELSE Enter(f[i - 1], path[i])
      BY DEF Walk
    <2> QED
      BY <2>1, <2>2
  <1>2. P(at)
    BY <1>1
  <1>3. Resolve(path) = at[Len(path)]
    BY DEF Resolve
  <1> HIDE DEF at
  <1>4. at = f
    <2> DEFINE S == {n \in Nat : n <= Len(path) => f[n] = at[n]}
    <2>1. 0 \in S
      BY <1>2 DEF Walk
    <2>2. \A n \in Nat : n \in S => n + 1 \in S
      <3> SUFFICES ASSUME NEW n \in Nat, n \in S, n + 1 <= Len(path) PROVE f[n + 1] = at[n + 1]
        OBVIOUS
      <3>1. f[n] = at[n] /\ n + 1 \in 1 .. Len(path) /\ (n + 1) - 1 = n /\ n + 1 # 0 /\ n + 1 \in 0 .. Len(path)
        OBVIOUS
      <3>2. at[n + 1] = Enter(at[n], path[n + 1])
        BY <1>2, <3>1
      <3> QED
        BY <3>1, <3>2 DEF Walk
    <2>3. \A n \in 0 .. Len(path) : f[n] = at[n]
      <3> HIDE DEF S
      <3>1. Nat \subseteq S
        BY <2>1, <2>2, UpTo
      <3> QED
        BY <3>1 DEF S
    <2>4. at = [i \in 0 .. Len(path) |-> at[i]]
      BY <1>2
    <2> QED
      BY <2>3, <2>4 DEF Walk
  <1> QED
    BY <1>3, <1>4

LEMMA ResolveType ==
  ASSUME NEW N, NEW path \in Seq(N)
  PROVE  Resolve(path) \in Seq(N)
  <1>1. PICK f : Walk(N, path, f)
    BY WalkExists
  <1>2. Resolve(path) = f[Len(path)]
    BY <1>1, ResolveWalks
  <1> QED
    BY <1>1, <1>2 DEF Walk

LEMMA ResolveAppend ==
  ASSUME NEW N, NEW path \in Seq(N), NEW name \in N
  PROVE  Resolve(Append(path, name)) = Enter(Resolve(path), name)
  <1> DEFINE n == Len(path)
             longer == Append(path, name)
  <1>1. longer \in Seq(N) /\ Len(longer) = n + 1 /\ n \in Nat
        /\ longer[n + 1] = name /\ \A i \in 1 .. n : longer[i] = path[i]
    OBVIOUS
  <1> HIDE DEF longer
  <1>2. PICK f : Walk(N, longer, f)
    BY <1>1, WalkExists
  <1> DEFINE g == [i \in 0 .. n |-> f[i]]
  <1>3. Walk(N, path, g)
    BY <1>1, <1>2 DEF Walk
  <1>4. Resolve(longer) = f[n + 1] /\ Resolve(path) = g[n]
    BY <1>1, <1>2, <1>3, ResolveWalks
  <1>5. f[n + 1] = Enter(f[n], name)
    <2>1. n + 1 \in 1 .. Len(longer) /\ (n + 1) - 1 = n
      BY <1>1
    <2> QED
      BY <1>1, <1>2, <2>1 DEF Walk
  <1> QED
    BY <1>1, <1>4, <1>5 DEF longer

(* Names without ".." only go down. *)
LEMMA ResolveDown ==
  ASSUME NEW N, NEW base \in Seq(N), NEW rest \in Seq(N), \A i \in DOMAIN rest : rest[i] # ".."
  PROVE  Resolve(base \o rest) = Resolve(base) \o rest
  <1> DEFINE Goes(part) == Resolve(base \o part) = Resolve(base) \o part
             S == {n \in Nat : n <= Len(rest) => Goes(SubSeq(rest, 1, n))}
  <1>1. Resolve(base) \in Seq(N)
    BY ResolveType
  <1>2. 0 \in S
    <2>1. Goes(<<>>)
      BY <1>1, ConcatEmptySeq
    <2>2. SubSeq(rest, 1, 0) = <<>>
      BY SubSeqEmpty
    <2> QED
      BY <2>1, <2>2
  <1>3. ASSUME NEW n \in Nat, n \in S, n + 1 <= Len(rest) PROVE Goes(SubSeq(rest, 1, n + 1))
    <2> DEFINE part == SubSeq(rest, 1, n)
               name == rest[n + 1]
    <2>1. name \in N /\ name # ".." /\ part \in Seq(N)
      <3>1. n + 1 \in DOMAIN rest /\ n \in Int /\ \A i \in 1 .. n : rest[i] \in N
        BY <1>3
      <3>2. part \in Seq(N)
        BY <3>1, SubSeqProperties
      <3> QED
        BY <3>1, <3>2
    <2>2. SubSeq(rest, 1, n + 1) = Append(part, name)
      <3>1. n + 1 \in 1 .. Len(rest) /\ 1 \in 1 .. Len(rest) /\ n + 1 \in 1 .. Len(rest) /\ (n + 1) - 1 = n
        BY <1>3
      <3>2. SubSeq(rest, 1, n + 1) = part \o <<name>>
        BY <3>1, SubSeqRecursiveSecond
      <3> HIDE DEF part, name
      <3> QED
        BY <2>1, <3>2
    <2>3. Goes(part)
      BY <1>3
    <2> HIDE DEF part, name
    <2> DEFINE at == Resolve(base)
    <2> HIDE DEF at
    <2>4. base \o Append(part, name) = Append(base \o part, name)
      BY <2>1
    <2>5. at \o Append(part, name) = Append(at \o part, name)
      BY <1>1, <2>1 DEF at
    <2>6. Resolve(Append(base \o part, name)) = Append(Resolve(base \o part), name)
      <3>1. base \o part \in Seq(N)
        BY <2>1
      <3> QED
        BY <2>1, <3>1, ResolveAppend DEF Enter
    <2> QED
      BY <2>2, <2>3, <2>4, <2>5, <2>6 DEF at
  <1>4. \A n \in Nat : n \in S => n + 1 \in S
    BY <1>3
  <1> HIDE DEF S
  <1>5. Len(rest) \in S
    BY <1>2, <1>4, UpTo
  <1>6. Goes(SubSeq(rest, 1, Len(rest)))
    BY <1>5 DEF S
  <1>7. SubSeq(rest, 1, Len(rest)) = rest
    BY SubSeqFull
  <1> QED
    BY <1>6, <1>7

(* What a legal target names lies under doc_root. *)
LEMMA LegalIsUnder ==
    ASSUME NEW r \in Requests, OpensFile(r)
    PROVE  IsPrefix(Resolve(Root), Resolve(FilePath(r.target)))
  <1> DEFINE Names == STRING \cup {"index.html"}
             index == IF r.target.dir THEN <<"index.html">> ELSE <<>>
             below == r.target.path \o index
             at == Resolve(Root)
  <1>1. r.target.path \in Seq(Names) /\ Root \in Seq(Names)
    <2>1. r.target.path \in Seq(STRING) /\ Root \in Seq(STRING)
      BY HttpAssumption DEF Targets
    <2> QED
      BY <2>1, SeqMonotonic
  <1>2. r.target.absolute /\ \A i \in DOMAIN r.target.path : r.target.path[i] # ".."
    BY HttpAssumption DEF OpensFile, Legal
  <1>3. index \in Seq(Names) /\ \A i \in 1 .. Len(index) : index[i] # ".."
    <2>1. "index.html" \in Names /\ "index.html" # ".."
      OBVIOUS
    <2> HIDE DEF Names
    <2>2. <<"index.html">> \in Seq(Names) /\ <<>> \in Seq(Names)
      BY <2>1
    <2> QED
      BY <2>1, <2>2
  <1> HIDE DEF index, Names
  <1>4. below \in Seq(Names) /\ \A i \in DOMAIN below : below[i] # ".."
    <2> DEFINE path == r.target.path
    <2>1. path \in Seq(Names) /\ \A i \in 1 .. Len(path) : path[i] # ".."
      BY <1>1, <1>2
    <2> HIDE DEF path
    <2>2. /\ path \o index \in Seq(Names) /\ Len(path \o index) = Len(path) + Len(index)
          /\ \A i \in 1 .. Len(path) + Len(index) :
                (path \o index)[i] = IF i <= Len(path) THEN path[i] ELSE index[i - Len(path)]
      BY <1>3, <2>1, ConcatProperties
    <2>3. \A i \in DOMAIN (path \o index) : (path \o index)[i] # ".."
      BY <1>3, <2>1, <2>2
    <2> QED
      BY <2>2, <2>3 DEF path
  <1>5. FilePath(r.target) = Root \o below
    <2>1. FilePath(r.target) = (Root \o r.target.path) \o index
      BY <1>2 DEF FilePath, index
    <2>2. \A path \in Seq(Names) : (Root \o path) \o index = Root \o (path \o index)
      BY <1>1, <1>3, ConcatAssociative
    <2> QED
      BY <1>1, <2>1, <2>2
  <1> HIDE DEF below
  <1>6. Resolve(Root \o below) = at \o below /\ at \in Seq(Names)
    BY <1>1, <1>4, ResolveDown, ResolveType
  <1> HIDE DEF at
  <1>7. IsPrefix(at, at \o below)
    BY <1>4, <1>6 DEF IsPrefix
  <1> QED
    BY <1>5, <1>6, <1>7 DEF at

(* Whatever is opened, a request asked for it that is allowed to. *)
OpenedAsAsked == \A path \in opened : \E r \in Requests : OpensFile(r) /\ path = FilePath(r.target)

LEMMA OpenedStep == HttpInv /\ OpenedAsAsked /\ [Next]_vars => OpenedAsAsked'
  <1> SUFFICES ASSUME HttpInv, OpenedAsAsked, [Next]_vars PROVE OpenedAsAsked'
    OBVIOUS
  <1>1. ASSUME NEW c \in Conns, OnRead(c) PROVE OpenedAsAsked'
    <2> DEFINE r == Head(inbox[c])
    <2>1. r \in Requests
      BY <1>1 DEF HttpInv, HttpTypeOK, OnRead
    <2>2. opened' = IF OpensFile(r) THEN opened \cup {FilePath(r.target)} ELSE opened
      BY <1>1 DEF OnRead
    <2> HIDE DEF r
    <2> QED
      BY <2>1, <2>2 DEF OpenedAsAsked
  <1>2. CASE UNCHANGED opened
    BY <1>2 DEF OpenedAsAsked
  <1> QED
    BY <1>1, <1>2 DEF Next, vars, Construct, Run, AcceptError, Accept, Handler, Start, Ends, ReadEnds, WriteEnds,
       Write, OnWrite, FileEnds, Late, Client

(* Only files under doc_root are opened, whatever clients ask for          *)
(* (server.h, handle_request).                                             *)
THEOREM OpensUnderRoot == Spec => []OnlyUnderRoot
  <1>1. Init => OpenedAsAsked
    BY DEF Init, OpenedAsAsked
  <1>2. OpenedAsAsked => OnlyUnderRoot
    BY LegalIsUnder DEF OpenedAsAsked, OnlyUnderRoot
  <1> QED
    BY <1>1, <1>2, OpenedStep, HttpInvariant, PTL DEF Spec

=============================================================================
