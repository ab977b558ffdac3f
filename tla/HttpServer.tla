---------------------------- MODULE HttpServer ----------------------------
(***************************************************************************)
(* The HTTP server (server.h): the listener, which accepts connections     *)
(* until the first error, and its sessions, each a chain of asynchronous   *)
(* operations: read a request, write the response, read the next one.      *)
(* A session exists as long as an operation holds it (shared_from_this),   *)
(* and its handlers run one at a time on its strand.                       *)
(*                                                                         *)
(* A request target is a list of names; a response is its status, the      *)
(* kind of its body and keep_alive.  Headers and mime types are left out.  *)
(***************************************************************************)
EXTENDS Naturals, SequencesExt

CONSTANTS
    Conns,          \* connections clients may make
    Requests,       \* requests they may send
    Malformed,      \* what the parser refuses
    Dotted,         \* names with ".." in them, ".." being one
    Root,           \* doc_root, a path; <<>> if it is empty, or "/"
    Here,           \* the working directory
    Beside,         \* the last name of doc_root with a name glued to it
    Files,          \* paths of files that can be opened
    Unreadable,     \* paths open() refuses with another error than "no such file"
    MaxSent         \* bound: requests on each connection

Targets == [absolute : BOOLEAN, path : Seq(STRING), dir : BOOLEAN]
ClientsTarget == [absolute |-> TRUE, path |-> <<"get_clients">>, dir |-> FALSE]

ASSUME HttpAssumption ==
    /\ Requests \subseteq [method : {"GET", "HEAD", "POST"}, target : Targets, keep : BOOLEAN]
    /\ Malformed \notin Requests
    /\ ".." \in Dotted
    /\ Root \in Seq(STRING)
    /\ MaxSent \in [Conns -> Nat]

VARIABLES
    listener,   \* the step of its constructor, then what it is doing
    stage,      \* of each connection: "away", "queued", "session"
    ops,        \* of each session: the operations under way
    late,       \* the 30 seconds after the last do_read are over
    peer,       \* what the client did to the connection
    inbox,      \* what the client sent and no read has taken
    asked,      \* history: the requests taken
    answers,    \* history: the responses written
    opened      \* history: the paths handed to open()

clientVars == <<peer, inbox>>
vars == <<listener, stage, ops, late, clientVars, asked, answers, opened>>

-----------------------------------------------------------------------------
(* handle_request *)

(* Mutant: the target is not searched for "..". *)
LegalDots(target) == target.absolute

(* The target is absolute and does not contain "..". *)
Legal(target) ==
    /\ target.absolute
    /\ \A i \in DOMAIN target.path : target.path[i] \notin Dotted

(* path_cat and index.html: the target is appended to doc_root as text, and *)
(* is the path by itself if nothing of doc_root is left before it.         *)
FilePath(target) ==
    (IF target.absolute \/ target.path = <<>> THEN Root \o target.path
     ELSE IF Root = <<>> THEN Here \o target.path
     ELSE Front(Root) \o <<Beside>> \o Tail(target.path))
    \o (IF target.dir THEN <<"index.html">> ELSE <<>>)

(* The directory, or file, that a name leads to. *)
Enter(at, name) == IF name # ".." THEN Append(at, name)
                   ELSE IF at = <<>> THEN <<>> ELSE Front(at)

(* Where the file system finds a path. *)
Resolve(path) ==
    LET at[i \in 0 .. Len(path)] == IF i = 0 THEN <<>> ELSE Enter(at[i - 1], path[i])
    IN at[Len(path)]

OpensFile(r) == r.method \in {"GET", "HEAD"} /\ Legal(r.target) /\ r.target # ClientsTarget

Response(r) ==
    LET Of(status, body) == [status |-> status, body |-> body, keep |-> r.keep]
        file == Resolve(FilePath(r.target))
    IN CASE r.method \notin {"GET", "HEAD"} \/ ~Legal(r.target) -> Of(400, "text")
         [] r.method # "POST" /\ r.target = ClientsTarget -> Of(200, "text")
         [] OpensFile(r) /\ file \in Unreadable -> Of(500, "text")
         [] OpensFile(r) /\ file \notin Files \cup Unreadable -> Of(404, "text")
         [] OpensFile(r) /\ file \in Files -> Of(200, IF r.method = "HEAD" THEN "none" ELSE "file")

Responses == [status : {200, 400, 404, 500}, body : {"text", "none", "file"}, keep : BOOLEAN]
Operations == [op : {"dispatch", "read"}] \cup [op : {"write"}, response : Responses]

Dispatch == [op |-> "dispatch"]
Reading == [op |-> "read"]
Writing(response) == [op |-> "write", response |-> response]

Construction == <<"open", "set_option", "bind", "listen">>

HttpTypeOK ==
    /\ listener \in Range(Construction) \cup {"ready", "failed", "accepting", "broken", "stopped"}
    /\ stage \in [Conns -> {"away", "queued", "session"}]
    /\ ops \in [Conns -> SUBSET Operations]
    /\ late \in [Conns -> BOOLEAN]
    /\ peer \in [Conns -> {"up", "eof", "reset"}]
    /\ inbox \in [Conns -> Seq(Requests \cup {Malformed})]
    /\ asked \in [Conns -> Seq(Requests)]
    /\ answers \in [Conns -> Seq(Responses)]

Init ==
    /\ listener = "open"
    /\ stage = [c \in Conns |-> "away"]
    /\ ops = [c \in Conns |-> {}]
    /\ late = [c \in Conns |-> FALSE]
    /\ peer = [c \in Conns |-> "up"]
    /\ inbox = [c \in Conns |-> <<>>]
    /\ asked = [c \in Conns |-> <<>>]
    /\ answers = [c \in Conns |-> <<>>]
    /\ opened = {}

-----------------------------------------------------------------------------
(* The listener. *)

(* The constructor returns at the first step that fails. *)
Construct ==
    /\ \E i \in DOMAIN Construction :
        /\ listener = Construction[i]
        /\ \/ listener' = "failed"
           \/ listener' = IF i = 4 THEN "ready" ELSE Construction[i + 1]
    /\ UNCHANGED <<stage, ops, late, clientVars, asked, answers, opened>>

(* run is called whether or not the constructor got to its end. *)
Run ==
    /\ \/ listener = "ready" /\ listener' = "accepting"
       \/ listener = "failed" /\ listener' = "broken"
    /\ UNCHANGED <<stage, ops, late, clientVars, asked, answers, opened>>

(* on_accept: the connection becomes a session, and the next is accepted. *)
Accept(c) ==
    /\ listener = "accepting"
    /\ stage[c] = "queued"
    /\ stage' = [stage EXCEPT ![c] = "session"]
    /\ ops' = [ops EXCEPT ![c] = {Dispatch}]
    /\ UNCHANGED <<listener, late, clientVars, asked, answers, opened>>

(* Mutant: main holds the listener, which stays open. *)
AcceptErrorHeld ==
    /\ listener \in {"accepting", "broken"}
    /\ listener' = "stopped"
    /\ UNCHANGED <<stage, ops, late, clientVars, asked, answers, opened>>

(* An error, "to avoid infinite loop", is the end of accepting: nothing    *)
(* holds the listener any more, and its socket is closed.                  *)
AcceptError ==
    /\ listener \in {"accepting", "broken"}
    /\ listener' = "stopped"
    /\ peer' = [c \in Conns |-> IF stage[c] = "queued" THEN "reset" ELSE peer[c]]
    /\ UNCHANGED <<stage, ops, late, inbox, asked, answers, opened>>

-----------------------------------------------------------------------------
(* A session. *)

Completes(c, o, next) == o \in ops[c] /\ ops' = [ops EXCEPT ![c] = (@ \ {o}) \cup next]

(* do_read: a new request, 30 seconds from now. *)
DoRead(c, o) == Completes(c, o, {Reading}) /\ late' = [late EXCEPT ![c] = FALSE]

Start(c) ==
    /\ DoRead(c, Dispatch)
    /\ UNCHANGED <<listener, stage, clientVars, asked, answers, opened>>

(* Mutant: the next request is read while the response is written. *)
OnReadPipelined(c) ==
    /\ inbox[c] # <<>> /\ Head(inbox[c]) # Malformed
    /\ LET r == Head(inbox[c]) IN
        /\ Completes(c, Reading, {Writing(Response(r)), Reading})
        /\ asked' = [asked EXCEPT ![c] = Append(@, r)]
        /\ opened' = IF OpensFile(r) THEN opened \cup {FilePath(r.target)} ELSE opened
    /\ inbox' = [inbox EXCEPT ![c] = Tail(@)]
    /\ UNCHANGED <<listener, stage, late, peer, answers>>

(* Mutant: only the end of the stream is told from a request. *)
OnReadUnchecked(c) ==
    /\ inbox[c] # <<>>
    /\ LET r == Head(inbox[c]) IN
        /\ Completes(c, Reading, {Writing(Response(r))})
        /\ asked' = [asked EXCEPT ![c] = Append(@, r)]
        /\ opened' = IF OpensFile(r) THEN opened \cup {FilePath(r.target)} ELSE opened
    /\ inbox' = [inbox EXCEPT ![c] = Tail(@)]
    /\ UNCHANGED <<listener, stage, late, peer, answers>>

(* on_read with a request: its response is written; the rest of what the   *)
(* client sent stays in buffer_.                                           *)
OnRead(c) ==
    /\ inbox[c] # <<>> /\ Head(inbox[c]) # Malformed
    /\ LET r == Head(inbox[c]) IN
        /\ Completes(c, Reading, {Writing(Response(r))})
        /\ asked' = [asked EXCEPT ![c] = Append(@, r)]
        /\ opened' = IF OpensFile(r) THEN opened \cup {FilePath(r.target)} ELSE opened
    /\ inbox' = [inbox EXCEPT ![c] = Tail(@)]
    /\ UNCHANGED <<listener, stage, late, peer, answers>>

(* on_read at the end of the stream or with an error: nothing is started,  *)
(* do_close or not, and so the session goes.                               *)
ReadEnds(c) ==
    /\ \/ late[c]
       \/ peer[c] = "reset"
       \/ peer[c] = "eof" /\ inbox[c] = <<>>
       \/ inbox[c] # <<>> /\ Head(inbox[c]) = Malformed
    /\ Completes(c, Reading, {})
    /\ UNCHANGED <<listener, stage, late, clientVars, asked, answers, opened>>

(* Mutant: the connection is kept whatever the response says. *)
OnWriteKeeps(c, o) ==
    /\ o.op = "write" /\ peer[c] # "reset"
    /\ DoRead(c, o)
    /\ answers' = [answers EXCEPT ![c] = Append(@, o.response)]
    /\ UNCHANGED <<listener, stage, clientVars, asked, opened>>

(* on_write: the next request, or do_close. *)
OnWrite(c, o) ==
    /\ o.op = "write" /\ peer[c] # "reset"
    /\ IF o.response.keep THEN DoRead(c, o) ELSE Completes(c, o, {}) /\ UNCHANGED late
    /\ answers' = [answers EXCEPT ![c] = Append(@, o.response)]
    /\ UNCHANGED <<listener, stage, clientVars, asked, opened>>

(* The timer is still that of the read: a client that is slow to take the  *)
(* response is cut off, as one that has reset the connection.              *)
WriteEnds(c, o) ==
    /\ o.op = "write"
    /\ late[c] \/ peer[c] = "reset"
    /\ Completes(c, o, {})
    /\ UNCHANGED <<listener, stage, late, clientVars, asked, answers, opened>>

(* The file cannot be read to its end. *)
FileEnds(c, o) ==
    /\ o.op = "write" /\ o.response.body = "file"
    /\ Completes(c, o, {})
    /\ UNCHANGED <<listener, stage, late, clientVars, asked, answers, opened>>

Write(c) == \E o \in ops[c] : OnWrite(c, o) \/ FileEnds(c, o)
Ends(c) == ReadEnds(c) \/ (\E o \in ops[c] : WriteEnds(c, o))

(* Mutant: a write has no timer. *)
LateReading(c) ==
    /\ Reading \in ops[c] /\ ~late[c]
    /\ late' = [late EXCEPT ![c] = TRUE]
    /\ UNCHANGED <<listener, stage, ops, clientVars, asked, answers, opened>>

(* Time passes. *)
Late(c) ==
    /\ ops[c] # {} /\ Dispatch \notin ops[c] /\ ~late[c]
    /\ late' = [late EXCEPT ![c] = TRUE]
    /\ UNCHANGED <<listener, stage, ops, clientVars, asked, answers, opened>>

(* A client connects, sends, perhaps before it has an answer, shuts down   *)
(* its side, resets the connection.                                        *)
Client(c) ==
    /\ \/ /\ stage[c] = "away" /\ listener \in {"ready", "accepting"}
          /\ stage' = [stage EXCEPT ![c] = "queued"]
          /\ UNCHANGED clientVars
       \/ /\ stage[c] # "away" /\ peer[c] = "up"
          /\ Len(inbox[c]) + Len(asked[c]) < MaxSent[c]
          /\ \E r \in Requests \cup {Malformed} : inbox' = [inbox EXCEPT ![c] = Append(@, r)]
          /\ UNCHANGED <<stage, peer>>
       \/ /\ stage[c] # "away" /\ peer[c] = "up"
          /\ \E p \in {"eof", "reset"} : peer' = [peer EXCEPT ![c] = p]
          /\ UNCHANGED <<stage, inbox>>
    /\ UNCHANGED <<listener, ops, late, asked, answers, opened>>

Handler(c) == Start(c) \/ OnRead(c) \/ Ends(c)

Next ==
    \/ Construct \/ Run \/ AcceptError
    \/ \E c \in Conns : Accept(c) \/ Handler(c) \/ Write(c) \/ Late(c) \/ Client(c)

Spec == Init /\ [][Next]_vars

(* The threads of the io_context run handlers that are ready, and time     *)
(* passes; a client need not take a response.                              *)
FairSpec ==
    /\ Spec
    /\ WF_vars(Construct) /\ WF_vars(Run)
    /\ \A c \in Conns : WF_vars(Accept(c)) /\ WF_vars(Handler(c)) /\ WF_vars(Late(c))

-----------------------------------------------------------------------------

(* The stream and req_ have one user: no request is read while another one *)
(* is answered (do_read, send_response).                                   *)
OneOperation == \A c \in Conns : \A o, p \in ops[c] : o = p

(* The n-th answer is the one to the n-th request, also for requests sent  *)
(* before the answer to an earlier one (buffer_).                          *)
AnswersInOrder ==
    \A c \in Conns :
        /\ Len(answers[c]) <= Len(asked[c])
        /\ \A i \in DOMAIN answers[c] : answers[c][i] = Response(asked[c][i])

(* No request is taken after one that closes the connection, though the    *)
(* client may have sent it long before (on_write).                         *)
LastIsLast == \A c \in Conns : \A i \in DOMAIN asked[c] : i < Len(asked[c]) => asked[c][i].keep

(* Only files under doc_root are opened: a target with ".." could leave    *)
(* it, one without a leading "/" would name a neighbour of it.             *)
OnlyUnderRoot == \A path \in opened : IsPrefix(Resolve(Root), Resolve(path))

(* Each session is a dialogue, open as long as an operation is under way:  *)
(* one request is taken at a time and answered before the next one is, the *)
(* last one closes the connection, and nothing follows a break.            *)
AnswerTo == [r \in Requests |-> Response(r)]
Phase(c) == IF stage[c] # "session" THEN "none" ELSE IF ops[c] # {} THEN "open" ELSE "over"

Serving(c) == INSTANCE Dialogue WITH phase <- Phase(c), asked <- asked[c], answers <- answers[c]

SessionsAreDialogues ==
    /\ \A c \in Conns : Serving(c)!DialogueInit
    /\ [][\A c \in Conns : [Serving(c)!DialogueNext]_(Serving(c)!dialogueVars)]_vars

(* A client that connected is served, or told that it is not. *)
NobodyWaits == \A c \in Conns : (stage[c] = "queued") ~> (stage[c] = "session" \/ peer[c] = "reset")

(* Sessions end, whatever their clients do not do: the 30 seconds hold for *)
(* a request that does not come and an answer that is not taken.           *)
SessionsEnd == \A c \in Conns : (stage[c] = "session") ~> (stage[c] = "session" /\ ops[c] = {})

=============================================================================
