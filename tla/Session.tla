----------------------------- MODULE Session -----------------------------
(***************************************************************************)
(* One device of the test client (main.cpp): its manager, the thread that  *)
(* calls ws_manage_ws again and again; the workers of run_with_timeout it  *)
(* starts for the handshake and for every write; the reader threads that   *)
(* ws_async_read starts, one per successful ws_connect, and that never     *)
(* end.  They share the stream, the read buffer, the pending reply         *)
(* `extra_payload` and its mutex.  The manager's calls are those of        *)
(* TimedCall: a step of a call is a step of that module conjoined with     *)
(* what it does to the session.                                            *)
(*                                                                         *)
(* A manager thread serves several devices one after the other; the others *)
(* are seen here as the time between two passes.  is_time is a choice,     *)
(* since no property here counts seconds.                                  *)
(***************************************************************************)
EXTENDS TimedCall, Integers

CONSTANTS
    Readers,        \* threads left for readers
    Messages,       \* what the peer may send
    Nothing,        \* std::nullopt
    Frame,          \* the address of `done` in each of the four calls
    SendEvents,     \* the option events/no-events
    MaxAsked        \* bound: messages of the peer that ask for a reply

Ops == {"extra", "handshake", "event", "main"}

ASSUME SessionAssumption ==
    /\ Messages \subseteq {"main_payload", "get_probes", "event", "other"}
    /\ Nothing \notin Messages
    /\ Frame \in [Ops -> Cells]
    /\ SendEvents \in BOOLEAN
    /\ MaxAsked \in Nat

VARIABLES
    pc,         \* where ws_manage_ws is; in a call, the name of the call
    connected,  \* ws_state.connected
    stamped,    \* last_run_time is not the epoch any more
    extra,      \* ws_state.extra_payload, by the request it answers
    mutex,      \* the worker that holds ws_state_mutex, or NoWorker
    left,       \* payloads the holder of the mutex has still to write
    at,         \* where each worker is in f
    rpc,        \* where each reader is, "none" before it is started
    buffer,     \* the messages in ws_state.buffer
    open,       \* ws.is_open()
    link,       \* the TCP connection carries data in both directions
    asked,      \* history: messages read that ask for a reply
    begun       \* history: replies that workers have begun to send

managerVars == <<pc, connected, stamped>>
replyVars == <<extra, mutex, left, begun>>
readerVars == <<rpc, buffer, asked>>
streamVars == <<open, link>>
vars == <<callVars, managerVars, replyVars, at, readerVars, streamVars>>

(* ws_get_payload: what a message asks for; several messages in the buffer *)
(* are one string to it, searched for the names in this order.             *)
Answer(msgs) ==
    CASE "main_payload" \in msgs -> "main_payload"
      [] "get_probes" \in msgs -> "get_probes"
      [] "event" \in msgs -> "event"
      [] OTHER -> Nothing

(* Payloads in the answer: the probes come in two. *)
Count(reply) == IF reply = "get_probes" THEN 2 ELSE 1

TypeOK ==
    /\ CallTypeOK
    /\ pc \in Ops \cup {"check", "reset", "conn", "tcp", "due"}
    /\ connected \in BOOLEAN /\ stamped \in BOOLEAN
    /\ extra \in Messages \cup {Nothing}
    /\ mutex \in Workers \cup {NoWorker}
    /\ left \in 0 .. 2
    /\ at \in [Workers -> {"lock", "reply", "write", "begin", "shake", "end", "threw"}]
    /\ rpc \in [Readers -> {"none", "poll", "read", "got", "clear"}]
    /\ buffer \subseteq Messages
    /\ open \in BOOLEAN
    /\ link \in {"down", "up"}
    /\ asked \in 0 .. MaxAsked
    /\ begun \in Nat

Init ==
    /\ CallInit
    /\ pc = "check" /\ connected = FALSE /\ stamped = FALSE
    /\ extra = Nothing /\ mutex = NoWorker /\ left = 0 /\ begun = 0
    /\ at = [w \in Workers |-> "end"]
    /\ rpc = [r \in Readers |-> "none"] /\ buffer = {} /\ asked = 0
    /\ open = FALSE /\ link = "down"

-----------------------------------------------------------------------------
(* The manager: one pass of ws_manage_ws from "check" to "check". *)

Goto(l) == pc' = l /\ UNCHANGED <<connected, stamped>>

(* The pending reply is looked at without the mutex. *)
CheckExtra ==
    /\ pc = "check"
    /\ Goto(IF open /\ extra # Nothing THEN "extra" ELSE "conn")
    /\ UNCHANGED <<callVars, replyVars, at, readerVars, streamVars>>

(* First statement of f in each of the calls. *)
Entry(op) ==
    CASE op = "extra" -> "lock"
      [] op = "handshake" -> "begin"
      [] OTHER -> "write"

(* run_with_timeout starts a thread for f ... *)
Begin ==
    /\ pc \in Ops
    /\ \E w \in Workers :
        /\ Call(w, Frame[pc])
        /\ at' = [at EXCEPT ![w] = Entry(pc)]
    /\ UNCHANGED <<managerVars, replyVars, readerVars, streamVars>>

(* ... or std::thread throws: ws_connect and ws_manage_thread catch it, and *)
(* either way the pass is over.                                             *)
NoThread ==
    /\ pc \in Ops
    /\ caller = "idle"
    /\ running = Workers
    /\ Goto("check")
    /\ UNCHANGED <<callVars, replyVars, at, readerVars, streamVars>>

Deadline ==
    /\ Expire
    /\ UNCHANGED <<managerVars, replyVars, at, readerVars, streamVars>>

(* The calls that write have returned; what they return is not looked at. *)
Written ==
    /\ Return
    /\ \/ pc = "extra" /\ Goto("reset")
       \/ pc = "event" /\ Goto("main")
       \/ pc = "main" /\ Goto("check")
    /\ UNCHANGED <<replyVars, at, readerVars, streamVars>>

(* Mutant: the pending reply is kept. *)
ResetForgotten ==
    /\ pc = "reset"
    /\ Goto("conn")
    /\ UNCHANGED <<callVars, replyVars, at, readerVars, streamVars>>

(* Mutant: the pending reply is reset under the mutex. *)
ResetLocked ==
    /\ pc = "reset" /\ mutex = NoWorker
    /\ extra' = Nothing
    /\ Goto("conn")
    /\ UNCHANGED <<callVars, mutex, left, begun, at, readerVars, streamVars>>

(* The pending reply is reset without the mutex, whoever holds it. *)
Reset ==
    /\ pc = "reset"
    /\ extra' = Nothing
    /\ Goto("conn")
    /\ UNCHANGED <<callVars, mutex, left, begun, at, readerVars, streamVars>>

(* Mutant: once connected, the stream is not looked at. *)
ConnectOnce ==
    /\ pc = "conn"
    /\ \/ connected /\ Goto("due")
       \/ ~connected /\ stamped /\ Goto("due")
       \/ ~connected /\ pc' = "tcp" /\ stamped' \in {stamped, TRUE} /\ UNCHANGED connected
    /\ UNCHANGED <<callVars, replyVars, at, readerVars, streamVars>>

(* Connect if there is no connection, at once when no packet was due yet,  *)
(* else when one is due (is_time stamps the time when it says yes).        *)
Connect ==
    /\ pc = "conn"
    /\ \/ connected /\ open /\ Goto("due")
       \/ ~(connected /\ open) /\ stamped /\ Goto("due")
       \/ ~(connected /\ open) /\ Goto("tcp")
    /\ UNCHANGED <<callVars, replyVars, at, readerVars, streamVars>>

(* net::connect closes the socket and opens it again, whatever the state   *)
(* of the stream above it.                                                 *)
TcpUp ==
    /\ pc = "tcp"
    /\ link' = "up"
    /\ Goto("handshake")
    /\ UNCHANGED <<callVars, replyVars, at, readerVars, open>>

TcpFail ==
    /\ pc = "tcp"
    /\ link' = "down"
    /\ Goto("check")
    /\ UNCHANGED <<callVars, replyVars, at, readerVars, open>>

(* Mutants: no reader is started; the device is not marked connected. *)
ShakenNoReader ==
    /\ pc = "handshake"
    /\ Return
    /\ IF done THEN pc' = "due" /\ connected' = TRUE ELSE pc' = "check" /\ UNCHANGED connected
    /\ UNCHANGED <<stamped, replyVars, at, readerVars, streamVars>>

ShakenNotMarked ==
    /\ pc = "handshake"
    /\ Return
    /\ \/ ~done /\ Goto("check") /\ UNCHANGED rpc
       \/ done /\ Goto("due")
          /\ \E r \in Readers : rpc[r] = "none" /\ rpc' = [rpc EXCEPT ![r] = "poll"]
    /\ UNCHANGED <<replyVars, at, buffer, asked, streamVars>>

(* The handshake call has returned.  True starts a reader, if a thread is  *)
(* left for it, and the device is connected; that the handshake threw is   *)
(* not visible here, since the wrapper of run_with_timeout caught it.      *)
Shaken ==
    /\ pc = "handshake"
    /\ Return
    /\ \/ /\ done
          /\ \E r \in Readers :
                rpc[r] = "none" /\ rpc' = [rpc EXCEPT ![r] = "poll"]
          /\ connected' = TRUE
          /\ pc' = "due"
       \/ /\ ~done \/ \A r \in Readers : rpc[r] # "none"
          /\ pc' = "check"
          /\ UNCHANGED <<connected, rpc>>
    /\ UNCHANGED <<stamped, replyVars, at, buffer, asked, streamVars>>

(* Is a packet due? *)
Due ==
    /\ pc = "due"
    /\ \/ Goto("check")
       \/ /\ pc' = IF SendEvents THEN "event" ELSE "main"
          /\ stamped' = TRUE
          /\ UNCHANGED connected
    /\ UNCHANGED <<callVars, replyVars, at, readerVars, streamVars>>

Manager ==
    \/ CheckExtra \/ Begin \/ NoThread \/ Deadline \/ Written \/ Reset
    \/ Connect \/ TcpUp \/ TcpFail \/ Shaken \/ Due

-----------------------------------------------------------------------------
(* The workers: f of each call, then the signal to the caller. *)

Step(w, from, to) == w \in running /\ at[w] = from /\ at' = [at EXCEPT ![w] = to]

(* f of "extra" takes the mutex and begins with the first payload; if the  *)
(* reply is gone by then, value() throws and the guard is released.        *)
Lock(w) ==
    /\ mutex = NoWorker
    /\ IF extra = Nothing
       THEN Step(w, "lock", "end") /\ UNCHANGED <<mutex, left, begun>>
       ELSE /\ Step(w, "lock", "reply")
            /\ mutex' = w
            /\ left' = Count(extra)
            /\ begun' = begun + 1
    /\ UNCHANGED <<callVars, managerVars, extra, readerVars, streamVars>>

(* Mutant: the loop ends one payload late. *)
WriteReplyLate(w) ==
    /\ open
    /\ left' = left - 1
    /\ IF left > 0
       THEN Step(w, "reply", "reply") /\ UNCHANGED mutex
       ELSE Step(w, "reply", "end") /\ mutex' = NoWorker
    /\ UNCHANGED <<callVars, managerVars, extra, begun, readerVars, streamVars>>

(* One payload of the reply is written; the mutex is held to the last one. *)
WriteReply(w) ==
    /\ open
    /\ left' = left - 1
    /\ IF left > 1
       THEN Step(w, "reply", "reply") /\ UNCHANGED mutex
       ELSE Step(w, "reply", "end") /\ mutex' = NoWorker
    /\ UNCHANGED <<callVars, managerVars, extra, begun, readerVars, streamVars>>

(* Mutant: the mutex is not released by an exception. *)
ReplyThrowsLocked(w) ==
    /\ Step(w, "reply", "end")
    /\ left' = 0
    /\ open' = FALSE
    /\ UNCHANGED <<callVars, managerVars, extra, mutex, begun, readerVars, link>>

(* The write throws: the stream has failed, if it had not before, and the  *)
(* guard is released on the way out.                                       *)
ReplyThrows(w) ==
    /\ Step(w, "reply", "end")
    /\ mutex' = NoWorker
    /\ left' = 0
    /\ open' = FALSE
    /\ UNCHANGED <<callVars, managerVars, extra, begun, readerVars, link>>

(* Event and main packets are one payload each, written without the mutex. *)
Write(w) ==
    /\ open
    /\ Step(w, "write", "end")
    /\ UNCHANGED <<callVars, managerVars, replyVars, readerVars, streamVars>>

WriteThrows(w) ==
    /\ Step(w, "write", "end")
    /\ open' = FALSE
    /\ UNCHANGED <<callVars, managerVars, replyVars, readerVars, link>>

(* ws.handshake first takes the stream out of the state is_open() tells. *)
ShakeBegin(w) ==
    /\ Step(w, "begin", "shake")
    /\ open' = FALSE
    /\ UNCHANGED <<callVars, managerVars, replyVars, readerVars, link>>

ShakeOk(w) ==
    /\ link = "up"
    /\ Step(w, "shake", "end")
    /\ open' = TRUE
    /\ UNCHANGED <<callVars, managerVars, replyVars, readerVars, link>>

ShakeThrows(w) ==
    /\ Step(w, "shake", "threw")
    /\ UNCHANGED <<callVars, managerVars, replyVars, readerVars, streamVars>>

Done(w) ==
    /\ at[w] \in {"end", "threw"}
    /\ Signal(w)
    /\ UNCHANGED <<managerVars, replyVars, at, readerVars, streamVars>>

Worker(w) ==
    \/ Lock(w) \/ WriteReply(w) \/ ReplyThrows(w) \/ Write(w) \/ WriteThrows(w)
    \/ ShakeBegin(w) \/ ShakeOk(w) \/ ShakeThrows(w) \/ Done(w)

-----------------------------------------------------------------------------
(* The readers: the endless loop of ws_async_read. *)

Move(r, from, to) == rpc[r] = from /\ rpc' = [rpc EXCEPT ![r] = to]

(* The stream is open: a blocking read is entered. *)
Poll(r) ==
    /\ open
    /\ Move(r, "poll", "read")
    /\ UNCHANGED <<callVars, managerVars, replyVars, at, buffer, asked, streamVars>>

(* It is not: the buffer is cleared, and the reader sleeps. *)
Idle(r) ==
    /\ ~open
    /\ Move(r, "poll", "poll")
    /\ buffer' = {}
    /\ UNCHANGED <<callVars, managerVars, replyVars, at, asked, streamVars>>

(* read returns with a message of the peer appended to the buffer. *)
Read(r, m) ==
    /\ open /\ link = "up"
    /\ Move(r, "read", "got")
    /\ buffer' = buffer \cup {m}
    /\ asked' = IF Answer({m}) = Nothing THEN asked ELSE asked + 1
    /\ asked' <= MaxAsked
    /\ UNCHANGED <<callVars, managerVars, replyVars, at, streamVars>>

(* read throws: the peer closed, an error, or a read entered on an earlier *)
(* connection whose failure is taken for that of the stream.               *)
ReadThrows(r) ==
    /\ Move(r, "read", "clear")
    /\ open' = FALSE
    /\ UNCHANGED <<callVars, managerVars, replyVars, at, buffer, asked, link>>

(* Mutant: the answer is stored without the mutex. *)
StoreUnlocked(r) ==
    /\ Move(r, "got", "clear")
    /\ extra' = Answer(buffer)
    /\ UNCHANGED <<callVars, managerVars, mutex, left, begun, at, buffer, asked, streamVars>>

(* Under the mutex the answer to the buffer becomes the pending reply; an  *)
(* answer that was still pending is lost.                                  *)
Store(r) ==
    /\ mutex = NoWorker
    /\ Move(r, "got", "clear")
    /\ extra' = Answer(buffer)
    /\ UNCHANGED <<callVars, managerVars, mutex, left, begun, at, buffer, asked, streamVars>>

Clear(r) ==
    /\ Move(r, "clear", "poll")
    /\ buffer' = {}
    /\ UNCHANGED <<callVars, managerVars, replyVars, at, asked, streamVars>>

Reader(r) ==
    \/ Poll(r) \/ Idle(r) \/ (\E m \in Messages : Read(r, m)) \/ ReadThrows(r)
    \/ Store(r) \/ Clear(r)

(* The network: the connection breaks, and nobody is told. *)
Drop ==
    /\ link = "up"
    /\ link' = "down"
    /\ UNCHANGED <<callVars, managerVars, replyVars, at, readerVars, open>>

Next ==
    \/ Manager
    \/ \E w \in Workers : Worker(w)
    \/ \E r \in Readers : Reader(r)
    \/ Drop

Spec == Init /\ [][Next]_vars

-----------------------------------------------------------------------------
(* Safety. *)

HandshakeAbandoned == Frame["handshake"] \in abandoned
ReadersLeft == \E r \in Readers : rpc[r] = "none"
ReadersStarted == {r \in Readers : rpc[r] # "none"}

(* While a worker the manager waits for sends the pending reply, the reply *)
(* stays what it is: neither a reader nor the unlocked reset touches the   *)
(* vector under the loop of lines 208-210.                                 *)
ReplyStable ==
    [][mutex # NoWorker /\ mutex = mine => extra' = extra]_vars

(* Every request the peer made is answered at most once, as long as no     *)
(* call on the frame of the reply was abandoned and there was no reconnect *)
(* (which adds a reader to the one that shares its buffer).                *)
AnsweredOnce ==
    (Frame["extra"] \notin abandoned /\ \A r, s \in ReadersStarted : r = s)
        => begun <= asked

(* A stream that is open while no handshake is under way has a reader and  *)
(* a device marked connected, unless a handshake was given up (its worker  *)
(* may still open the stream) or no thread was left for a reader.          *)
OpenIsRead ==
    open /\ pc # "handshake" /\ ~HandshakeAbandoned /\ ReadersLeft
        => connected /\ ReadersStarted # {}

(* net::connect never closes the socket under an open stream, with the     *)
(* same exceptions.                                                        *)
OpenNotTorn ==
    [][pc = "tcp" /\ pc' # "tcp" /\ open => HandshakeAbandoned \/ ~ReadersLeft]_vars

(* The mutex is held exactly by a worker inside the loop over the pending  *)
(* reply, however the loop ends: no thread that is gone, or waits for      *)
(* anything but the stream, keeps readers and later workers out.           *)
HolderSends ==
    /\ \A w \in Workers : mutex = w <=> w \in running /\ at[w] = "reply"
    /\ mutex # NoWorker => left \in 1 .. 2

(* To the peer the device is a Connection: what opens the stream is the    *)
(* handshake of the call that is running, each that succeeds starts one    *)
(* reader, and an open stream is not replaced, with the same exceptions.   *)
Phase == IF pc = "handshake" THEN "shaking" ELSE IF open THEN "open" ELSE "closed"
Spoiled == HandshakeAbandoned \/ ~ReadersLeft

Device == INSTANCE Connection WITH phase <- Phase, started <- ReadersStarted, spoiled <- Spoiled

IsConnection == Device!ConnSpec

(* ws_connect reports a failed handshake ("Handshake Error", lines 176-178) *)
(* and does not go on as if the device were connected.                     *)
HandshakeErrorReported ==
    [][pc = "handshake" /\ pc' = "due" => at[mine] # "threw"]_vars

-----------------------------------------------------------------------------
(* Liveness. *)

(* The manager is a thread that only waits in run_with_timeout and in      *)
(* net::connect, which the system ends at some time.  Nothing is assumed   *)
(* of workers, readers or the peer.                                        *)
ManagerSpec == Spec /\ WF_vars(Manager)

(* The manager is back at the next pass again and again: no device can     *)
(* keep its thread from the others for ever.                               *)
PassesEnd == []<>(pc = "check")

(* A network and a peer that work often enough: packets fall due, workers   *)
(* are not blocked for ever, TCP connections and handshakes that are tried  *)
(* again and again succeed at some time (the thread of a handshake is not   *)
(* always late for its connection), and a write on a broken connection      *)
(* fails at some time (TCP gives up).  Readers may notice nothing.          *)
PacketDue == Due /\ pc' # "check"
ConnectDue == Connect /\ pc' = "tcp"
HandshakeInTime == link = "up" /\ \E w \in Workers : ShakeBegin(w)
BreakNoticed == link = "down" /\ \E w \in Workers : WriteThrows(w)

NetworkSpec ==
    /\ ManagerSpec
    /\ \A w \in Workers : WF_vars(Worker(w))
    /\ SF_vars(PacketDue) /\ SF_vars(ConnectDue)
    /\ SF_vars(TcpUp) /\ SF_vars(HandshakeInTime) /\ SF_vars(\E w \in Workers : ShakeOk(w))
    /\ SF_vars(BreakNoticed)

(* Once connections no longer break and threads no longer run out, the      *)
(* device is connected again and again: the last break is noticed, and      *)
(* abandoned workers, readers of earlier connections and stray signals do   *)
(* not keep ws_manage_ws from making a new connection.                      *)
Reconnects == <>[][~Drop /\ ~NoThread]_vars => []<>(open /\ link = "up")

=============================================================================
