------------------------- MODULE ConnectionProofs -------------------------
(***************************************************************************)
(* What the peer sees of a session, for every number of threads, every     *)
(* layout of the stack and every sequence of messages: a stream that is    *)
(* open is read and not torn down, the device implements Connection, and   *)
(* no request is answered twice.                                           *)
(*                                                                         *)
(* Places says whose `done` the workers of a handshake and of a reply      *)
(* have; with FrameAlive, at an address no call was abandoned at they are  *)
(* the ones of the running call.  Closed says that a device without a      *)
(* connection has a closed stream until its handshake.  Counted gives      *)
(* every request read one place: begun, pending, or in the buffer.         *)
(***************************************************************************)
EXTENDS SessionProofs

Places ==
    /\ caller # "idle" => cell = Frame[pc]
    /\ \A w \in running :
        /\ at[w] \in {"begin", "shake"} =>
            addr[w] = Frame["handshake"] /\ (w = mine => pc = "handshake")
        /\ at[w] = "lock" => addr[w] = Frame["extra"] /\ (w = mine => pc = "extra")

Closed ==
    /\ pc = "tcp" \/ (pc = "handshake" /\ caller = "idle")
    /\ ~HandshakeAbandoned /\ ReadersLeft
    => ~open

-----------------------------------------------------------------------------
(* Places. *)

LEMMA ManagerPlaces == SessionInv /\ Places /\ Manager => Places'
  <1> SUFFICES ASSUME SessionInv, Places, Manager PROVE Places'
    OBVIOUS
  <1> USE DEF Places, Goto, callVars
  <1>1. CASE Begin
    <2>1. PICK w \in Workers : /\ Call(w, Frame[pc])
                               /\ at' = [at EXCEPT ![w] = Entry(pc)]
      BY <1>1 DEF Begin
    <2>2. /\ pc' = pc /\ w \notin running /\ running' = running \cup {w}
          /\ mine' = w /\ cell' = Frame[pc] /\ addr'[w] = Frame[pc] /\ at'[w] = Entry(pc)
          /\ \A u \in running : at'[u] = at[u] /\ addr'[u] = addr[u]
      BY <1>1, <2>1 DEF Begin, managerVars, Call, SessionInv, CallInv, CallTypeOK, TypeOK
    <2>3. pc \in Ops
      BY <1>1 DEF Begin
    <2> QED
      BY <2>2, <2>3 DEF Entry, Ops
  <1>2. CASE Deadline
    BY <1>2 DEF Deadline, Expire, managerVars
  <1>3. CASE Written \/ Shaken
    <2>1. /\ caller' = "idle" /\ mine' = NoWorker /\ UNCHANGED <<running, addr, at>>
          /\ NoWorker \notin running
      BY <1>3, SentinelAssumption DEF Written, Shaken, Return, SessionInv, CallInv, CallTypeOK
    <2> QED
      BY <2>1
  <1>4. CASE CheckExtra \/ NoThread \/ Reset \/ Connect \/ TcpUp \/ TcpFail \/ Due
    <2>1. caller = "idle" /\ mine \notin running
      BY <1>4, SentinelAssumption DEF CheckExtra, NoThread, Reset, Connect, TcpUp, TcpFail, Due,
         SessionInv, InCall, Ops, CallInv, Frames, CallTypeOK
    <2>2. UNCHANGED <<callVars, at>>
      BY <1>4 DEF CheckExtra, NoThread, Reset, Connect, TcpUp, TcpFail, Due
    <2> QED
      BY <2>1, <2>2
  <1> QED
    BY <1>1, <1>2, <1>3, <1>4 DEF Manager

LEMMA OthersPlaces ==
    SessionInv /\ Places /\ [Next]_vars /\ ~Manager => Places'
  <1> SUFFICES ASSUME SessionInv, Places, [Next]_vars, ~Manager PROVE Places'
    OBVIOUS
  <1>1. ASSUME NEW w \in Workers, Worker(w) PROVE Places'
    <2>1. CASE Done(w)
      <3>1. /\ UNCHANGED <<pc, at, caller, mine, cell>> /\ running' = running \ {w}
            /\ \A u \in running \ {w} : addr'[u] = addr[u]
        BY <2>1 DEF Done, Signal, managerVars, SessionInv, CallInv, CallTypeOK
      <3> QED
        BY <3>1 DEF Places
    <2>2. CASE ~Done(w)
      <3>1. /\ UNCHANGED <<callVars, pc>>
            /\ at'[w] \notin {"begin", "lock"} /\ (at'[w] = "shake" => at[w] = "begin")
            /\ \A u \in Workers \ {w} : at'[u] = at[u]
            /\ w \in running
        BY <1>1, <2>2 DEF Worker, Lock, WriteReply, ReplyThrows, Write, WriteThrows, ShakeBegin,
           ShakeOk, ShakeThrows, Step, managerVars, SessionInv, TypeOK
      <3>2. running \subseteq Workers
        BY DEF SessionInv, CallInv, CallTypeOK
      <3> QED
        BY <3>1, <3>2 DEF Places, callVars
    <2> QED
      BY <2>1, <2>2
  <1>2. CASE (\E r \in Readers : Reader(r)) \/ Drop \/ UNCHANGED vars
    <2>1. UNCHANGED <<callVars, pc, at>>
      BY <1>2 DEF Reader, Poll, Idle, Read, ReadThrows, Store, Clear, Drop, vars, managerVars
    <2> QED
      BY <2>1 DEF Places, callVars
  <1> QED
    BY <1>1, <1>2 DEF Next

LEMMA PlacesStep == SessionInv /\ Places /\ [Next]_vars => Places'
  BY ManagerPlaces, OthersPlaces

-----------------------------------------------------------------------------
(* The stream. *)

(* Addresses stay abandoned, and a thread that was started is not given    *)
(* back.                                                                   *)
LEMMA Worse ==
    SessionInv /\ [Next]_vars =>
        /\ abandoned \subseteq abandoned'
        /\ \A r \in Readers : rpc'[r] = "none" => rpc[r] = "none"
  <1> SUFFICES ASSUME SessionInv, [Next]_vars
               PROVE  /\ abandoned \subseteq abandoned'
                      /\ \A r \in Readers : rpc'[r] = "none" => rpc[r] = "none"
    OBVIOUS
  <1>1. abandoned \subseteq abandoned'
    <2>1. [CallNext]_callVars
      BY StepIsCallStep
    <2> QED
      BY <2>1 DEF CallNext, Call, Expire, Return, Signal, callVars
  <1>2. CASE UNCHANGED rpc
    BY <1>1, <1>2
  <1>3. CASE Shaken /\ rpc' # rpc
    BY <1>1, <1>3 DEF Shaken, SessionInv, TypeOK
  <1>4. ASSUME NEW r \in Readers, Reader(r)
        PROVE  \A s \in Readers : rpc'[s] = "none" => rpc[s] = "none"
    BY <1>4 DEF Reader, Poll, Idle, Read, ReadThrows, Store, Clear, Move, SessionInv, TypeOK
  <1>5. UNCHANGED rpc \/ Shaken \/ \E r \in Readers : Reader(r)
    BY DEF Next, Manager, CheckExtra, Begin, NoThread, Deadline, Written, Reset, Connect, TcpUp,
       TcpFail, Due, Worker, Lock, WriteReply, ReplyThrows, Write, WriteThrows, ShakeBegin,
       ShakeOk, ShakeThrows, Done, Drop, vars, readerVars
  <1> QED
    BY <1>1, <1>2, <1>3, <1>4, <1>5

Healthy == ~HandshakeAbandoned /\ ReadersLeft

LEMMA StillHealthy == SessionInv /\ [Next]_vars /\ Healthy' => Healthy
  BY Worse DEF Healthy, HandshakeAbandoned, ReadersLeft

(* A handshake that has opened the stream is that of the running call,     *)
(* unless one was abandoned.                                               *)
LEMMA OpenedByCall ==
    ASSUME SessionInv, Places, ~HandshakeAbandoned, NEW w \in Workers, ShakeOk(w)
    PROVE  pc = "handshake" /\ caller # "idle"
  <1>1. w \in running /\ at[w] = "shake"
    BY DEF ShakeOk, Step
  <1>2. addr[w] = Frame["handshake"] /\ (w = mine => pc = "handshake")
    BY <1>1 DEF Places
  <1>3. w = mine
    BY <1>1, <1>2 DEF HandshakeAbandoned, SessionInv, CallInv, FrameAlive
  <1> QED
    BY <1>2, <1>3, SentinelAssumption DEF SessionInv, CallInv, Frames

(* A handshake call that returns false was abandoned. *)
LEMMA GivenUp ==
    ASSUME SessionInv, Places, Return, pc = "handshake", ~done
    PROVE  HandshakeAbandoned'
  <1>1. caller # "idle" /\ mine \in running /\ cell = Frame["handshake"]
    BY DEF Return, SessionInv, CallInv, NoLostSignal, Places
  <1> QED
    BY <1>1 DEF Return, HandshakeAbandoned

StreamInv == Closed /\ OpenIsRead

LEMMA ShakenStream ==
    ASSUME SessionInv, Places, Closed, OpenIsRead, Shaken, Healthy, Healthy' PROVE StreamInv'
  <1> USE DEF StreamInv, Closed, OpenIsRead, Healthy
  <1>1. CASE pc' = "due"
    <2>1. connected' /\ \E r \in Readers : rpc'[r] = "poll"
      BY <1>1 DEF Shaken, SessionInv, TypeOK
    <2> QED
      BY <1>1, <2>1 DEF ReadersStarted
  <1>2. CASE pc' = "check"
    <2>1. ~done
      BY <1>2 DEF Shaken, ReadersLeft
    <2> QED
      BY <2>1, GivenUp DEF Shaken
  <1> QED
    BY <1>1, <1>2 DEF Shaken

LEMMA StreamStep == SessionInv /\ Places /\ StreamInv /\ [Next]_vars => StreamInv'
  <1> SUFFICES ASSUME SessionInv, Places, StreamInv, [Next]_vars, Healthy' PROVE StreamInv'
    BY DEF StreamInv, Closed, OpenIsRead, Healthy
  <1>1. Healthy
    BY StillHealthy
  <1>2. ReadersStarted # {} => ReadersStarted' # {}
    BY Worse DEF ReadersStarted
  <1> USE DEF StreamInv, Closed, OpenIsRead, Healthy
  <1>3. CASE Shaken
    BY <1>1, <1>3, ShakenStream
  <1>4. CASE Manager /\ ~Shaken
    <2> USE DEF Goto, managerVars, streamVars
    <2>1. UNCHANGED <<open, connected>>
      BY <1>4 DEF Manager, CheckExtra, Begin, NoThread, Deadline, Written, Reset, Connect, TcpUp,
         TcpFail, Due
    <2>2. CASE CheckExtra \/ Written \/ Reset \/ Due \/ Deadline
      <3>1. pc \notin {"tcp", "handshake"} \/ Deadline
        BY <2>2 DEF CheckExtra, Written, Reset, Due
      <3>2. pc' \notin {"tcp", "handshake"} \/ Deadline
        BY <2>2, SessionAssumption DEF CheckExtra, Written, Reset, Due
      <3>3. CASE Deadline
        BY <1>1, <1>2, <2>1, <3>3 DEF Deadline, Expire
      <3> QED
        BY <1>1, <1>2, <2>1, <3>1, <3>2, <3>3
    <2>3. CASE Begin
      BY <1>1, <1>2, <2>1, <2>3 DEF Begin, Call
    <2>4. CASE NoThread
      BY <1>1, <1>2, <2>1, <2>4 DEF NoThread, callVars
    <2>5. CASE Connect
      BY <1>1, <1>2, <2>1, <2>5 DEF Connect, callVars
    <2>6. CASE TcpUp \/ TcpFail
      BY <1>1, <1>2, <2>1, <2>6 DEF TcpUp, TcpFail, callVars
    <2> QED
      BY <1>4, <2>2, <2>3, <2>4, <2>5, <2>6 DEF Manager
  <1>5. ASSUME NEW w \in Workers, Worker(w) PROVE StreamInv'
    <2>1. UNCHANGED <<pc, connected, caller>>
      BY <1>5 DEF Worker, Lock, WriteReply, ReplyThrows, Write, WriteThrows, ShakeBegin, ShakeOk,
         ShakeThrows, Done, Signal, managerVars, callVars
    <2>2. CASE ShakeOk(w)
      BY <1>1, <2>1, <2>2, OpenedByCall
    <2>3. CASE ~ShakeOk(w)
      <3>1. open' => open
        BY <1>5, <2>3 DEF Worker, Lock, WriteReply, ReplyThrows, Write, WriteThrows, ShakeBegin,
           ShakeThrows, Done, streamVars
      <3> QED
        BY <1>1, <1>2, <2>1, <3>1
    <2> QED
      BY <2>2, <2>3
  <1>6. CASE (\E r \in Readers : Reader(r)) \/ Drop \/ UNCHANGED vars
    <2>1. UNCHANGED <<pc, connected, caller>>
      BY <1>6 DEF Reader, Poll, Idle, Read, ReadThrows, Store, Clear, Drop, vars, managerVars, callVars
    <2>2. open' => open
      <3>1. ASSUME NEW r \in Readers, Reader(r) PROVE open' => open
        BY <3>1 DEF Reader, Poll, Idle, Read, ReadThrows, Store, Clear, streamVars
      <3>2. CASE Drop \/ UNCHANGED vars
        BY <3>2 DEF Drop, vars, streamVars
      <3> QED
        BY <1>6, <3>1, <3>2
    <2> QED
      BY <1>1, <1>2, <2>1, <2>2
  <1> QED
    BY <1>3, <1>4, <1>5, <1>6 DEF Next

LEMMA ConnectionInvariant == Spec => [](SessionInv /\ Places /\ StreamInv)
  <1>1. Init => Places /\ StreamInv
    BY DEF Init, CallInit, Places, StreamInv, Closed, OpenIsRead
  <1> QED
    BY <1>1, SessionInvariant, PlacesStep, StreamStep, PTL DEF Spec

(* A stream that is open has a reader and a device marked connected,       *)
(* unless a handshake was given up or no thread was left for a reader.     *)
THEOREM OpenHasReader == Spec => []OpenIsRead
  <1>1. SessionInv /\ Places /\ StreamInv => OpenIsRead
    BY DEF StreamInv
  <1> QED
    BY <1>1, ConnectionInvariant, PTL

(* net::connect never closes the socket under an open stream, with the     *)
(* same exceptions.                                                        *)
THEOREM OpenIsKept == Spec => OpenNotTorn
  <1>1. Closed => [pc = "tcp" /\ pc' # "tcp" /\ open => HandshakeAbandoned \/ ~ReadersLeft]_vars
    BY DEF Closed
  <1>2. SessionInv /\ Places /\ StreamInv => Closed
    BY DEF StreamInv
  <1> QED
    BY <1>1, <1>2, ConnectionInvariant, PTL DEF OpenNotTorn

-----------------------------------------------------------------------------
(* The device as a connection. *)

LEMMA LeftOver == ReadersLeft <=> ReadersStarted # Readers
  BY DEF ReadersLeft, ReadersStarted

(* Steps that are no part of a handshake. *)
LEMMA QuietStep ==
    ASSUME UNCHANGED <<abandoned, ReadersStarted>>,
           pc = "handshake" <=> pc' = "handshake",
           open' => open \/ Spoiled \/ pc = "handshake"
    PROVE  [Device!ConnNext]_(Device!connVars)
  <1>1. UNCHANGED <<ReadersStarted, Spoiled>>
    <2>1. ReadersLeft' = ReadersLeft
      BY DEF ReadersLeft, ReadersStarted
    <2> QED
      BY <2>1 DEF Spoiled, HandshakeAbandoned
  <1> QED
    BY <1>1 DEF Phase, Device!ConnNext, Device!connVars, Device!Fail, Device!Stray

LEMMA ShakenRefines ==
    ASSUME SessionInv, Places, Shaken PROVE Device!ConnNext
  <1> USE DEF Device!ConnNext
  <1>1. pc = "handshake" /\ Return /\ open' = open
    BY DEF Shaken, streamVars
  <1>2. CASE pc' = "due"
    <2>1. PICK r \in Readers : rpc[r] = "none" /\ rpc' = [rpc EXCEPT ![r] = "poll"]
      BY <1>2 DEF Shaken
    <2>2. r \in Readers \ ReadersStarted /\ ReadersStarted' = ReadersStarted \cup {r}
      BY <2>1 DEF ReadersStarted, SessionInv, TypeOK
    <2>3. abandoned' = abandoned
      BY <1>1, <1>2 DEF Shaken, Return, SessionInv, CallInv, TrueMeansFinished
    <2>4. ReadersLeft' <=> ReadersStarted' # Readers
      BY DEF ReadersLeft, ReadersStarted
    <2>5. Spoiled' = (Spoiled \/ ReadersStarted' = Readers)
      BY <2>2, <2>3, <2>4, LeftOver DEF Spoiled, HandshakeAbandoned
    <2>6. Phase = "shaking" /\ Phase' \in {"open", "closed"}
      BY <1>1, <1>2 DEF Phase
    <2> QED
      BY <2>2, <2>5, <2>6 DEF Device!Succeed
  <1>3. CASE pc' = "check" /\ UNCHANGED rpc
    <2>1. HandshakeAbandoned' \/ ~ReadersLeft'
      BY <1>1, <1>3, GivenUp DEF Shaken, ReadersLeft
    <2>2. Spoiled' = TRUE /\ UNCHANGED ReadersStarted
      BY <1>3, <2>1 DEF Spoiled, ReadersStarted
    <2>3. Phase = "shaking" /\ Phase' \in {"open", "closed"}
      BY <1>1, <1>3 DEF Phase
    <2> QED
      BY <2>2, <2>3 DEF Device!GiveUp
  <1> QED
    BY <1>2, <1>3 DEF Shaken

LEMMA ManagerRefines ==
    ASSUME SessionInv, Places, StreamInv, Manager, ~Shaken
    PROVE  [Device!ConnNext]_(Device!connVars)
  <1>1. UNCHANGED <<open, rpc, ReadersStarted>>
    <2>1. UNCHANGED <<open, rpc>>
      BY DEF Manager, CheckExtra, Begin, NoThread, Deadline, Written, Reset, Connect, TcpUp,
         TcpFail, Due, streamVars, readerVars
    <2> QED
      BY <2>1 DEF ReadersStarted
  <1>2. CASE CheckExtra \/ Reset \/ Connect \/ TcpFail \/ Due \/ Deadline \/ Begin
    <2>1. UNCHANGED abandoned
      BY <1>2 DEF CheckExtra, Reset, Connect, TcpFail, Due, Deadline, Expire, Begin, Call, callVars
    <2>2. pc = "handshake" <=> pc' = "handshake"
      BY <1>2 DEF CheckExtra, Reset, Connect, TcpFail, Due, Deadline, Begin, Goto, managerVars
    <2> QED
      BY <1>1, <2>1, <2>2, QuietStep
  <1>3. CASE Written
    <2>1. UNCHANGED Phase
      BY <1>1, <1>3 DEF Written, Goto, Phase
    <2>2. CASE HandshakeAbandoned'
      BY <1>1, <2>1, <2>2 DEF Device!ConnNext, Device!GiveUp, Spoiled
    <2>3. CASE ~HandshakeAbandoned'
      <3>1. ~HandshakeAbandoned
        BY <1>3, <2>3 DEF Written, Return, HandshakeAbandoned
      <3>2. ReadersLeft' = ReadersLeft
        BY <1>1 DEF ReadersLeft
      <3> QED
        BY <1>1, <2>1, <2>3, <3>1, <3>2 DEF Device!connVars, Spoiled
    <2> QED
      BY <2>2, <2>3
  <1>4. CASE NoThread
    <2>1. UNCHANGED abandoned /\ caller = "idle" /\ pc' = "check"
      BY <1>4 DEF NoThread, Goto, callVars
    <2>2. CASE pc # "handshake"
      BY <1>1, <2>1, <2>2, QuietStep
    <2>3. CASE pc = "handshake"
      <3>1. UNCHANGED Spoiled
        BY <1>1, <2>1 DEF Spoiled, HandshakeAbandoned, ReadersLeft
      <3>2. Phase = "shaking" /\ Phase' = IF open THEN "open" ELSE "closed"
        BY <1>1, <2>1, <2>3 DEF Phase
      <3>3. open => Spoiled
        BY <2>1, <2>3 DEF StreamInv, Closed, Spoiled
      <3>4. CASE open
        <4>1. Spoiled' = TRUE
          BY <3>1, <3>3, <3>4 DEF Spoiled
        <4> QED
          BY <1>1, <3>2, <3>4, <4>1 DEF Device!ConnNext, Device!GiveUp
      <3>5. CASE ~open
        BY <1>1, <3>1, <3>2, <3>5 DEF Device!ConnNext, Device!Fruitless
      <3> QED
        BY <3>4, <3>5
    <2> QED
      BY <2>2, <2>3
  <1>5. CASE TcpUp
    <2>1. pc = "tcp" /\ pc' = "handshake" /\ UNCHANGED abandoned
      BY <1>5 DEF TcpUp, Goto, callVars
    <2>2. UNCHANGED Spoiled
      BY <1>1, <2>1 DEF Spoiled, HandshakeAbandoned, ReadersLeft
    <2>3. Phase = (IF open THEN "open" ELSE "closed") /\ Phase' = "shaking"
      BY <2>1 DEF Phase
    <2>4. open => Spoiled
      BY <2>1 DEF StreamInv, Closed, Spoiled
    <2> QED
      BY <1>1, <2>2, <2>3, <2>4 DEF Device!ConnNext, Device!Try, Device!Stray
  <1> QED
    BY <1>2, <1>3, <1>4, <1>5 DEF Manager

LEMMA DeviceStep ==
    SessionInv /\ Places /\ StreamInv /\ [Next]_vars => [Device!ConnNext]_(Device!connVars)
  <1> SUFFICES ASSUME SessionInv, Places, StreamInv, [Next]_vars
               PROVE  [Device!ConnNext]_(Device!connVars)
    OBVIOUS
  <1>1. ASSUME NEW w \in Workers, Worker(w) PROVE [Device!ConnNext]_(Device!connVars)
    <2>1. UNCHANGED <<pc, rpc, abandoned>>
      BY <1>1 DEF Worker, Lock, WriteReply, ReplyThrows, Write, WriteThrows, ShakeBegin, ShakeOk,
         ShakeThrows, Done, Signal, managerVars, readerVars, callVars
    <2>2. UNCHANGED ReadersStarted
      BY <2>1 DEF ReadersStarted
    <2>3. open' => open \/ Spoiled \/ pc = "handshake"
      <3>1. CASE ShakeOk(w)
        BY <3>1, OpenedByCall DEF Spoiled
      <3>2. CASE ~ShakeOk(w)
        BY <1>1, <3>2 DEF Worker, Lock, WriteReply, ReplyThrows, Write, WriteThrows, ShakeBegin,
           ShakeThrows, Done, streamVars
      <3> QED
        BY <3>1, <3>2
    <2> QED
      BY <2>1, <2>2, <2>3, QuietStep
  <1>2. ASSUME NEW r \in Readers, Reader(r) PROVE [Device!ConnNext]_(Device!connVars)
    <2>1. UNCHANGED <<pc, abandoned>>
      BY <1>2 DEF Reader, Poll, Idle, Read, ReadThrows, Store, Clear, managerVars, callVars
    <2>2. open' => open
      BY <1>2 DEF Reader, Poll, Idle, Read, ReadThrows, Store, Clear, streamVars
    <2>3. UNCHANGED ReadersStarted
      BY <1>2 DEF Reader, Poll, Idle, Read, ReadThrows, Store, Clear, Move, ReadersStarted,
         SessionInv, TypeOK
    <2> QED
      BY <2>1, <2>2, <2>3, QuietStep
  <1>3. CASE Drop \/ UNCHANGED vars
    <2>1. UNCHANGED <<pc, rpc, abandoned, open>>
      BY <1>3 DEF Drop, vars, managerVars, readerVars, callVars, streamVars
    <2>2. UNCHANGED ReadersStarted
      BY <2>1 DEF ReadersStarted
    <2> QED
      BY <2>1, <2>2, QuietStep
  <1>4. CASE Manager
    BY <1>4, ManagerRefines, ShakenRefines
  <1> QED
    BY <1>1, <1>2, <1>3, <1>4 DEF Next

(* To the peer a device is a Connection: only the handshake of the running *)
(* call opens the stream, it starts one reader, and an open stream is not  *)
(* replaced, for any number of threads and any stack layout, until a call  *)
(* is given up at the handshake's address or readers run out (main.cpp,    *)
(* ws_connect and ws_manage_ws).                                           *)
THEOREM SessionImplementsConnection == Spec => IsConnection
  <1>1. Init => Device!ConnInit
    <2>1. Init => (ReadersLeft <=> Readers # {}) /\ ReadersStarted = {}
      BY DEF Init, ReadersLeft, ReadersStarted
    <2> QED
      BY <2>1 DEF Init, CallInit, Device!ConnInit, Phase, Spoiled, HandshakeAbandoned
  <1>2. SessionInv /\ Places /\ StreamInv /\ [Next]_vars => [Device!ConnNext]_(Device!connVars)
    BY DeviceStep
  <1> QED
    BY <1>1, <1>2, ConnectionInvariant, PTL DEF Spec, IsConnection, Device!ConnSpec

-----------------------------------------------------------------------------
(* The replies. *)

(* No call was abandoned where the replies are sent, and one reader at     *)
(* most has been started.                                                  *)
Alone == Frame["extra"] \notin abandoned /\ \A r, s \in ReadersStarted : r = s

(* The pending reply, if any, was begun by the call that is running or has *)
(* just returned, or will be reset unseen.                                 *)
Taken ==
    \/ pc = "reset"
    \/ pc = "extra" /\ caller # "idle" /\ (mine \notin running \/ at[mine] # "lock")

Pending == IF extra # Nothing /\ ~Taken THEN 1 ELSE 0
Unstored == IF (\E r \in Readers : rpc[r] = "got") /\ Answer(buffer) # Nothing THEN 1 ELSE 0
Emptied == (\A r \in Readers : rpc[r] \notin {"got", "clear"}) => buffer = {}

Counted == Alone => Emptied /\ begun + Pending + Unstored <= asked

LEMMA StillAlone == SessionInv /\ [Next]_vars /\ Alone' => Alone
  BY Worse DEF Alone, ReadersStarted

LEMMA Sums ==
    ASSUME NEW n \in Nat, NEW m \in Nat, NEW p \in {0, 1}, NEW u \in {0, 1},
           NEW q \in {0, 1}, NEW v \in {0, 1}, n + p + u <= m,
           (q <= p /\ v <= u) \/ (q <= u /\ v <= p)
    PROVE  n + q + v <= m
  OBVIOUS

(* What is left of the account if none of its parts grows. *)
LEMMA KeptCount ==
    ASSUME SessionInv, Counted, Alone, Emptied', UNCHANGED <<begun, asked>>,
           Pending' <= Pending, Unstored' <= Unstored
    PROVE  Counted'
  <1>1. begun \in Nat /\ asked \in Nat
    BY SessionAssumption DEF SessionInv, TypeOK
  <1>2. Pending \in {0, 1} /\ Unstored \in {0, 1} /\ Pending' \in {0, 1} /\ Unstored' \in {0, 1}
    BY DEF Pending, Unstored
  <1>3. begun + Pending + Unstored <= asked
    BY DEF Counted
  <1>4. Pending' <= Pending /\ Unstored' <= Unstored
    OBVIOUS
  <1>5. begun + Pending' + Unstored' <= asked
    BY ONLY <1>1, <1>2, <1>3, <1>4, Sums
  <1> QED
    BY <1>5 DEF Counted

LEMMA ManagerCounted ==
    ASSUME SessionInv, Places, Counted, Manager, Alone, Alone' PROVE Counted'
  <1> USE DEF Goto, managerVars, callVars
  <1>1. UNCHANGED <<begun, asked, buffer>>
    BY DEF Manager, CheckExtra, Begin, NoThread, Deadline, Written, Reset, Connect, TcpUp, TcpFail,
       Shaken, Due, replyVars, readerVars
  <1>2. Emptied' /\ Unstored' <= Unstored
    <2>1. CASE UNCHANGED rpc
      BY <1>1, <2>1 DEF Counted, Emptied, Unstored
    <2>2. CASE Shaken /\ pc' = "due"
      <3>1. PICK r \in Readers : rpc[r] = "none" /\ rpc' = [rpc EXCEPT ![r] = "poll"]
        BY <2>2 DEF Shaken
      <3>2. \A s \in Readers : rpc'[s] \in {"got", "clear"} <=> rpc[s] \in {"got", "clear"}
        BY <3>1 DEF SessionInv, TypeOK
      <3>3. \A s \in Readers : rpc'[s] = "got" <=> rpc[s] = "got"
        BY <3>1 DEF SessionInv, TypeOK
      <3>4. Emptied'
        BY <1>1, <3>2 DEF Counted, Emptied
      <3>5. Unstored' = Unstored
        BY <1>1, <3>3 DEF Unstored
      <3>6. Unstored \in {0, 1}
        BY DEF Unstored
      <3> QED
        BY <3>4, <3>5, <3>6
    <2> QED
      BY <2>1, <2>2 DEF Manager, CheckExtra, Begin, NoThread, Deadline, Written, Reset, Connect,
         TcpUp, TcpFail, Shaken, Due, readerVars
  <1>3. Pending' <= Pending
    <2>1. CASE Reset
      BY <2>1 DEF Reset, Pending
    <2>2. UNCHANGED extra \/ Reset
      BY DEF Manager, CheckExtra, Begin, NoThread, Deadline, Written, Reset, Connect, TcpUp,
         TcpFail, Shaken, Due, replyVars
    <2>3. Taken /\ ~Reset => Taken'
      <3> SUFFICES ASSUME Taken, ~Reset PROVE Taken'
        OBVIOUS
      <3>1. CASE pc = "reset"
        BY <3>1, SentinelAssumption DEF Manager, CheckExtra, Begin, NoThread, Deadline, Written,
           Connect, TcpUp, TcpFail, Shaken, Due, SessionInv, InCall, Ops, Taken, Expire, Return
      <3>2. CASE pc = "extra" /\ caller # "idle" /\ (mine \notin running \/ at[mine] # "lock")
        <4>1. Deadline \/ (Written /\ pc' = "reset")
          BY <3>2 DEF Manager, CheckExtra, Begin, NoThread, Written, Reset, Connect, TcpUp,
             TcpFail, Shaken, Due, Call
        <4> QED
          BY <3>2, <4>1 DEF Taken, Deadline, Expire
      <3> QED
        BY <3>1, <3>2 DEF Taken
    <2> QED
      BY <2>1, <2>2, <2>3 DEF Pending
  <1> QED
    BY <1>1, <1>2, <1>3, KeptCount

(* The worker that begins a reply is that of the running call. *)
LEMMA LockedByCall ==
    ASSUME SessionInv, Places, Alone, NEW w \in Workers, w \in running, at[w] = "lock"
    PROVE  w = mine /\ pc = "extra" /\ caller # "idle"
  <1>1. addr[w] = Frame["extra"] /\ (w = mine => pc = "extra")
    BY DEF Places
  <1>2. w = mine
    BY <1>1 DEF Alone, SessionInv, CallInv, FrameAlive
  <1> QED
    BY <1>1, <1>2, SentinelAssumption DEF SessionInv, CallInv, Frames

LEMMA WorkerCounted ==
    ASSUME SessionInv, Places, Counted, NEW w \in Workers, Worker(w), Alone PROVE Counted'
  <1>1. UNCHANGED <<pc, extra, rpc, buffer, asked, caller, mine>>
    BY DEF Worker, Lock, WriteReply, ReplyThrows, Write, WriteThrows, ShakeBegin, ShakeOk,
       ShakeThrows, Done, Signal, managerVars, callVars, readerVars, replyVars
  <1>2. Emptied' /\ Unstored' = Unstored /\ Unstored \in {0, 1}
    BY <1>1 DEF Counted, Emptied, Unstored
  <1>3. CASE Lock(w) /\ extra # Nothing
    <2>1. /\ w = mine /\ pc = "extra" /\ caller # "idle" /\ mine \in running /\ at[mine] = "lock"
      BY <1>3, LockedByCall DEF Lock, Step
    <2>2. Pending = 1
      BY <1>3, <2>1 DEF Pending, Taken
    <2>3. at'[mine] = "reply"
      BY <1>3, <2>1 DEF Lock, Step, SessionInv, TypeOK
    <2>4. Pending' = 0
      BY <1>1, <2>1, <2>3 DEF Pending, Taken
    <2>5. begun' = begun + 1 /\ begun \in Nat /\ asked \in Nat
      BY <1>3, SessionAssumption DEF Lock, SessionInv, TypeOK
    <2>6. begun + Pending + Unstored <= asked
      BY DEF Counted
    <2>7. begun' + Pending' + Unstored' <= asked'
      BY ONLY <1>1, <1>2, <2>2, <2>4, <2>5, <2>6
    <2> QED
      BY <1>2, <2>7 DEF Counted
  <1>4. CASE ~(Lock(w) /\ extra # Nothing)
    <2>1. UNCHANGED begun
      BY <1>4 DEF Worker, Lock, WriteReply, ReplyThrows, Write, WriteThrows, ShakeBegin, ShakeOk,
         ShakeThrows, Done, replyVars
    <2>2. Taken => Taken'
      <3>1. running' \subseteq running
        BY DEF Worker, Lock, WriteReply, ReplyThrows, Write, WriteThrows, ShakeBegin, ShakeOk,
           ShakeThrows, Done, Signal, callVars
      <3>2. \A u \in running : at[u] # "lock" => at'[u] # "lock"
        BY DEF Worker, Lock, WriteReply, ReplyThrows, Write, WriteThrows, ShakeBegin, ShakeOk,
           ShakeThrows, Done, Step, SessionInv, TypeOK, CallInv, CallTypeOK
      <3> QED
        BY <1>1, <3>1, <3>2 DEF Taken
    <2>3. Pending' <= Pending
      BY <1>1, <2>2 DEF Pending
    <2> QED
      BY <1>1, <1>2, <2>1, <2>3, KeptCount
  <1> QED
    BY <1>3, <1>4

(* The one reader. *)
LEMMA ReaderCounted ==
    ASSUME SessionInv, Counted, NEW r \in Readers, Reader(r), Alone PROVE Counted'
  <1> USE DEF Move
  <1>1. UNCHANGED <<pc, begun, caller, mine, running, at>>
    BY DEF Reader, Poll, Idle, Read, ReadThrows, Store, Clear, managerVars, callVars, replyVars
  <1>2. Taken' = Taken
    BY <1>1 DEF Taken
  <1>3. \A s \in Readers : s # r => rpc[s] = "none" /\ rpc'[s] = "none"
    BY DEF Reader, Poll, Idle, Read, ReadThrows, Store, Clear, Alone, ReadersStarted, SessionInv, TypeOK
  <1>4. Pending \in {0, 1} /\ Unstored \in {0, 1}
    BY DEF Pending, Unstored
  <1>5. rpc \in [Readers -> {"none", "poll", "read", "got", "clear"}]
    BY DEF SessionInv, TypeOK
  <1>6. ASSUME NEW m \in Messages, Read(r, m) PROVE Counted'
    <2>1. /\ rpc[r] = "read" /\ rpc'[r] = "got" /\ UNCHANGED extra
          /\ asked' = IF Answer({m}) = Nothing THEN asked ELSE asked + 1
      BY <1>5, <1>6 DEF Read, replyVars
    <2>2. buffer = {}
      BY <1>3, <2>1 DEF Counted, Emptied
    <2>3. buffer' = {m}
      BY <1>6, <2>2 DEF Read
    <2>4. Unstored = 0 /\ Unstored' = IF Answer({m}) = Nothing THEN 0 ELSE 1
      BY <1>3, <2>1, <2>3 DEF Unstored
    <2>5. Pending' = Pending
      BY <1>2, <2>1 DEF Pending
    <2>6. begun \in Nat /\ asked \in Nat /\ begun + Pending + Unstored <= asked
      BY SessionAssumption DEF SessionInv, TypeOK, Counted
    <2>7. begun' + Pending' + Unstored' <= asked'
      BY ONLY <1>1, <1>4, <2>1, <2>4, <2>5, <2>6
    <2>8. Emptied'
      BY <2>1 DEF Emptied
    <2> QED
      BY <2>7, <2>8 DEF Counted
  <1>7. CASE Store(r)
    <2>1. /\ rpc[r] = "got" /\ rpc'[r] = "clear" /\ extra' = Answer(buffer)
          /\ UNCHANGED <<buffer, asked>>
      BY <1>5, <1>7 DEF Store
    <2>2. Unstored' = 0 /\ Pending' <= Unstored
      BY <1>3, <2>1 DEF Unstored, Pending
    <2>3. Emptied'
      BY <2>1 DEF Emptied
    <2>4. begun \in Nat /\ asked \in Nat /\ begun + Pending + Unstored <= asked
      BY SessionAssumption DEF SessionInv, TypeOK, Counted
    <2>5. Pending' \in {0, 1}
      BY DEF Pending
    <2>6. Unstored' \in {0, 1} /\ Unstored' <= Pending
      <3>1. CASE Pending = 0
        BY <2>2, <3>1
      <3>2. CASE Pending = 1
        BY <2>2, <3>2
      <3> QED
        BY <1>4, <3>1, <3>2
    <2>7. begun + Pending' + Unstored' <= asked
      BY ONLY <1>4, <2>2, <2>4, <2>5, <2>6, Sums
    <2> QED
      BY <1>1, <2>1, <2>3, <2>7 DEF Counted
  <1>8. CASE Poll(r) \/ Idle(r) \/ ReadThrows(r) \/ Clear(r)
    <2>1. /\ rpc'[r] # "got" /\ (rpc'[r] = "clear" \/ buffer' = {} \/ UNCHANGED buffer)
          /\ UNCHANGED <<extra, asked>>
      BY <1>5, <1>8 DEF Poll, Idle, ReadThrows, Clear, replyVars
    <2>2. Emptied'
      BY <1>3, <1>5, <1>8 DEF Counted, Emptied, Poll, Idle, ReadThrows, Clear
    <2>3. Unstored' = 0
      BY <1>3, <2>1 DEF Unstored
    <2>4. Pending' = Pending
      BY <1>2, <2>1 DEF Pending
    <2> QED
      BY <1>1, <1>4, <2>1, <2>2, <2>3, <2>4, KeptCount
  <1> QED
    BY <1>6, <1>7, <1>8 DEF Reader

LEMMA CountedStep == SessionInv /\ Places /\ Counted /\ [Next]_vars => Counted'
  <1> SUFFICES ASSUME SessionInv, Places, Counted, [Next]_vars, Alone' PROVE Counted'
    BY DEF Counted
  <1>1. Alone
    BY StillAlone
  <1>2. CASE Drop \/ UNCHANGED vars
    <2>1. UNCHANGED <<pc, caller, mine, running, at, extra, rpc, buffer, begun, asked>>
      BY <1>2 DEF Drop, vars, callVars, managerVars, replyVars, readerVars
    <2>2. Emptied' /\ Pending' = Pending /\ Unstored' = Unstored
      BY <1>1, <2>1 DEF Counted, Emptied, Pending, Taken, Unstored
    <2> QED
      BY <1>1, <2>1, <2>2 DEF Counted
  <1> QED
    BY <1>1, <1>2, ManagerCounted, WorkerCounted, ReaderCounted DEF Next

(* No request is answered twice, as long as no call was abandoned where    *)
(* the replies are sent and one reader has the buffer.                     *)
THEOREM RequestsAnsweredOnce == Spec => []AnsweredOnce
  <1>1. Init => Counted
    BY DEF Init, Counted, Emptied, Pending, Unstored
  <1>2. SessionInv /\ Counted => AnsweredOnce
    <2> SUFFICES ASSUME SessionInv, Counted, Alone PROVE begun <= asked
      BY DEF AnsweredOnce, Alone
    <2>1. /\ begun \in Nat /\ asked \in Nat /\ begun + Pending + Unstored <= asked
          /\ Pending \in {0, 1} /\ Unstored \in {0, 1}
      BY SessionAssumption DEF SessionInv, TypeOK, Counted, Pending, Unstored
    <2> QED
      BY ONLY <2>1
  <1> QED
    BY <1>1, <1>2, ConnectionInvariant, CountedStep, PTL DEF Spec

=============================================================================
