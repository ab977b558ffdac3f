-------------------------- MODULE SessionProofs --------------------------
(***************************************************************************)
(* What holds of a session for every number of threads, every layout of    *)
(* the stack and every sequence of messages.  SessionInv is inductive: to  *)
(* the types and the invariant of the calls it adds who holds the mutex    *)
(* (HolderSends) and where the manager is during a call (InCall).          *)
(***************************************************************************)
EXTENDS Session, TimedCallProofs

(* A call is running only at a place of ws_manage_ws that makes one. *)
InCall == caller # "idle" => pc \in Ops

SessionInv == TypeOK /\ CallInv /\ HolderSends /\ InCall

LEMMA AnswerType ==
    ASSUME NEW msgs \in SUBSET Messages PROVE Answer(msgs) \in Messages \cup {Nothing}
  BY DEF Answer

LEMMA SessionInitInv == Init => SessionInv
  <1> SUFFICES ASSUME Init PROVE SessionInv
    OBVIOUS
  <1>1. CallInv
    BY CallInitInv DEF Init
  <1>2. TypeOK
    <2>1. CallTypeOK /\ MaxAsked \in Nat
      BY <1>1, SessionAssumption DEF CallInv
    <2>2. /\ left \in 0 .. 2 /\ begun \in Nat
          /\ asked \in 0 .. MaxAsked
      BY <2>1 DEF Init
    <2> QED
      BY <2>1, <2>2 DEF Init, TypeOK
  <1>3. HolderSends /\ InCall
    BY SentinelAssumption DEF Init, CallInit, HolderSends, InCall
  <1> QED
    BY <1>1, <1>2, <1>3 DEF SessionInv

(* Every step of a session is a step of the protocol of run_with_timeout,  *)
(* or leaves it alone.                                                     *)
LEMMA StepIsCallStep == [Next]_vars => [CallNext]_callVars
  <1> SUFFICES ASSUME [Next]_vars PROVE [CallNext]_callVars
    OBVIOUS
  <1>1. CASE Manager
    <2>1. CASE Begin
      BY <2>1, SessionAssumption DEF Begin, CallNext
    <2>2. CASE Deadline
      BY <2>2 DEF Deadline, CallNext
    <2>3. CASE Written
      BY <2>3 DEF Written, CallNext
    <2>4. CASE Shaken
      BY <2>4 DEF Shaken, CallNext
    <2>5. CASE CheckExtra \/ NoThread \/ Reset \/ Connect \/ TcpUp \/ TcpFail \/ Due
      BY <2>5 DEF CheckExtra, NoThread, Reset, Connect, TcpUp, TcpFail, Due
    <2> QED
      BY <1>1, <2>1, <2>2, <2>3, <2>4, <2>5 DEF Manager
  <1>2. ASSUME NEW w \in Workers, Worker(w) PROVE [CallNext]_callVars
    <2>1. CASE Done(w)
      BY <2>1 DEF Done, CallNext
    <2>2. CASE ~Done(w)
      BY <1>2, <2>2 DEF Worker, Lock, WriteReply, ReplyThrows, Write, WriteThrows,
                        ShakeBegin, ShakeOk, ShakeThrows
    <2> QED
      BY <2>1, <2>2
  <1>3. ASSUME NEW r \in Readers, Reader(r) PROVE [CallNext]_callVars
    BY <1>3 DEF Reader, Poll, Idle, Read, ReadThrows, Store, Clear
  <1>4. CASE Drop
    BY <1>4 DEF Drop
  <1>5. CASE UNCHANGED vars
    BY <1>5 DEF vars
  <1> QED
    BY <1>1, <1>2, <1>3, <1>4, <1>5 DEF Next

LEMMA ManagerStepInv ==
    SessionInv /\ CallInv' /\ Manager => TypeOK' /\ HolderSends' /\ InCall'
  <1> SUFFICES ASSUME SessionInv, CallInv', Manager
               PROVE TypeOK' /\ HolderSends' /\ InCall'
    OBVIOUS
  <1> USE DEF SessionInv, TypeOK, HolderSends, InCall, CallInv, Goto,
              managerVars, replyVars, readerVars, streamVars
  <1>1. CASE CheckExtra
    BY <1>1 DEF CheckExtra, callVars, Ops
  <1>2. CASE Begin
    BY <1>2 DEF Begin, Call, Entry, CallTypeOK
  <1>3. CASE NoThread
    BY <1>3 DEF NoThread, callVars
  <1>4. CASE Deadline
    BY <1>4 DEF Deadline, Expire
  <1>5. CASE Written
    BY <1>5 DEF Written, Return, Ops
  <1>6. CASE Reset
    BY <1>6 DEF Reset, callVars, Ops
  <1>7. CASE Connect
    BY <1>7 DEF Connect, callVars, Ops
  <1>8. CASE TcpUp
    BY <1>8 DEF TcpUp, callVars, Ops
  <1>9. CASE TcpFail
    BY <1>9 DEF TcpFail, callVars, Ops
  <1>10. CASE Shaken
    BY <1>10 DEF Shaken, Return, Ops
  <1>11. CASE Due
    BY <1>11 DEF Due, callVars, Ops
  <1> QED
    BY <1>1, <1>2, <1>3, <1>4, <1>5, <1>6, <1>7, <1>8, <1>9, <1>10, <1>11 DEF Manager

LEMMA WorkerStepInv ==
    ASSUME SessionInv, CallInv', NEW w \in Workers, Worker(w)
    PROVE  TypeOK' /\ HolderSends' /\ InCall'
  <1> USE SentinelAssumption
          DEF SessionInv, TypeOK, HolderSends, InCall, CallInv, CallTypeOK, Step,
              managerVars, replyVars, readerVars, streamVars
  <1>1. CASE Lock(w)
    BY <1>1 DEF Lock, callVars, Count
  <1>2. CASE WriteReply(w)
    BY <1>2 DEF WriteReply, callVars
  <1>3. CASE ReplyThrows(w)
    <2>1. mutex = w /\ mutex' = NoWorker /\ left' = 0
      BY <1>3 DEF ReplyThrows
    <2>2. HolderSends' /\ InCall'
      BY <1>3, <2>1 DEF ReplyThrows, callVars
    <2>3. CallTypeOK'
      OBVIOUS
    <2>4. mutex' \in Workers \cup {NoWorker} /\ left' \in 0 .. 2
      BY <2>1
    <2>5. TypeOK'
      BY <1>3, <2>3, <2>4, TypeOK
         DEF TypeOK, ReplyThrows, Step, managerVars, readerVars
    <2> QED
      BY <2>2, <2>5
  <1>4. CASE Write(w)
    BY <1>4 DEF Write, callVars
  <1>5. CASE WriteThrows(w)
    BY <1>5 DEF WriteThrows, callVars
  <1>6. CASE ShakeBegin(w)
    BY <1>6 DEF ShakeBegin, callVars
  <1>7. CASE ShakeOk(w)
    BY <1>7 DEF ShakeOk, callVars
  <1>8. CASE ShakeThrows(w)
    BY <1>8 DEF ShakeThrows, callVars
  <1>9. CASE Done(w)
    BY <1>9 DEF Done, Signal
  <1> QED
    BY <1>1, <1>2, <1>3, <1>4, <1>5, <1>6, <1>7, <1>8, <1>9 DEF Worker

LEMMA ReaderStepInv ==
    ASSUME SessionInv, CallInv', NEW r \in Readers, Reader(r)
    PROVE  TypeOK' /\ HolderSends' /\ InCall'
  <1> USE DEF SessionInv, TypeOK, HolderSends, InCall, CallInv, Move,
              managerVars, replyVars, readerVars, streamVars, callVars
  <1>1. CASE Poll(r)
    BY <1>1 DEF Poll
  <1>2. CASE Idle(r)
    BY <1>2 DEF Idle
  <1>3. ASSUME NEW m \in Messages, Read(r, m) PROVE TypeOK' /\ HolderSends' /\ InCall'
    BY <1>3, SessionAssumption DEF Read
  <1>4. CASE ReadThrows(r)
    BY <1>4 DEF ReadThrows
  <1>5. CASE Store(r)
    BY <1>5, AnswerType DEF Store
  <1>6. CASE Clear(r)
    BY <1>6 DEF Clear
  <1> QED
    BY <1>1, <1>2, <1>3, <1>4, <1>5, <1>6 DEF Reader

LEMMA SessionStepInv == SessionInv /\ [Next]_vars => SessionInv'
  <1> SUFFICES ASSUME SessionInv, [Next]_vars PROVE SessionInv'
    OBVIOUS
  <1>1. CallInv'
    BY CallStepInv, StepIsCallStep DEF SessionInv
  <1>2. CASE Manager
    BY <1>1, <1>2, ManagerStepInv DEF SessionInv
  <1>3. ASSUME NEW w \in Workers, Worker(w) PROVE SessionInv'
    BY <1>1, <1>3, WorkerStepInv DEF SessionInv
  <1>4. ASSUME NEW r \in Readers, Reader(r) PROVE SessionInv'
    BY <1>1, <1>4, ReaderStepInv DEF SessionInv
  <1>5. CASE Drop \/ UNCHANGED vars
    <2>1. UNCHANGED <<callVars, managerVars, replyVars, at, readerVars, open>>
      BY <1>5 DEF Drop, vars, streamVars
    <2>2. link' \in {"down", "up"}
      BY <1>5 DEF Drop, vars, streamVars, SessionInv, TypeOK
    <2>3. TypeOK'
      BY <1>1, <2>1, <2>2 DEF SessionInv, TypeOK, CallInv, managerVars, replyVars, readerVars
    <2>4. HolderSends' /\ InCall'
      BY <2>1 DEF SessionInv, HolderSends, InCall, callVars, managerVars, replyVars
    <2> QED
      BY <1>1, <2>3, <2>4 DEF SessionInv
  <1> QED
    BY <1>2, <1>3, <1>4, <1>5 DEF Next

LEMMA SessionInvariant == Spec => []SessionInv
  BY SessionInitInv, SessionStepInv, PTL DEF Spec

(* The state of a session keeps its types. *)
THEOREM SessionTypeCorrect == Spec => []TypeOK
  <1>1. SessionInv => TypeOK
    BY DEF SessionInv
  <1> QED
    BY <1>1, SessionInvariant, PTL

(* Every holder of ws_state_mutex is a worker inside the loop that writes  *)
(* the pending reply: the guard is released on every way out of f.         *)
THEOREM MutexHeldBySender == Spec => []HolderSends
  <1>1. SessionInv => HolderSends
    BY DEF SessionInv
  <1> QED
    BY <1>1, SessionInvariant, PTL

(* The manager, its workers and the frames they share implement the        *)
(* protocol of run_with_timeout: all that is proved of it holds here.      *)
THEOREM SessionImplementsCalls == Spec => CallSpec
  <1>1. Init => CallInit
    BY DEF Init
  <1> QED
    BY <1>1, StepIsCallStep, PTL DEF Spec, CallSpec

(* In a session only abandoned workers outlive their frames. *)
THEOREM SessionFramesAlive == Spec => []FrameAlive
  BY SessionImplementsCalls, FramesAlive, PTL

(* No step changes the pending reply while a worker that the manager waits *)
(* for is sending it.                                                      *)
THEOREM ReplyIsStable == Spec => ReplyStable
  <1> DEFINE Stable == mutex # NoWorker /\ mutex = mine => extra' = extra
  <1>1. SessionInv /\ [Next]_vars => [Stable]_vars
    <2> SUFFICES ASSUME SessionInv, [Next]_vars, mutex # NoWorker, mutex = mine
                 PROVE extra' = extra
      OBVIOUS
    <2>1. caller # "idle" /\ pc \in Ops
      BY DEF SessionInv, CallInv, Frames, CallTypeOK, InCall
    <2>2. CASE Manager
      <3>1. ~Reset
        BY <2>1 DEF Reset, Ops
      <3> QED
        BY <2>2, <3>1 DEF Manager, CheckExtra, Begin, NoThread, Deadline, Written,
                          Connect, TcpUp, TcpFail, Shaken, Due, replyVars
    <2>3. ASSUME NEW w \in Workers, Worker(w) PROVE extra' = extra
      BY <2>3 DEF Worker, Lock, WriteReply, ReplyThrows, Write, WriteThrows,
                  ShakeBegin, ShakeOk, ShakeThrows, Done, replyVars
    <2>4. ASSUME NEW r \in Readers, Reader(r) PROVE extra' = extra
      BY <2>4 DEF Reader, Poll, Idle, Read, ReadThrows, Store, Clear, replyVars
    <2>5. CASE Drop \/ UNCHANGED vars
      BY <2>5 DEF Drop, vars, replyVars
    <2> QED
      BY <2>2, <2>3, <2>4, <2>5 DEF Next
  <1> QED
    BY <1>1, SessionInvariant, PTL DEF Spec, ReplyStable

=============================================================================
