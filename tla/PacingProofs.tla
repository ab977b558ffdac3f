--------------------------- MODULE PacingProofs ---------------------------
(***************************************************************************)
(* A thread that manages any number of devices, for every interval and any *)
(* number of workers and readers.  AgesInv: last_run_time is never older   *)
(* than the last turn.  ParityInv: what the last call picked tells the     *)
(* parity the next one will find.                                          *)
(***************************************************************************)
EXTENDS Pacing, TLAPS

AgesInv == \A d \in Ids : age[d] <= turnAge[d]

ParityInv ==
    /\ \A c \in Calling : alone[c] => Calling = {c}
    /\ \A c \in Callers : step[c] \in {"good", "bad"} /\ alone[c] /\ wantsBad[c]
                            => (step[c] = "bad" <=> which = 0)
    /\ previous = "good" => which = 0
    /\ previous = "bad" => which = 1

PacingInv == PacingTypeOK /\ AgesInv /\ ParityInv

LEMMA PacingInit == Init => PacingInv
  <1> SUFFICES ASSUME Init PROVE PacingInv
    OBVIOUS
  <1> USE PacingAssumption DEF Init, PayloadInit, Ids
  <1>1. 1 \in Ids
    BY DEF Ids
  <1>2. PICK uptime \in 0 .. Interval : age = [d \in Ids |-> uptime]
    OBVIOUS
  <1>3. PayloadTypeOK
    BY DEF PayloadTypeOK
  <1>4. PacingTypeOK
    <2>1. age \in [Ids -> 0 .. Interval] /\ turnAge \in [Ids -> 0 .. Interval]
          /\ tryAge \in [Ids -> 0 .. Reconnect]
      BY <1>2
    <2> QED
      BY <1>1, <1>3, <2>1 DEF PacingTypeOK
  <1>5. AgesInv
    BY <1>2 DEF AgesInv
  <1>6. ParityInv
    BY DEF ParityInv, Calling
  <1> QED
    BY <1>4, <1>5, <1>6 DEF PacingInv

-----------------------------------------------------------------------------
(* Ages. *)

AgesType ==
    /\ age \in [Ids -> 0 .. Interval] /\ epoch \in [Ids -> BOOLEAN]
    /\ turnAge \in [Ids -> 0 .. Interval] /\ tryAge \in [Ids -> 0 .. Reconnect]

LEMMA OlderType ==
    ASSUME NEW most \in Nat, NEW ages \in [Ids -> 0 .. most]
    PROVE  Older(ages, most) \in [Ids -> 0 .. most]
  BY DEF Older

LEMMA TickAges == PacingInv /\ Tick => AgesType' /\ AgesInv'
  <1> SUFFICES ASSUME PacingInv, Tick PROVE AgesType' /\ AgesInv'
    OBVIOUS
  <1>1. AgesType'
    BY OlderType, PacingAssumption DEF PacingInv, PacingTypeOK, AgesType, Tick
  <1>2. ASSUME NEW d \in Ids PROVE age'[d] <= turnAge'[d]
    <2>1. age[d] \in 0 .. Interval /\ turnAge[d] \in 0 .. Interval /\ age[d] <= turnAge[d] /\ Interval \in Nat
      BY PacingAssumption DEF PacingInv, PacingTypeOK, AgesInv
    <2> QED
      BY <2>1 DEF Tick, Older
  <1> QED
    BY <1>1, <1>2 DEF AgesInv

(* is_time makes a time point younger, or leaves it. *)
LEMMA IsTimeAges ==
    ASSUME PacingInv, NEW answer \in BOOLEAN, is_time(answer),
           UNCHANGED tryAge,
           turnAge' = turnAge \/ (answer /\ turnAge' = [turnAge EXCEPT ![device] = 0])
    PROVE  AgesType' /\ AgesInv'
  <1>1. device \in Ids /\ 0 \in 0 .. Interval
    BY PacingAssumption DEF PacingInv, PacingTypeOK
  <1>2. AgesType'
    <2>1. AgesType
      BY DEF PacingInv, PacingTypeOK, AgesType
    <2>2. age' \in [Ids -> 0 .. Interval]
      BY <1>1, <2>1 DEF AgesType, is_time
    <2>3. epoch' \in [Ids -> BOOLEAN]
      BY <2>1 DEF AgesType, is_time
    <2>4. turnAge' \in [Ids -> 0 .. Interval]
      BY <1>1, <2>1 DEF AgesType
    <2> QED
      BY <2>1, <2>2, <2>3, <2>4 DEF AgesType
  <1>3. ASSUME NEW d \in Ids PROVE age'[d] <= turnAge'[d]
    <2>1. age[d] \in 0 .. Interval /\ turnAge[d] \in 0 .. Interval /\ age[d] <= turnAge[d] /\ Interval \in Nat
      BY PacingAssumption DEF PacingInv, PacingTypeOK, AgesInv
    <2> QED
      BY <1>1, <2>1 DEF PacingInv, PacingTypeOK, is_time
  <1> QED
    BY <1>2, <1>3 DEF AgesInv

LEMMA SameAges == PacingInv /\ UNCHANGED timeVars => AgesType' /\ AgesInv'
  BY DEF PacingInv, PacingTypeOK, AgesType, AgesInv, timeVars

-----------------------------------------------------------------------------
(* The counter of ws_get_payload. *)

LEMMA EnterParity ==
    ASSUME PayloadTypeOK, ParityInv, NEW c \in Callers, NEW flag \in BOOLEAN,
           step[c] \in {"idle", "picked"}, Enter(c, flag)
    PROVE  PayloadTypeOK' /\ ParityInv'
  <1>1. PayloadTypeOK'
    BY DEF PayloadTypeOK, Enter
  <1>2. step' = [step EXCEPT ![c] = "called"] /\ Calling' = Calling \cup {c}
    BY DEF PayloadTypeOK, Enter, Calling
  <1>3. \A d \in Calling' : alone'[d] => d = c /\ Calling = {}
    BY <1>2 DEF Enter, Calling
  <1>4. \A d \in Callers : step'[d] \in {"good", "bad"} => d # c /\ d \in Calling
    BY <1>2 DEF PayloadTypeOK, Calling
  <1>5. \A d \in Callers : step'[d] \in {"good", "bad"} => ~alone'[d]
    BY <1>4 DEF Enter
  <1> QED
    BY <1>1, <1>2, <1>3, <1>5 DEF ParityInv, Enter

LEMMA PickParity ==
    ASSUME PayloadTypeOK, ParityInv, NEW c \in Callers, Pick(c)
    PROVE  PayloadTypeOK' /\ ParityInv'
  <1>1. PayloadTypeOK'
    BY DEF PayloadTypeOK, Pick
  <1>2. Calling' = Calling
    BY DEF PayloadTypeOK, Pick, Calling
  <1> QED
    BY <1>1, <1>2 DEF PayloadTypeOK, ParityInv, Pick

LEMMA CountParity ==
    ASSUME PayloadTypeOK, ParityInv, NEW c \in Callers, Count(c)
    PROVE  PayloadTypeOK' /\ ParityInv'
  <1>1. PayloadTypeOK'
    BY DEF PayloadTypeOK, Count
  <1>2. Calling' = Calling \ {c} /\ c \in Calling
    BY DEF PayloadTypeOK, Count, Calling
  <1>3. \A d \in Calling' : ~alone'[d]
    BY <1>2 DEF ParityInv, Count, Calling
  <1>4. \A d \in Callers : step'[d] \in {"good", "bad"} => d \in Calling'
    BY DEF Calling
  <1>5. (previous = "good" => which = 0)' /\ (previous = "bad" => which = 1)'
    <2>1. CASE alone[c] /\ wantsBad[c]
      BY <2>1 DEF PayloadTypeOK, ParityInv, Count
    <2>2. CASE ~(alone[c] /\ wantsBad[c])
      BY <2>2 DEF Count
    <2> QED
      BY <2>1, <2>2
  <1> QED
    BY <1>1, <1>3, <1>4, <1>5 DEF ParityInv

LEMMA IdleParity ==
    ASSUME PayloadTypeOK, ParityInv, NEW c \in Callers, step[c] = "picked",
           step' = [step EXCEPT ![c] = "idle"], UNCHANGED <<which, wantsBad, alone, previous>>
    PROVE  PayloadTypeOK' /\ ParityInv'
  <1>1. PayloadTypeOK' /\ Calling' = Calling
    BY DEF PayloadTypeOK, Calling
  <1> QED
    BY <1>1 DEF PayloadTypeOK, ParityInv

LEMMA SameParity ==
    PayloadTypeOK /\ ParityInv /\ UNCHANGED payloadVars => PayloadTypeOK' /\ ParityInv'
  BY DEF PayloadTypeOK, ParityInv, Calling, payloadVars

-----------------------------------------------------------------------------
(* Every step keeps the invariant. *)

Rest ==
    /\ sendBad \in BOOLEAN
    /\ device \in Ids
    /\ pc \in {"conn", "connect", "due", "send", "wait", "sleep"}
    /\ mine \subseteq Workers
    /\ connected \in [Ids -> BOOLEAN] /\ open \in [Ids -> BOOLEAN]
    /\ late \subseteq Slow /\ got \subseteq Asking

LEMMA Parts ==
    /\ PacingInv => PayloadTypeOK /\ ParityInv /\ AgesType /\ AgesInv /\ Rest
    /\ PayloadTypeOK' /\ ParityInv' /\ AgesType' /\ AgesInv' /\ Rest' => PacingInv'
  BY DEF PacingInv, PacingTypeOK, AgesType, Rest

LEMMA ManagerInv == PacingInv /\ Manager => PacingInv'
  <1> SUFFICES ASSUME PacingInv, Manager PROVE PacingInv'
    OBVIOUS
  <1> USE Parts
  <1>1. CASE NeedsConnection
    <2>1. Rest' /\ UNCHANGED payloadVars
      BY <1>1 DEF NeedsConnection, Pass, Rest, streamVars
    <2>2. AgesType' /\ AgesInv'
      BY <1>1, IsTimeAges, SameAges DEF NeedsConnection, timeVars
    <2> QED
      BY <2>1, <2>2, SameParity
  <1>2. CASE Connect
    <2>1. Rest' /\ UNCHANGED payloadVars
      BY <1>2 DEF Connect, Pass, Rest
    <2>2. AgesType' /\ AgesInv'
      <3>1. tryAge' \in [Ids -> 0 .. Reconnect]
        <4>1. tryAge' = [tryAge EXCEPT ![device] = 0] /\ tryAge \in [Ids -> 0 .. Reconnect]
          BY <1>2 DEF Connect, AgesType
        <4>2. 0 \in 0 .. Reconnect
          BY PacingAssumption
        <4> QED
          BY ONLY <4>1, <4>2
      <3>2. UNCHANGED <<age, epoch, turnAge>>
        BY <1>2 DEF Connect
      <3> QED
        BY <3>1, <3>2 DEF AgesType, AgesInv
    <2> QED
      BY <2>1, <2>2, SameParity
  <1>3. CASE Due
    <2>1. Rest' /\ UNCHANGED payloadVars
      BY <1>3 DEF Due, Pass, Rest, streamVars
    <2>2. AgesType' /\ AgesInv'
      BY <1>3, IsTimeAges DEF Due
    <2> QED
      BY <2>1, <2>2, SameParity
  <1>4. CASE Send
    <2>1. Rest'
      BY <1>4 DEF Send, Pass, Rest, streamVars
    <2>2. PayloadTypeOK' /\ ParityInv'
      <3>1. \A w \in Workers : w \in Callers
        BY PacingAssumption
      <3> QED
        BY <1>4, <3>1, EnterParity, SameParity DEF Send, Rest
    <2> QED
      BY <1>4, <2>1, <2>2, SameAges DEF Send
  <1>5. CASE Return
    BY <1>5, SameAges, SameParity DEF Return, Pass, Rest, streamVars
  <1>6. CASE NextDevice
    <2>1. device' \in Ids
      BY <1>6, PacingAssumption DEF NextDevice, Rest, streamVars, Ids
    <2> QED
      BY <1>6, <2>1, SameAges, SameParity DEF NextDevice, Rest, streamVars
  <1> QED
    BY <1>1, <1>2, <1>3, <1>4, <1>5, <1>6 DEF Manager

LEMMA CallersInv ==
    ASSUME PacingInv,
           (\E w \in Workers : Worker(w)) \/ (\E d \in Asking : Reader(d))
    PROVE  PacingInv'
  <1>1. Rest' /\ UNCHANGED timeVars
    BY Parts DEF Worker, Reader, Read, Answer, Rest, managerVars, streamVars
  <1>2. PayloadTypeOK' /\ ParityInv'
    <2>1. (\A w \in Workers : w \in Callers) /\ (\A d \in Asking : Readers[d] \in Callers)
      BY PacingAssumption
    <2>2. ASSUME NEW w \in Workers, Worker(w) PROVE PayloadTypeOK' /\ ParityInv'
      BY <2>1, <2>2, Parts, PickParity, CountParity, IdleParity DEF Worker
    <2>3. ASSUME NEW d \in Asking, Reader(d) PROVE PayloadTypeOK' /\ ParityInv'
      <3>1. Read(d) => UNCHANGED payloadVars
        BY DEF Read
      <3>2. CASE Answer(d)
        BY <2>1, <3>2, Parts, EnterParity DEF Answer
      <3> QED
        BY <2>1, <2>3, <3>1, <3>2, Parts, PickParity, CountParity, SameParity DEF Reader
    <2> QED
      BY <2>2, <2>3
  <1> QED
    BY <1>1, <1>2, Parts, SameAges

LEMMA PacingStep == PacingInv /\ [Next]_vars => PacingInv'
  <1> SUFFICES ASSUME PacingInv, [Next]_vars PROVE PacingInv'
    OBVIOUS
  <1> USE Parts
  <1>1. CASE Tick
    BY <1>1, TickAges, SameParity DEF Tick, Rest, managerVars, streamVars
  <1>2. CASE \E d \in Ids : Break(d) \/ Late(d)
    BY <1>2, SameAges, SameParity DEF Break, Late, Rest, managerVars
  <1>3. CASE UNCHANGED vars
    BY <1>3, SameAges, SameParity DEF vars, Rest, managerVars, streamVars
  <1> QED
    BY <1>1, <1>2, <1>3, ManagerInv, CallersInv DEF Next

LEMMA PacingInvariant == Spec => []PacingInv
  BY PacingInit, PacingStep, PTL DEF Spec

(* The variables of the manager thread keep their types (main.cpp).        *)
THEOREM PacingTypeCorrect == Spec => []PacingTypeOK
  <1>1. PacingInv => PacingTypeOK
    BY DEF PacingInv
  <1> QED
    BY <1>1, PacingInvariant, PTL

(* Good and bad packets alternate between calls nobody disturbed, whatever *)
(* races happened before (device_payloads.cpp, lines 49-56).               *)
THEOREM PacketsAlternate == Spec => []Alternate
  <1>1. PacingInv => Alternate
    BY DEF PacingInv, PacingTypeOK, PayloadTypeOK, ParityInv, Alternate
  <1> QED
    BY <1>1, PacingInvariant, PTL

(* Two turns of a device are time_between_packets apart (main.cpp, lines   *)
(* 184-196 and 219-232).                                                   *)
THEOREM TurnsAreSpaced == Spec => TurnsSpaced
  <1>1. PacingInv /\ [Next]_vars => [pc = "due" /\ pc' = "send" => turnAge[device] = Interval]_vars
    <2> SUFFICES ASSUME PacingInv, Next, pc = "due", pc' = "send"
                 PROVE  turnAge[device] = Interval
      OBVIOUS
    <2>1. Due
      BY DEF Next, Tick, Manager, NeedsConnection, Connect, Send, Return, NextDevice, Pass,
             Worker, Reader, Break, Late, managerVars
    <2>2. age[device] = Interval
      BY <2>1 DEF Due, Pass, is_time
    <2>3. device \in Ids /\ age[device] <= turnAge[device] /\ turnAge[device] \in 0 .. Interval
      BY DEF PacingInv, PacingTypeOK, AgesInv
    <2> QED
      BY <2>2, <2>3, PacingAssumption
  <1> QED
    BY <1>1, PacingInvariant, PTL DEF Spec, TurnsSpaced

=============================================================================
