------------------------- MODULE TimedCallProofs -------------------------
(***************************************************************************)
(* What TimedCall guarantees for every number of workers and of frames.    *)
(* CallInv is inductive: the frame of an address that was never abandoned  *)
(* ties its worker to the running call (FrameAlive), so that no other      *)
(* worker can set `done` there.                                            *)
(***************************************************************************)
EXTENDS TimedCall, TLAPS

(* A call is running exactly when it has a worker and a frame, and every   *)
(* running worker was given the address of a frame.                        *)
Frames ==
    /\ caller = "idle" => mine = NoWorker /\ cell = NoCell
    /\ caller # "idle" => mine \in Workers /\ cell \in Cells
    /\ mine \in running => cell = addr[mine]
    /\ \A w \in running : addr[w] \in Cells

CallInv == CallTypeOK /\ Frames /\ FrameAlive /\ NoLostSignal /\ TrueMeansFinished

LEMMA CallInitInv == CallInit => CallInv
  BY DEF CallInit, CallInv, CallTypeOK, Frames, FrameAlive, NoLostSignal,
         TrueMeansFinished

(* Every step of the protocol keeps the invariant. *)
LEMMA CallStepInv == CallInv /\ [CallNext]_callVars => CallInv'
  <1> SUFFICES ASSUME CallInv, [CallNext]_callVars PROVE CallInv'
    OBVIOUS
  <1> USE SentinelAssumption
          DEF CallInv, CallTypeOK, Frames, FrameAlive, NoLostSignal, TrueMeansFinished
  <1>1. ASSUME NEW w \in Workers, NEW c \in Cells, Call(w, c) PROVE CallInv'
    BY <1>1 DEF Call
  <1>2. CASE Expire
    BY <1>2 DEF Expire
  <1>3. CASE Return
    BY <1>3 DEF Return
  <1>4. ASSUME NEW w \in Workers, Signal(w) PROVE CallInv'
    BY <1>4 DEF Signal
  <1>5. CASE UNCHANGED callVars
    BY <1>5 DEF callVars
  <1> QED
    BY <1>1, <1>2, <1>3, <1>4, <1>5 DEF CallNext

LEMMA CallInvariant == CallSpec => []CallInv
  BY CallInitInv, CallStepInv, PTL DEF CallSpec

(* The variables of run_with_timeout keep their types. *)
THEOREM CallTypeCorrect == CallSpec => []CallTypeOK
  <1>1. CallInv => CallTypeOK
    BY DEF CallInv
  <1> QED
    BY <1>1, CallInvariant, PTL

(* Only a worker whose caller gave up can outlive its frame. *)
THEOREM FramesAlive == CallSpec => []FrameAlive
  <1>1. CallInv => FrameAlive
    BY DEF CallInv
  <1> QED
    BY <1>1, CallInvariant, PTL

(* The caller never polls a `done` that nobody will write. *)
THEOREM NoSignalLost == CallSpec => []NoLostSignal
  <1>1. CallInv => NoLostSignal
    BY DEF CallInv
  <1> QED
    BY <1>1, CallInvariant, PTL

(* run_with_timeout returns true only after f has ended, at an address no  *)
(* call was abandoned at.                                                  *)
THEOREM TrueIsFinished == CallSpec => []TrueMeansFinished
  <1>1. CallInv => TrueMeansFinished
    BY DEF CallInv
  <1> QED
    BY <1>1, CallInvariant, PTL

=============================================================================
