---------------------------- MODULE TimedCall ----------------------------
(***************************************************************************)
(* run_with_timeout (util.cpp): a caller starts a detached worker thread   *)
(* that runs f and then sets `done`, a bool on the caller's stack; the     *)
(* caller polls `done` until it is set or a deadline has passed, and       *)
(* returns it.  Nothing stops a worker whose caller gave up: it goes on    *)
(* running f, and its last statement writes to the address `done` had.     *)
(* The caller's next call at the same depth of the stack has its own       *)
(* `done` at that address, so the write of the abandoned worker is seen    *)
(* by a call that has nothing to do with it.                               *)
(***************************************************************************)
CONSTANTS
    Workers,    \* threads that can exist at once (the limit of the system)
    Cells,      \* addresses `done` can have: one per depth of the stack
    NoWorker, NoCell

ASSUME SentinelAssumption == NoWorker \notin Workers /\ NoCell \notin Cells

VARIABLES
    caller,     \* "idle", "wait" (polling) or "expired" (left the loop)
    mine,       \* the worker of the call that is running
    cell,       \* the address of its `done`
    done,       \* what `done` holds; irrelevant when no call is running
    running,    \* workers that have not written `done` yet
    addr,       \* the address each running worker was given
    abandoned   \* history: addresses of calls that returned before their
                \* worker had signalled

callVars == <<caller, mine, cell, done, running, addr, abandoned>>

CallTypeOK ==
    /\ caller \in {"idle", "wait", "expired"}
    /\ mine \in Workers \cup {NoWorker}
    /\ cell \in Cells \cup {NoCell}
    /\ done \in BOOLEAN
    /\ running \subseteq Workers
    /\ addr \in [Workers -> Cells \cup {NoCell}]
    /\ abandoned \subseteq Cells

CallInit ==
    /\ caller = "idle"
    /\ mine = NoWorker
    /\ cell = NoCell
    /\ done = FALSE
    /\ running = {}
    /\ addr = [w \in Workers |-> NoCell]
    /\ abandoned = {}

(* Mutants: a second call entered before the first returned; `done`        *)
(* cleared only after the worker could already have set it; `done` not yet *)
(* in its place when the call begins.                                      *)
CallReentrant(w, c) ==
    /\ w \notin running
    /\ caller' = "wait" /\ mine' = w /\ cell' = c /\ done' = FALSE
    /\ running' = running \cup {w}
    /\ addr' = [addr EXCEPT ![w] = c]
    /\ UNCHANGED abandoned

CallClearsLate(w, c) ==
    /\ caller = "idle"
    /\ w \notin running
    /\ caller' = "wait" /\ mine' = w /\ cell' = c /\ done' = FALSE
    /\ running' \in {running, running \cup {w}}
    /\ addr' = [addr EXCEPT ![w] = c]
    /\ UNCHANGED abandoned

CallUnbound(w, c) ==
    /\ caller = "idle"
    /\ w \notin running
    /\ caller' = "wait" /\ mine' = w /\ cell' = NoCell /\ done' = FALSE
    /\ running' = running \cup {w}
    /\ addr' = [addr EXCEPT ![w] = c]
    /\ UNCHANGED abandoned

(* `done` is set to false before the thread is created. *)
Call(w, c) ==
    /\ caller = "idle"
    /\ w \notin running
    /\ caller' = "wait"
    /\ mine' = w
    /\ cell' = c
    /\ done' = FALSE
    /\ running' = running \cup {w}
    /\ addr' = [addr EXCEPT ![w] = c]
    /\ UNCHANGED abandoned

(* Mutant: the deadline is looked at only once `done` is set. *)
ExpireWhenDone ==
    /\ caller = "wait"
    /\ done
    /\ caller' = "expired"
    /\ UNCHANGED <<mine, cell, done, running, addr, abandoned>>

(* The loop saw `done` false and then the deadline in the past. *)
Expire ==
    /\ caller = "wait"
    /\ ~done
    /\ caller' = "expired"
    /\ UNCHANGED <<mine, cell, done, running, addr, abandoned>>

(* Leaving the loop and `return done`, which reads `done` again: after the *)
(* deadline it may have become true.  The frame is gone afterwards.        *)
Return ==
    /\ caller # "idle"
    /\ caller = "wait" => done
    /\ caller' = "idle"
    /\ mine' = NoWorker
    /\ cell' = NoCell
    /\ done' = FALSE
    /\ abandoned' = IF mine \in running THEN abandoned \cup {cell} ELSE abandoned
    /\ UNCHANGED <<running, addr>>

(* Mutant: `done` set before f is run. *)
SignalFirst(w) ==
    /\ w \in running
    /\ \/ running' = running \ {w} /\ addr' = [addr EXCEPT ![w] = NoCell]
       \/ UNCHANGED <<running, addr>>
    /\ done' = (done \/ cell = addr[w])
    /\ UNCHANGED <<caller, mine, cell, abandoned>>

(* The last statement of the wrapper: f has returned or thrown.  The write *)
(* is seen if a call is running whose `done` has the worker's address.     *)
Signal(w) ==
    /\ w \in running
    /\ running' = running \ {w}
    /\ done' = (done \/ cell = addr[w])
    /\ addr' = [addr EXCEPT ![w] = NoCell]
    /\ UNCHANGED <<caller, mine, cell, abandoned>>

CallNext ==
    \/ \E w \in Workers, c \in Cells : Call(w, c)
    \/ Expire
    \/ Return
    \/ \E w \in Workers : Signal(w)

CallSpec == CallInit /\ [][CallNext]_callVars

(* The caller is a thread in a busy loop and steady_clock goes on, so it   *)
(* takes its steps.  Nothing is assumed of the workers.                    *)
CallFairSpec == CallSpec /\ WF_callVars(Expire \/ Return)

-----------------------------------------------------------------------------

(* A worker whose `done` address was never that of an abandoned call is    *)
(* the worker of the call that is running, and its `done` is on the stack: *)
(* only giving up on a worker makes it write into a dead frame.            *)
FrameAlive ==
    \A w \in running : addr[w] \notin abandoned => w = mine /\ cell = addr[w]

(* A signal is not lost: while `done` is false in a running call, its      *)
(* worker has still to write it.                                           *)
NoLostSignal == caller # "idle" /\ ~done => mine \in running

(* What the callers of run_with_timeout take `true` to mean: f has ended.  *)
(* It does, at an address no call was abandoned at; elsewhere the write of *)
(* an abandoned worker can be taken for the one waited for.                *)
TrueMeansFinished == done /\ cell \notin abandoned => mine \notin running

(* run_with_timeout returns, whatever f does.                              *)
CallReturns == [](caller # "idle" => <>(caller = "idle"))

=============================================================================
