------------------------------ MODULE Pacing ------------------------------
(***************************************************************************)
(* A thread of main.cpp that manages several devices one after the other   *)
(* (ws_manage_thread), in seconds: is_time, which lets a packet or a       *)
(* reconnect through when time_between_packets is over, and is asked up to *)
(* twice in a pass of ws_manage_ws.  Beside it run the worker of the main  *)
(* packet and the readers of the devices, which call ws_get_payload, too.  *)
(*                                                                         *)
(* A time point is kept as its age, which counts no further than what it   *)
(* is compared with.  The other calls of ws_manage_ws change nothing here: *)
(* see Session.                                                            *)
(***************************************************************************)
EXTENDS Payloads, Sequences

CONSTANTS
    Devices,            \* a sequence: ws_states
    Workers,            \* callers of ws_get_payload: workers of main packets
    Readers,            \* and the readers of a device, one caller for each device
                        \* whose peer asks for main packets, since its
                        \* ws_state_mutex lets one of them call at a time
    Slow,               \* bound: devices whose handshakes may be given up
    Interval,           \* time_between_packets
    Reconnect           \* time_reconnect

Ids == DOMAIN Devices
Asking == DOMAIN Readers

ASSUME PacingAssumption ==
    /\ Devices # <<>>
    /\ Asking \subseteq Ids /\ Slow \subseteq Ids
    /\ \A d, e \in Asking : Readers[d] = Readers[e] => d = e
    /\ Callers = Workers \cup {Readers[d] : d \in Asking}
    /\ \A d \in Asking : Readers[d] \notin Workers
    /\ Interval \in Nat /\ Reconnect \in Nat

VARIABLES
    sendBad,    \* the option bad/no-bad
    device,     \* the device ws_manage_thread is at
    pc,         \* where its pass is
    mine,       \* the worker the manager waits for, or none: {}
    age,        \* of last_run_time
    epoch,      \* last_run_time was never set
    connected,  \* ws_state.connected, set when a reader was started
    open,       \* ws.is_open()
    late,       \* devices with a handshake that was given up
    got,        \* devices with a reader that has a request to answer
    turnAge,    \* history: seconds since the last turn of each device
    tryAge      \* history: seconds since it last tried to connect

managerVars == <<device, pc, mine>>
timeVars == <<age, epoch, turnAge, tryAge>>
streamVars == <<connected, open, late, got>>
vars == <<payloadVars, sendBad, managerVars, timeVars, streamVars>>

Up(d) == connected[d] /\ open[d]

PacingTypeOK ==
    /\ PayloadTypeOK
    /\ sendBad \in BOOLEAN
    /\ device \in Ids
    /\ pc \in {"conn", "connect", "due", "send", "wait", "sleep"}
    /\ mine \subseteq Workers
    /\ age \in [Ids -> 0 .. Interval] /\ epoch \in [Ids -> BOOLEAN]
    /\ connected \in [Ids -> BOOLEAN] /\ open \in [Ids -> BOOLEAN]
    /\ late \subseteq Slow /\ got \subseteq Asking
    /\ turnAge \in [Ids -> 0 .. Interval] /\ tryAge \in [Ids -> 0 .. Reconnect]

(* The epoch of steady_clock is as old as the machine is up. *)
Init ==
    /\ PayloadInit
    /\ sendBad \in BOOLEAN
    /\ device = 1 /\ pc = "conn" /\ mine = {}
    /\ \E uptime \in 0 .. Interval : age = [d \in Ids |-> uptime]
    /\ epoch = [d \in Ids |-> TRUE]
    /\ connected = [d \in Ids |-> FALSE] /\ open = [d \in Ids |-> FALSE]
    /\ late = {} /\ got = {}
    /\ turnAge = [d \in Ids |-> Interval] /\ tryAge = [d \in Ids |-> Reconnect]

Older(ages, most) == [d \in Ids |-> IF ages[d] < most THEN ages[d] + 1 ELSE most]

Tick ==
    /\ age' = Older(age, Interval)
    /\ turnAge' = Older(turnAge, Interval)
    /\ tryAge' = Older(tryAge, Reconnect)
    /\ UNCHANGED <<payloadVars, sendBad, managerVars, epoch, streamVars>>

Pass(from, to) == pc = from /\ pc' = to /\ UNCHANGED device

(* Mutants: is_time stamps whatever it says; it stamps a copy. *)
IsTimeStampsNo(answer) ==
    /\ answer = (age[device] = Interval)
    /\ age' = [age EXCEPT ![device] = 0]
    /\ epoch' = [epoch EXCEPT ![device] = FALSE]

IsTimeByValue(answer) ==
    /\ answer = (age[device] = Interval)
    /\ UNCHANGED <<age, epoch>>

(* Stamps the time when it says yes. *)
is_time(answer) ==
    /\ answer = (age[device] = Interval)
    /\ IF answer
       THEN age' = [age EXCEPT ![device] = 0] /\ epoch' = [epoch EXCEPT ![device] = FALSE]
       ELSE UNCHANGED <<age, epoch>>

(* Without a connection: connect at once while no time was ever stamped,   *)
(* else when it is time, which is then not the time of a packet.           *)
NeedsConnection ==
    /\ \/ Up(device) /\ Pass("conn", "due") /\ UNCHANGED <<age, epoch>>
       \/ ~Up(device) /\ epoch[device] /\ Pass("conn", "connect") /\ UNCHANGED <<age, epoch>>
       \/ ~Up(device) /\ ~epoch[device] /\ is_time(TRUE) /\ Pass("conn", "connect")
       \/ ~Up(device) /\ ~epoch[device] /\ is_time(FALSE) /\ Pass("conn", "due")
    /\ UNCHANGED <<payloadVars, sendBad, mine, turnAge, tryAge, streamVars>>

(* ws_connect fails before its handshake; or run_with_timeout says that it *)
(* is done, though it may have thrown, or (the signal was that of an       *)
(* earlier call) be still under way, and a reader is started; or no thread *)
(* is left for the reader, or the handshake is given up.                   *)
Connect ==
    /\ \/ Pass("connect", "sleep") /\ UNCHANGED <<connected, open, late>>
       \/ /\ \/ Pass("connect", "due") /\ connected' = [connected EXCEPT ![device] = TRUE]
             \/ Pass("connect", "sleep") /\ UNCHANGED connected
          /\ \E opened \in BOOLEAN : open' = [open EXCEPT ![device] = opened]
          /\ late' \in {late, late \cup ({device} \cap Slow)}
    /\ tryAge' = [tryAge EXCEPT ![device] = 0]
    /\ UNCHANGED <<payloadVars, sendBad, mine, age, epoch, turnAge, got>>

(* Is it time for a packet? *)
Due ==
    /\ \/ is_time(TRUE) /\ Pass("due", "send") /\ turnAge' = [turnAge EXCEPT ![device] = 0]
       \/ is_time(FALSE) /\ Pass("due", "sleep") /\ UNCHANGED turnAge
    /\ UNCHANGED <<payloadVars, sendBad, mine, tryAge, streamVars>>

(* A worker for the main packet, which reads the flag in its caller's      *)
(* frame; no thread is left for it: ws_manage_thread catches that.         *)
Send ==
    /\ \/ /\ Pass("send", "wait")
          /\ \E w \in Workers : step[w] = "idle" /\ mine' = {w} /\ Enter(w, sendBad)
       \/ /\ \A w \in Workers : step[w] # "idle"
          /\ Pass("send", "sleep")
          /\ UNCHANGED <<mine, payloadVars>>
    /\ UNCHANGED <<sendBad, timeVars, streamVars>>

(* The worker is done, or it is abandoned at the deadline. *)
Return ==
    /\ Pass("wait", "sleep")
    /\ mine' = {}
    /\ UNCHANGED <<payloadVars, sendBad, timeVars, streamVars>>

(* Mutant: the loop goes one device too far. *)
NextDeviceLate ==
    /\ pc = "sleep" /\ pc' = "conn"
    /\ device' = IF device > Len(Devices) THEN 1 ELSE device + 1
    /\ UNCHANGED <<payloadVars, sendBad, mine, timeVars, streamVars>>

NextDevice ==
    /\ pc = "sleep" /\ pc' = "conn"
    /\ device' = IF device = Len(Devices) THEN 1 ELSE device + 1
    /\ UNCHANGED <<payloadVars, sendBad, mine, timeVars, streamVars>>

Manager == NeedsConnection \/ Connect \/ Due \/ Send \/ Return \/ NextDevice

(* A worker picks its packet, writes it, and ends. *)
Worker(w) ==
    /\ \/ Pick(w)
       \/ Count(w)
       \/ /\ step[w] = "picked" /\ step' = [step EXCEPT ![w] = "idle"]
          /\ UNCHANGED <<which, wantsBad, alone, previous>>
    /\ UNCHANGED <<sendBad, managerVars, timeVars, streamVars>>

(* A reader of the device has found the stream open and read a request for *)
(* a main packet from it (one request is on its way to an answer).         *)
Read(d) ==
    /\ Up(d) /\ d \notin got
    /\ step[Readers[d]] \in {"idle", "picked"}
    /\ got' = got \cup {d}
    /\ UNCHANGED <<payloadVars, connected, open, late>>

(* It answers, once it has the mutex, whether the stream is still open or  *)
(* not.  The flag is that of ws_async_read, which has returned: the reader *)
(* finds anything.                                                         *)
Answer(d) ==
    /\ d \in got /\ step[Readers[d]] \in {"idle", "picked"}
    /\ \E garbage \in BOOLEAN : Enter(Readers[d], garbage)
    /\ got' = got \ {d}
    /\ UNCHANGED <<connected, open, late>>

Reader(d) ==
    /\ \/ Read(d)
       \/ Answer(d)
       \/ (Pick(Readers[d]) \/ Count(Readers[d])) /\ UNCHANGED streamVars
    /\ UNCHANGED <<sendBad, managerVars, timeVars>>

(* A connection breaks, or a write or read fails. *)
Break(d) ==
    /\ open[d]
    /\ open' = [open EXCEPT ![d] = FALSE]
    /\ UNCHANGED <<payloadVars, sendBad, managerVars, timeVars, connected, late, got>>

(* A handshake that was given up opens the stream after all. *)
Late(d) ==
    /\ d \in late
    /\ open' = [open EXCEPT ![d] = TRUE]
    /\ late' = late \ {d}
    /\ UNCHANGED <<payloadVars, sendBad, managerVars, timeVars, connected, got>>

Next ==
    \/ Tick \/ Manager
    \/ \E w \in Workers : Worker(w)
    \/ \E d \in Asking : Reader(d)
    \/ \E d \in Ids : Break(d) \/ Late(d)

Spec == Init /\ [][Next]_vars

(* Time passes, and every call the manager makes returns. *)
FairSpec == Spec /\ WF_vars(Tick) /\ WF_vars(Manager)

-----------------------------------------------------------------------------

(* The turns of a device are time_between_packets apart, whatever its      *)
(* reconnects did with last_run_time in between (lines 221 and 232).       *)
TurnsSpaced == [][pc = "due" /\ pc' = "send" => turnAge[device] = Interval]_vars

(* A device gets a turn or a new connection again and again, and turns if  *)
(* its connection holds, though the thread also connects, writes and waits *)
(* for its other devices and asks is_time many times in an interval.       *)
Serves ==
    \A d \in Ids :
        /\ []<>(device = d /\ pc \in {"connect", "send"})
        /\ <>[]Up(d) => []<>(device = d /\ pc = "send")

(* Reconnects are time_reconnect apart ("<time-reconnect s>", line 319). *)
ReconnectsSpaced ==
    [][pc = "connect" /\ pc' # pc => tryAge[device] = Reconnect]_vars

(* Bad packets are picked if they were asked for ("bad - send bad          *)
(* payloads", line 320).                                                   *)
BadOnlyIfAsked == ~sendBad => \A c \in Callers : step[c] # "bad"

=============================================================================
