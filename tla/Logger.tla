------------------------------ MODULE Logger ------------------------------
(***************************************************************************)
(* The logger (utl_log.hpp): threads that call the macros, and the sinks   *)
(* every message is pushed to, one after the other.  A sink's header goes  *)
(* into the buffer of the first thread that finds print_header set; the    *)
(* test is made under a mutex that is a static of the function template,   *)
(* one for each list of argument types (Kinds) and shared by the sinks.    *)
(* The line is written under the mutex of the sink.                        *)
(*                                                                         *)
(* The columns are abstracted to the message they describe.  ws-test-      *)
(* server adds no sink, so its only one is default_sink.                   *)
(***************************************************************************)
EXTENDS Naturals, Sequences, FiniteSets

CONSTANTS
    Threads,
    Nobody,
    Kinds,          \* instantiations of format<Args...>
    Levels,         \* the verbosities used
    NoMessage,
    SinkCount,      \* the sinks of the list, or 1 for default_sink
    Setups,         \* how the sinks may be set up before the threads start
    MaxCalls,       \* bound: messages of any thread
    Calls,          \* bound: messages of each thread
    MaxClock        \* bound: ticks of steady_clock

Messages == [by : Threads, n : 1 .. MaxCalls, level : Levels, kind : Kinds]
Sinks == 1 .. SinkCount
Options == [verbosity : Levels, flush_interval : Nat, header : BOOLEAN]

ASSUME LoggerAssumption ==
    /\ Nobody \notin Threads
    /\ NoMessage \notin Messages
    /\ Levels \subseteq Nat
    /\ SinkCount \in Nat \ {0}
    /\ Setups \subseteq [Sinks -> Options]
    /\ MaxCalls \in Nat /\ Calls \in [Threads -> 0 .. MaxCalls] /\ MaxClock \in Nat

VARIABLES
    options,        \* of each sink: verbosity, flush interval, header or skip_header
    print_header,   \* of each sink
    header_mutex,   \* of each instantiation: who holds it
    out,            \* of each sink: the lines written, in order
    flushed,        \* of each sink: how many of them have been flushed
    last_flushed,   \* of each sink
    pc,             \* where each thread is in format
    call,           \* the message it logs, or NoMessage
    sink,           \* the sink it is at
    buffer,         \* its thread_local buffer: a header or not, and messages
    now,            \* when it entered format
    made,           \* history: its calls so far
    clock

sinkVars == <<print_header, header_mutex>>
outVars == <<out, flushed, last_flushed>>
vars == <<options, sinkVars, outVars, pc, call, sink, buffer, now, made, clock>>

Empty == [header |-> FALSE, text |-> {}]
Buffers == [header : BOOLEAN, text : SUBSET Messages]
Lines == [header : BOOLEAN, text : SUBSET Messages, at : 0 .. MaxClock]

LogTypeOK ==
    /\ options \in Setups
    /\ print_header \in [Sinks -> BOOLEAN]
    /\ header_mutex \in [Kinds -> Threads \cup {Nobody}]
    /\ out \in [Sinks -> Seq(Lines)]
    /\ flushed \in [Sinks -> Nat]
    /\ last_flushed \in [Sinks -> 0 .. MaxClock]
    /\ pc \in [Threads -> {"idle", "format", "header", "reset", "write"}]
    /\ call \in [Threads -> Messages \cup {NoMessage}]
    /\ sink \in [Threads -> Sinks]
    /\ buffer \in [Threads -> Buffers]
    /\ now \in [Threads -> 0 .. MaxClock]
    /\ made \in [Threads -> 0 .. MaxCalls]
    /\ clock \in 0 .. MaxClock

Init ==
    /\ options \in Setups
    /\ print_header = [s \in Sinks |-> options[s].header]
    /\ header_mutex = [k \in Kinds |-> Nobody]
    /\ out = [s \in Sinks |-> <<>>]
    /\ flushed = [s \in Sinks |-> 0]
    /\ last_flushed = [s \in Sinks |-> 0]
    /\ pc = [t \in Threads |-> "idle"]
    /\ call = [t \in Threads |-> NoMessage]
    /\ sink = [t \in Threads |-> 1]
    /\ buffer = [t \in Threads |-> Empty]
    /\ now = [t \in Threads |-> 0]
    /\ made = [t \in Threads |-> 0]
    /\ clock \in 0 .. MaxClock

At(t, l) == pc[t] = l
Goto(t, l) == pc' = [pc EXCEPT ![t] = l]

(* push_message: the message goes to the first sink ... *)
Push(t) ==
    /\ At(t, "idle") /\ made[t] < Calls[t]
    /\ Goto(t, "format")
    /\ made' = [made EXCEPT ![t] = @ + 1]
    /\ \E v \in Levels, k \in Kinds :
        call' = [call EXCEPT ![t] = [by |-> t, n |-> made'[t], level |-> v, kind |-> k]]
    /\ sink' = [sink EXCEPT ![t] = 1]
    /\ UNCHANGED <<options, sinkVars, outVars, buffer, now, clock>>

(* Mutant: the loop goes one sink too far. *)
NextSinkLate(t) ==
    IF sink[t] <= SinkCount
    THEN Goto(t, "format") /\ sink' = [sink EXCEPT ![t] = @ + 1] /\ UNCHANGED call
    ELSE Goto(t, "idle") /\ call' = [call EXCEPT ![t] = NoMessage] /\ UNCHANGED sink

(* ... then to the next one, and after the last one the call returns. *)
NextSink(t) ==
    IF sink[t] < SinkCount
    THEN Goto(t, "format") /\ sink' = [sink EXCEPT ![t] = @ + 1] /\ UNCHANGED call
    ELSE Goto(t, "idle") /\ call' = [call EXCEPT ![t] = NoMessage] /\ UNCHANGED sink

(* Mutant: one buffer, not one for each thread. *)
FilterShared(t) ==
    /\ At(t, "format")
    /\ IF call[t].level > options[sink[t]].verbosity
       THEN NextSink(t) /\ UNCHANGED <<buffer, now>>
       ELSE Goto(t, "header") /\ buffer' = [u \in Threads |-> Empty]
            /\ now' = [now EXCEPT ![t] = clock] /\ UNCHANGED <<call, sink>>
    /\ UNCHANGED <<options, sinkVars, outVars, made, clock>>

(* format: the filter; the time is taken and the buffer is cleared. *)
Filter(t) ==
    /\ At(t, "format")
    /\ IF call[t].level > options[sink[t]].verbosity
       THEN NextSink(t) /\ UNCHANGED <<buffer, now>>
       ELSE /\ Goto(t, "header")
            /\ buffer' = [buffer EXCEPT ![t] = Empty]
            /\ now' = [now EXCEPT ![t] = clock]
            /\ UNCHANGED <<call, sink>>
    /\ UNCHANGED <<options, sinkVars, outVars, made, clock>>

(* The columns of the message, one after the other, into the buffer. *)
Columns(t, header) ==
    /\ Goto(t, "write")
    /\ buffer' = [buffer EXCEPT ![t] = [header |-> header, text |-> @.text \cup {call[t]}]]

(* Mutant: print_header is tested without a mutex. *)
TestUnlocked(t) ==
    /\ At(t, "header")
    /\ IF print_header[sink[t]]
       THEN Goto(t, "reset") /\ UNCHANGED buffer
       ELSE Columns(t, FALSE)
    /\ UNCHANGED <<options, sinkVars, outVars, call, sink, now, made, clock>>

(* print_header is tested under the mutex of this instantiation, which is  *)
(* kept if there is a header to print.                                     *)
TestHeader(t) ==
    /\ At(t, "header")
    /\ header_mutex[call[t].kind] = Nobody
    /\ IF print_header[sink[t]]
       THEN /\ Goto(t, "reset")
            /\ header_mutex' = [header_mutex EXCEPT ![call[t].kind] = t]
            /\ UNCHANGED buffer
       ELSE Columns(t, FALSE) /\ UNCHANGED header_mutex
    /\ UNCHANGED <<options, print_header, outVars, call, sink, now, made, clock>>

(* Mutant: the mutex is kept. *)
HeaderKeepsMutex(t) ==
    /\ At(t, "reset")
    /\ print_header' = [print_header EXCEPT ![sink[t]] = FALSE]
    /\ Columns(t, TRUE)
    /\ UNCHANGED <<options, header_mutex, outVars, call, sink, now, made, clock>>

(* The header is formatted into the thread's own buffer. *)
Header(t) ==
    /\ At(t, "reset")
    /\ print_header' = [print_header EXCEPT ![sink[t]] = FALSE]
    /\ header_mutex' = [header_mutex EXCEPT ![call[t].kind] = Nobody]
    /\ Columns(t, TRUE)
    /\ UNCHANGED <<options, outVars, call, sink, now, made, clock>>

(* Mutant: last_flushed is set whether the stream was flushed or not. *)
FlushForgets(t, s) ==
    /\ last_flushed' = [last_flushed EXCEPT ![s] = now[t]]
    /\ IF options[s].flush_interval = 0 \/ now[t] > last_flushed[s] + options[s].flush_interval
       THEN flushed' = [flushed EXCEPT ![s] = Len(out'[s])]
       ELSE UNCHANGED flushed

(* Flush after every message if the interval is zero, else when the last   *)
(* flush is longer ago than the interval, by the time the message entered  *)
(* format.                                                                 *)
Flush(t, s) ==
    \/ /\ options[s].flush_interval = 0
       /\ flushed' = [flushed EXCEPT ![s] = Len(out'[s])]
       /\ UNCHANGED last_flushed
    \/ /\ options[s].flush_interval > 0
       /\ IF now[t] > last_flushed[s] + options[s].flush_interval
          THEN /\ last_flushed' = [last_flushed EXCEPT ![s] = now[t]]
               /\ flushed' = [flushed EXCEPT ![s] = Len(out'[s])]
          ELSE UNCHANGED <<last_flushed, flushed>>

(* The buffer is written and flushed under the sink's mutex, one step for  *)
(* all who write to the sink.                                              *)
Write(t) ==
    /\ At(t, "write")
    /\ out' = [out EXCEPT ![sink[t]] = Append(@,
            [header |-> buffer[t].header, text |-> buffer[t].text, at |-> now[t]])]
    /\ Flush(t, sink[t])
    /\ NextSink(t)
    /\ UNCHANGED <<options, sinkVars, buffer, now, made, clock>>

Tick ==
    /\ clock < MaxClock
    /\ clock' = clock + 1
    /\ UNCHANGED <<options, sinkVars, outVars, pc, call, sink, buffer, now, made>>

Format(t) == Filter(t) \/ TestHeader(t) \/ Header(t) \/ Write(t)

Next == Tick \/ \E t \in Threads : Push(t) \/ Format(t)

Spec == Init /\ [][Next]_vars

(* Threads are scheduled, and a mutex that is free again and again is got. *)
FairSpec == Spec /\ \A t \in Threads : WF_vars(Format(t)) /\ SF_vars(TestHeader(t))

-----------------------------------------------------------------------------

(* A sink prints at most one header for each instantiation of format: the  *)
(* mutex is not one for all, so that two messages with different argument  *)
(* types may both find print_header set.                                   *)
HeaderLines(s, k) == {i \in DOMAIN out[s] : out[s][i].header /\ \E m \in out[s][i].text : m.kind = k}
HeaderOncePerKind == \A s \in Sinks, k \in Kinds : Cardinality(HeaderLines(s, k)) <= 1

(* A header mutex is held by the thread that formats its header and given  *)
(* back before the line is written: no thread waits for the mutex of a     *)
(* sink, or ends its call, with the other one in its hands.                *)
HoldersPrint ==
    \A t \in Threads, k \in Kinds :
        header_mutex[k] = t <=> pc[t] = "reset" /\ call[t].kind = k

(* What a crash can lose: lines that entered format within the interval    *)
(* after the last flush, whichever thread was late to write its own.       *)
UnflushedIsRecent ==
    \A s \in Sinks : \A i \in DOMAIN out[s] :
        i > flushed[s] => out[s][i].at <= last_flushed[s] + options[s].flush_interval

(* Each sink is a log of whole lines: the messages it accepts, each once,  *)
(* those of a thread in the order of its calls.                            *)
Log(s) == INSTANCE LineLog WITH
    accepted <- {m \in Messages : m.level <= options[s].verbosity},
    lines <- [i \in DOMAIN out[s] |-> out[s][i].text],
    busy <- [t \in Threads |-> IF sink[t] <= s THEN call[t] ELSE NoMessage]

SinksAreLogs ==
    /\ \A s \in Sinks : Log(s)!LineInit
    /\ [][\A s \in Sinks : [Log(s)!LineNext]_(Log(s)!lineVars)]_vars

(* Every call returns: the mutexes of headers and sinks do not block. *)
CallsReturn == \A t \in Threads : (call[t] # NoMessage) ~> (call[t] = NoMessage)

(* The header comes before every message ("other threads can't reach       *)
(* buffer output code while they're stuck waiting for the header to print" *)
(* lines 725-726).                                                         *)
HeaderFirst ==
    \A s \in Sinks : (\E i \in DOMAIN out[s] : out[s][i].header) => out[s][1].header

=============================================================================
