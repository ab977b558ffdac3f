--------------------------- MODULE LoggerProofs ---------------------------
(***************************************************************************)
(* The logger for any number of threads, sinks and instantiations.         *)
(* Calling ties a thread's buffer and its place in format to its message;  *)
(* HoldersPrint is the exclusion of header_mutex; HeaderInv says that a    *)
(* header, in a buffer or written, bars the way to another of its kind.    *)
(***************************************************************************)
EXTENDS Logger, FiniteSetTheorems, TLAPS

CallingOf(t) ==
    /\ call[t] = NoMessage <=> pc[t] = "idle"
    /\ pc[t] # "idle" => call[t].by = t /\ call[t].n = made[t]
    /\ pc[t] \in {"header", "reset", "write"} => call[t].level <= options[sink[t]].verbosity
    /\ pc[t] \in {"header", "reset"} => buffer[t] = Empty
    /\ pc[t] = "write" => buffer[t].text = {call[t]}
Calling == \A t \in Threads : CallingOf(t)

LoggerInv == LogTypeOK /\ Calling /\ HoldersPrint

LEMMA LoggerInit == Init => LoggerInv
  <1> SUFFICES ASSUME Init PROVE LoggerInv
    OBVIOUS
  <1> USE LoggerAssumption DEF Init
  <1>1. Empty \in Buffers
    BY DEF Empty, Buffers
  <1>2. LogTypeOK
    BY <1>1 DEF LogTypeOK, Options, Sinks
  <1>3. Calling /\ HoldersPrint
    BY DEF Calling, CallingOf, HoldersPrint
  <1> QED
    BY <1>2, <1>3 DEF LoggerInv

(* What the options of a sink are. *)
LEMMA OptionsType ==
    ASSUME LogTypeOK
    PROVE  \A s \in Sinks : options[s].verbosity \in Levels /\ options[s].flush_interval \in Nat
                            /\ options[s].verbosity \in Nat
  <1>1. options \in [Sinks -> Options]
    BY LoggerAssumption DEF LogTypeOK
  <1> QED
    BY <1>1, LoggerAssumption DEF Options

(* What a thread's step leaves alone: the others, and their messages. *)
LEMMA OthersCall ==
    ASSUME LoggerInv, NEW t \in Threads, NEW u \in Threads, u # t, UNCHANGED options,
           pc'[u] = pc[u], call'[u] = call[u], made'[u] = made[u],
           sink'[u] = sink[u], buffer'[u] = buffer[u]
    PROVE  CallingOf(u)'
  BY DEF LoggerInv, Calling, CallingOf

LEMMA PushInv == ASSUME LoggerInv, NEW t \in Threads, Push(t) PROVE LoggerInv'
  <1> USE DEF Push, At, Goto, sinkVars, outVars
  <1>1. made[t] \in Nat /\ made[t] + 1 \in 1 .. MaxCalls /\ made'[t] = made[t] + 1
    <2>1. made \in [Threads -> 0 .. MaxCalls] /\ made[t] < Calls[t]
          /\ made' = [made EXCEPT ![t] = made[t] + 1]
      BY DEF LoggerInv, LogTypeOK
    <2>2. Calls[t] \in 0 .. MaxCalls /\ MaxCalls \in Nat
      BY LoggerAssumption
    <2> QED
      BY ONLY <2>1, <2>2, t \in Threads
  <1>2. PICK v \in Levels, k \in Kinds :
            call' = [call EXCEPT ![t] = [by |-> t, n |-> made'[t], level |-> v, kind |-> k]]
    OBVIOUS
  <1> DEFINE m == [by |-> t, n |-> made'[t], level |-> v, kind |-> k]
  <1>3. m \in Messages /\ m.by = t /\ m.n = made'[t] /\ m # NoMessage
    BY <1>1, LoggerAssumption DEF Messages
  <1> HIDE DEF m
  <1>4. call' = [call EXCEPT ![t] = m]
    BY <1>2 DEF m
  <1>5. 1 \in Sinks /\ 1 .. MaxCalls \subseteq 0 .. MaxCalls
    BY LoggerAssumption DEF Sinks
  <1>6. LogTypeOK'
    BY <1>1, <1>3, <1>4, <1>5 DEF LoggerInv, LogTypeOK
  <1>7. CallingOf(t)'
    BY <1>3, <1>4 DEF LoggerInv, LogTypeOK, CallingOf
  <1>8. Calling'
    BY <1>4, <1>7, OthersCall DEF LoggerInv, LogTypeOK, Calling
  <1>9. HoldersPrint'
    BY <1>4 DEF LoggerInv, LogTypeOK, HoldersPrint
  <1> QED
    BY <1>6, <1>8, <1>9 DEF LoggerInv

LEMMA NextSinkInv ==
    ASSUME LoggerInv, NEW t \in Threads, pc[t] \in {"format", "write"}, NextSink(t)
    PROVE  /\ pc' \in [Threads -> {"idle", "format", "header", "reset", "write"}]
           /\ call' \in [Threads -> Messages \cup {NoMessage}]
           /\ sink' \in [Threads -> Sinks]
           /\ UNCHANGED <<options, header_mutex, buffer, made>> => Calling' /\ HoldersPrint'
  <1> USE DEF NextSink, Goto
  <1>1. sink[t] \in Sinks /\ (sink[t] < SinkCount => sink[t] + 1 \in Sinks)
    <2>1. sink[t] \in 1 .. SinkCount /\ SinkCount \in Nat
      BY LoggerAssumption DEF LoggerInv, LogTypeOK, Sinks
    <2> QED
      BY ONLY <2>1 DEF Sinks
  <1>2. pc' \in [Threads -> {"idle", "format", "header", "reset", "write"}]
        /\ call' \in [Threads -> Messages \cup {NoMessage}]
        /\ sink' \in [Threads -> Sinks]
    BY <1>1 DEF LoggerInv, LogTypeOK
  <1>3. \A u \in Threads \ {t} : pc'[u] = pc[u] /\ call'[u] = call[u] /\ sink'[u] = sink[u]
    BY DEF LoggerInv, LogTypeOK
  <1>4. ASSUME UNCHANGED <<options, header_mutex, buffer, made>> PROVE Calling' /\ HoldersPrint'
    <2>1. \/ pc'[t] = "format" /\ call'[t] = call[t]
          \/ pc'[t] = "idle" /\ call'[t] = NoMessage
      <3>1. CASE sink[t] < SinkCount
        BY <3>1 DEF LoggerInv, LogTypeOK
      <3>2. CASE ~(sink[t] < SinkCount)
        BY <3>2 DEF LoggerInv, LogTypeOK
      <3> QED
        BY <3>1, <3>2
    <2>2. CallingOf(t)'
      BY <1>4, <2>1 DEF LoggerInv, Calling, CallingOf
    <2>3. Calling'
      BY <1>3, <1>4, <2>2, OthersCall DEF Calling
    <2>4. HoldersPrint'
      BY <1>3, <1>4, <2>1 DEF LoggerInv, HoldersPrint
    <2> QED
      BY <2>3, <2>4
  <1> QED
    BY <1>2, <1>4

LEMMA FilterInv == ASSUME LoggerInv, NEW t \in Threads, Filter(t) PROVE LoggerInv'
  <1> USE DEF Filter, At, sinkVars, outVars
  <1>1. CASE call[t].level > options[sink[t]].verbosity
    BY <1>1, NextSinkInv DEF LoggerInv, LogTypeOK
  <1>2. CASE ~(call[t].level > options[sink[t]].verbosity)
    <2>1. Empty \in Buffers
      BY DEF Empty, Buffers
    <2>2. call[t] \in Messages /\ call[t].level \in Nat /\ sink[t] \in Sinks
      <3>1. call[t] # NoMessage /\ call[t] \in Messages \cup {NoMessage} /\ sink[t] \in Sinks
        BY DEF LoggerInv, LogTypeOK, Calling, CallingOf
      <3>2. \A m \in Messages : m.level \in Nat
        BY LoggerAssumption DEF Messages
      <3> QED
        BY <3>1, <3>2
    <2>3. call[t].level <= options[sink[t]].verbosity
      BY <1>2, <2>2, OptionsType DEF LoggerInv
    <2>4. LogTypeOK'
      BY <1>2, <2>1 DEF LoggerInv, LogTypeOK, Goto
    <2>5. CallingOf(t)'
      BY <1>2, <2>3 DEF LoggerInv, LogTypeOK, Calling, CallingOf, Goto
    <2>6. Calling'
      BY <1>2, <2>5, OthersCall DEF LoggerInv, LogTypeOK, Calling, Goto
    <2>7. HoldersPrint'
      BY <1>2 DEF LoggerInv, LogTypeOK, HoldersPrint, Goto
    <2> QED
      BY <2>4, <2>6, <2>7 DEF LoggerInv
  <1> QED
    BY <1>1, <1>2

(* The message goes into an empty buffer, with or without a header. *)
LEMMA ColumnsInv ==
    ASSUME LoggerInv, NEW t \in Threads, pc[t] \in {"header", "reset"},
           NEW header \in BOOLEAN, Columns(t, header),
           UNCHANGED <<options, call, sink, made>>
    PROVE  /\ pc' = [pc EXCEPT ![t] = "write"]
           /\ buffer' = [buffer EXCEPT ![t] = [header |-> header, text |-> {call[t]}]]
           /\ buffer' \in [Threads -> Buffers]
           /\ Calling'
  <1> USE DEF Columns, Goto
  <1>1. call[t] \in Messages /\ buffer[t] = Empty
    BY DEF LoggerInv, LogTypeOK, Calling, CallingOf
  <1> DEFINE b == [header |-> header, text |-> {call[t]}]
  <1>2. buffer' = [buffer EXCEPT ![t] = b]
    <2>1. Empty.text \cup {call[t]} = {call[t]}
      BY DEF Empty
    <2> QED
      BY <1>1, <2>1 DEF LoggerInv, LogTypeOK
  <1>3. b \in Buffers /\ b.header = header /\ b.text = {call[t]}
    BY <1>1 DEF Buffers
  <1> HIDE DEF b
  <1>4. CallingOf(t)'
    BY <1>2, <1>3 DEF LoggerInv, LogTypeOK, Calling, CallingOf
  <1>5. Calling'
    BY <1>2, <1>4, OthersCall DEF LoggerInv, LogTypeOK, Calling
  <1> QED
    BY <1>2, <1>3, <1>5 DEF LoggerInv, LogTypeOK, b

LEMMA TestHeaderInv == ASSUME LoggerInv, NEW t \in Threads, TestHeader(t) PROVE LoggerInv'
  <1> USE DEF TestHeader, At, sinkVars, outVars
  <1>1. call[t] \in Messages /\ call[t].kind \in Kinds
    BY DEF LoggerInv, LogTypeOK, Calling, CallingOf, Messages
  <1>2. CASE print_header[sink[t]]
    <2>1. pc' = [pc EXCEPT ![t] = "reset"]
          /\ header_mutex' = [header_mutex EXCEPT ![call[t].kind] = t]
          /\ header_mutex[call[t].kind] = Nobody
      BY <1>2 DEF Goto
    <2>2. LogTypeOK'
      BY <1>1, <1>2, <2>1 DEF LoggerInv, LogTypeOK
    <2>3. CallingOf(t)'
      BY <1>2, <2>1 DEF LoggerInv, LogTypeOK, Calling, CallingOf
    <2>4. Calling'
      BY <1>2, <2>1, <2>3, OthersCall DEF LoggerInv, LogTypeOK, Calling
    <2>5. HoldersPrint'
      BY <1>1, <1>2, <2>1, LoggerAssumption DEF LoggerInv, LogTypeOK, HoldersPrint
    <2> QED
      BY <2>2, <2>4, <2>5 DEF LoggerInv
  <1>3. CASE ~print_header[sink[t]]
    <2>1. Columns(t, FALSE) /\ UNCHANGED header_mutex
      BY <1>3
    <2>2. /\ pc' = [pc EXCEPT ![t] = "write"] /\ buffer' \in [Threads -> Buffers]
          /\ Calling'
      BY <2>1, ColumnsInv
    <2>3. LogTypeOK' /\ HoldersPrint'
      BY <2>1, <2>2 DEF LoggerInv, HoldersPrint, LogTypeOK
    <2> QED
      BY <2>2, <2>3 DEF LoggerInv
  <1> QED
    BY <1>2, <1>3

LEMMA HeaderStepInv == ASSUME LoggerInv, NEW t \in Threads, Header(t) PROVE LoggerInv'
  <1> USE DEF Header, At, sinkVars, outVars
  <1>1. call[t] \in Messages /\ call[t].kind \in Kinds
    BY DEF LoggerInv, LogTypeOK, Calling, CallingOf, Messages
  <1>2. /\ pc' = [pc EXCEPT ![t] = "write"] /\ buffer' \in [Threads -> Buffers]
        /\ Calling'
    BY ColumnsInv
  <1>3. LogTypeOK'
    BY <1>1, <1>2 DEF LoggerInv, LogTypeOK
  <1>4. HoldersPrint'
    <2> SUFFICES ASSUME NEW u \in Threads, NEW k \in Kinds
                 PROVE  header_mutex'[k] = u <=> pc'[u] = "reset" /\ call'[u].kind = k
      BY DEF HoldersPrint
    <2>1. header_mutex[k] = u <=> pc[u] = "reset" /\ call[u].kind = k
      BY DEF LoggerInv, HoldersPrint
    <2>2. header_mutex[call[t].kind] = t
      BY <1>1 DEF LoggerInv, HoldersPrint
    <2>3. /\ header_mutex'[k] = IF k = call[t].kind THEN Nobody ELSE header_mutex[k]
          /\ pc'[u] = IF u = t THEN "write" ELSE pc[u]
          /\ call'[u] = call[u]
      BY <1>1, <1>2 DEF LoggerInv, LogTypeOK
    <2> QED
      BY <2>1, <2>2, <2>3, LoggerAssumption
  <1> QED
    BY <1>2, <1>3, <1>4 DEF LoggerInv

(* A line takes the buffer and the time of its thread. *)
LineOf(t) == [header |-> buffer[t].header, text |-> buffer[t].text, at |-> now[t]]

LEMMA WriteInv == ASSUME LoggerInv, NEW t \in Threads, Write(t) PROVE LoggerInv'
  <1> USE DEF Write, At, sinkVars
  <1>1. LineOf(t) \in Lines /\ sink[t] \in Sinks
    BY DEF LoggerInv, LogTypeOK, Lines, Buffers, LineOf
  <1>2. out' = [out EXCEPT ![sink[t]] = Append(out[sink[t]], LineOf(t))]
    BY DEF LineOf
  <1>3. out' \in [Sinks -> Seq(Lines)]
    BY <1>1, <1>2 DEF LoggerInv, LogTypeOK
  <1>4. flushed' \in [Sinks -> Nat] /\ last_flushed' \in [Sinks -> 0 .. MaxClock]
    <2>1. out'[sink[t]] \in Seq(Lines) /\ Len(out'[sink[t]]) \in Nat /\ now[t] \in 0 .. MaxClock
      BY <1>1, <1>3 DEF LoggerInv, LogTypeOK
    <2> QED
      BY <1>1, <2>1 DEF LoggerInv, LogTypeOK, Flush
  <1> QED
    BY <1>3, <1>4, NextSinkInv DEF LoggerInv, LogTypeOK

LEMMA TickInv == LoggerInv /\ Tick => LoggerInv'
  <1> SUFFICES ASSUME LoggerInv, Tick PROVE LoggerInv'
    OBVIOUS
  <1>1. clock' \in 0 .. MaxClock
    BY LoggerAssumption DEF LoggerInv, LogTypeOK, Tick
  <1> QED
    BY <1>1 DEF LoggerInv, LogTypeOK, Calling, CallingOf, HoldersPrint, Tick, sinkVars, outVars

LEMMA StutterInv == LoggerInv /\ UNCHANGED vars => LoggerInv'
  BY DEF LoggerInv, LogTypeOK, Calling, CallingOf, HoldersPrint, vars, sinkVars, outVars

LEMMA LoggerStep == LoggerInv /\ [Next]_vars => LoggerInv'
  BY PushInv, FilterInv, TestHeaderInv, HeaderStepInv, WriteInv, TickInv, StutterInv DEF Next, Format

LEMMA LoggerInvariant == Spec => []LoggerInv
  BY LoggerInit, LoggerStep, PTL DEF Spec

(* The variables of the logger keep their types (utl_log.hpp, class Sink). *)
THEOREM LogTypeCorrect == Spec => []LogTypeOK
  <1>1. LoggerInv => LogTypeOK
    BY DEF LoggerInv
  <1> QED
    BY <1>1, LoggerInvariant, PTL

(* A header mutex is held by the thread that formats its header, and by no *)
(* thread that waits for anything else (utl_log.hpp, format): the part of  *)
(* "calls return" that is about safety.                                    *)
THEOREM MutexesReleased == Spec => []HoldersPrint
  <1>1. LoggerInv => HoldersPrint
    BY DEF LoggerInv
  <1> QED
    BY <1>1, LoggerInvariant, PTL

-----------------------------------------------------------------------------
(* What is not flushed. *)

Recent(o, f, l, interval) == \A i \in DOMAIN o : i > f => o[i].at <= l + interval

LEMMA AppendRecent ==
    ASSUME NEW o \in Seq(Lines), NEW f \in Nat, NEW l \in Nat, NEW interval \in Nat,
           NEW x \in Lines, Recent(o, f, l, interval), x.at <= l + interval
    PROVE  Recent(Append(o, x), f, l, interval)
  <1>1. \A i \in DOMAIN Append(o, x) : (i \in DOMAIN o /\ Append(o, x)[i] = o[i]) \/ Append(o, x)[i] = x
    OBVIOUS
  <1> QED
    BY <1>1 DEF Recent

LEMMA AllFlushed ==
    ASSUME NEW o \in Seq(Lines), NEW l, NEW interval
    PROVE  Recent(o, Len(o), l, interval)
  BY DEF Recent

LEMMA UnflushedStep == LoggerInv /\ UnflushedIsRecent /\ [Next]_vars => UnflushedIsRecent'
  <1> SUFFICES ASSUME LoggerInv, UnflushedIsRecent, [Next]_vars PROVE UnflushedIsRecent'
    OBVIOUS
  <1>1. CASE UNCHANGED <<options, outVars>>
    BY <1>1 DEF UnflushedIsRecent, outVars
  <1>2. ASSUME NEW t \in Threads, Write(t) PROVE UnflushedIsRecent'
    <2> DEFINE s == sink[t]
    <2>1. /\ s \in Sinks /\ LineOf(t) \in Lines /\ LineOf(t).at = now[t] /\ now[t] \in Nat
          /\ out[s] \in Seq(Lines) /\ flushed[s] \in Nat /\ last_flushed[s] \in Nat
          /\ options[s].flush_interval \in Nat /\ options' = options
      <3>1. s \in Sinks /\ buffer[t] \in Buffers /\ now[t] \in 0 .. MaxClock
        BY DEF LoggerInv, LogTypeOK
      <3>2. LineOf(t) \in Lines /\ LineOf(t).at = now[t]
        BY <3>1 DEF LineOf, Lines, Buffers
      <3>3. out[s] \in Seq(Lines) /\ flushed[s] \in Nat /\ last_flushed[s] \in 0 .. MaxClock
        BY <3>1 DEF LoggerInv, LogTypeOK
      <3>4. options[s].flush_interval \in Nat /\ options' = options
        BY <1>2, <3>1, OptionsType DEF LoggerInv, Write
      <3> QED
        BY <3>1, <3>2, <3>3, <3>4, LoggerAssumption
    <2>2. out' = [out EXCEPT ![s] = Append(out[s], LineOf(t))]
      BY <1>2 DEF Write, LineOf
    <2>3. out'[s] = Append(out[s], LineOf(t)) /\ out'[s] \in Seq(Lines)
      BY <2>1, <2>2 DEF LoggerInv, LogTypeOK
    <2>4. Recent(out'[s], flushed'[s], last_flushed'[s], options[s].flush_interval)
      <3>1. CASE flushed' = [flushed EXCEPT ![s] = Len(out'[s])]
        <4>1. flushed'[s] = Len(out'[s])
          BY <2>1, <3>1 DEF LoggerInv, LogTypeOK
        <4> QED
          BY <2>3, <4>1, AllFlushed
      <3>2. CASE /\ ~(now[t] > last_flushed[s] + options[s].flush_interval)
                 /\ UNCHANGED <<last_flushed, flushed>>
        <4>1. Recent(out[s], flushed[s], last_flushed[s], options[s].flush_interval)
          BY <2>1 DEF UnflushedIsRecent, Recent
        <4>2. LineOf(t).at <= last_flushed[s] + options[s].flush_interval
          BY <2>1, <3>2
        <4> HIDE DEF s
        <4> QED
          BY <2>1, <2>3, <3>2, <4>1, <4>2, AppendRecent
      <3> QED
        BY <1>2, <3>1, <3>2 DEF Write, Flush
    <2>5. \A r \in Sinks \ {s} :
            out'[r] = out[r] /\ flushed'[r] = flushed[r] /\ last_flushed'[r] = last_flushed[r]
      BY <1>2, <2>2 DEF Write, Flush, LoggerInv, LogTypeOK
    <2> QED
      BY <2>1, <2>4, <2>5 DEF UnflushedIsRecent, Recent
  <1> QED
    BY <1>1, <1>2 DEF Next, Format, Tick, Push, Filter, TestHeader, Header, vars, outVars

(* A crash can only lose lines that entered format within the flush        *)
(* interval after the last flush (utl_log.hpp, lines 754-762).             *)
THEOREM LittleIsUnflushed == Spec => []UnflushedIsRecent
  <1>1. Init => UnflushedIsRecent
    BY DEF Init, UnflushedIsRecent
  <1> QED
    BY <1>1, LoggerInvariant, UnflushedStep, PTL DEF Spec

-----------------------------------------------------------------------------
(* The refinement of LineLog, for one sink. *)

LineBusy(s, t) == IF sink[t] <= s THEN call[t] ELSE NoMessage
Texts(s) == [i \in DOMAIN out[s] |-> out[s][i].text]
AcceptedBy(s) == {m \in Messages : m.level <= options[s].verbosity}

LEMMA PushRefines ==
    ASSUME LoggerInv, NEW s \in Sinks, NEW t \in Threads, Push(t)
    PROVE  Log(s)!Begin(t)
  <1> USE DEF Push, At, Goto, outVars
  <1>1. /\ pc[t] = "idle" /\ call[t] = NoMessage /\ 1 <= s
        /\ sink \in [Threads -> Sinks] /\ call \in [Threads -> Messages \cup {NoMessage}]
        /\ made' = [made EXCEPT ![t] = made[t] + 1] /\ made[t] \in Nat /\ made \in [Threads -> Nat]
    BY LoggerAssumption DEF LoggerInv, LogTypeOK, Calling, CallingOf, Sinks
  <1>2. PICK v \in Levels, k \in Kinds :
            call' = [call EXCEPT ![t] = [by |-> t, n |-> made'[t], level |-> v, kind |-> k]]
    OBVIOUS
  <1> DEFINE m == [by |-> t, n |-> made'[t], level |-> v, kind |-> k]
  <1>3. m.by = t /\ m.n = made'[t]
    OBVIOUS
  <1>4. call'[t] = m
    BY <1>1, <1>2
  <1> HIDE DEF m
  <1>5. call' = [call EXCEPT ![t] = m]
    BY <1>2 DEF m
  <1>6. m \in Messages
    <2>1. LogTypeOK' /\ CallingOf(t)'
      BY PushInv DEF LoggerInv, Calling
    <2>2. pc'[t] = "format"
      BY DEF LoggerInv, LogTypeOK
    <2>3. call'[t] \in Messages \cup {NoMessage} /\ call'[t] # NoMessage
      BY <2>1, <2>2 DEF LogTypeOK, CallingOf
    <2> QED
      BY <1>4, <2>3
  <1>7. LineBusy(s, t) = NoMessage
    BY <1>1 DEF LineBusy
  <1>8. [u \in Threads |-> LineBusy(s, u)]' = [[u \in Threads |-> LineBusy(s, u)] EXCEPT ![t] = m]
    BY <1>1, <1>5 DEF LineBusy
  <1>9. UNCHANGED <<AcceptedBy(s), Texts(s)>>
    BY DEF AcceptedBy, Texts
  <1> QED
    BY <1>1, <1>3, <1>6, <1>7, <1>8, <1>9 DEF Log!Begin, LineBusy, AcceptedBy, Texts

LEMMA NextSinkRefines ==
    ASSUME LoggerInv, NEW s \in Sinks, NEW t \in Threads, pc[t] # "idle", NextSink(t)
    PROVE  /\ sink[t] = s =>
                /\ LineBusy(s, t) = call[t]
                /\ [u \in Threads |-> LineBusy(s, u)]'
                    = [[u \in Threads |-> LineBusy(s, u)] EXCEPT ![t] = NoMessage]
           /\ sink[t] # s => UNCHANGED [u \in Threads |-> LineBusy(s, u)]
  <1>1. /\ sink[t] \in 1 .. SinkCount /\ s \in 1 .. SinkCount /\ SinkCount \in Nat
        /\ sink \in [Threads -> Sinks] /\ call \in [Threads -> Messages \cup {NoMessage}]
    BY LoggerAssumption DEF LoggerInv, LogTypeOK, Sinks
  <1>2. \A u \in Threads \ {t} : LineBusy(s, u)' = LineBusy(s, u)
    BY <1>1 DEF NextSink, LineBusy
  <1>3. sink[t] = s => LineBusy(s, t) = call[t] /\ LineBusy(s, t)' = NoMessage
    BY <1>1 DEF NextSink, LineBusy
  <1>4. sink[t] # s => LineBusy(s, t)' = LineBusy(s, t)
    <2>1. CASE sink[t] < SinkCount
      BY <1>1, <2>1 DEF NextSink, LineBusy
    <2>2. CASE ~(sink[t] < SinkCount)
      BY <1>1, <2>2 DEF NextSink, LineBusy
    <2> QED
      BY <2>1, <2>2
  <1> QED
    BY <1>2, <1>3, <1>4

LEMMA FilterRefines ==
    ASSUME LoggerInv, NEW s \in Sinks, NEW t \in Threads, Filter(t)
    PROVE  Log(s)!Skip(t) \/ UNCHANGED Log(s)!lineVars
  <1> USE DEF Filter, At, outVars
  <1>1. UNCHANGED <<AcceptedBy(s), Texts(s), made>>
    BY DEF AcceptedBy, Texts
  <1>2. CASE call[t].level > options[sink[t]].verbosity /\ sink[t] = s
    <2>1. /\ LineBusy(s, t) = call[t]
          /\ [u \in Threads |-> LineBusy(s, u)]'
              = [[u \in Threads |-> LineBusy(s, u)] EXCEPT ![t] = NoMessage]
      BY <1>2, NextSinkRefines
    <2>2. call[t] # NoMessage /\ call[t] \in Messages
      BY DEF LoggerInv, LogTypeOK, Calling, CallingOf
    <2>3. call[t] \notin AcceptedBy(s)
      <3>1. call[t].level \in Nat /\ options[s].verbosity \in Nat
        BY <2>2, OptionsType, LoggerAssumption DEF LoggerInv, Messages
      <3> QED
        BY <1>2, <3>1 DEF AcceptedBy
    <2> QED
      BY <1>1, <2>1, <2>2, <2>3 DEF Log!Skip, LineBusy, AcceptedBy, Texts
  <1>3. CASE ~(call[t].level > options[sink[t]].verbosity /\ sink[t] = s)
    <2>1. UNCHANGED [u \in Threads |-> LineBusy(s, u)]
      <3>1. CASE call[t].level > options[sink[t]].verbosity
        BY <1>3, <3>1, NextSinkRefines
      <3>2. CASE ~(call[t].level > options[sink[t]].verbosity)
        BY <3>2 DEF LineBusy
      <3> QED
        BY <3>1, <3>2
    <2> QED
      BY <1>1, <2>1 DEF Log!lineVars, LineBusy, AcceptedBy, Texts
  <1> QED
    BY <1>2, <1>3

LEMMA WriteRefines ==
    ASSUME LoggerInv, NEW s \in Sinks, NEW t \in Threads, Write(t)
    PROVE  Log(s)!Line(t) \/ UNCHANGED Log(s)!lineVars
  <1> USE DEF Write, At
  <1>1. UNCHANGED <<AcceptedBy(s), made>>
    BY DEF AcceptedBy
  <1>2. out' = [out EXCEPT ![sink[t]] = Append(out[sink[t]], LineOf(t))]
    BY DEF LineOf
  <1>3. CASE sink[t] = s
    <2>1. /\ LineBusy(s, t) = call[t]
          /\ [u \in Threads |-> LineBusy(s, u)]'
              = [[u \in Threads |-> LineBusy(s, u)] EXCEPT ![t] = NoMessage]
      BY <1>3, NextSinkRefines
    <2>2. call[t] \in AcceptedBy(s) /\ LineOf(t).text = {call[t]}
      BY <1>3 DEF AcceptedBy, LineOf, LoggerInv, LogTypeOK, Calling, CallingOf
    <2>3. out'[s] = Append(out[s], LineOf(t)) /\ out[s] \in Seq(Lines)
      BY <1>2, <1>3 DEF LoggerInv, LogTypeOK
    <2>4. Texts(s)' = Append(Texts(s), {call[t]})
      BY <2>2, <2>3 DEF Texts
    <2> QED
      BY <1>1, <2>1, <2>2, <2>4 DEF Log!Line, LineBusy, AcceptedBy, Texts
  <1>4. CASE sink[t] # s
    <2>1. UNCHANGED [u \in Threads |-> LineBusy(s, u)]
      BY <1>4, NextSinkRefines
    <2>2. out[s]' = out[s]
      BY <1>2, <1>4 DEF LoggerInv, LogTypeOK
    <2>3. UNCHANGED Texts(s)
      BY ONLY <2>2 DEF Texts
    <2> QED
      BY <1>1, <2>1, <2>3 DEF Log!lineVars, LineBusy, AcceptedBy, Texts
  <1> QED
    BY <1>3, <1>4

LEMMA OthersRefine ==
    ASSUME LoggerInv, NEW s \in Sinks, UNCHANGED <<options, out, call, sink, made>>
    PROVE  UNCHANGED Log(s)!lineVars
  BY DEF Log!lineVars

(* Every sink is a log of whole lines, each message once, in the order of  *)
(* the calls of its thread (utl_log.hpp, format and push_message).         *)
THEOREM SinksCorrect == Spec => SinksAreLogs
  <1>1. Init => \A s \in Sinks : Log(s)!LineInit
    BY DEF Init, Log!LineInit
  <1>2. LoggerInv /\ [Next]_vars => \A s \in Sinks : [Log(s)!LineNext]_(Log(s)!lineVars)
    <2> SUFFICES ASSUME LoggerInv, [Next]_vars, NEW s \in Sinks
                 PROVE  Log(s)!LineNext \/ UNCHANGED Log(s)!lineVars
      OBVIOUS
    <2>1. ASSUME NEW t \in Threads, Push(t) \/ Filter(t) \/ Write(t)
          PROVE  Log(s)!LineNext \/ UNCHANGED Log(s)!lineVars
      BY <2>1, PushRefines, FilterRefines, WriteRefines DEF Log!LineNext
    <2>2. ASSUME NEW t \in Threads, TestHeader(t) \/ Header(t)
          PROVE  UNCHANGED Log(s)!lineVars
      BY <2>2, OthersRefine DEF TestHeader, Header, outVars
    <2>3. CASE Tick \/ UNCHANGED vars
      BY <2>3, OthersRefine DEF Tick, vars, outVars
    <2> QED
      BY <2>1, <2>2, <2>3 DEF Next, Format
  <1> QED
    BY <1>1, <1>2, LoggerInvariant, PTL DEF Spec, SinksAreLogs

-----------------------------------------------------------------------------
(* Headers, for one sink and one instantiation. *)

Bearers(s, k) == {t \in Threads : pc[t] = "write" /\ sink[t] = s /\ call[t].kind = k /\ buffer[t].header}
Printers(s, k) == {t \in Threads : pc[t] = "reset" /\ sink[t] = s /\ call[t].kind = k}

HeadersOf(s, k) ==
    /\ \A t \in Bearers(s, k) :
        ~print_header[s] /\ HeaderLines(s, k) = {} /\ Bearers(s, k) = {t}
    /\ \A i \in HeaderLines(s, k) : ~print_header[s] /\ HeaderLines(s, k) = {i}
    /\ Printers(s, k) # {} => Bearers(s, k) = {} /\ HeaderLines(s, k) = {}

HeaderInv == \A s \in Sinks, k \in Kinds : HeadersOf(s, k)

LEMMA HeadersKept ==
    ASSUME NEW s \in Sinks, NEW k \in Kinds, HeadersOf(s, k),
           print_header'[s] = print_header[s] \/ ~print_header'[s],
           Bearers(s, k)' = Bearers(s, k), HeaderLines(s, k)' = HeaderLines(s, k),
           Printers(s, k)' \subseteq Printers(s, k)
    PROVE  HeadersOf(s, k)'
  BY DEF HeadersOf

(* Outside of the header's code and the write nothing of it changes. *)
LEMMA QuietHeaders ==
    ASSUME LoggerInv, HeaderInv, NEW t \in Threads, Push(t) \/ Filter(t)
    PROVE  HeaderInv'
  <1> SUFFICES ASSUME NEW s \in Sinks, NEW k \in Kinds PROVE HeadersOf(s, k)'
    BY DEF HeaderInv
  <1>1. pc[t] \in {"idle", "format"} /\ pc'[t] \in {"idle", "format", "header"}
    BY DEF Push, Filter, At, Goto, NextSink, LoggerInv, LogTypeOK
  <1>2. \A u \in Threads \ {t} : pc'[u] = pc[u] /\ sink'[u] = sink[u] /\ call'[u] = call[u] /\ buffer'[u] = buffer[u]
    BY DEF Push, Filter, At, Goto, NextSink, LoggerInv, LogTypeOK
  <1>3. UNCHANGED <<print_header, out>>
    BY DEF Push, Filter, sinkVars, outVars
  <1>4. Bearers(s, k)' = Bearers(s, k) /\ Printers(s, k)' = Printers(s, k)
    BY ONLY <1>1, <1>2, t \in Threads DEF Bearers, Printers
  <1>5. HeaderLines(s, k)' = HeaderLines(s, k)
    BY <1>3 DEF HeaderLines
  <1> QED
    BY <1>3, <1>4, <1>5, HeadersKept DEF HeaderInv

LEMMA TestHeaderHeaders ==
    ASSUME LoggerInv, HeaderInv, NEW t \in Threads, TestHeader(t)
    PROVE  HeaderInv'
  <1> SUFFICES ASSUME NEW s \in Sinks, NEW k \in Kinds PROVE HeadersOf(s, k)'
    BY DEF HeaderInv
  <1>1. pc[t] = "header" /\ UNCHANGED <<print_header, out, sink, call>>
    BY DEF TestHeader, At, outVars
  <1>2. HeadersOf(s, k) /\ HeaderLines(s, k)' = HeaderLines(s, k)
    BY <1>1 DEF HeaderInv, HeaderLines
  <1>3. CASE print_header[sink[t]]
    <2>1. pc' = [pc EXCEPT ![t] = "reset"] /\ UNCHANGED buffer
      BY <1>3 DEF TestHeader, Goto
    <2>2. pc \in [Threads -> {"idle", "format", "header", "reset", "write"}]
      BY DEF LoggerInv, LogTypeOK
    <2>3. Bearers(s, k)' = Bearers(s, k)
      BY ONLY <1>1, <2>1, <2>2, t \in Threads DEF Bearers
    <2>4. CASE sink[t] = s /\ call[t].kind = k
      <3>1. Bearers(s, k) = {} /\ HeaderLines(s, k) = {}
        BY <1>2, <1>3, <2>4 DEF HeadersOf
      <3> QED
        BY <1>2, <2>3, <3>1 DEF HeadersOf
    <2>5. CASE ~(sink[t] = s /\ call[t].kind = k)
      <3>1. Printers(s, k)' = Printers(s, k)
        BY ONLY <1>1, <2>1, <2>2, <2>5, t \in Threads DEF Printers
      <3> QED
        BY <1>1, <1>2, <2>3, <3>1, HeadersKept
    <2> QED
      BY <2>4, <2>5
  <1>4. CASE ~print_header[sink[t]]
    <2>1. pc' = [pc EXCEPT ![t] = "write"]
          /\ buffer' = [buffer EXCEPT ![t] = [header |-> FALSE, text |-> {call[t]}]]
      BY <1>1, <1>4, ColumnsInv DEF TestHeader
    <2>2. pc \in [Threads -> {"idle", "format", "header", "reset", "write"}]
          /\ buffer \in [Threads -> Buffers]
      BY DEF LoggerInv, LogTypeOK
    <2>3. ~buffer'[t].header /\ pc'[t] = "write"
          /\ \A u \in Threads \ {t} : pc'[u] = pc[u] /\ buffer'[u] = buffer[u]
      BY ONLY <2>1, <2>2, t \in Threads
    <2>4. Bearers(s, k)' = Bearers(s, k) /\ Printers(s, k)' = Printers(s, k)
      BY ONLY <1>1, <2>3, t \in Threads DEF Bearers, Printers
    <2> QED
      BY <1>1, <1>2, <2>4, HeadersKept
  <1> QED
    BY <1>3, <1>4

LEMMA HeaderHeaders ==
    ASSUME LoggerInv, HeaderInv, NEW t \in Threads, Header(t)
    PROVE  HeaderInv'
  <1> SUFFICES ASSUME NEW s \in Sinks, NEW k \in Kinds PROVE HeadersOf(s, k)'
    BY DEF HeaderInv
  <1>1. pc[t] = "reset" /\ UNCHANGED <<out, sink, call>>
        /\ print_header' = [print_header EXCEPT ![sink[t]] = FALSE]
    BY DEF Header, At, outVars
  <1>2. HeadersOf(s, k) /\ HeaderLines(s, k)' = HeaderLines(s, k)
    BY <1>1 DEF HeaderInv, HeaderLines
  <1>3. pc' = [pc EXCEPT ![t] = "write"]
        /\ buffer' = [buffer EXCEPT ![t] = [header |-> TRUE, text |-> {call[t]}]]
    BY <1>1, ColumnsInv DEF Header
  <1>4. /\ pc \in [Threads -> {"idle", "format", "header", "reset", "write"}]
        /\ buffer \in [Threads -> Buffers] /\ sink[t] \in Sinks
        /\ print_header \in [Sinks -> BOOLEAN]
    BY DEF LoggerInv, LogTypeOK
  <1>5. buffer'[t].header /\ pc'[t] = "write"
        /\ \A u \in Threads \ {t} : pc'[u] = pc[u] /\ buffer'[u] = buffer[u]
    BY ONLY <1>3, <1>4, t \in Threads
  <1>6. CASE sink[t] = s /\ call[t].kind = k
    <2>1. t \in Printers(s, k)
      BY <1>1, <1>6 DEF Printers
    <2>2. Bearers(s, k) = {} /\ HeaderLines(s, k) = {}
      BY <1>2, <2>1 DEF HeadersOf
    <2>3. \A u \in Printers(s, k) : u = t
      BY <1>1, <1>6 DEF Printers, LoggerInv, HoldersPrint
    <2>4. Bearers(s, k)' = {t} /\ Printers(s, k)' = {}
      <3>1. \A u \in Threads \ {t} : u \notin Bearers(s, k)' /\ u \notin Printers(s, k)'
        BY ONLY <1>1, <1>5, <2>2, <2>3 DEF Bearers, Printers
      <3>2. t \in Bearers(s, k)' /\ t \notin Printers(s, k)'
        BY ONLY <1>1, <1>5, <1>6, t \in Threads DEF Bearers, Printers
      <3>3. Bearers(s, k)' \subseteq Threads /\ Printers(s, k)' \subseteq Threads
        BY DEF Bearers, Printers
      <3> QED
        BY ONLY <3>1, <3>2, <3>3
    <2>5. ~print_header'[s]
      BY <1>1, <1>4, <1>6
    <2> QED
      BY <1>2, <2>2, <2>4, <2>5 DEF HeadersOf
  <1>7. CASE ~(sink[t] = s /\ call[t].kind = k)
    <2>1. Bearers(s, k)' = Bearers(s, k) /\ Printers(s, k)' = Printers(s, k)
      BY ONLY <1>1, <1>5, <1>7, t \in Threads DEF Bearers, Printers
    <2>2. print_header'[s] = print_header[s] \/ ~print_header'[s]
      BY <1>1, <1>4
    <2> QED
      BY <1>2, <2>1, <2>2, HeadersKept
  <1> QED
    BY <1>6, <1>7

LEMMA WriteHeaders ==
    ASSUME LoggerInv, HeaderInv, NEW t \in Threads, Write(t)
    PROVE  HeaderInv'
  <1> SUFFICES ASSUME NEW s \in Sinks, NEW k \in Kinds PROVE HeadersOf(s, k)'
    BY DEF HeaderInv
  <1>1. HeadersOf(s, k) /\ pc[t] = "write" /\ UNCHANGED <<print_header, buffer>>
    BY DEF Write, At, HeaderInv, sinkVars
  <1>2. pc'[t] \in {"idle", "format"}
        /\ \A u \in Threads \ {t} : pc'[u] = pc[u] /\ sink'[u] = sink[u] /\ call'[u] = call[u]
    BY DEF Write, NextSink, Goto, LoggerInv, LogTypeOK
  <1>3. \A u \in Threads : /\ u \in Bearers(s, k)' <=> u # t /\ u \in Bearers(s, k)
                           /\ u \in Printers(s, k)' <=> u \in Printers(s, k)
    BY ONLY <1>1, <1>2, t \in Threads DEF Bearers, Printers
  <1>4. /\ Bearers(s, k)' = Bearers(s, k) \ {t} /\ Printers(s, k)' = Printers(s, k)
        /\ (t \in Bearers(s, k) <=> sink[t] = s /\ call[t].kind = k /\ buffer[t].header)
    BY <1>1, <1>3 DEF Bearers, Printers
  <1> DEFINE o == out[s]
             n == Len(o) + 1
             x == LineOf(t)
  <1>5. sink[t] = s => out'[s] = Append(o, x)
    BY DEF Write, LineOf, LoggerInv, LogTypeOK
  <1>6. sink[t] # s => out'[s] = o
    BY DEF Write, LoggerInv, LogTypeOK
  <1>7. x.header = buffer[t].header /\ x.text = {call[t]} /\ o \in Seq(Lines)
    BY <1>1 DEF LineOf, LoggerInv, LogTypeOK, Calling, CallingOf
  <1>8. HeaderLines(s, k)' = IF t \in Bearers(s, k) THEN HeaderLines(s, k) \cup {n} ELSE HeaderLines(s, k)
    <2>1. CASE sink[t] = s
      <3>1. out'[s] = Append(o, x) /\ DOMAIN out'[s] = DOMAIN o \cup {n} /\ out'[s][n] = x /\ n \notin DOMAIN o
            /\ \A i \in DOMAIN o : out'[s][i] = o[i]
        BY <1>5, <1>7, <2>1
      <3>2. t \in Bearers(s, k) <=> x.header /\ \E m \in x.text : m.kind = k
        BY ONLY <1>4, <1>7, <2>1
      <3> HIDE DEF x, n
      <3>3. n \in HeaderLines(s, k)' <=> x.header /\ \E m \in x.text : m.kind = k
        BY ONLY <3>1 DEF HeaderLines
      <3>4. \A i \in DOMAIN o : i \in HeaderLines(s, k)' <=> i \in HeaderLines(s, k)
        BY ONLY <3>1 DEF HeaderLines
      <3>5. HeaderLines(s, k)' \subseteq DOMAIN o \cup {n} /\ HeaderLines(s, k) \subseteq DOMAIN o
        BY ONLY <3>1 DEF HeaderLines
      <3> QED
        <4>1. HeaderLines(s, k) = {i \in DOMAIN o : i \in HeaderLines(s, k)'}
          BY ONLY <3>4, <3>5, <3>1
        <4>2. HeaderLines(s, k)' = {i \in DOMAIN o : i \in HeaderLines(s, k)'}
                                   \cup {i \in {n} : i \in HeaderLines(s, k)'}
          BY ONLY <3>5
        <4>3. n \in HeaderLines(s, k)' <=> t \in Bearers(s, k)
          BY ONLY <3>2, <3>3
        <4> QED
          BY ONLY <4>1, <4>2, <4>3
    <2>2. CASE sink[t] # s
      BY <1>4, <1>6, <2>2 DEF HeaderLines
    <2> QED
      BY <2>1, <2>2
  <1> HIDE DEF n
  <1>9. CASE t \in Bearers(s, k)
    <2>1. ~print_header[s] /\ HeaderLines(s, k) = {} /\ Bearers(s, k) = {t} /\ Printers(s, k) = {}
      BY <1>1, <1>9 DEF HeadersOf
    <2>2. HeaderLines(s, k)' = {n} /\ Bearers(s, k)' = {} /\ Printers(s, k)' = {} /\ ~print_header'[s]
      BY <1>1, <1>4, <1>8, <1>9, <2>1
    <2> QED
      BY <2>2 DEF HeadersOf
  <1>10. CASE t \notin Bearers(s, k)
    BY <1>1, <1>4, <1>8, <1>10, HeadersKept
  <1> QED
    BY <1>9, <1>10

LEMMA HeaderInvStep == LoggerInv /\ HeaderInv /\ [Next]_vars => HeaderInv'
  <1> SUFFICES ASSUME LoggerInv, HeaderInv, [Next]_vars PROVE HeaderInv'
    OBVIOUS
  <1>1. CASE Tick \/ UNCHANGED vars
    BY <1>1 DEF Tick, vars, sinkVars, outVars, HeaderInv, HeadersOf, Bearers, Printers, HeaderLines
  <1> QED
    BY <1>1, QuietHeaders, TestHeaderHeaders, HeaderHeaders, WriteHeaders DEF Next, Format

(* A sink prints one header at most for each instantiation of format       *)
(* (utl_log.hpp, lines 717-727).                                           *)
THEOREM OneHeaderPerKind == Spec => []HeaderOncePerKind
  <1>1. Init => HeaderInv
    BY DEF Init, HeaderInv, HeadersOf, Bearers, Printers, HeaderLines
  <1>2. HeaderInv => HeaderOncePerKind
    <2> SUFFICES ASSUME HeaderInv, NEW s \in Sinks, NEW k \in Kinds
                 PROVE  Cardinality(HeaderLines(s, k)) <= 1
      BY DEF HeaderOncePerKind
    <2>1. HeaderLines(s, k) = {} \/ \E i : HeaderLines(s, k) = {i}
      BY DEF HeaderInv, HeadersOf
    <2>2. CASE HeaderLines(s, k) = {}
      <3>1. Cardinality({}) = 0
        BY FS_EmptySet
      <3> QED
        BY <2>2, <3>1
    <2>3. ASSUME NEW i, HeaderLines(s, k) = {i} PROVE Cardinality(HeaderLines(s, k)) <= 1
      <3>1. Cardinality({i}) = 1
        BY FS_Singleton
      <3> QED
        BY <2>3, <3>1
    <2> QED
      BY <2>1, <2>2, <2>3
  <1> QED
    BY <1>1, <1>2, LoggerInvariant, HeaderInvStep, PTL DEF Spec

=============================================================================
