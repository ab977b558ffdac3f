---------------------------- MODULE Launcher ----------------------------
(***************************************************************************)
(* main (main.cpp): the arguments, the resolver, the ids file and the way  *)
(* its lines are dealt out to manager threads; and the other use of the    *)
(* program, which generates an ids file.  A device is the number of its    *)
(* line.  The file outlives the process, which is started again and again. *)
(***************************************************************************)
EXTENDS Integers, Sequences

CONSTANTS
    MaxIds,         \* bound: lines of an ids file
    MaxThreads,     \* bound: the argument <thread-count>
    NoFile

ASSUME LauncherAssumption == MaxIds \in Nat /\ MaxThreads \in Nat

(* An ids file: the lines getline finds, and whether the last one ends     *)
(* with a newline (that of a generated file does).                         *)
Files == {f \in [ids : 0 .. MaxIds, newline : BOOLEAN] : f.ids = 0 => ~f.newline}

ASSUME NoFileAssumption == NoFile \notin Files

VARIABLES
    pc,             \* "start", "resolve", "open", "read", "run" or "exit"
    file,           \* the ids file, or NoFile
    thread_count,
    devices_per_thread,
    next,           \* lines read
    batch,          \* one_thread_ws_states
    threads         \* the devices of every manager thread started

dealing == <<devices_per_thread, next, batch, threads>>
vars == <<pc, file, thread_count, dealing>>

LauncherTypeOK ==
    /\ pc \in {"start", "resolve", "open", "read", "run", "exit"}
    /\ file \in Files \cup {NoFile}
    /\ thread_count \in Nat \ {0}
    /\ devices_per_thread \in Nat
    /\ next \in 0 .. MaxIds
    /\ batch \in Seq(1 .. MaxIds)
    /\ threads \in Seq(Seq(1 .. MaxIds))

Init ==
    /\ pc = "start"
    /\ file \in Files \cup {NoFile}
    /\ thread_count = 1 /\ devices_per_thread = 0 /\ next = 0
    /\ batch = <<>> /\ threads = <<>>

(* Wrong arguments: the usage is printed, or a conversion throws. *)
BadArguments ==
    /\ pc = "start"
    /\ pc' = "exit"
    /\ UNCHANGED <<file, thread_count, dealing>>

(* gen <ids-file> <count>: the file is rewritten, each id with its newline *)
(* (if it cannot be, the program ends as for wrong arguments).  A negative *)
(* count becomes a huge size_t: ids are written until the program is       *)
(* killed, wherever that leaves the file.                                  *)
Generate(count) ==
    /\ pc = "start"
    /\ pc' = "exit"
    /\ IF count < 0 THEN file' \in Files ELSE file' = [ids |-> count, newline |-> count > 0]
    /\ UNCHANGED <<thread_count, dealing>>

Parse(count) ==
    /\ pc = "start"
    /\ IF count < 1
       THEN pc' = "exit" /\ UNCHANGED thread_count
       ELSE pc' = "resolve" /\ thread_count' = count
    /\ UNCHANGED <<file, dealing>>

Resolve ==
    /\ pc = "resolve"
    /\ pc' \in {"open", "exit"}
    /\ UNCHANGED <<file, thread_count, dealing>>

(* Newlines are counted, and one more line is assumed after the last. *)
LineCount(f) == (IF f.newline \/ f.ids = 0 THEN f.ids ELSE f.ids - 1) + 1

OpenFile ==
    /\ pc = "open"
    /\ IF file = NoFile
       THEN pc' = "exit" /\ UNCHANGED devices_per_thread
       ELSE /\ pc' = "read"
            /\ devices_per_thread' = LineCount(file) \div thread_count
    /\ UNCHANGED <<file, thread_count, next, batch, threads>>

(* Mutants: the batch handed over is not replaced by a new one; the last   *)
(* thread is not kept for the rest of the file; a thread is started one    *)
(* device early.                                                           *)
ReadLineShared ==
    /\ pc = "read"
    /\ next < file.ids
    /\ next' = next + 1
    /\ batch' = Append(batch, next + 1)
    /\ threads' = IF Len(batch') = devices_per_thread /\ Len(threads) < thread_count - 1
                  THEN Append(threads, batch') ELSE threads
    /\ UNCHANGED <<pc, file, thread_count, devices_per_thread>>

Deal(full, limit) ==
    /\ pc = "read"
    /\ next < file.ids
    /\ next' = next + 1
    /\ LET more == Append(batch, next + 1) IN
       IF Len(more) = full /\ Len(threads) < limit
       THEN threads' = Append(threads, more) /\ batch' = <<>>
       ELSE batch' = more /\ UNCHANGED threads
    /\ UNCHANGED <<pc, file, thread_count, devices_per_thread>>

ReadLineNoRest == Deal(devices_per_thread, thread_count)
ReadLineEarly == Deal(devices_per_thread - 1, thread_count - 1)

(* Mutant: the number of the line instead of that of the newlines read.    *)
ReadLineFromZero ==
    /\ pc = "read"
    /\ next < file.ids
    /\ next' = next + 1
    /\ batch' = Append(batch, next)
    /\ UNCHANGED <<pc, file, thread_count, devices_per_thread, threads>>

(* getline: the device is pushed to the batch, and a full batch goes to a  *)
(* new thread, unless only the last thread is left.                        *)
ReadLine == Deal(devices_per_thread, thread_count - 1)

(* No line is left: what remains goes to one more thread, and main spins.  *)
LastThread ==
    /\ pc = "read"
    /\ next = file.ids
    /\ pc' = "run"
    /\ threads' = IF batch # <<>> THEN Append(threads, batch) ELSE threads
    /\ batch' = <<>>
    /\ UNCHANGED <<file, thread_count, devices_per_thread, next>>

(* A batch is to be handed over, and std::thread throws: nothing in main   *)
(* catches it, so the process and all its threads are gone.                *)
NoThread ==
    /\ pc = "read"
    /\ \/ /\ next < file.ids
          /\ Len(batch) + 1 = devices_per_thread /\ Len(threads) < thread_count - 1
       \/ next = file.ids /\ batch # <<>>
    /\ pc' = "exit"
    /\ next' = 0 /\ batch' = <<>> /\ threads' = <<>>
    /\ UNCHANGED <<file, thread_count, devices_per_thread>>

(* The process ended, or is killed, and is started again. *)
Restart ==
    /\ pc \in {"run", "exit"}
    /\ pc' = "start"
    /\ devices_per_thread' = 0 /\ next' = 0 /\ batch' = <<>> /\ threads' = <<>>
    /\ thread_count' = 1
    /\ UNCHANGED file

Next ==
    \/ BadArguments
    \/ \E count \in -1 .. MaxIds : Generate(count)
    \/ \E count \in 0 .. MaxThreads : Parse(count)
    \/ Resolve \/ OpenFile \/ ReadLine \/ LastThread \/ NoThread \/ Restart

Spec == Init /\ [][Next]_vars

-----------------------------------------------------------------------------

Devices(s) == {s[k] : k \in DOMAIN s}

(* Each device is managed by one thread, and only once in it: two managers *)
(* would write to the streams of one DeviceID, none would leave it silent. *)
EachDeviceOnce ==
    pc = "run" =>
        \A id \in 1 .. file.ids :
            /\ \E t \in DOMAIN threads : id \in Devices(threads[t])
            /\ \A t, u \in DOMAIN threads :
                \A j \in DOMAIN threads[t], k \in DOMAIN threads[u] :
                    threads[t][j] = id /\ threads[u][k] = id => t = u /\ j = k

(* No more threads than asked for, whatever the rounding of the division.  *)
ThreadLimit == Len(threads) <= thread_count

(* Every thread but the last has the quotient of the division in line 407, *)
(* and the last one at most its remainder on top.                          *)
Balanced ==
    pc = "run" =>
        \A t \in DOMAIN threads :
            /\ t < Len(threads) => Len(threads[t]) = devices_per_thread
            /\ Len(threads[t]) \in 1 .. (devices_per_thread + (LineCount(file) % thread_count))

=============================================================================
