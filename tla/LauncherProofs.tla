------------------------- MODULE LauncherProofs -------------------------
(***************************************************************************)
(* The dealing of devices to threads, for every ids file and every thread  *)
(* count.  Dealt is what makes it inductive: after n lines each device is  *)
(* in one place, a started thread or the batch, and once in it.  Even adds  *)
(* how many: the quotient in each started thread, the rest in the batch.   *)
(***************************************************************************)
EXTENDS Launcher, TLAPS

Before == pc \notin {"read", "run"} => next = 0 /\ batch = <<>> /\ threads = <<>>

Progress ==
    /\ pc \in {"read", "run"} => file \in Files /\ next <= file.ids
    /\ pc = "read" => Len(threads) <= thread_count - 1
    /\ pc = "run" => next = file.ids /\ batch = <<>> /\ Len(threads) <= thread_count

Places(n, b, ts) ==
    \A id \in 1 .. n :
        \/ \E t \in DOMAIN ts : \E j \in DOMAIN ts[t] : ts[t][j] = id
        \/ \E k \in DOMAIN b : b[k] = id

Known(n, b, ts) ==
    /\ \A t \in DOMAIN ts : \A j \in DOMAIN ts[t] : ts[t][j] \in 1 .. n
    /\ \A k \in DOMAIN b : b[k] \in 1 .. n

Once(b, ts) ==
    /\ \A t, u \in DOMAIN ts : \A j \in DOMAIN ts[t], k \in DOMAIN ts[u] :
            ts[t][j] = ts[u][k] => t = u /\ j = k
    /\ \A t \in DOMAIN ts : \A j \in DOMAIN ts[t], k \in DOMAIN b : ts[t][j] # b[k]
    /\ \A j, k \in DOMAIN b : b[j] = b[k] => j = k

Dealt(n, b, ts) == Places(n, b, ts) /\ Known(n, b, ts) /\ Once(b, ts)

LauncherInv == LauncherTypeOK /\ Before /\ Progress /\ Dealt(next, batch, threads)

LEMMA AppendType ==
    ASSUME NEW S, NEW s \in Seq(S), NEW e \in S
    PROVE  Append(s, e) \in Seq(S) /\ Len(Append(s, e)) = Len(s) + 1
  OBVIOUS

(* A line that is read is a device that was nowhere yet. *)
LEMMA PushBack ==
    ASSUME NEW n \in Nat, NEW b \in Seq(1 .. MaxIds), NEW ts \in Seq(Seq(1 .. MaxIds)),
           Dealt(n, b, ts)
    PROVE  Dealt(n + 1, Append(b, n + 1), ts)
  <1> DEFINE c == Append(b, n + 1)
  <1>1. /\ \A k \in DOMAIN b : c[k] = b[k]
        /\ c[Len(b) + 1] = n + 1
        /\ DOMAIN c = DOMAIN b \cup {Len(b) + 1}
    OBVIOUS
  <1>2. 1 .. n + 1 = (1 .. n) \cup {n + 1} /\ n + 1 \notin 1 .. n
    OBVIOUS
  <1> HIDE DEF c
  <1>3. Places(n + 1, c, ts)
    BY <1>1, <1>2 DEF Dealt, Places
  <1>4. Known(n + 1, c, ts)
    BY <1>1, <1>2 DEF Dealt, Known
  <1>5. Once(c, ts)
    BY <1>1, <1>2 DEF Dealt, Once, Known
  <1> QED
    BY <1>3, <1>4, <1>5 DEF Dealt, c

(* Handing the batch to a new thread moves its devices and no other. *)
LEMMA HandOver ==
    ASSUME NEW n \in Nat, NEW b \in Seq(1 .. MaxIds), NEW ts \in Seq(Seq(1 .. MaxIds)),
           Dealt(n, b, ts)
    PROVE  Dealt(n, <<>>, Append(ts, b))
  <1> DEFINE us == Append(ts, b)
  <1>1. /\ \A t \in DOMAIN ts : us[t] = ts[t]
        /\ us[Len(ts) + 1] = b
        /\ DOMAIN us = DOMAIN ts \cup {Len(ts) + 1}
        /\ Len(ts) + 1 \notin DOMAIN ts
    OBVIOUS
  <1>2. DOMAIN <<>> = {}
    OBVIOUS
  <1> HIDE DEF us
  <1>3. Places(n, <<>>, us)
    <2> SUFFICES ASSUME NEW id \in 1 .. n
                 PROVE  \E t \in DOMAIN us : \E j \in DOMAIN us[t] : us[t][j] = id
      BY DEF Places
    <2>1. CASE \E t \in DOMAIN ts : \E j \in DOMAIN ts[t] : ts[t][j] = id
      BY <1>1, <2>1
    <2>2. CASE \E k \in DOMAIN b : b[k] = id
      BY <1>1, <2>2
    <2> QED
      BY <2>1, <2>2 DEF Dealt, Places
  <1>4. Known(n, <<>>, us)
    BY <1>1, <1>2 DEF Dealt, Known
  <1>5. Once(<<>>, us)
    BY <1>1, <1>2 DEF Dealt, Once
  <1> QED
    BY <1>3, <1>4, <1>5 DEF Dealt, us

(* Nothing is dealt before the first line. *)
LEMMA NothingDealt ==
    /\ Dealt(0, <<>>, <<>>)
    /\ <<>> \in Seq(1 .. MaxIds) /\ <<>> \in Seq(Seq(1 .. MaxIds))
    /\ 0 \in 0 .. MaxIds
  <1>1. DOMAIN <<>> = {} /\ 1 .. 0 = {}
    OBVIOUS
  <1>2. Dealt(0, <<>>, <<>>)
    BY <1>1 DEF Dealt, Places, Known, Once
  <1> QED
    BY <1>2, LauncherAssumption

LEMMA LauncherInitInv == Init => LauncherInv
  BY NothingDealt DEF Init, LauncherInv, LauncherTypeOK, Before, Progress

LEMMA ReadLineInv == LauncherInv /\ ReadLine => LauncherInv'
  <1> SUFFICES ASSUME LauncherInv, ReadLine PROVE LauncherInv'
    OBVIOUS
  <1> DEFINE more == Append(batch, next + 1)
  <1>1. /\ pc = "read" /\ pc' = "read" /\ file' = file /\ file \in Files
        /\ next < file.ids /\ next' = next + 1
        /\ thread_count' = thread_count /\ devices_per_thread' = devices_per_thread
    BY DEF ReadLine, Deal, LauncherInv, Progress
  <1>2. file.ids \in 0 .. MaxIds /\ next' \in 1 .. MaxIds /\ next' <= file.ids
    BY <1>1, LauncherAssumption DEF Files, LauncherInv, LauncherTypeOK
  <1>3. more \in Seq(1 .. MaxIds)
    BY <1>1, <1>2 DEF LauncherInv, LauncherTypeOK
  <1>4. Dealt(next + 1, more, threads)
    BY PushBack DEF LauncherInv, LauncherTypeOK
  <1>5. CASE Len(more) = devices_per_thread /\ Len(threads) < thread_count - 1
    <2>1. threads' = Append(threads, more) /\ batch' = <<>>
      BY <1>5 DEF ReadLine, Deal
    <2>2. Dealt(next + 1, <<>>, Append(threads, more))
      <3> HIDE DEF more
      <3> QED
        BY <1>3, <1>4, HandOver DEF LauncherInv, LauncherTypeOK
    <2>3. LauncherTypeOK' /\ Len(threads') <= thread_count - 1
      BY <1>1, <1>2, <1>3, <1>5, <2>1 DEF LauncherInv, LauncherTypeOK
    <2> QED
      BY <1>1, <1>2, <2>1, <2>2, <2>3 DEF LauncherInv, Before, Progress
  <1>6. CASE ~(Len(more) = devices_per_thread /\ Len(threads) < thread_count - 1)
    <2>1. threads' = threads /\ batch' = more
      BY <1>6 DEF ReadLine, Deal
    <2> QED
      BY <1>1, <1>2, <1>3, <1>4, <2>1 DEF LauncherInv, LauncherTypeOK, Before, Progress
  <1> QED
    BY <1>5, <1>6

LEMMA LastThreadInv == LauncherInv /\ LastThread => LauncherInv'
  <1> SUFFICES ASSUME LauncherInv, LastThread PROVE LauncherInv'
    OBVIOUS
  <1> USE DEF LastThread, LauncherInv, LauncherTypeOK
  <1>1. batch' = <<>> /\ next' = next /\ file' = file /\ pc' = "run"
    OBVIOUS
  <1>2. CASE batch = <<>>
    BY <1>1, <1>2 DEF Before, Progress
  <1>3. CASE batch # <<>>
    <2>1. threads' = Append(threads, batch)
      BY <1>3
    <2>2. Dealt(next, <<>>, Append(threads, batch))
      BY HandOver
    <2>3. threads' \in Seq(Seq(1 .. MaxIds)) /\ Len(threads') = Len(threads) + 1
      <3>1. threads \in Seq(Seq(1 .. MaxIds)) /\ batch \in Seq(1 .. MaxIds)
        OBVIOUS
      <3> QED
        BY ONLY <2>1, <3>1, AppendType
    <2>4. LauncherTypeOK'
      BY <1>1, <2>3, NothingDealt
    <2>5. Before' /\ Progress'
      BY <1>1, <2>3 DEF Before, Progress
    <2> QED
      BY <1>1, <2>1, <2>2, <2>4, <2>5
  <1> QED
    BY <1>2, <1>3

LEMMA LauncherStepInv == LauncherInv /\ [Next]_vars => LauncherInv'
  <1> SUFFICES ASSUME LauncherInv, [Next]_vars PROVE LauncherInv'
    OBVIOUS
  <1> USE DEF LauncherInv, LauncherTypeOK, Before, Progress, dealing
  <1>1. CASE BadArguments
    BY <1>1 DEF BadArguments
  <1>2. ASSUME NEW count \in -1 .. MaxIds, Generate(count) PROVE LauncherInv'
    <2>1. CASE count < 0
      BY <1>2, <2>1 DEF Generate
    <2>2. CASE count >= 0
      <3>1. count \in 0 .. MaxIds /\ (count > 0) \in BOOLEAN /\ (count = 0 => ~(count > 0))
        BY <2>2, LauncherAssumption
      <3>2. [ids |-> count, newline |-> count > 0] \in Files
        BY <3>1, Zenon DEF Files
      <3>3. ~(count < 0)
        BY <2>2, LauncherAssumption
      <3> QED
        BY <1>2, <3>2, <3>3 DEF Generate
    <2> QED
      BY <2>1, <2>2, LauncherAssumption
  <1>3. ASSUME NEW count \in 0 .. MaxThreads, Parse(count) PROVE LauncherInv'
    BY <1>3 DEF Parse
  <1>4. CASE Resolve
    BY <1>4 DEF Resolve
  <1>5. CASE OpenFile
    BY <1>5 DEF OpenFile, LineCount, Files
  <1>6. CASE ReadLine
    BY <1>6, ReadLineInv
  <1>7. CASE LastThread
    BY <1>7, LastThreadInv
  <1>8. CASE Restart
    BY <1>8, NothingDealt DEF Restart
  <1>9. CASE NoThread
    BY <1>9, NothingDealt DEF NoThread
  <1>10. CASE UNCHANGED vars
    BY <1>10 DEF vars
  <1> QED
    BY <1>1, <1>2, <1>3, <1>4, <1>5, <1>6, <1>7, <1>8, <1>9, <1>10 DEF Next

LEMMA LauncherInvariant == Spec => []LauncherInv
  BY LauncherInitInv, LauncherStepInv, PTL DEF Spec

(* The state of main keeps its types. *)
THEOREM LauncherTypeCorrect == Spec => []LauncherTypeOK
  <1>1. LauncherInv => LauncherTypeOK
    BY DEF LauncherInv
  <1> QED
    BY <1>1, LauncherInvariant, PTL

(* main never starts more threads than <thread-count>. *)
THEOREM ThreadsLimited == Spec => []ThreadLimit
  <1>1. LauncherInv => ThreadLimit
    BY DEF LauncherInv, LauncherTypeOK, Before, Progress, ThreadLimit
  <1> QED
    BY <1>1, LauncherInvariant, PTL

(* Once main spins, every device of the file is managed, by one thread and *)
(* once.                                                                   *)
THEOREM DevicesOnce == Spec => []EachDeviceOnce
  <1>1. LauncherInv => EachDeviceOnce
    <2> SUFFICES ASSUME LauncherInv, pc = "run", NEW id \in 1 .. file.ids
                 PROVE  /\ \E t \in DOMAIN threads : id \in Devices(threads[t])
                        /\ \A t, u \in DOMAIN threads :
                            \A j \in DOMAIN threads[t], k \in DOMAIN threads[u] :
                                threads[t][j] = id /\ threads[u][k] = id => t = u /\ j = k
      BY DEF EachDeviceOnce
    <2>1. next = file.ids /\ DOMAIN batch = {}
      BY DEF LauncherInv, Progress
    <2>2. PICK t \in DOMAIN threads : \E j \in DOMAIN threads[t] : threads[t][j] = id
      BY <2>1 DEF LauncherInv, Dealt, Places
    <2>3. id \in Devices(threads[t])
      BY <2>2 DEF Devices
    <2> QED
      BY <2>3 DEF LauncherInv, Dealt, Once
  <1> QED
    BY <1>1, LauncherInvariant, PTL

-----------------------------------------------------------------------------
(* The balance of the threads: what was dealt is a multiple of the         *)
(* quotient, and the rest is in the batch.                                 *)

Remainder == LineCount(file) % thread_count

Quotient ==
    pc = "read" =>
        LineCount(file) = devices_per_thread * thread_count + Remainder /\ Remainder \in Nat

Full ==
    pc \in {"read", "run"} =>
        \A t \in DOMAIN threads :
            Len(threads[t]) # devices_per_thread =>
                /\ pc = "run" /\ t = Len(threads)
                /\ Len(threads[t]) \in 1 .. (devices_per_thread + Remainder)

Rest ==
    /\ threads # <<>> /\ pc = "read" => devices_per_thread > 0
    /\ pc = "read" =>
        /\ next = devices_per_thread * Len(threads) + Len(batch)
        /\ Len(threads) < thread_count - 1 =>
            devices_per_thread = 0 \/ Len(batch) < devices_per_thread

NoneEmpty == pc = "run" => \A t \in DOMAIN threads : Len(threads[t]) > 0

Even == Quotient /\ Full /\ Rest /\ NoneEmpty

LEMMA Times ==
    ASSUME NEW q \in Nat, NEW k \in Nat
    PROVE  q * (k + 1) = q * k + q /\ q * k \in Nat /\ q * 0 = 0
  OBVIOUS

LEMMA Division ==
    ASSUME NEW n \in Nat, NEW m \in Nat \ {0}
    PROVE  n = (n \div m) * m + (n % m) /\ n % m \in Nat /\ n \div m \in Nat
  OBVIOUS

LEMMA LinesBound ==
    ASSUME LauncherInv, file \in Files
    PROVE  file.ids \in Nat /\ LineCount(file) \in Nat /\ file.ids <= LineCount(file)
  BY LauncherAssumption DEF LineCount, Files

LEMMA ReadLineEven == LauncherInv /\ Even /\ ReadLine => Even'
  <1> SUFFICES ASSUME LauncherInv, Even, ReadLine PROVE Even'
    OBVIOUS
  <1> DEFINE q == devices_per_thread
             k == Len(threads)
             more == Append(batch, next + 1)
  <1>1. /\ pc = "read" /\ pc' = "read" /\ file' = file /\ next' = next + 1
        /\ thread_count' = thread_count /\ q' = q
    BY DEF ReadLine, Deal
  <1>2. /\ q \in Nat /\ k \in Nat /\ thread_count \in Nat /\ next \in Nat
        /\ batch \in Seq(1 .. MaxIds) /\ threads \in Seq(Seq(1 .. MaxIds))
    BY LauncherAssumption DEF LauncherInv, LauncherTypeOK
  <1>3. Len(batch) \in Nat /\ Len(more) = Len(batch) + 1 /\ next = q * k + Len(batch)
    BY <1>1, <1>2 DEF Even, Rest
  <1>4. Quotient' /\ NoneEmpty'
    BY <1>1 DEF Even, Quotient, NoneEmpty, LineCount, Remainder
  <1>5. CASE Len(more) = q /\ k < thread_count - 1
    <2>1. threads' = Append(threads, more) /\ batch' = <<>>
      BY <1>5 DEF ReadLine, Deal
    <2>2. /\ Len(threads') = k + 1 /\ threads'[k + 1] = more
          /\ \A t \in DOMAIN threads : threads'[t] = threads[t]
          /\ DOMAIN threads' = DOMAIN threads \cup {k + 1}
      BY <1>2, <2>1
    <2>3. Full'
      BY <1>1, <1>5, <2>2 DEF Even, Full
    <2>4. q > 0 /\ Len(batch') = 0
      BY <1>3, <1>5, <2>1
    <2>5. next' = q * (k + 1)
      BY <1>1, <1>2, <1>3, <1>5, Times
    <2> HIDE DEF q, k
    <2>6. q * (k + 1) \in Nat
      BY <1>2, Times
    <2>7. Rest'
      BY <1>1, <2>2, <2>4, <2>5, <2>6 DEF Rest, q
    <2> QED
      BY <1>4, <2>3, <2>7 DEF Even
  <1>6. CASE ~(Len(more) = q /\ k < thread_count - 1)
    <2>1. threads' = threads /\ batch' = more
      BY <1>6 DEF ReadLine, Deal
    <2>2. Full'
      BY <1>1, <2>1 DEF Even, Full
    <2>3. next' = q * k + Len(more)
      BY ONLY <1>1, <1>2, <1>3, Times
    <2>4. k < thread_count - 1 => q = 0 \/ Len(more) < q
      BY <1>1, <1>2, <1>3, <1>6 DEF Even, Rest
    <2>5. Rest'
      BY <1>1, <2>1, <2>3, <2>4 DEF Even, Rest
    <2> QED
      BY <1>4, <2>2, <2>5 DEF Even
  <1> QED
    BY <1>5, <1>6

(* The last batch: less than a thread's share, or with the remainder. *)
LEMMA LastBatch ==
    ASSUME LauncherInv, Even, pc = "read", next = file.ids
    PROVE  Len(batch) <= devices_per_thread + Remainder
  <1> DEFINE q == devices_per_thread
             k == Len(threads)
             n == thread_count
  <1>1. /\ q \in Nat /\ k \in Nat /\ n \in Nat \ {0} /\ k <= n - 1 /\ Len(batch) \in Nat
        /\ file \in Files
    BY DEF LauncherInv, LauncherTypeOK, Progress
  <1>2. q * k + Len(batch) <= q * n + Remainder
        /\ q * n \in Nat /\ q * k \in Nat /\ Remainder \in Nat
    BY <1>1, LinesBound, Times DEF Even, Quotient, Rest
  <1>3. CASE k < n - 1 /\ q > 0
    <2>1. Len(batch) < q
      BY <1>1, <1>3 DEF Even, Rest
    <2> QED
      BY <1>1, <1>2, <2>1
  <1>4. CASE q = 0
    <2>1. q * k = 0 /\ q * n = 0
      BY <1>1, <1>4
    <2> QED
      BY <1>1, <1>2, <1>4, <2>1
  <1>5. CASE k = n - 1
    <2>1. q * n = q * k + q
      BY <1>1, <1>5, Times
    <2> HIDE DEF q, k, n
    <2>2. Len(batch) <= q + Remainder
      BY <1>1, <1>2, <2>1
    <2> QED
      BY <2>2 DEF q, n
  <1> QED
    BY <1>1, <1>3, <1>4, <1>5

LEMMA LastThreadEven == LauncherInv /\ Even /\ LastThread => Even'
  <1> SUFFICES ASSUME LauncherInv, Even, LastThread PROVE Even'
    OBVIOUS
  <1>1. /\ pc = "read" /\ pc' = "run" /\ next = file.ids
        /\ thread_count' = thread_count /\ devices_per_thread' = devices_per_thread
        /\ Remainder' = Remainder
    BY DEF LastThread, Remainder, LineCount
  <1>2. /\ devices_per_thread \in Nat /\ Len(threads) \in Nat /\ thread_count \in Nat \ {0}
        /\ batch \in Seq(1 .. MaxIds) /\ threads \in Seq(Seq(1 .. MaxIds))
    BY DEF LauncherInv, LauncherTypeOK
  <1>3. /\ \A t \in DOMAIN threads : Len(threads[t]) = devices_per_thread
        /\ threads # <<>> => devices_per_thread > 0
    BY <1>1 DEF Even, Full, Rest
  <1>4. Quotient' /\ Rest'
    BY <1>1 DEF Quotient, Rest
  <1>5. CASE batch = <<>>
    <2>1. threads' = threads
      BY <1>5 DEF LastThread
    <2> QED
      BY <1>1, <1>2, <1>3, <1>4, <2>1 DEF Even, Full, NoneEmpty
  <1>6. CASE batch # <<>>
    <2>1. threads' = Append(threads, batch)
      BY <1>6 DEF LastThread
    <2>2. /\ Len(threads') = Len(threads) + 1 /\ threads'[Len(threads) + 1] = batch
          /\ \A t \in DOMAIN threads : threads'[t] = threads[t]
          /\ DOMAIN threads' = DOMAIN threads \cup {Len(threads) + 1}
      BY <1>2, <2>1
    <2>3. Len(batch) \in 1 .. (devices_per_thread + Remainder)
      BY <1>1, <1>2, <1>6, LastBatch DEF Even, Quotient
    <2>4. \A t \in DOMAIN threads : Len(threads[t]) > 0
      BY <1>2, <1>3
    <2> QED
      BY <1>1, <1>3, <1>4, <2>2, <2>3, <2>4 DEF Even, Full, NoneEmpty
  <1> QED
    BY <1>5, <1>6

LEMMA EvenStep == LauncherInv /\ Even /\ [Next]_vars => Even'
  <1> SUFFICES ASSUME LauncherInv, Even, [Next]_vars PROVE Even'
    OBVIOUS
  <1>1. CASE OpenFile /\ pc' = "read"
    <2>1. /\ file \in Files /\ thread_count \in Nat \ {0}
          /\ devices_per_thread' = LineCount(file) \div thread_count
          /\ UNCHANGED <<file, thread_count>>
          /\ next' = 0 /\ batch' = <<>> /\ threads' = <<>>
      BY <1>1 DEF OpenFile, LauncherInv, LauncherTypeOK, Before
    <2>2. Quotient' /\ devices_per_thread' \in Nat
      BY <2>1, LinesBound, Division DEF Quotient, LineCount, Remainder
    <2>3. Full' /\ NoneEmpty' /\ Rest'
      BY <1>1, <2>1, <2>2, Times DEF Full, NoneEmpty, Rest
    <2> QED
      BY <2>2, <2>3 DEF Even
  <1>2. CASE pc' \notin {"read", "run"}
    BY <1>2 DEF Even, Quotient, Full, Rest, NoneEmpty
  <1>3. CASE UNCHANGED vars
    BY <1>3 DEF vars, dealing, Even, Quotient, Full, Rest, NoneEmpty, LineCount, Remainder
  <1>4. OpenFile \/ ReadLine \/ LastThread \/ pc' \notin {"read", "run"} \/ UNCHANGED vars
    BY DEF Next, BadArguments, Generate, Parse, Resolve, NoThread, Restart
  <1>5. OpenFile => pc' = "read" \/ pc' \notin {"read", "run"}
    BY DEF OpenFile
  <1> QED
    BY <1>1, <1>2, <1>3, <1>4, <1>5, ReadLineEven, LastThreadEven

(* Every manager thread has the same share of the devices, but the last,   *)
(* which may have the remainder on top (main.cpp, lines 403-456).          *)
THEOREM SharesAreEven == Spec => []Balanced
  <1>1. Init => Even
    BY DEF Init, Even, Quotient, Full, Rest, NoneEmpty
  <1>2. LauncherInv /\ Even => Balanced
    <2> SUFFICES ASSUME LauncherInv, Even, pc = "run", NEW t \in DOMAIN threads
                 PROVE  /\ t < Len(threads) => Len(threads[t]) = devices_per_thread
                        /\ Len(threads[t]) \in 1 .. (devices_per_thread + Remainder)
      BY DEF Balanced, Remainder
    <2>1. /\ threads \in Seq(Seq(1 .. MaxIds)) /\ devices_per_thread \in Nat
          /\ Len(threads[t]) \in Nat \ {0}
      BY DEF LauncherInv, LauncherTypeOK, Even, NoneEmpty
    <2>2. Remainder \in Nat
      BY LinesBound, Division DEF LauncherInv, LauncherTypeOK, Progress, Remainder
    <2>3. Len(threads[t]) # devices_per_thread =>
            t = Len(threads) /\ Len(threads[t]) \in 1 .. (devices_per_thread + Remainder)
      BY DEF Even, Full
    <2> QED
      BY <2>1, <2>2, <2>3
  <1> QED
    BY <1>1, <1>2, LauncherInvariant, EvenStep, PTL DEF Spec

=============================================================================
