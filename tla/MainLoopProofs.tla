----------------------------- MODULE MainLoopProofs -----------------------------
(***************************************************************************)
(* Whatever the signals, the keys and the failures to write: the log is in *)
(* order, and when the program ends all of it has been written; and every  *)
(* interrupt counted has a task of its own that is still to run.           *)
(***************************************************************************)
EXTENDS MainLoop, SequenceTheorems, FiniteSetTheorems, FunctionTheorems, TLAPS

(* All that the log depends on.                                            *)
logState == <<phase, logVars>>

(* The end of the logging loop has been posted and not yet read.           *)
QuitPosted == phase = "logjoin" /\ logpc = "running"

Waiting == IF QuitPosted THEN Len(logq) - 1 ELSE Len(logq)

Done == logged - Waiting

LogTypeOK ==
  /\ phase \in Phases /\ logpc \in {"none", "running", "dead"}
  /\ logged \in Nat /\ logq \in Seq(Nat) /\ file \in Seq(Nat)

(* The logging thread runs from the startup to the quit that it reads, and *)
(* nothing is posted behind that.                                          *)
LogPhases ==
  /\ phase = "startup" => logpc = "none" /\ logq = <<>>
  /\ phase \in {"running", "sigjoin", "logquit"} => logpc = "running"
  /\ phase \in {"logjoin", "exited"} => logpc # "none"
  /\ phase = "exited" => logpc = "dead"
  /\ logpc = "dead" => logq = <<>>
  /\ QuitPosted => logq # <<>> /\ logq[Len(logq)] = QuitEntry

(* Entries wait in the order of their numbers, and those before them are   *)
(* written or failed.                                                      *)
LogOrder ==
  /\ Waiting <= logged
  /\ \A j \in 1 .. Waiting : logq[j] = Done + j
  /\ failed \subseteq 1 .. Done
  /\ \A i \in 1 .. Len(file) : file[i] \in (1 .. Done) \ failed
  /\ \A k \in (1 .. Done) \ failed : \E i \in 1 .. Len(file) : file[i] = k
  /\ \A i, j \in 1 .. Len(file) : i < j => file[i] < file[j]

LogInv == LogTypeOK /\ LogPhases /\ LogOrder

-----------------------------------------------------------------------------
(* At first nothing has been logged.                                       *)
LEMMA InitLog == Init => LogInv
<1> SUFFICES ASSUME Init
             PROVE  LogInv
  OBVIOUS
<1>1. /\ phase = "startup" /\ logpc = "none" /\ logged = 0
      /\ logq = <<>> /\ file = <<>> /\ failed = {}
  BY DEF Init
<1>2. Waiting = 0 /\ Done = 0
  <2>1. Len(logq) = 0
    BY <1>1, EmptySeq
  <2>2. ~QuitPosted
    BY <1>1 DEF QuitPosted
  <2>3. Waiting = 0
    BY <2>1, <2>2 DEF Waiting
  <2> QED
    BY <1>1, <2>3 DEF Done
<1>3. LogTypeOK
  BY <1>1, EmptySeq DEF LogTypeOK, Phases
<1>4. LogPhases
  BY <1>1 DEF LogPhases, QuitPosted
<1>5. LogOrder
  BY <1>1, <1>2 DEF LogOrder
<1> QED
  BY <1>3, <1>4, <1>5 DEF LogInv

(* Most steps are no concern of the log.                                   *)
LEMMA SameLog ==
  ASSUME LogInv, UNCHANGED logState
  PROVE  LogInv'
<1>1. UNCHANGED <<phase, logq, logpc, logged, file, failed>>
  BY DEF logState, logVars
<1> QED
  BY <1>1 DEF LogInv, LogTypeOK, LogPhases, LogOrder, QuitPosted, Waiting, Done

(* Nor are those of main() that leave the thread running.                  *)
LEMMA SameQueue ==
  ASSUME LogInv, UNCHANGED <<logq, logged, file, failed>>, ~QuitPosted, ~QuitPosted',
         phase' \in Phases, logpc' \in {"none", "running", "dead"}, LogPhases'
  PROVE  LogInv'
  BY DEF LogInv, LogTypeOK, LogOrder, Waiting, Done

(* Entering the loop touches no part of the log.                           *)
LEMMA StartupFinishKeeps ==
  ASSUME LogInv, StartupFinish
  PROVE  LogInv'
  BY SameQueue DEF StartupFinish, LogInv, LogPhases, QuitPosted, Phases

(* After an iteration comes another, or the loop is left.                  *)
LEMMA EndIterationKeeps ==
  ASSUME LogInv, EndIteration
  PROVE  LogInv'
<1>1. phase = "running" /\ phase' \in {"running", "sigjoin"} /\ UNCHANGED logVars
  BY DEF EndIteration
<1> QED
  BY <1>1, SameQueue DEF LogInv, LogPhases, QuitPosted, Phases, logVars

(* Joining the threads is where the program exits: only when the log       *)
(* thread has ended, which it does with an empty queue.                    *)
LEMMA JoinsKeep ==
  ASSUME LogInv, JoinSignalThread \/ JoinLogThread
  PROVE  LogInv'
<1>1. UNCHANGED logVars
  BY DEF JoinSignalThread, JoinLogThread
<1>2. CASE JoinSignalThread
  BY <1>1, <1>2, SameQueue DEF JoinSignalThread, LogInv, LogPhases, QuitPosted, Phases, logVars
<1>3. CASE JoinLogThread
  BY <1>1, <1>3, SameQueue DEF JoinLogThread, LogInv, LogPhases, QuitPosted, Phases, logVars
<1> QED
  BY <1>2, <1>3

(* A key may log one entry more.                                           *)
LEMMA KeyKeeps ==
  ASSUME LogInv, Key
  PROVE  LogInv'
<1>1. phase = "running" /\ UNCHANGED <<phase, logpc, file, failed>>
  BY DEF Key, Running
<1>2. CASE UNCHANGED <<logq, logged>>
  BY <1>1, <1>2, SameLog DEF logState, logVars
<1>3. CASE logged' = logged + 1 /\ logq' = Append(logq, logged')
  <2>1. /\ logpc = "running" /\ ~QuitPosted /\ ~QuitPosted' /\ logged \in Nat /\ logq \in Seq(Nat)
        /\ Len(logq) \in Nat
    BY <1>1, LenProperties DEF LogInv, LogPhases, LogTypeOK, QuitPosted
  <2>2. /\ logq' \in Seq(Nat) /\ Len(logq') = Len(logq) + 1
        /\ logq'[Len(logq) + 1] = logged + 1
        /\ \A j \in 1 .. Len(logq) : logq'[j] = logq[j]
    BY <1>3, <2>1, AppendProperties
  <2>3. Waiting = Len(logq) /\ Waiting' = Waiting + 1 /\ Done' = Done /\ Done = logged - Waiting
    BY <1>3, <2>1, <2>2 DEF Waiting, Done
  <2>4. \A j \in 1 .. Waiting' : logq'[j] = Done' + j
    <3>1. ASSUME NEW j \in 1 .. Waiting'
          PROVE  logq'[j] = Done' + j
      <4>1. CASE j = Len(logq) + 1
        BY <2>1, <2>2, <2>3, <4>1
      <4>2. CASE j # Len(logq) + 1
        <5>1. j \in 1 .. Waiting /\ j \in 1 .. Len(logq)
          BY <2>1, <2>3, <4>2
        <5> QED
          BY <2>2, <2>3, <5>1 DEF LogInv, LogOrder
      <4> QED
        BY <4>1, <4>2
    <3> QED
      BY <3>1
  <2>5. LogOrder'
    BY <1>1, <1>3, <2>1, <2>3, <2>4 DEF LogInv, LogOrder
  <2>6. LogTypeOK' /\ LogPhases'
    BY <1>1, <1>3, <2>1, <2>2 DEF LogInv, LogTypeOK, LogPhases
  <2> QED
    BY <2>5, <2>6 DEF LogInv
<1> QED
  BY <1>2, <1>3 DEF Key

(* The quit is posted behind all entries.                                  *)
LEMMA LogQuitKeeps ==
  ASSUME LogInv, LogQuit
  PROVE  LogInv'
<1>1. /\ phase = "logquit" /\ phase' = "logjoin" /\ logq' = Append(logq, QuitEntry)
      /\ UNCHANGED <<logpc, logged, file, failed>>
  BY DEF LogQuit
<1>2. /\ logpc = "running" /\ ~QuitPosted /\ QuitPosted' /\ logq \in Seq(Nat)
      /\ Len(logq) \in Nat /\ logged \in Nat
  BY <1>1, LenProperties DEF LogInv, LogPhases, LogTypeOK, QuitPosted
<1>3. /\ logq' \in Seq(Nat) /\ Len(logq') = Len(logq) + 1
      /\ logq'[Len(logq) + 1] = QuitEntry
      /\ \A j \in 1 .. Len(logq) : logq'[j] = logq[j]
  BY <1>1, <1>2, AppendProperties DEF QuitEntry
<1>4. Waiting = Len(logq) /\ Waiting' = Waiting /\ Done' = Done
  BY <1>1, <1>2, <1>3 DEF Waiting, Done
<1>5. LogOrder'
  BY <1>1, <1>2, <1>3, <1>4 DEF LogInv, LogOrder
<1>6. LogTypeOK'
  BY <1>1, <1>3 DEF LogInv, LogTypeOK, Phases
<1>7. logq' # <<>> /\ logq'[Len(logq')] = QuitEntry
  BY <1>2, <1>3
<1>8. LogPhases'
  BY <1>1, <1>2, <1>7 DEF LogPhases
<1> QED
  BY <1>5, <1>6, <1>8 DEF LogInv

(* The first entry is written behind those in the file, or fails.          *)
LEMMA LogWriteKeeps ==
  ASSUME LogInv, LogWrite
  PROVE  LogInv'
<1>1. /\ logpc = "running" /\ logq # <<>> /\ Head(logq) # QuitEntry /\ logq' = Tail(logq)
      /\ UNCHANGED <<phase, logpc, logged>>
  BY DEF LogWrite, mainVars
<1>2. /\ logq \in Seq(Nat) /\ Len(logq) \in Nat \ {0} /\ Head(logq) = logq[1]
      /\ logged \in Nat /\ file \in Seq(Nat) /\ Len(file) \in Nat
  BY <1>1, LenProperties, EmptySeq DEF LogInv, LogTypeOK
<1>3. /\ logq' \in Seq(Nat) /\ Len(logq') = Len(logq) - 1
      /\ \A j \in 1 .. Len(logq) - 1 : logq'[j] = logq[j + 1]
  BY <1>1, <1>2, HeadTailProperties
<1>4. Waiting \in Nat \ {0}
  <2>1. CASE QuitPosted
    <3>1. Len(logq) # 1
      BY <1>1, <1>2, <2>1 DEF LogInv, LogPhases
    <3> QED
      BY <1>2, <2>1, <3>1 DEF Waiting
  <2>2. CASE ~QuitPosted
    BY <1>2, <2>2 DEF Waiting
  <2> QED
    BY <2>1, <2>2
<1>5. /\ QuitPosted' = QuitPosted /\ Waiting' = Waiting - 1 /\ Done' = Done + 1
      /\ Done \in Nat /\ Waiting <= Len(logq) /\ Waiting <= logged
  <2>1. QuitPosted' = QuitPosted
    BY <1>1 DEF QuitPosted
  <2>2. Waiting' = Waiting - 1 /\ Waiting <= Len(logq)
    BY <1>2, <1>3, <2>1 DEF Waiting
  <2>3. Waiting <= logged
    BY DEF LogInv, LogOrder
  <2>4. logged' = logged
    BY <1>1
  <2> QED
    BY <1>2, <1>4, <2>1, <2>2, <2>3, <2>4 DEF Done
<1>6. Head(logq) = Done + 1
  BY <1>2, <1>4, <1>5 DEF LogInv, LogOrder
<1>7. \A j \in 1 .. Waiting' : logq'[j] = Done' + j
  <2>1. ASSUME NEW j \in 1 .. Waiting'
        PROVE  logq'[j] = Done' + j
    <3>1. j + 1 \in 1 .. Waiting /\ j \in 1 .. Len(logq) - 1
      BY <1>2, <1>4, <1>5
    <3>2. logq[j + 1] = Done + (j + 1)
      BY <3>1 DEF LogInv, LogOrder
    <3> QED
      BY <1>3, <1>5, <3>1, <3>2
  <2> QED
    BY <2>1
<1>8. LogPhases'
  <2>1. QuitPosted => logq' # <<>> /\ logq'[Len(logq')] = QuitEntry
    <3>1. ASSUME QuitPosted
          PROVE  logq' # <<>> /\ logq'[Len(logq')] = QuitEntry
      <4>1. Len(logq') = Waiting /\ Len(logq') \in 1 .. Len(logq) - 1 /\ logq[Len(logq)] = QuitEntry
        BY <1>2, <1>3, <1>4, <3>1 DEF Waiting, LogInv, LogPhases
      <4>2. logq'[Len(logq')] = logq[Len(logq') + 1] /\ Len(logq') + 1 = Len(logq)
        BY <1>2, <1>3, <4>1
      <4>3. logq' # <<>>
        BY <1>4, <4>1, EmptySeq
      <4> QED
        BY <4>1, <4>2, <4>3
    <3> QED
      BY <3>1
  <2> QED
    BY <1>1, <1>5, <2>1 DEF LogInv, LogPhases
<1>9. /\ Waiting' <= logged' /\ 1 .. Done \subseteq 1 .. Done'
       /\ 1 .. Done' = (1 .. Done) \cup {Done + 1}
  BY <1>1, <1>2, <1>4, <1>5
<1>10. CASE file' = Append(file, Head(logq)) /\ UNCHANGED failed
  <2>1. /\ file' \in Seq(Nat) /\ Len(file') = Len(file) + 1
        /\ file'[Len(file) + 1] = Done + 1
        /\ \A i \in 1 .. Len(file) : file'[i] = file[i]
    BY <1>2, <1>5, <1>6, <1>10, AppendProperties
  <2>2. \A i \in 1 .. Len(file) : file[i] \in (1 .. Done) \ failed
    BY DEF LogInv, LogOrder
  <2>3. \A i \in 1 .. Len(file') : file'[i] \in (1 .. Done') \ failed'
    BY <1>2, <1>5, <1>10, <2>1, <2>2 DEF LogInv, LogOrder
  <2>4. \A k \in (1 .. Done') \ failed' : \E i \in 1 .. Len(file') : file'[i] = k
    <3>1. ASSUME NEW k \in (1 .. Done') \ failed'
          PROVE  \E i \in 1 .. Len(file') : file'[i] = k
      <4>1. CASE k = Done + 1
        BY <1>2, <2>1, <4>1
      <4>2. CASE k # Done + 1
        <5>1. k \in (1 .. Done) \ failed
          BY <1>5, <1>10, <3>1, <4>2
        <5>2. PICK i \in 1 .. Len(file) : file[i] = k
          BY <5>1 DEF LogInv, LogOrder
        <5> QED
          BY <1>2, <2>1, <5>2
      <4> QED
        BY <4>1, <4>2
    <3> QED
      BY <3>1
  <2>5. \A i, j \in 1 .. Len(file') : i < j => file'[i] < file'[j]
    <3>1. ASSUME NEW i \in 1 .. Len(file'), NEW j \in 1 .. Len(file'), i < j
          PROVE  file'[i] < file'[j]
      <4>1. i \in 1 .. Len(file) /\ file'[i] = file[i]
        <5>1. PICK n \in Nat : n = Len(file)
          BY <1>2
        <5>2. i \in 1 .. n
          <6>1. Len(file') = n + 1
            BY <2>1, <5>1
          <6>2. i \in 1 .. n + 1 /\ j \in 1 .. n + 1 /\ i < j
            BY <3>1, <6>1
          <6> QED
            BY <5>1, <6>2
        <5> QED
          BY <2>1, <5>1, <5>2
      <4>2. CASE j = Len(file) + 1
        BY <1>5, <2>1, <2>2, <4>1, <4>2
      <4>3. CASE j # Len(file) + 1
        <5>1. j \in 1 .. Len(file)
          <6>1. Len(file') = Len(file) + 1 /\ Len(file) \in Nat
            BY <1>2, <2>1
          <6> QED
            BY <4>3, <6>1
        <5>2. file'[j] = file[j]
          BY <2>1, <5>1
        <5> QED
          BY <3>1, <4>1, <5>1, <5>2 DEF LogInv, LogOrder
      <4> QED
        BY <4>2, <4>3
    <3> QED
      BY <3>1
  <2>6. failed' \subseteq 1 .. Done'
    BY <1>10, <1>9 DEF LogInv, LogOrder
  <2>7. LogOrder'
    BY <1>7, <1>9, <2>3, <2>4, <2>5, <2>6 DEF LogOrder
  <2> QED
    BY <1>1, <1>3, <1>8, <2>1, <2>7 DEF LogInv, LogTypeOK
<1>11. CASE failed' = failed \cup {Head(logq)} /\ UNCHANGED file
  <2>1. \A i \in 1 .. Len(file) : file[i] \in (1 .. Done) \ failed
    BY DEF LogInv, LogOrder
  <2>2. \A i \in 1 .. Len(file') : file'[i] \in (1 .. Done') \ failed'
    BY <1>5, <1>6, <1>11, <2>1
  <2>3. (1 .. Done') \ failed' = (1 .. Done) \ failed
    BY <1>5, <1>6, <1>11
  <2>4. failed' \subseteq 1 .. Done'
    BY <1>6, <1>11, <1>9 DEF LogInv, LogOrder
  <2>5. LogOrder'
    <3>1. /\ \A k \in (1 .. Done) \ failed : \E i \in 1 .. Len(file) : file[i] = k
          /\ \A i, j \in 1 .. Len(file) : i < j => file[i] < file[j]
      BY DEF LogInv, LogOrder
    <3>2. /\ \A k \in (1 .. Done') \ failed' : \E i \in 1 .. Len(file') : file'[i] = k
          /\ \A i, j \in 1 .. Len(file') : i < j => file'[i] < file'[j]
      BY <1>11, <2>3, <3>1
    <3> QED
      BY <1>7, <1>9, <2>2, <2>4, <3>2 DEF LogOrder
  <2> QED
    BY <1>1, <1>3, <1>8, <1>11, <2>5 DEF LogInv, LogTypeOK
<1> QED
  BY <1>10, <1>11 DEF LogWrite

(* When the quit is read nothing waits any more.                           *)
LEMMA LogStopKeeps ==
  ASSUME LogInv, LogStop
  PROVE  LogInv'
<1>1. /\ logpc = "running" /\ logq # <<>> /\ Head(logq) = QuitEntry
      /\ logpc' = "dead" /\ logq' = Tail(logq)
      /\ UNCHANGED <<phase, logged, file, failed>>
  BY DEF LogStop, mainVars
<1>2. /\ logq \in Seq(Nat) /\ Len(logq) \in Nat \ {0} /\ Head(logq) = logq[1]
      /\ logged \in Nat /\ logq' \in Seq(Nat) /\ Len(logq') = Len(logq) - 1
  BY <1>1, LenProperties, EmptySeq, HeadTailProperties DEF LogInv, LogTypeOK
<1>3. Waiting = 0
  <2>1. Waiting \in Nat /\ Waiting <= logged
    BY <1>2 DEF Waiting, LogInv, LogOrder
  <2>2. Waiting # 0 => logq[1] = Done + 1 /\ Done \in Nat
    BY <1>2, <2>1 DEF LogInv, LogOrder, Done
  <2> QED
    BY <1>1, <1>2, <2>1, <2>2 DEF QuitEntry
<1>4. QuitPosted /\ Len(logq) = 1
  BY <1>2, <1>3 DEF Waiting
<1>5. logq' = <<>> /\ Len(logq') = 0
  BY <1>2, <1>4, EmptySeq
<1>6. ~QuitPosted' /\ Waiting' = 0 /\ Done' = Done
  BY <1>1, <1>3, <1>5 DEF QuitPosted, Waiting, Done
<1>7. LogOrder'
  BY <1>1, <1>2, <1>3, <1>6 DEF LogInv, LogOrder
<1>8. LogTypeOK' /\ LogPhases'
  BY <1>1, <1>2, <1>4, <1>5, <1>6 DEF LogInv, LogTypeOK, LogPhases, QuitPosted
<1> QED
  BY <1>7, <1>8 DEF LogInv

(* Every step keeps the invariant.                                         *)
LEMMA LogStep == LogInv /\ [Next]_vars => LogInv'
<1> SUFFICES ASSUME LogInv, [Next]_vars
             PROVE  LogInv'
  OBVIOUS
<1>1. CASE \E s \in Signals : Raise(s)
  BY <1>1, SameLog DEF Raise, logState, mainVars
<1>2. CASE SignalThread
  BY <1>2, SameLog DEF SignalThread, SigWait, SigAdd, SigPost, outside, logState, mainVars
<1>3. CASE StartupQuit \/ Redraw
  BY <1>3, SameLog DEF StartupQuit, Redraw, Running, logState, mainVars
<1>4. CASE BeginIteration \/ RunTask \/ SearchInterrupted \/ SearchEnds
  BY <1>4, SameLog DEF BeginIteration, RunTask, SearchInterrupted, SearchEnds, logState
<1>5. CASE UNCHANGED vars
  BY <1>5, SameLog DEF vars, logState, mainVars
<1> QED
  BY <1>1, <1>2, <1>3, <1>4, <1>5, KeyKeeps, StartupFinishKeeps, EndIterationKeeps, JoinsKeep,
     LogQuitKeeps, LogWriteKeeps, LogStopKeeps
     DEF Next, MainThread, LogThread

(* The file is in the order of logging, and at the exit it has every entry *)
(* that could be written (owl_log_shutdown posts its quit behind them).    *)
THEOREM LogIsKept == Spec => []LogIsFaithful
<1>1. LogInv => LogIsFaithful
  <2> SUFFICES ASSUME LogInv
               PROVE  LogIsFaithful
    OBVIOUS
  <2>1. DOMAIN file = 1 .. Len(file)
    BY LenProperties DEF LogInv, LogTypeOK
  <2>2. \A i, j \in DOMAIN file : i < j => file[i] < file[j]
    BY <2>1 DEF LogInv, LogOrder
  <2>3. ASSUME phase = "exited"
        PROVE  ToSet(file) = (1 .. logged) \ failed
    <3>1. Done = logged
      BY <2>3 DEF LogInv, LogPhases, LogTypeOK, QuitPosted, Waiting, Done
    <3>2. ToSet(file) = {file[i] : i \in DOMAIN file}
      BY DEF ToSet
    <3> QED
      BY <2>1, <3>1, <3>2 DEF LogInv, LogOrder
  <2> QED
    BY <2>2, <2>3 DEF LogIsFaithful
<1> QED
  BY InitLog, LogStep, <1>1, PTL DEF Spec

-----------------------------------------------------------------------------
(* The places of the tasks that are to take an interrupt.                  *)
IntTasks(s) == {i \in DOMAIN s : s[i] = "INT"}

(* "add" comes with a SIGINT only, and the signal thread alone counts up.  *)
IntInv ==
  /\ tasks \in Seq(Tasks) /\ batch \in 0 .. Len(tasks)
  /\ interrupts \in Nat
  /\ pending \in SUBSET Signals /\ sig \in Signals
  /\ sigpc = "add" => sig = "INT"
  /\ InterruptIsFresh

(* There are finitely many of them.                                        *)
LEMMA IntTasksFinite ==
  ASSUME NEW s \in Seq(Tasks)
  PROVE  IsFiniteSet(IntTasks(s)) /\ Cardinality(IntTasks(s)) \in Nat
<1>1. IntTasks(s) \in SUBSET (1 .. Len(s)) /\ Len(s) \in Nat
  BY LenProperties DEF IntTasks
<1>2. IsFiniteSet(1 .. Len(s))
  BY <1>1, FS_Interval
<1> QED
  BY <1>1, <1>2, FS_Subset, FS_CardinalityType

(* One more is queued by a SIGINT, none by another signal or a failure.    *)
LEMMA IntTasksAppend ==
  ASSUME NEW s \in Seq(Tasks), NEW t \in Tasks
  PROVE  Cardinality(IntTasks(Append(s, t)))
           = Cardinality(IntTasks(s)) + (IF t = "INT" THEN 1 ELSE 0)
<1> DEFINE n == Len(s)
           r == Append(s, t)
<1>1. n \in Nat /\ DOMAIN s = 1 .. n /\ n + 1 \notin IntTasks(s)
  BY LenProperties DEF IntTasks
<1>2. /\ r \in Seq(Tasks) /\ Len(r) = n + 1 /\ r[n + 1] = t
      /\ \A i \in 1 .. n : r[i] = s[i]
  BY AppendProperties
<1>3. DOMAIN r = 1 .. n + 1
  BY <1>2, LenProperties
<1> HIDE DEF n, r
<1>4. IntTasks(r) = IF t = "INT" THEN IntTasks(s) \cup {n + 1} ELSE IntTasks(s)
  BY <1>1, <1>2, <1>3 DEF IntTasks
<1>5. IsFiniteSet(IntTasks(s)) /\ Cardinality(IntTasks(s)) \in Nat
  BY IntTasksFinite
<1>6. Cardinality(IntTasks(s) \cup {n + 1}) = Cardinality(IntTasks(s)) + 1
  BY <1>1, <1>5, FS_AddElement
<1>7. Cardinality(IntTasks(r)) = Cardinality(IntTasks(s)) + (IF t = "INT" THEN 1 ELSE 0)
  BY <1>4, <1>5, <1>6
<1> QED
  BY <1>7 DEF r

(* One is gone when it has run.                                            *)
LEMMA IntTasksTail ==
  ASSUME NEW s \in Seq(Tasks), s # <<>>
  PROVE  Cardinality(IntTasks(s))
           = Cardinality(IntTasks(Tail(s))) + (IF Head(s) = "INT" THEN 1 ELSE 0)
<1> DEFINE n == Len(s)
           r == Tail(s)
           S == IntTasks(r)
           T == IntTasks(s) \ {1}
           f == [i \in S |-> i + 1]
<1>1. /\ n \in Nat \ {0} /\ DOMAIN s = 1 .. n /\ Head(s) = s[1]
      /\ r \in Seq(Tasks) /\ Len(r) = n - 1 /\ \A i \in 1 .. n - 1 : r[i] = s[i + 1]
  BY LenProperties, EmptySeq, HeadTailProperties
<1>2. DOMAIN r = 1 .. n - 1
  BY <1>1, LenProperties
<1> HIDE DEF n, r
<1>3. S \subseteq 1 .. n - 1 /\ \A i \in S : i + 1 \in T
  BY <1>1, <1>2 DEF IntTasks
<1>4. \A j \in T : j - 1 \in S /\ (j - 1) + 1 = j
  BY <1>1, <1>2 DEF IntTasks
<1>5. f \in [S -> T] /\ \A j \in T : \E i \in S : f[i] = j
  BY <1>3, <1>4
<1>6. \A i, j \in S : f[i] = f[j] => i = j
  BY <1>1, <1>3
<1> HIDE DEF S, T, f
<1>7. ExistsBijection(S, T)
  <2>1. f \in Bijection(S, T)
    BY <1>5, <1>6, Fun_IsBij
  <2> QED
    BY <2>1 DEF ExistsBijection
<1>8. /\ IsFiniteSet(S) /\ IsFiniteSet(IntTasks(s))
      /\ Cardinality(S) \in Nat /\ Cardinality(IntTasks(s)) \in Nat
  BY <1>1, IntTasksFinite DEF S
<1>9. Cardinality(T) = Cardinality(S)
  BY <1>7, <1>8, FS_Bijection
<1>10. Cardinality(T) = IF 1 \in IntTasks(s) THEN Cardinality(IntTasks(s)) - 1 ELSE Cardinality(IntTasks(s))
  BY <1>8, FS_RemoveElement DEF T
<1>11. 1 \in IntTasks(s) <=> Head(s) = "INT"
  BY <1>1 DEF IntTasks
<1>12. Cardinality(IntTasks(s)) = Cardinality(S) + (IF Head(s) = "INT" THEN 1 ELSE 0)
  BY <1>8, <1>9, <1>10, <1>11
<1> QED
  BY <1>12 DEF S, r

-----------------------------------------------------------------------------
(* At first nothing has been counted.                                      *)
LEMMA InitInt == Init => IntInv
<1> SUFFICES ASSUME Init
             PROVE  IntInv
  OBVIOUS
<1>1. tasks = <<>> /\ batch = 0 /\ interrupts = 0 /\ sigpc = "wait"
  BY DEF Init
<1>2. tasks \in Seq(Tasks) /\ Len(tasks) = 0 /\ batch \in 0 .. Len(tasks)
  BY <1>1, EmptySeq
<1>3. Cardinality(IntTasks(tasks)) \in Nat
  BY <1>2, IntTasksFinite
<1>4. InterruptIsFresh
  BY <1>1, <1>3 DEF InterruptIsFresh, IntTasks
<1>5. pending \in SUBSET Signals /\ sig \in Signals
  BY DEF Init, Signals
<1> QED
  BY <1>1, <1>2, <1>4, <1>5 DEF IntInv

(* Steps that leave the tasks alone and count nothing.                     *)
LEMMA SameInt ==
  ASSUME IntInv, UNCHANGED <<tasks, batch, interrupts, pending, sigpc, sig>>
  PROVE  IntInv'
  BY DEF IntInv, InterruptIsFresh

(* The signal thread counts the interrupt, then posts its task.            *)
LEMMA SignalThreadInt ==
  ASSUME IntInv, SignalThread
  PROVE  IntInv'
<1>1. /\ IsFiniteSet(IntTasks(tasks)) /\ Cardinality(IntTasks(tasks)) \in Nat
      /\ interrupts <= Cardinality(IntTasks(tasks)) + (IF sigpc = "post" /\ sig = "INT" THEN 1 ELSE 0)
      /\ tasks \in Seq(Tasks) /\ batch \in 0 .. Len(tasks) /\ interrupts \in Nat
      /\ pending \in SUBSET Signals /\ sig \in Signals
      /\ (sigpc = "add" => sig = "INT")
  BY IntTasksFinite DEF IntInv, InterruptIsFresh, IntTasks
<1>2. CASE SigWait
  <2>1. /\ sigpc = "wait" /\ UNCHANGED <<tasks, batch, interrupts>>
        /\ sig' \in Signals /\ pending' \in SUBSET Signals
        /\ sigpc' = IF sig' = "INT" THEN "add" ELSE "post"
    BY <1>1, <1>2 DEF SigWait, outside, mainVars, Signals
  <2>2. InterruptIsFresh'
    BY <1>1, <2>1 DEF InterruptIsFresh, IntTasks
  <2> QED
    BY <1>1, <2>1, <2>2 DEF IntInv
<1>3. CASE SigAdd
  <2>1. /\ sigpc = "add" /\ sigpc' = "post" /\ interrupts' = interrupts + 1
        /\ UNCHANGED <<tasks, batch, pending, sig>>
    BY <1>3 DEF SigAdd, outside, mainVars
  <2>2. InterruptIsFresh'
    BY <1>1, <2>1 DEF InterruptIsFresh, IntTasks
  <2> QED
    BY <1>1, <2>1, <2>2 DEF IntInv
<1>4. CASE SigPost
  <2>1. /\ sigpc = "post" /\ sigpc' \in {"dead", "wait"} /\ tasks' = Append(tasks, sig)
        /\ UNCHANGED <<batch, interrupts, pending, sig>>
    BY <1>4 DEF SigPost, outside, mainVars
  <2>2. tasks' \in Seq(Tasks) /\ Len(tasks') = Len(tasks) + 1 /\ sig \in Tasks
    BY <1>1, <2>1, AppendProperties DEF Tasks
  <2>3. Cardinality(IntTasks(tasks')) = Cardinality(IntTasks(tasks)) + (IF sig = "INT" THEN 1 ELSE 0)
    BY <1>1, <2>1, <2>2, IntTasksAppend
  <2>4. InterruptIsFresh'
    <3>1. interrupts' <= Cardinality(IntTasks(tasks')) /\ sigpc' # "post"
      <4>1. CASE sig = "INT"
        BY <1>1, <2>1, <2>3, <4>1
      <4>2. CASE sig # "INT"
        BY <1>1, <2>1, <2>3, <4>2
      <4> QED
        BY <4>1, <4>2
    <3>2. Cardinality(IntTasks(tasks')) \in Nat
      BY <2>2, IntTasksFinite
    <3>3. interrupts' \in Nat
      BY <1>1, <2>1
    <3> QED
      BY <3>1, <3>2, <3>3 DEF InterruptIsFresh, IntTasks
  <2>5. batch' \in 0 .. Len(tasks')
    <3>1. Len(tasks) \in Nat
      BY <1>1, LenProperties
    <3> QED
      BY <1>1, <2>1, <2>2, <3>1
  <2> QED
    BY <1>1, <2>1, <2>2, <2>4, <2>5 DEF IntInv
<1> QED
  BY <1>2, <1>3, <1>4 DEF SignalThread

(* An iteration runs the tasks; that of a SIGINT takes what is counted.    *)
LEMMA RunTaskInt ==
  ASSUME IntInv, RunTask
  PROVE  IntInv'
<1>1. /\ batch > 0 /\ batch' = batch - 1 /\ tasks' = Tail(tasks)
      /\ interrupts' = (IF Head(tasks) = "INT" /\ interrupts > 0 THEN interrupts - 1 ELSE interrupts)
      /\ UNCHANGED <<pending, sigpc, sig>>
  <2>1. interrupts \in Nat
    BY DEF IntInv
  <2> QED
    BY <2>1 DEF RunTask, Running, TakeInterrupt, sigVars
<1>2. /\ tasks \in Seq(Tasks) /\ batch \in 0 .. Len(tasks) /\ interrupts \in Nat /\ Len(tasks) \in Nat
      /\ interrupts <= Cardinality(IntTasks(tasks)) + (IF sigpc = "post" /\ sig = "INT" THEN 1 ELSE 0)
  BY LenProperties DEF IntInv, InterruptIsFresh, IntTasks
<1>3. tasks # <<>>
  BY <1>1, <1>2, EmptySeq
<1>4. tasks' \in Seq(Tasks) /\ Len(tasks') = Len(tasks) - 1
  BY <1>1, <1>2, <1>3, HeadTailProperties
<1>5. /\ Cardinality(IntTasks(tasks)) = Cardinality(IntTasks(tasks')) + (IF Head(tasks) = "INT" THEN 1 ELSE 0)
      /\ Cardinality(IntTasks(tasks')) \in Nat
  BY <1>1, <1>2, <1>3, <1>4, IntTasksTail, IntTasksFinite
<1>6. interrupts' <= Cardinality(IntTasks(tasks')) + (IF sigpc = "post" /\ sig = "INT" THEN 1 ELSE 0)
  BY <1>1, <1>2, <1>5
<1>7. InterruptIsFresh'
  BY <1>1, <1>6 DEF InterruptIsFresh, IntTasks
<1>8. batch' \in 0 .. Len(tasks') /\ interrupts' \in Nat
  BY <1>1, <1>2, <1>4
<1> QED
  BY <1>1, <1>4, <1>7, <1>8 DEF IntInv

(* A search that is interrupted takes one without its task.                *)
LEMMA SearchInterruptedInt ==
  ASSUME IntInv, SearchInterrupted
  PROVE  IntInv'
<1>1. /\ interrupts' = interrupts - 1 /\ interrupts > 0 /\ interrupts \in Nat
      /\ UNCHANGED <<tasks, batch, pending, sigpc, sig>>
  BY DEF SearchInterrupted, Running, TakeInterrupt, sigVars, IntInv
<1>2. Cardinality(IntTasks(tasks)) \in Nat
  BY IntTasksFinite DEF IntInv
<1>3. InterruptIsFresh'
  BY <1>1, <1>2 DEF InterruptIsFresh, IntTasks, IntInv
<1> QED
  BY <1>1, <1>3 DEF IntInv

(* The logging thread may report a failure.                                *)
LEMMA LogWriteInt ==
  ASSUME IntInv, LogWrite
  PROVE  IntInv'
<1>1. UNCHANGED <<batch, interrupts, pending, sigpc, sig>>
  BY DEF LogWrite, mainVars, sigVars
<1>2. CASE UNCHANGED tasks
  BY <1>1, <1>2, SameInt
<1>3. CASE tasks' = Append(tasks, "logerror")
  <2>1. tasks \in Seq(Tasks) /\ batch \in 0 .. Len(tasks) /\ Len(tasks) \in Nat /\ "logerror" \in Tasks
    BY LenProperties DEF IntInv, Tasks
  <2>2. tasks' \in Seq(Tasks) /\ Len(tasks') = Len(tasks) + 1
    BY <1>3, <2>1, AppendProperties
  <2>3. /\ Cardinality(IntTasks(tasks')) = Cardinality(IntTasks(tasks))
        /\ Cardinality(IntTasks(tasks)) \in Nat
    BY <1>3, <2>1, IntTasksAppend, IntTasksFinite
  <2>4. InterruptIsFresh'
    BY <1>1, <2>3 DEF InterruptIsFresh, IntTasks, IntInv
  <2>5. batch' \in 0 .. Len(tasks')
    BY <1>1, <2>1, <2>2
  <2> QED
    BY <1>1, <2>2, <2>4, <2>5 DEF IntInv
<1> QED
  BY <1>2, <1>3 DEF LogWrite

(* Every step keeps the invariant.                                         *)
LEMMA IntStep == IntInv /\ [Next]_vars => IntInv'
<1> SUFFICES ASSUME IntInv, [Next]_vars
             PROVE  IntInv'
  OBVIOUS
<1>1. CASE \E s \in Signals : Raise(s)
  <2>1. PICK s \in Signals : Raise(s)
    BY <1>1
  <2>2. /\ pending' \in SUBSET Signals
        /\ UNCHANGED <<tasks, batch, interrupts, sigpc, sig>>
    BY <2>1 DEF Raise, mainVars, IntInv
  <2> QED
    BY <2>2 DEF IntInv, InterruptIsFresh
<1>2. CASE StartupQuit \/ StartupFinish \/ Key \/ Redraw \/ SearchEnds
  BY <1>2, SameInt DEF StartupQuit, StartupFinish, Key, Redraw, SearchEnds, Running, sigVars, mainVars
<1>3. CASE EndIteration \/ JoinSignalThread \/ LogQuit \/ JoinLogThread \/ LogStop
  BY <1>3, SameInt DEF EndIteration, JoinSignalThread, LogQuit, JoinLogThread, LogStop, shutdown,
                       sigVars, mainVars
<1>4. CASE BeginIteration
  <2>1. batch' = Len(tasks) /\ UNCHANGED <<tasks, interrupts, pending, sigpc, sig>>
    BY <1>4 DEF BeginIteration, Running, sigVars
  <2>2. Len(tasks) \in Nat
    BY LenProperties DEF IntInv
  <2> QED
    BY <2>1, <2>2 DEF IntInv, InterruptIsFresh
<1>5. CASE UNCHANGED vars
  BY <1>5, SameInt DEF vars, mainVars, sigVars
<1> QED
  BY <1>1, <1>2, <1>3, <1>4, <1>5, SignalThreadInt, RunTaskInt, SearchInterruptedInt, LogWriteInt
     DEF Next, MainThread, LogThread

(* sig_handler counts before it posts, and whoever takes an interrupt      *)
(* early leaves its task to find none: no interrupt outlives its signal.   *)
THEOREM NoStaleInterrupt == Spec => []InterruptIsFresh
<1>1. IntInv => InterruptIsFresh
  BY DEF IntInv
<1> QED
  BY InitInt, IntStep, <1>1, PTL DEF Spec
=============================================================================
