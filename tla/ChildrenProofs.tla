--------------------------- MODULE ChildrenProofs ---------------------------
(***************************************************************************)
(* The safety properties of what runs child processes: pop-ups (Popexec),  *)
(* for any number of commands and any sizes of the pipe and of the reads,  *)
(* the program for new messages (NewMsgProc), for any number of messages,  *)
(* changes of the setting and processes, and a text piped through a        *)
(* command (FilterProc), for any length of the text, any pipe and reads.   *)
(***************************************************************************)
EXTENDS Popexec, NewMsgProc, FilterProc, SequenceTheorems, TLAPS

-----------------------------------------------------------------------------
(* Popexec: the output of a command in a pop-up.                           *)
(* Who refers to whom: the watch exists while its id is kept, and then the *)
(* window is open and the child not reaped; the handler is between two     *)
(* system calls only while the watch exists.                               *)
Ownership ==
  /\ source <=> ioWatch = "set"
  /\ source => pid /\ winactive
  /\ winactive => win = "open"
  /\ pid <=> child \in {"running", "zombie"}
  /\ win = "closing" => pid
  /\ win = "closed" => ~pid
  /\ pc # "loop" => source

(* What has been written is in the window or in the pipe; the handler's    *)
(* look at the pipe stays true of it, because the poll does not wake it on *)
(* an empty pipe that somebody can still write to.                         *)
Flow ==
  /\ source => shown + avail = written
  /\ pc # "loop" => navail <= avail
  /\ pc = "checked" /\ navail = 0 => writers = {} /\ avail = 0

(* The type invariant in three parts: flags, numbers and labels.           *)
Flags ==
  /\ winactive \in BOOLEAN /\ pid \in BOOLEAN /\ source \in BOOLEAN
  /\ strayed \in BOOLEAN /\ reached \in BOOLEAN
  /\ obedient \in BOOLEAN /\ termed \in BOOLEAN

Numbers ==
  /\ refcount \in 0 .. 2
  /\ avail \in 0 .. PipeSize /\ written \in 0 .. MaxWritten /\ shown \in 0 .. MaxWritten
  /\ navail \in 0 .. PipeSize /\ runs \in 0 .. MaxRuns

Labels ==
  /\ win \in {"closed", "open", "closing"} /\ ioWatch \in {"none", "set", "unset"}
  /\ child \in {"none", "running", "zombie", "reaped"} /\ writers \in SUBSET Writers
  /\ pc \in {"loop", "checked", "reading"}

(* The type invariant in three parts.                                      *)
LEMMA TypeParts == TypeOK <=> Flags /\ Numbers /\ Labels
BY Zenon DEF TypeOK, Flags, Numbers, Labels

(* The same of the next state.                                             *)
LEMMA TypePartsNext == TypeOK' <=> Flags' /\ Numbers' /\ Labels'
BY Zenon DEF TypeOK, Flags, Numbers, Labels

IInv ==
  /\ TypeOK /\ Ownership /\ Flow
  /\ RefcountIsExact /\ AssertedPointNotReached /\ OutputIsComplete

(* Before anything is run, nothing is referenced.                          *)
LEMMA InitEstablishesIInv == Init => IInv
<1> SUFFICES ASSUME Init PROVE IInv
  OBVIOUS
<1>1. TypeOK
  <2>1. Flags
    BY Zenon DEF Init, Flags
  <2>2. Numbers
    BY BoundsAssumption DEF Init, Numbers
  <2>3. Labels
    BY DEF Init, Labels
  <2> QED BY <2>1, <2>2, <2>3, TypeParts
<1>2. Ownership
  BY DEF Init, Ownership
<1>3. Flow
  BY DEF Init, Flow
<1>4. RefcountIsExact
  BY DEF Init, RefcountIsExact
<1>5. AssertedPointNotReached /\ OutputIsComplete
  BY DEF Init, AssertedPointNotReached, OutputIsComplete
<1> QED BY <1>1, <1>2, <1>3, <1>4, <1>5 DEF IInv

(* A new pop-up starts from nothing.                                       *)
LEMMA NewKeepsIInv ==
  ASSUME IInv, NewWithChild \/ NewWithoutChild
  PROVE  IInv'
<1>1. CASE NewWithChild
  <2>1. Flags'
    BY <1>1, TypeParts, Zenon DEF IInv, Flags, NewWithChild, Open, Writers
  <2>2. Numbers' /\ Labels'
    BY <1>1, TypeParts, BoundsAssumption
    DEF IInv, Numbers, Labels, Ownership, Flow, RefcountIsExact, NewWithChild, Open, Writers
  <2>3. Ownership' /\ Flow' /\ RefcountIsExact'
    BY <1>1, TypeParts, BoundsAssumption
    DEF IInv, Numbers, Labels, Ownership, Flow, RefcountIsExact, NewWithChild, Open, Writers
  <2>4. AssertedPointNotReached' /\ OutputIsComplete'
    BY <1>1 DEF IInv, Ownership, Flow, AssertedPointNotReached, OutputIsComplete, NewWithChild, Open, Writers
  <2> QED BY <2>1, <2>2, <2>3, <2>4, TypePartsNext DEF IInv
<1>2. CASE NewWithoutChild
  <2>1. Flags'
    BY <1>2, TypeParts, Zenon DEF IInv, Flags, NewWithoutChild, Open
  <2>2. Numbers' /\ Labels'
    BY <1>2, TypeParts, BoundsAssumption
    DEF IInv, Numbers, Labels, Ownership, Flow, RefcountIsExact, NewWithoutChild, Open
  <2>3. Ownership' /\ Flow' /\ RefcountIsExact'
    BY <1>2, TypeParts, BoundsAssumption
    DEF IInv, Numbers, Labels, Ownership, Flow, RefcountIsExact, NewWithoutChild, Open
  <2>4. AssertedPointNotReached' /\ OutputIsComplete'
    BY <1>2 DEF IInv, Ownership, Flow, AssertedPointNotReached, OutputIsComplete, NewWithoutChild, Open
  <2> QED BY <2>1, <2>2, <2>3, <2>4, TypePartsNext DEF IInv
<1> QED BY <1>1, <1>2

(* The command's own steps change the pipe and the child, and nothing that *)
(* the handler has seen to be over.                                        *)
LEMMA CommandKeepsIInv ==
  ASSUME IInv, Command \/ Terminate
  PROVE  IInv'
<1> USE DEF running, peVars
<1>1. CASE Write
  BY <1>1, BoundsAssumption
  DEF Write, IInv, TypeOK, Ownership, Flow, RefcountIsExact,
      AssertedPointNotReached, OutputIsComplete
<1>2. CASE Spawn
  BY <1>2 DEF Spawn, IInv, TypeOK, Ownership, Flow, RefcountIsExact,
              AssertedPointNotReached, OutputIsComplete, Writers
<1>3. ASSUME NEW w \in Writers, CloseOutput(w) PROVE IInv'
  BY <1>3 DEF CloseOutput, IInv, TypeOK, Ownership, Flow, RefcountIsExact,
              AssertedPointNotReached, OutputIsComplete
<1>4. CASE Exit
  BY <1>4 DEF Exit, IInv, TypeOK, Ownership, Flow, RefcountIsExact,
              AssertedPointNotReached, OutputIsComplete
<1> QED BY <1>1, <1>2, <1>3, <1>4 DEF Command, Terminate

(* The handler of the pipe, at each of its stages.                         *)
LEMMA HandlerKeepsIInv ==
  ASSUME IInv, Handler
  PROVE  IInv'
<1> USE DEF peVars, childVars, DestroySource, Unref
<1>1. CASE HandlerStart
  BY <1>1 DEF HandlerStart, Ready, IInv, TypeOK, Ownership, Flow, RefcountIsExact,
              AssertedPointNotReached, OutputIsComplete
<1>2. CASE HandlerReap
  <2>1. Flags'
    BY <1>2, TypeParts, Zenon DEF IInv, Flags, HandlerReap
  <2>2. Numbers' /\ Labels'
    BY <1>2, TypeParts, BoundsAssumption
    DEF IInv, Numbers, Labels, Ownership, Flow, RefcountIsExact, HandlerReap
  <2>3. Ownership' /\ Flow' /\ RefcountIsExact'
    BY <1>2, TypeParts, BoundsAssumption
    DEF IInv, Numbers, Labels, Ownership, Flow, RefcountIsExact, HandlerReap
  <2>4. AssertedPointNotReached' /\ OutputIsComplete'
    BY <1>2, TypeParts, BoundsAssumption
    DEF IInv, Numbers, Ownership, Flow, AssertedPointNotReached, OutputIsComplete, HandlerReap
  <2> QED BY <2>1, <2>2, <2>3, <2>4, TypePartsNext DEF IInv
<1>3. CASE HandlerGoOn
  BY <1>3, BoundsAssumption
  DEF HandlerGoOn, IInv, TypeOK, Ownership, Flow, RefcountIsExact,
      AssertedPointNotReached, OutputIsComplete
<1>4. CASE HandlerRead
  BY <1>4, BoundsAssumption
  DEF HandlerRead, IInv, TypeOK, Ownership, Flow, RefcountIsExact,
      AssertedPointNotReached, OutputIsComplete
<1> QED BY <1>1, <1>2, <1>3, <1>4 DEF Handler

(* The closing of the window, with and without a child to reap.            *)
LEMMA CloseKeepsIInv ==
  ASSUME IInv, Close \/ CloseReap
  PROVE  IInv'
<1>1. CASE Close
  <2>1. Flags'
    BY <1>1, TypeParts, Zenon DEF IInv, Flags, Close, WatchReference, WindowReference
  <2>2. Numbers' /\ Labels'
    BY <1>1, TypeParts, BoundsAssumption
    DEF IInv, Numbers, Labels, Ownership, Flow, RefcountIsExact, Close, WatchReference, WindowReference
  <2>3. Ownership' /\ Flow' /\ RefcountIsExact'
    BY <1>1, TypeParts, BoundsAssumption
    DEF IInv, Numbers, Labels, Ownership, Flow, RefcountIsExact, Close, WatchReference, WindowReference
  <2>4. AssertedPointNotReached' /\ OutputIsComplete'
    BY <1>1 DEF IInv, Ownership, Flow, AssertedPointNotReached, OutputIsComplete, Close, WatchReference, WindowReference
  <2> QED BY <2>1, <2>2, <2>3, <2>4, TypePartsNext DEF IInv
<1>2. CASE CloseReap
  <2>1. Flags'
    BY <1>2, TypeParts, Zenon DEF IInv, Flags, CloseReap, Unref
  <2>2. Numbers' /\ Labels'
    BY <1>2, TypeParts, BoundsAssumption
    DEF IInv, Numbers, Labels, Ownership, Flow, RefcountIsExact, CloseReap, Unref
  <2>3. Ownership' /\ Flow' /\ RefcountIsExact'
    BY <1>2, TypeParts, BoundsAssumption
    DEF IInv, Numbers, Labels, Ownership, Flow, RefcountIsExact, CloseReap, Unref
  <2>4. AssertedPointNotReached' /\ OutputIsComplete'
    BY <1>2 DEF IInv, Ownership, Flow, AssertedPointNotReached, OutputIsComplete, CloseReap, Unref
  <2> QED BY <2>1, <2>2, <2>3, <2>4, TypePartsNext DEF IInv
<1> QED BY <1>1, <1>2

(* Every step keeps the inductive invariant.                               *)
LEMMA NextKeepsIInv == IInv /\ [Next]_vars => IInv'
<1> SUFFICES ASSUME IInv, [Next]_vars PROVE IInv'
  OBVIOUS
<1>1. CASE Over \/ UNCHANGED vars
  BY <1>1 DEF Over, vars, peVars, childVars, IInv, TypeOK, Ownership, Flow, RefcountIsExact,
              AssertedPointNotReached, OutputIsComplete
<1> QED
  BY <1>1, NewKeepsIInv, CommandKeepsIInv, HandlerKeepsIInv, CloseKeepsIInv DEF Next

(* The variables of the pop-up keep their types.                           *)
THEOREM TypeCorrect == Spec => []TypeOK
<1>1. IInv => TypeOK
  BY DEF IInv
<1> QED BY InitEstablishesIInv, NextKeepsIInv, <1>1, PTL DEF Spec

(* owl_popexec_unref frees the owl_popexec when its window and its watch   *)
(* are gone, and not before.                                               *)
THEOREM CountIsExact == Spec => []RefcountIsExact
<1>1. IInv => RefcountIsExact
  BY DEF IInv
<1> QED BY InitEstablishesIInv, NextKeepsIInv, <1>1, PTL DEF Spec

(* owl_popexec_inputhandler loses no output when it reaps the child.       *)
THEOREM NoOutputIsLost == Spec => []OutputIsComplete
<1>1. IInv => OutputIsComplete
  BY DEF IInv
<1> QED BY InitEstablishesIInv, NextKeepsIInv, <1>1, PTL DEF Spec

(* The error the handler reports as impossible is impossible.              *)
THEOREM PointIsNotReached == Spec => []AssertedPointNotReached
<1>1. IInv => AssertedPointNotReached
  BY DEF IInv
<1> QED BY InitEstablishesIInv, NextKeepsIInv, <1>1, PTL DEF Spec

(* Closing the window leaves no process, no watch and no object behind.    *)
THEOREM ClosingIsClean == Spec => []ClosedIsClean
<1>1. IInv => ClosedIsClean
  BY DEF IInv, Ownership, RefcountIsExact, ClosedIsClean, TypeOK
<1> QED BY InitEstablishesIInv, NextKeepsIInv, <1>1, PTL DEF Spec

(* Every step of the pop-up is a step of the stream of output, or none.    *)
LEMMA NextImplementsStream ==
  ASSUME IInv, [Next]_vars
  PROVE  [Stream!Next]_Stream!vars
<1> USE DEF StreamState, Stream!Next, Stream!vars
<1>0. /\ written \in Nat /\ shown \in Nat /\ navail \in Nat /\ avail \in Nat
      /\ Ownership /\ Flow
  BY TypeParts, BoundsAssumption DEF IInv, Numbers
<1>1. CASE NewWithChild \/ NewWithoutChild
  BY <1>1 DEF NewWithChild, NewWithoutChild, Open, Stream!Start
<1>2. CASE Write
  BY <1>0, <1>2 DEF Write, running, peVars, Ownership, Stream!Produce
<1>3. CASE Spawn \/ Exit \/ Terminate \/ (\E w \in Writers : CloseOutput(w))
  BY <1>3 DEF Spawn, Exit, Terminate, CloseOutput, running, peVars
<1>4. CASE HandlerStart
  BY <1>0, <1>4 DEF HandlerStart, Ready, childVars, Ownership
<1>5. CASE HandlerReap
  BY <1>0, <1>5
  DEF HandlerReap, DestroySource, Ownership, Flow, Stream!End
<1>6. CASE HandlerGoOn
  BY <1>0, <1>6 DEF HandlerGoOn, childVars, Ownership
<1>7. CASE HandlerRead
  <2>1. shown' \in shown .. written
    BY <1>0, <1>7 DEF HandlerRead, Ownership, Flow
  <2> QED
    BY <1>0, <1>7, <2>1 DEF HandlerRead, peVars, childVars, Ownership, Stream!Deliver
<1>8. CASE Close
  BY <1>8 DEF Close, Stream!Close
<1>9. CASE CloseReap \/ Over \/ UNCHANGED vars
  BY <1>9 DEF CloseReap, Over, vars, peVars, childVars
<1> QED
  BY <1>1, <1>2, <1>3, <1>4, <1>5, <1>6, <1>7, <1>8, <1>9 DEF Next, Command, Handler

(* The pop-up shows its command's output as a stream: in order, each block *)
(* once, and it ends by itself only when all of it is shown.               *)
THEOREM OutputIsAStream == Spec => ImplementsStream
<1>1. Init => Stream!Init
  BY DEF Init, StreamState, Stream!Init
<1> QED
  BY InitEstablishesIInv, NextKeepsIInv, NextImplementsStream, <1>1, PTL
  DEF Spec, ImplementsStream, Stream!Spec

-----------------------------------------------------------------------------
(* NewMsgProc: the program for new messages.                               *)
NewsSpec == NewsInit /\ [][NewsNext]_newsVars

Fates == {"running", "ended", "reaped"}

NewsTypeOK ==
  /\ newmsgproc \in {"not set", "unbalanced", "program"}
  /\ children \in Seq(Fates)
  /\ newmsgproc_pid \in 0 .. Len(children)

NewsInv == NewsTypeOK /\ OneInstanceRuns

-----------------------------------------------------------------------------
(* waitpid says -1 of a process that has been reaped and of no other.      *)
LEMMA WaitpidAnswers ==
  ASSUME NEW process \in Fates, NEW answer \in Waitpid(process)
  PROVE  /\ answer[1] \in Fates
         /\ answer[2] = "-1" <=> process = "reaped"
         /\ process = "reaped" => answer[1] = "reaped"
  BY DEF Waitpid, Fates

(* So it is after three calls: a process that is gone is a reaped one.     *)
LEMMA CheckedAnswers ==
  ASSUME NEW process \in Fates, NEW check \in Checked(process)
  PROVE  /\ check[1] \in Fates
         /\ IsGone(check[2]) => check[1] = "reaped"
<1>1. PICK first \in Waitpid(process) : \E second \in Waitpid(first[1]) : check \in Waitpid(second[1])
  BY DEF Checked
<1>2. first[1] \in Fates
  BY WaitpidAnswers
<1>3. PICK second \in Waitpid(first[1]) : check \in Waitpid(second[1])
  BY <1>1
<1>4. second[1] \in Fates
  BY <1>2, WaitpidAnswers
<1> QED
  BY <1>3, <1>4, WaitpidAnswers DEF IsGone

(* A program is started where all the former ones have been reaped.        *)
LEMMA SpawnKeeps ==
  ASSUME NEW kids \in Seq(Fates), \A i \in DOMAIN kids : kids[i] = "reaped",
         NewsTypeOK, SpawnProgram(kids), UNCHANGED newmsgproc
  PROVE  NewsInv'
<1>1. PICK started \in BOOLEAN :
        /\ children' = IF started THEN Append(kids, "running") ELSE kids
        /\ newmsgproc_pid' = IF started THEN Len(kids) + 1 ELSE 0
  BY DEF SpawnProgram
<1>2. CASE started
  <2>1. /\ children' = Append(kids, "running") /\ newmsgproc_pid' = Len(kids) + 1
        /\ children' \in Seq(Fates) /\ Len(children') = Len(kids) + 1
        /\ \A i \in 1 .. Len(kids) : children'[i] = kids[i]
    BY <1>1, <1>2 DEF Fates
  <2>2. newmsgproc_pid' \in 0 .. Len(children')
    BY <2>1
  <2>3. \A i \in DOMAIN children' : children'[i] = "reaped" \/ i = newmsgproc_pid'
    BY <2>1
  <2> QED
    BY <2>1, <2>2, <2>3 DEF NewsInv, NewsTypeOK, OneInstanceRuns
<1>3. CASE ~started
  <2>1. children' = kids /\ newmsgproc_pid' = 0
    BY <1>1, <1>3
  <2>2. newmsgproc_pid' \in 0 .. Len(children')
    BY <2>1
  <2> QED
    BY <2>1, <2>2 DEF NewsInv, NewsTypeOK, OneInstanceRuns
<1> QED
  BY <1>2, <1>3

(* At first nothing has been started.                                     *)
LEMMA InitNews == NewsInit => NewsInv
<1> SUFFICES ASSUME NewsInit
             PROVE  NewsInv
  OBVIOUS
<1>1. children = <<>> /\ newmsgproc_pid = 0
  BY DEF NewsInit
<1>2. children \in Seq(Fates) /\ Len(children) = 0
  BY <1>1, EmptySeq
<1>3. DOMAIN children = {} /\ newmsgproc_pid \in 0 .. Len(children)
  BY <1>1, <1>2, LenProperties
<1>4. NewsTypeOK
  BY <1>2, <1>3 DEF NewsInit, NewsTypeOK
<1>5. OneInstanceRuns
  BY <1>3, Zenon DEF OneInstanceRuns
<1> QED
  BY <1>4, <1>5 DEF NewsInv

(* Messages come in while an instance may run.                             *)
LEMMA DoNewmsgprocKeeps ==
  ASSUME NewsInv, DoNewmsgproc
  PROVE  NewsInv'
<1> DEFINE number == newmsgproc_pid
           n   == Len(children)
<1>1. /\ UNCHANGED newmsgproc
      /\ children \in Seq(Fates) /\ n \in Nat /\ DOMAIN children = 1 .. n
      /\ number \in 0 .. n
      /\ \A i \in 1 .. n : children[i] = "reaped" \/ i = number
  BY LenProperties DEF DoNewmsgproc, NewsInv, NewsTypeOK, OneInstanceRuns
<1>2. CASE newmsgproc = "not set"
  BY <1>1, <1>2 DEF DoNewmsgproc, NewsInv, NewsTypeOK, OneInstanceRuns
<1>3. CASE newmsgproc # "not set" /\ number = 0
  <2>1. number = 0
    BY <1>3
  <2>2. SpawnProgram(children)
    BY <1>3 DEF DoNewmsgproc
  <2>3. \A i \in 1 .. n : i # 0
    BY <1>1
  <2>4. \A i \in DOMAIN children : children[i] = "reaped"
    BY <1>1, <2>1, <2>3, Zenon
  <2> QED
    BY <1>1, <2>2, <2>4, SpawnKeeps DEF NewsInv
<1>4. CASE newmsgproc # "not set" /\ number # 0
  <2> DEFINE kids(check) == [children EXCEPT ![number] = check[1]]
  <2> HIDE DEF number, n
  <2>1. number \in 1 .. n
    <3>1. number # 0
      BY <1>4
    <3>2. number \in 0 .. n /\ n \in Nat
      BY <1>1
    <3> QED
      BY <3>1, <3>2
  <2> USE DEF number, n
  <2>2. children[number] \in Fates
    BY <1>1, <2>1, ElementOfSeq
  <2>3. PICK check \in Checked(children[number]) :
          IF IsGone(check[2]) THEN SpawnProgram(kids(check))
          ELSE children' = kids(check) /\ UNCHANGED newmsgproc_pid
    BY <1>4 DEF DoNewmsgproc
  <2>4. check[1] \in Fates /\ (IsGone(check[2]) => check[1] = "reaped")
    BY <2>2, CheckedAnswers
  <2>5. /\ kids(check) \in Seq(Fates) /\ Len(kids(check)) = n
        /\ \A i \in 1 .. n : kids(check)[i] = IF i = number THEN check[1] ELSE children[i]
    BY <1>1, <2>1, <2>4, ExceptSeq
  <2> HIDE DEF kids
  <2>6. DOMAIN kids(check) = 1 .. n /\ \A i \in 1 .. n : i # number => kids(check)[i] = "reaped"
    BY <1>1, <2>5, LenProperties
  <2>7. CASE IsGone(check[2])
    <3>1. \A i \in DOMAIN kids(check) : kids(check)[i] = "reaped"
      BY <2>4, <2>5, <2>6, <2>7
    <3> QED
      BY <1>1, <2>3, <2>5, <2>7, <3>1, SpawnKeeps DEF NewsInv
  <2>8. CASE ~IsGone(check[2])
    <3>1. children' = kids(check) /\ newmsgproc_pid' = number
      BY <2>3, <2>8
    <3> QED
      BY <1>1, <2>5, <2>6, <3>1 DEF NewsInv, NewsTypeOK, OneInstanceRuns
  <2> QED
    BY <2>7, <2>8
<1> QED
  BY <1>2, <1>3, <1>4

(* A process that ends is not reaped by it, nor does it get another number.*)
LEMMA ProgramEndsKeeps ==
  ASSUME NewsInv, ProgramEnds
  PROVE  NewsInv'
<1>1. PICK k \in DOMAIN children :
        /\ children[k] = "running" /\ children' = [children EXCEPT ![k] = "ended"]
        /\ UNCHANGED <<newmsgproc, newmsgproc_pid>>
  BY DEF ProgramEnds
<1>2. children \in Seq(Fates) /\ k \in 1 .. Len(children)
  BY LenProperties DEF NewsInv, NewsTypeOK
<1>3. /\ children' \in Seq(Fates) /\ Len(children') = Len(children)
      /\ \A i \in 1 .. Len(children) : children'[i] = IF i = k THEN "ended" ELSE children[i]
  BY <1>1, <1>2, ExceptSeq DEF Fates
<1>4. k = newmsgproc_pid
  BY <1>1 DEF NewsInv, OneInstanceRuns
<1>5. DOMAIN children' = 1 .. Len(children) /\ DOMAIN children = 1 .. Len(children)
  BY <1>2, <1>3, LenProperties
<1> QED
  BY <1>1, <1>3, <1>4, <1>5 DEF NewsInv, NewsTypeOK, OneInstanceRuns

(* Every step keeps the invariant.                                         *)
LEMMA NewsStep == NewsInv /\ [NewsNext]_newsVars => NewsInv'
<1> SUFFICES ASSUME NewsInv, [NewsNext]_newsVars
             PROVE  NewsInv'
  OBVIOUS
<1>1. CASE DoNewmsgproc
  BY <1>1, DoNewmsgprocKeeps
<1>2. CASE SetNewmsgproc
  BY <1>2 DEF SetNewmsgproc, NewsInv, NewsTypeOK, OneInstanceRuns
<1>3. CASE ProgramEnds
  BY <1>3, ProgramEndsKeeps
<1>4. CASE UNCHANGED newsVars
  BY <1>4 DEF newsVars, NewsInv, NewsTypeOK, OneInstanceRuns
<1> QED
  BY <1>1, <1>2, <1>3, <1>4 DEF NewsNext

(* "It will not be run again until the first instance exits" (variable.c), *)
(* and each instance is reaped before the next one is started.             *)
THEOREM OneProgramRuns == NewsSpec => []OneInstanceRuns
<1>1. NewsInv => OneInstanceRuns
  BY DEF NewsInv
<1> QED
  BY InitNews, NewsStep, <1>1, PTL DEF NewsSpec

(* The types of the setting, the number and the processes.                 *)
THEOREM NewsTypeCorrect == NewsSpec => []NewsTypeOK
<1>1. NewsInv => NewsTypeOK
  BY DEF NewsInv
<1> QED
  BY InitNews, NewsStep, <1>1, PTL DEF NewsSpec

-----------------------------------------------------------------------------
(* A process that has ended is reaped by the first call and found to be    *)
(* gone by the last.                                                       *)
LEMMA EndedIsGone ==
  ASSUME NEW process \in {"ended", "reaped"}, NEW check \in Checked(process)
  PROVE  IsGone(check[2])
<1>1. PICK first \in Waitpid(process) : \E second \in Waitpid(first[1]) : check \in Waitpid(second[1])
  BY DEF Checked
<1>2. first[1] = "reaped"
  BY DEF Waitpid
<1>3. PICK second \in Waitpid("reaped") : check \in Waitpid(second[1])
  BY <1>1, <1>2
<1>4. second[1] = "reaped"
  BY <1>3 DEF Waitpid
<1> QED
  BY <1>3, <1>4 DEF Waitpid, IsGone

(* Messages that come in when no instance runs start one, or the start     *)
(* fails; they never find the number of one that has ended (the last of    *)
(* the three calls of waitpid in owl_function_do_newmsgproc decides).      *)
THEOREM MessagesAreTold == NewsSpec => NewsAreTold
<1>1. ASSUME NewsInv, [NewsNext]_newsVars
      PROVE  [(/\ DoNewmsgproc /\ newmsgproc = "program"
               /\ \A i \in DOMAIN children : children[i] # "running")
               => newmsgproc_pid' \in {0, Len(children) + 1}]_newsVars
  <2> SUFFICES ASSUME DoNewmsgproc, newmsgproc = "program",
                      \A i \in DOMAIN children : children[i] # "running"
               PROVE  newmsgproc_pid' \in {0, Len(children) + 1}
    OBVIOUS
  <2>1. /\ children \in Seq(Fates) /\ DOMAIN children = 1 .. Len(children) /\ Len(children) \in Nat
        /\ newmsgproc_pid \in 0 .. Len(children)
    BY <1>1, LenProperties DEF NewsInv, NewsTypeOK
  <2>2. \A kids : Len(kids) = Len(children) /\ SpawnProgram(kids)
                   => newmsgproc_pid' \in {0, Len(children) + 1}
    BY DEF SpawnProgram
  <2>3. CASE newmsgproc_pid = 0
    <3>1. SpawnProgram(children)
      BY <2>3 DEF DoNewmsgproc
    <3> QED
      BY <2>2, <3>1
  <2>4. CASE newmsgproc_pid # 0
    <3> DEFINE number == newmsgproc_pid
               kids(check) == [children EXCEPT ![number] = check[1]]
    <3>1. number \in 1 .. Len(children)
      BY <2>1, <2>4
    <3>2. children[number] \in {"ended", "reaped"}
      BY <2>1, <3>1, ElementOfSeq DEF Fates
    <3>3. PICK check \in Checked(children[number]) :
            IF IsGone(check[2]) THEN SpawnProgram(kids(check))
            ELSE children' = kids(check) /\ UNCHANGED newmsgproc_pid
      BY <2>4 DEF DoNewmsgproc
    <3>4. check[1] \in Fates /\ IsGone(check[2])
      BY <3>2, CheckedAnswers, EndedIsGone DEF Fates
    <3>5. Len(kids(check)) = Len(children)
      BY <2>1, <3>1, <3>4, ExceptSeq
    <3> QED
      BY <2>2, <3>3, <3>4, <3>5
  <2> QED
    BY <2>3, <2>4
<1> QED
  BY InitNews, NewsStep, <1>1, PTL DEF NewsSpec, NewsAreTold

-----------------------------------------------------------------------------
(* FilterProc: a text piped through a child process.                       *)
Blocks == Seq(Nat)
Ends == [held : Blocks, reader : BOOLEAN, writer : BOOLEAN]

FilterTypeOK ==
  /\ caller \in [at : {"poll", "write", "read", "waitpid", "returned"}, text : Blocks,
                 revents : SUBSET {"in", "hup", "out"}, out : Blocks, str : Blocks]
  /\ stdin \in Ends /\ stdout \in Ends
  /\ filter \in [kind : Kinds, runs : BOOLEAN, read : Nat, todo : Blocks]

(* What the child has made of as much as it has read.                      *)
Before(kind) == IF kind = "banner" THEN Banner ELSE <<>>
Said(kind, text, n) ==
  IF kind = "silent" THEN <<>> ELSE Before(kind) \o SubSeq(text, 1, n)

(* What the child has not read is in the pipe or still to be written.      *)
InputFlows ==
  /\ Len(stdin.held) <= PipeRoom /\ filter.read <= Len(caller.text)
  /\ stdin.reader =>
       stdin.held \o caller.out = SubSeq(caller.text, filter.read + 1, Len(caller.text))
  /\ caller.at \in {"poll", "write", "read"} => (stdin.writer <=> caller.out # <<>>)

(* What the child has made is with the caller, in the pipe or to be said.  *)
OutputFlows ==
  (caller.str \o stdout.held) \o filter.todo = Said(filter.kind, caller.text, filter.read)

(* The child holds its ends while it runs, and a child that ends has made  *)
(* all it makes.                                                           *)
ChildIsTrue ==
  /\ stdin.reader <=> filter.runs
  /\ filter.kind = "silent" => ~stdout.writer
  /\ filter.kind # "silent" => (stdout.writer <=> filter.runs)
  /\ filter.kind = "head" => filter.read <= 1
  /\ ~filter.runs =>
       /\ filter.todo = <<>>
       /\ Said(filter.kind, caller.text, filter.read) = Made(filter.kind, caller.text)

(* A hang-up that poll told of is one, and what it did not tell of is not  *)
(* there: nobody writes after it.                                          *)
HangupIsTrue ==
  /\ caller.at \in {"write", "read"} /\ "hup" \in caller.revents =>
       ~stdout.writer /\ ("in" \notin caller.revents => stdout.held = <<>>)
  /\ caller.at \in {"waitpid", "returned"} =>
       stdout.held = <<>> /\ ~stdout.writer /\ ~stdout.reader /\ ~stdin.writer
  /\ caller.at = "returned" => ~filter.runs

FilterInv == FilterTypeOK /\ InputFlows /\ OutputFlows /\ ChildIsTrue /\ HangupIsTrue

(* A call that has returned has all that the child made of the text.       *)
AllIsReturned ==
  caller.at = "returned" =>
    /\ caller.str = Made(filter.kind, caller.text)
    /\ ~filter.runs /\ ~stdin.writer /\ ~stdout.reader

FilterProcSpec == FilterProcInit /\ [][FilterProcNext]_filterProcVars

(* A text cut in two.                                                      *)
LEMMA CutInTwo ==
  ASSUME NEW s \in Blocks, NEW n \in 0 .. Len(s)
  PROVE  /\ SubSeq(s, 1, n) \in Blocks /\ SubSeq(s, n + 1, Len(s)) \in Blocks
         /\ Len(SubSeq(s, 1, n)) = n
         /\ SubSeq(s, 1, n) \o SubSeq(s, n + 1, Len(s)) = s
<1>1. Len(s) \in Nat /\ \A i \in 1 .. Len(s) : s[i] \in Nat  BY LenProperties, ElementOfSeq DEF Blocks
<1>2. SubSeq(s, 1, n) \in Blocks /\ Len(SubSeq(s, 1, n)) = n
  <2>1. \A i \in 1 .. n : s[i] \in Nat  BY <1>1
  <2>. QED  BY <1>1, <2>1, SubSeqProperties DEF Blocks
<1>3. SubSeq(s, n + 1, Len(s)) \in Blocks
  <2>1. \A i \in n + 1 .. Len(s) : s[i] \in Nat  BY <1>1
  <2>. QED  BY <1>1, <2>1, SubSeqProperties DEF Blocks
<1>4. SubSeq(s, 1, n) \o SubSeq(s, n + 1, Len(s)) = SubSeq(s, 1, Len(s))
  <2>1. /\ 1 \in 1 .. Len(s) + 1 /\ n \in 1 - 1 .. Len(s) /\ Len(s) \in n .. Len(s)
        /\ s \in Seq(Nat)
    BY <1>1 DEF Blocks
  <2>. QED  BY <2>1, ConcatAdjacentSubSeq
<1>. QED  BY <1>2, <1>3, <1>4, SubSeqFull DEF Blocks

(* The lesser of two numbers.                                              *)
LEMMA LesserOfTwo ==
  ASSUME NEW a \in Int, NEW b \in Int
  PROVE  Min({a, b}) \in {a, b} /\ Min({a, b}) <= a /\ Min({a, b}) <= b
<1>1. \E x \in {a, b} : \A y \in {a, b} : x <= y  OBVIOUS
<1>. QED  BY <1>1 DEF Min

(* The first of the blocks that are not read is the next of the text.      *)
HeadIsNext(text, n, held, out) ==
  /\ n + 1 <= Len(text) /\ Head(held) \in Nat /\ Tail(held) \in Blocks
  /\ Tail(held) \o out = SubSeq(text, n + 2, Len(text))
  /\ SubSeq(text, 1, n + 1) = Append(SubSeq(text, 1, n), Head(held))

LEMMA NextBlock ==
  ASSUME NEW text \in Blocks, NEW n \in 0 .. Len(text), NEW held \in Blocks, NEW out \in Blocks,
         held # <<>>, held \o out = SubSeq(text, n + 1, Len(text))
  PROVE  HeadIsNext(text, n, held, out)
<1>1. Len(text) \in Nat /\ Len(held) \in Nat /\ Len(held) > 0 /\ Len(out) \in Nat
  BY LenProperties, EmptySeq DEF Blocks
<1>2. n + 1 <= Len(text)
  <2>1. Len(held \o out) = Len(held) + Len(out)  BY ConcatProperties DEF Blocks
  <2>2. Len(held \o out) # 0  BY <1>1, <2>1
  <2>3. Len(<<>>) = 0  OBVIOUS
  <2>4. SubSeq(text, n + 1, Len(text)) # <<>>  BY <2>2, <2>3
  <2>. QED  BY <1>1, <2>4, SubSeqEmpty
<1>3. PICK x \in Nat : x = text[n + 1]  BY <1>1, <1>2, ElementOfSeq DEF Blocks
<1>4. PICK rest \in Blocks : rest = SubSeq(text, n + 2, Len(text))
  <2>1. n + 1 \in 0 .. Len(text)  BY <1>1, <1>2
  <2>2. SubSeq(text, (n + 1) + 1, Len(text)) \in Blocks  BY <2>1, CutInTwo
  <2>3. (n + 1) + 1 = n + 2  OBVIOUS
  <2>. QED  BY <2>2, <2>3
<1>5. SubSeq(text, n + 1, Len(text)) = <<x>> \o rest
  <2>1. n + 1 \in 1 .. Len(text) /\ Len(text) \in n + 1 .. Len(text) /\ (n + 1) + 1 = n + 2
    BY <1>1, <1>2
  <2>. QED  BY <1>3, <1>4, <2>1, SubSeqRecursiveFirst DEF Blocks
<1>6. PICK h \in Nat, tail \in Blocks : h = Head(held) /\ tail = Tail(held)
  BY HeadTailProperties DEF Blocks
<1>7. held = <<h>> \o tail
  <2>1. 1 \in 1 .. Len(held) /\ Len(held) \in 1 .. Len(held) /\ 1 + 1 = 2  BY <1>1
  <2>2. SubSeq(held, 1, Len(held)) = <<held[1]>> \o SubSeq(held, 2, Len(held))
    BY <2>1, SubSeqRecursiveFirst DEF Blocks
  <2>3. SubSeq(held, 1, Len(held)) = held /\ Tail(held) = SubSeq(held, 2, Len(held))
    BY SubSeqFull, TailIsSubSeq DEF Blocks
  <2>4. Head(held) = held[1]  BY <1>1 DEF Blocks
  <2>. QED  BY <1>6, <2>2, <2>3, <2>4
<1>8. <<h>> \in Blocks /\ <<x>> \in Blocks  BY DEF Blocks
<1>9. <<h>> \o (tail \o out) = <<x>> \o rest
  <2>1. <<h>> \in Seq(Nat) /\ tail \in Seq(Nat) /\ out \in Seq(Nat)  BY <1>8 DEF Blocks
  <2>2. (<<h>> \o tail) \o out = <<h>> \o (tail \o out)  BY <2>1, ConcatAssociative
  <2>. QED  BY <1>5, <1>7, <2>2
<1>10. PICK later \in Blocks : later = tail \o out  BY ConcatProperties DEF Blocks
<1>11. h = x
  <2>1. \A b \in Nat, s \in Blocks : (<<b>> \o s)[1] = b
    BY ConcatProperties, LenProperties DEF Blocks
  <2>. QED  BY <1>9, <1>10, <2>1
<1>12. later = rest
  <2>1. <<h>> \in Seq(Nat) /\ later \in Seq(Nat) /\ rest \in Seq(Nat)  BY <1>8 DEF Blocks
  <2>2. <<h>> \o later = <<h>> \o rest  BY <1>9, <1>10, <1>11
  <2>. QED  BY <2>1, <2>2, ConcatSimplifications
<1>13. SubSeq(text, 1, n + 1) = Append(SubSeq(text, 1, n), x)
  <2>1. 1 \in 1 .. Len(text) /\ n + 1 \in 1 .. Len(text) /\ (n + 1) - 1 = n  BY <1>1, <1>2
  <2>2. SubSeq(text, 1, n + 1) = SubSeq(text, 1, n) \o <<x>>
    BY <1>3, <2>1, SubSeqRecursiveSecond DEF Blocks
  <2>3. SubSeq(text, 1, n) \in Blocks  BY CutInTwo
  <2>. QED  BY <2>2, <2>3, AppendIsConcat DEF Blocks
<1>. QED  BY <1>2, <1>4, <1>6, <1>10, <1>11, <1>12, <1>13 DEF HeadIsNext

(* Three texts one after the other.                                        *)
Associate(a, b, c) == (a \o b) \o c = a \o (b \o c)

LEMMA Regrouped == \A a, b, c \in Seq(Nat) : Associate(a, b, c)
<1>1. SUFFICES ASSUME NEW a \in Seq(Nat), NEW b \in Seq(Nat), NEW c \in Seq(Nat)
               PROVE  Associate(a, b, c)
  OBVIOUS
<1>2. (a \o b) \o c = a \o (b \o c)  BY ConcatAssociative
<1>. QED  BY <1>2 DEF Associate

(* What a child says before it reads is a text.                            *)
LEMMA BeforeIsText == \A kind : Before(kind) \in Blocks
<1>1. PICK n \in Nat : n = PipeRoom + 1  BY FilterProcAssumption
<1>2. PICK banner \in [1 .. n -> Nat] : banner = Banner  BY <1>1 DEF Banner
<1>3. banner \in Seq(Nat) /\ <<>> \in Seq(Nat)  OBVIOUS
<1>. QED  BY <1>2, <1>3 DEF Before, Blocks

(* What a child has said is a text, and grows by what it reads.            *)
LEMMA SaidIsText ==
  ASSUME NEW kind \in Kinds, NEW text \in Blocks, NEW n \in 0 .. Len(text)
  PROVE  Said(kind, text, n) \in Blocks
<1>1. SubSeq(text, 1, n) \in Blocks  BY CutInTwo
<1>2. <<>> \in Blocks  BY DEF Blocks
<1>4. Before(kind) \in Blocks  BY BeforeIsText
<1>5. Before(kind) \o SubSeq(text, 1, n) \in Blocks  BY <1>1, <1>4, ConcatProperties DEF Blocks
<1>. QED  BY <1>2, <1>5 DEF Said

(* What a child says of one block more is what it said and that block.     *)
LEMMA SaidGrows ==
  ASSUME NEW kind \in Kinds \ {"silent"}, NEW text \in Blocks, NEW n \in 0 .. Len(text), NEW b \in Nat,
         SubSeq(text, 1, n + 1) = Append(SubSeq(text, 1, n), b)
  PROVE  Said(kind, text, n + 1) = Append(Said(kind, text, n), b)
<1>1. PICK s \in Blocks : s = SubSeq(text, 1, n)  BY CutInTwo
<1>2. PICK first \in Blocks : first = Before(kind)  BY BeforeIsText
<1>3. first \in Seq(Nat) /\ s \in Seq(Nat) /\ <<b>> \in Seq(Nat)  BY DEF Blocks
<1>4. (first \o s) \o <<b>> = first \o (s \o <<b>>)
  <2>1. Associate(first, s, <<b>>)  BY <1>3, Regrouped
  <2>. QED  BY <2>1 DEF Associate
<1>5. first \o s \in Seq(Nat)  BY <1>3, ConcatProperties
<1>6. Append(s, b) = s \o <<b>> /\ Append(first \o s, b) = (first \o s) \o <<b>>
  BY <1>3, <1>5, AppendIsConcat
<1>. QED  BY <1>1, <1>2, <1>4, <1>6 DEF Said

(* What moves from the front of one text to the end of the one before it   *)
(* leaves the two together as they were.                                   *)
LEMMA MovedBlocks ==
  ASSUME NEW a \in Blocks, NEW b \in Blocks, NEW n \in 0 .. Len(b)
  PROVE  (a \o SubSeq(b, 1, n)) \o SubSeq(b, n + 1, Len(b)) = a \o b
<1>1. PICK c \in Blocks, d \in Blocks :
        c = SubSeq(b, 1, n) /\ d = SubSeq(b, n + 1, Len(b)) /\ c \o d = b
  <2>1. /\ SubSeq(b, 1, n) \in Blocks /\ SubSeq(b, n + 1, Len(b)) \in Blocks
        /\ SubSeq(b, 1, n) \o SubSeq(b, n + 1, Len(b)) = b
    BY CutInTwo
  <2>. QED  BY <2>1
<1>2. a \in Seq(Nat) /\ c \in Seq(Nat) /\ d \in Seq(Nat)  BY DEF Blocks
<1>3. (a \o c) \o d = a \o (c \o d)
  <2>1. Associate(a, c, d)  BY <1>2, Regrouped
  <2>. QED  BY <2>1 DEF Associate
<1>. QED  BY <1>1, <1>3

(* The head of the third text becomes the last of the second.              *)
HeadMoves(a, b, c) ==
  /\ Head(c) \in Nat /\ Tail(c) \in Blocks /\ Append(b, Head(c)) \in Blocks
  /\ (a \o Append(b, Head(c))) \o Tail(c) = (a \o b) \o c

(* So the three texts together stay as they were.                          *)
LEMMA MovedBlock ==
  ASSUME NEW a \in Blocks, NEW b \in Blocks, NEW c \in Blocks, c # <<>>
  PROVE  HeadMoves(a, b, c)
<1>1. PICK h \in Nat, tail \in Blocks : h = Head(c) /\ tail = Tail(c)
  BY HeadTailProperties DEF Blocks
<1>2. /\ a \in Seq(Nat) /\ b \in Seq(Nat) /\ c \in Seq(Nat) /\ tail \in Seq(Nat) /\ <<h>> \in Seq(Nat)
  BY DEF Blocks
<1>3. c = <<h>> \o tail
  <2>1. Len(c) \in Nat /\ Len(c) > 0  BY <1>2, LenProperties, EmptySeq
  <2>2. 1 \in 1 .. Len(c) /\ Len(c) \in 1 .. Len(c) /\ 1 + 1 = 2  BY <2>1
  <2>3. SubSeq(c, 1, Len(c)) = <<c[1]>> \o SubSeq(c, 2, Len(c))
    BY <1>2, <2>2, SubSeqRecursiveFirst
  <2>4. SubSeq(c, 1, Len(c)) = c /\ Tail(c) = SubSeq(c, 2, Len(c))  BY <1>2, SubSeqFull, TailIsSubSeq
  <2>5. Head(c) = c[1]  BY <1>2
  <2>. QED  BY <1>1, <2>3, <2>4, <2>5
<1>4. PICK longer \in Seq(Nat) : longer = Append(b, h) /\ longer = b \o <<h>>
  BY <1>2, AppendProperties, AppendIsConcat
<1>5. PICK both \in Seq(Nat) : both = a \o b  BY <1>2, ConcatProperties
<1>6. a \o longer = both \o <<h>>
  <2>1. Associate(a, b, <<h>>)  BY <1>2, Regrouped
  <2>. QED  BY <1>4, <1>5, <2>1 DEF Associate
<1>7. (both \o <<h>>) \o tail = both \o (<<h>> \o tail)
  <2>1. Associate(both, <<h>>, tail)  BY <1>2, Regrouped
  <2>. QED  BY <2>1 DEF Associate
<1>8. (a \o longer) \o tail = both \o c  BY <1>3, <1>6, <1>7
<1>9. longer \in Blocks  BY DEF Blocks
<1>. QED  BY <1>1, <1>4, <1>5, <1>8, <1>9 DEF HeadMoves

(* A call starts with its text still to be written and nothing made of it. *)
LEMMA InitIsTrue == FilterProcInit => FilterInv
<1>. SUFFICES ASSUME FilterProcInit PROVE FilterInv  OBVIOUS
<1>1. PICK kind \in Kinds, n \in 0 .. MaxText :
        /\ caller = [at |-> "poll", revents |-> {}, text |-> [i \in 1 .. n |-> i],
                     out |-> [i \in 1 .. n |-> i], str |-> <<>>]
        /\ stdin = [Pipe EXCEPT !.writer = n > 0]
        /\ stdout = [Pipe EXCEPT !.writer = kind # "silent"]
        /\ filter = [kind |-> kind, runs |-> TRUE, read |-> 0,
                     todo |-> IF kind = "banner" THEN Banner ELSE <<>>]
  BY DEF FilterProcInit
<1>2. PICK text \in Blocks : text = [i \in 1 .. n |-> i] /\ Len(text) = n
  <2>1. n \in Nat  BY FilterProcAssumption
  <2>4. [i \in 1 .. n |-> i] \in [1 .. n -> Nat]  BY <2>1
  <2>2. PICK f \in [1 .. n -> Nat] : f = [i \in 1 .. n |-> i]  BY <2>4
  <2>3. f \in Seq(Nat) /\ Len(f) = n  BY <2>1
  <2>. QED  BY <2>2, <2>3 DEF Blocks
<1>3. /\ caller.at = "poll" /\ caller.revents = {} /\ caller.text = text /\ caller.out = text
      /\ caller.str = <<>>
  BY <1>1, <1>2
<1>4. /\ stdin.held = <<>> /\ stdin.reader /\ (stdin.writer <=> n > 0)
      /\ stdout.held = <<>> /\ stdout.reader /\ (stdout.writer <=> kind # "silent")
  BY <1>1 DEF Pipe
<1>5. filter.kind = kind /\ filter.runs /\ filter.read = 0 /\ filter.todo = Before(kind)
  BY <1>1 DEF Before
<1>6. <<>> \in Blocks  BY DEF Blocks
<1>7. 0 \in 0 .. Len(text) /\ SubSeq(text, 1, 0) = <<>>
  <2>1. Len(text) \in Nat  BY LenProperties DEF Blocks
  <2>. QED  BY <2>1, SubSeqEmpty
<1>8. Before(kind) \in Blocks  BY BeforeIsText
<1>9. FilterTypeOK
  <2>1. caller \in [at : {"poll", "write", "read", "waitpid", "returned"}, text : Blocks,
                    revents : SUBSET {"in", "hup", "out"}, out : Blocks, str : Blocks]
    BY <1>1, <1>2, <1>6
  <2>2. \A open : open \in BOOLEAN => [Pipe EXCEPT !.writer = open] \in Ends  BY <1>6 DEF Pipe, Ends
  <2>4. (n > 0) \in BOOLEAN  OBVIOUS
  <2>6. (kind # "silent") \in BOOLEAN  OBVIOUS
  <2>5. stdin \in Ends /\ stdout \in Ends  BY <1>1, <2>2, <2>4, <2>6
  <2>3. filter \in [kind : Kinds, runs : BOOLEAN, read : Nat, todo : Blocks]
    BY <1>1, <1>8 DEF Before
  <2>. QED  BY <2>1, <2>5, <2>3 DEF FilterTypeOK
<1>10. InputFlows
  <2>1. Len(stdin.held) <= PipeRoom  BY <1>4, FilterProcAssumption
  <2>2. <<>> \o text = SubSeq(text, 1, Len(text))  BY ConcatEmptySeq, SubSeqFull DEF Blocks
  <2>3. stdin.held \o caller.out = SubSeq(caller.text, filter.read + 1, Len(caller.text))
    BY <1>3, <1>4, <1>5, <2>2
  <2>4. n > 0 <=> text # <<>>
    <3>1. Len(text) \in Nat /\ (text # <<>> => Len(text) > 0)  BY EmptySeq, LenProperties DEF Blocks
    <3>2. text = <<>> => Len(text) = 0  OBVIOUS
    <3>. QED  BY <1>2, <3>1, <3>2
  <2>. QED  BY <1>2, <1>3, <1>4, <1>5, <1>7, <2>1, <2>3, <2>4 DEF InputFlows
<1>11. OutputFlows
  <2>1. Before(kind) \o <<>> = Before(kind) /\ <<>> \o Before(kind) = Before(kind)
    BY <1>8, ConcatEmptySeq DEF Blocks
  <2>2. (<<>> \o <<>>) \o Before(kind) = Before(kind)
    <3>1. <<>> \o <<>> = <<>>  BY <1>6, ConcatEmptySeq DEF Blocks
    <3>. QED  BY <2>1, <3>1
  <2>3. Said(kind, text, 0) = Before(kind)
    <3>1. CASE kind = "silent"  BY <3>1 DEF Said, Before
    <3>2. CASE kind # "silent"  BY <1>7, <2>1, <3>2 DEF Said
    <3>. QED  BY <3>1, <3>2
  <2>. QED  BY <1>3, <1>4, <1>5, <2>2, <2>3 DEF OutputFlows
<1>12. ChildIsTrue  BY <1>4, <1>5 DEF ChildIsTrue
<1>13. HangupIsTrue  BY <1>3 DEF HangupIsTrue
<1>. QED  BY <1>9, <1>10, <1>11, <1>12, <1>13 DEF FilterInv

(* Polling changes neither pipes nor child; what it tells of is true.      *)
LEMMA PollKeeps == FilterInv /\ Poll => FilterInv'
<1>. SUFFICES ASSUME FilterInv, Poll PROVE FilterInv'  OBVIOUS
<1>. DEFINE revents == {e \in {"in", "hup", "out"} :
                          \/ e = "in"  /\ Readable
                          \/ e = "hup" /\ LeftByChild
                          \/ e = "out" /\ Writable}
<1>1. /\ caller.at = "poll" /\ caller' = [caller EXCEPT !.at = "write", !.revents = revents]
      /\ stdin' = stdin /\ stdout' = stdout /\ filter' = filter
  BY DEF Poll
<1>2. PICK told \in SUBSET {"in", "hup", "out"} : told = revents  OBVIOUS
<1>3. ("in" \in told <=> stdout.held # <<>>) /\ ("hup" \in told <=> ~stdout.writer)
  BY <1>2 DEF Readable, LeftByChild
<1>. HIDE DEF revents
<1>4. /\ caller' \in [at : {"poll", "write", "read", "waitpid", "returned"}, text : Blocks,
                      revents : SUBSET {"in", "hup", "out"}, out : Blocks, str : Blocks]
      /\ caller'.at = "write" /\ caller'.revents = told /\ caller'.text = caller.text
      /\ caller'.out = caller.out /\ caller'.str = caller.str
  BY <1>1, <1>2 DEF FilterInv, FilterTypeOK
<1>5. FilterTypeOK'  BY <1>1, <1>4 DEF FilterInv, FilterTypeOK
<1>6. InputFlows'  BY <1>1, <1>4 DEF FilterInv, InputFlows
<1>7. OutputFlows'  BY <1>1, <1>4 DEF FilterInv, OutputFlows
<1>8. ChildIsTrue'  BY <1>1, <1>4 DEF FilterInv, ChildIsTrue
<1>9. HangupIsTrue'  BY <1>1, <1>3, <1>4 DEF HangupIsTrue
<1>. QED  BY <1>5, <1>6, <1>7, <1>8, <1>9 DEF FilterInv

(* What is written goes from the text to the pipe; nobody misses what goes *)
(* into a pipe that nobody reads.                                          *)
LEMMA WriteKeeps == FilterInv /\ WriteOut => FilterInv'
<1>. SUFFICES ASSUME FilterInv, WriteOut PROVE FilterInv'  OBVIOUS
<1>. DEFINE n == IF stdin.reader THEN Min({PipeRoom - Len(stdin.held), Len(caller.out)})
                 ELSE Len(caller.out)
            left == IF "out" \in caller.revents THEN SubSeq(caller.out, n + 1, Len(caller.out))
                    ELSE caller.out
<1>1. /\ caller.at = "write" /\ caller' = [caller EXCEPT !.at = "read", !.out = left]
      /\ stdin' = IF "out" \notin caller.revents THEN stdin
                  ELSE [stdin EXCEPT !.writer = left # <<>>,
                          !.held = IF stdin.reader THEN @ \o SubSeq(caller.out, 1, n) ELSE @]
      /\ stdout' = stdout /\ filter' = filter
  BY DEF WriteOut
<1>2. /\ Len(stdin.held) \in Nat /\ Len(stdin.held) <= PipeRoom /\ stdin.held \in Blocks
      /\ caller.out \in Blocks /\ Len(caller.out) \in Nat /\ PipeRoom \in Nat
  <2>1. stdin.held \in Blocks /\ caller.out \in Blocks  BY DEF FilterInv, FilterTypeOK, Ends
  <2>2. Len(stdin.held) <= PipeRoom  BY DEF FilterInv, InputFlows
  <2>. QED  BY <2>1, <2>2, LenProperties, FilterProcAssumption DEF Blocks
<1>3. PICK k \in 0 .. Len(caller.out) :
        k = n /\ (stdin.reader => Len(stdin.held) + k <= PipeRoom)
  <2>1. PICK has \in Nat, size \in Nat : has = Len(stdin.held) /\ size = Len(caller.out)  BY <1>2
  <2>2. PICK room \in Nat : room = PipeRoom - has
    <3>1. PipeRoom - has \in Nat  BY <1>2, <2>1
    <3>. QED  BY <3>1
  <2>3. PICK least \in Int : least = Min({room, size}) /\ least \in {room, size}
                             /\ least <= room /\ least <= size
    <3>1. room \in Int /\ size \in Int  OBVIOUS
    <3>2. Min({room, size}) \in {room, size} /\ Min({room, size}) <= room /\ Min({room, size}) <= size
      BY <3>1, LesserOfTwo
    <3>. QED  BY <3>2
  <2>4. n = IF stdin.reader THEN least ELSE size  BY <2>1, <2>2, <2>3
  <2>5. PipeRoom \in Nat  BY <1>2
  <2>. HIDE DEF n
  <2>6. n \in 0 .. size /\ (stdin.reader => has + n <= PipeRoom)  BY <2>2, <2>3, <2>4, <2>5
  <2>. QED  BY <2>1, <2>6
<1>4. PICK rest \in Blocks, put \in Blocks :
        /\ rest = SubSeq(caller.out, n + 1, Len(caller.out)) /\ put = SubSeq(caller.out, 1, n)
        /\ Len(put) = k /\ put \o rest = caller.out
  <2>1. PICK out \in Blocks : out = caller.out  BY <1>2
  <2>2. k \in 0 .. Len(out)  BY <1>3, <2>1
  <2>. HIDE DEF n
  <2>3. /\ SubSeq(out, 1, k) \in Blocks /\ SubSeq(out, k + 1, Len(out)) \in Blocks
        /\ Len(SubSeq(out, 1, k)) = k /\ SubSeq(out, 1, k) \o SubSeq(out, k + 1, Len(out)) = out
    BY <2>2, CutInTwo
  <2>. QED  BY <1>3, <2>1, <2>3
<1>. HIDE DEF n
<1>5. PICK all \in Blocks : all = stdin.held \o put /\ Len(all) = Len(stdin.held) + k
  BY <1>2, <1>4, ConcatProperties DEF Blocks
<1>6. left \in Blocks  BY <1>2, <1>4
<1>7. /\ caller' \in [at : {"poll", "write", "read", "waitpid", "returned"}, text : Blocks,
                      revents : SUBSET {"in", "hup", "out"}, out : Blocks, str : Blocks]
      /\ caller'.at = "read" /\ caller'.revents = caller.revents /\ caller'.text = caller.text
      /\ caller'.out = left /\ caller'.str = caller.str
  <2>. HIDE DEF left
  <2>. QED  BY <1>1, <1>6 DEF FilterInv, FilterTypeOK
<1>8. CASE "out" \notin caller.revents
  <2>1. stdin' = stdin /\ left = caller.out  BY <1>1, <1>8
  <2>. HIDE DEF left
  <2>2. FilterTypeOK'  BY <1>1, <1>7, <2>1 DEF FilterInv, FilterTypeOK
  <2>3. InputFlows'  BY <1>1, <1>7, <2>1 DEF FilterInv, InputFlows
  <2>4. OutputFlows'  BY <1>1, <1>7, <2>1 DEF FilterInv, OutputFlows
  <2>5. ChildIsTrue'  BY <1>1, <1>7, <2>1 DEF FilterInv, ChildIsTrue
  <2>6. HangupIsTrue'  BY <1>1, <1>7, <2>1 DEF FilterInv, HangupIsTrue
  <2>. QED  BY <2>2, <2>3, <2>4, <2>5, <2>6 DEF FilterInv
<1>9. CASE "out" \in caller.revents
  <2>1. left = rest  BY <1>4, <1>9
  <2>. HIDE DEF left
  <2>2. PICK held \in Blocks : held = IF stdin.reader THEN all ELSE stdin.held  BY <1>2
  <2>3. PICK open \in BOOLEAN : open <=> rest # <<>>  OBVIOUS
  <2>4. stdin' \in Ends /\ stdin'.held = held /\ stdin'.writer = open /\ stdin'.reader = stdin.reader
    <3>1. stdin \in Ends  BY DEF FilterInv, FilterTypeOK
    <3>2. stdin' = [stdin EXCEPT !.writer = open, !.held = held]
      <4>1. held = IF stdin.reader THEN stdin.held \o SubSeq(caller.out, 1, n) ELSE stdin.held
        BY <1>4, <1>5, <2>2
      <4>2. open = (rest # <<>>)  BY <2>3
      <4>3. stdin' = [stdin EXCEPT !.writer = left # <<>>,
                        !.held = IF stdin.reader THEN @ \o SubSeq(caller.out, 1, n) ELSE @]
        BY <1>1, <1>9
      <4>. QED  BY <2>1, <3>1, <4>1, <4>2, <4>3 DEF Ends
    <3>. QED  BY <3>1, <3>2 DEF Ends
  <2>5. FilterTypeOK'  BY <1>1, <1>7, <2>4 DEF FilterInv, FilterTypeOK
  <2>6. InputFlows'
    <3>1. Len(held) <= PipeRoom  BY <1>2, <1>3, <1>5, <2>2
    <3>2. ASSUME stdin.reader PROVE held \o rest = SubSeq(caller.text, filter.read + 1, Len(caller.text))
      <4>1. stdin.held \in Seq(Nat) /\ put \in Seq(Nat) /\ rest \in Seq(Nat)  BY <1>2 DEF Blocks
      <4>2. Associate(stdin.held, put, rest)  BY <4>1, Regrouped
      <4>3. held \o rest = stdin.held \o caller.out
        BY <1>4, <1>5, <2>2, <3>2, <4>2 DEF Associate
      <4>. QED  BY <3>2, <4>3 DEF FilterInv, InputFlows
    <3>3. filter.read <= Len(caller.text)  BY DEF FilterInv, InputFlows
    <3>. QED  BY <1>1, <1>7, <2>1, <2>3, <2>4, <3>1, <3>2, <3>3 DEF InputFlows
  <2>7. OutputFlows'  BY <1>1, <1>7 DEF FilterInv, OutputFlows
  <2>8. ChildIsTrue'  BY <1>1, <1>7, <2>4 DEF FilterInv, ChildIsTrue
  <2>9. HangupIsTrue'  BY <1>1, <1>7 DEF FilterInv, HangupIsTrue
  <2>. QED  BY <2>5, <2>6, <2>7, <2>8, <2>9 DEF FilterInv
<1>. QED  BY <1>8, <1>9

(* What is read goes from the pipe to the result; a hang-up ends it.       *)
LEMMA ReadKeeps == FilterInv /\ ReadIn => FilterInv'
<1>. SUFFICES ASSUME FilterInv, ReadIn PROVE FilterInv'  OBVIOUS
<1>1. caller.at = "read" /\ filter' = filter  BY DEF ReadIn
<1>2. /\ stdout.held \in Blocks /\ caller.str \in Blocks /\ filter.todo \in Blocks
      /\ stdout \in Ends /\ stdin \in Ends
      /\ caller \in [at : {"poll", "write", "read", "waitpid", "returned"}, text : Blocks,
                     revents : SUBSET {"in", "hup", "out"}, out : Blocks, str : Blocks]
  BY DEF FilterInv, FilterTypeOK, Ends
<1>3. CASE "in" \in caller.revents
  <2>1. PICK n \in 0 .. Len(stdout.held) : n = Min({BlocksRead, Len(stdout.held)})
    <3>1. BlocksRead \in Nat /\ Len(stdout.held) \in Nat
      BY <1>2, FilterProcAssumption, LenProperties DEF Blocks
    <3>2. PICK size \in Nat : size = Len(stdout.held)  BY <3>1
    <3>3. Min({BlocksRead, size}) \in {BlocksRead, size} /\ Min({BlocksRead, size}) <= size
      <4>1. BlocksRead \in Int /\ size \in Int  BY <3>1
      <4>. QED  BY <4>1, LesserOfTwo
    <3>4. Min({BlocksRead, size}) \in 0 .. size  BY <3>1, <3>3
    <3>. QED  BY <3>2, <3>4
  <2>2. PICK got \in Blocks, left \in Blocks :
          got = SubSeq(stdout.held, 1, n) /\ left = SubSeq(stdout.held, n + 1, Len(stdout.held))
    BY <1>2, <2>1, CutInTwo
  <2>3. PICK all \in Blocks : all = caller.str \o got  BY <1>2, ConcatProperties DEF Blocks
  <2>4. /\ caller' = [caller EXCEPT !.at = "poll", !.str = all]
        /\ stdout' = [stdout EXCEPT !.held = left] /\ stdin' = stdin
    BY <1>1, <1>3, <2>1, <2>2, <2>3 DEF ReadIn
  <2>5. /\ caller' \in [at : {"poll", "write", "read", "waitpid", "returned"}, text : Blocks,
                        revents : SUBSET {"in", "hup", "out"}, out : Blocks, str : Blocks]
        /\ caller'.at = "poll" /\ caller'.text = caller.text
        /\ caller'.out = caller.out /\ caller'.str = all
    BY <1>2, <2>4
  <2>6. /\ stdout' \in Ends /\ stdout'.held = left /\ stdout'.writer = stdout.writer
    BY <1>2, <2>4 DEF Ends
  <2>7. FilterTypeOK'  BY <1>1, <1>2, <2>4, <2>5, <2>6 DEF FilterInv, FilterTypeOK
  <2>8. InputFlows'  BY <1>1, <2>4, <2>5 DEF FilterInv, InputFlows
  <2>9. OutputFlows'
    <3>1. all \o left = caller.str \o stdout.held
      <4>1. PICK str \in Blocks, held \in Blocks : str = caller.str /\ held = stdout.held  BY <1>2
      <4>2. n \in 0 .. Len(held)  BY <2>1, <4>1
      <4>3. (str \o SubSeq(held, 1, n)) \o SubSeq(held, n + 1, Len(held)) = str \o held
        BY <4>2, MovedBlocks
      <4>. QED  BY <2>2, <2>3, <4>1, <4>3
    <3>. QED  BY <1>1, <2>5, <2>6, <3>1 DEF FilterInv, OutputFlows
  <2>10. ChildIsTrue'  BY <1>1, <2>4, <2>5, <2>6 DEF FilterInv, ChildIsTrue
  <2>11. HangupIsTrue'  BY <2>5 DEF HangupIsTrue
  <2>. QED  BY <2>7, <2>8, <2>9, <2>10, <2>11 DEF FilterInv
<1>4. CASE "in" \notin caller.revents /\ "hup" \in caller.revents
  <2>1. /\ caller' = [caller EXCEPT !.at = "waitpid"]
        /\ stdout' = [stdout EXCEPT !.reader = FALSE] /\ stdin' = [stdin EXCEPT !.writer = FALSE]
    BY <1>1, <1>4 DEF ReadIn
  <2>2. /\ caller' \in [at : {"poll", "write", "read", "waitpid", "returned"}, text : Blocks,
                        revents : SUBSET {"in", "hup", "out"}, out : Blocks, str : Blocks]
        /\ caller'.at = "waitpid" /\ caller'.text = caller.text
        /\ caller'.out = caller.out /\ caller'.str = caller.str
    BY <1>2, <2>1
  <2>3. /\ stdout' \in Ends /\ stdout'.held = stdout.held /\ stdout'.writer = stdout.writer
        /\ ~stdout'.reader
        /\ stdin' \in Ends /\ stdin'.held = stdin.held /\ stdin'.reader = stdin.reader /\ ~stdin'.writer
    BY <1>2, <2>1 DEF Ends
  <2>4. FilterTypeOK'  BY <1>1, <2>2, <2>3 DEF FilterInv, FilterTypeOK
  <2>5. InputFlows'  BY <1>1, <2>2, <2>3 DEF FilterInv, InputFlows
  <2>6. OutputFlows'  BY <1>1, <2>2, <2>3 DEF FilterInv, OutputFlows
  <2>7. ChildIsTrue'  BY <1>1, <2>2, <2>3 DEF FilterInv, ChildIsTrue
  <2>8. HangupIsTrue'  BY <1>1, <1>4, <2>2, <2>3 DEF FilterInv, HangupIsTrue
  <2>. QED  BY <2>4, <2>5, <2>6, <2>7, <2>8 DEF FilterInv
<1>5. CASE "in" \notin caller.revents /\ "hup" \notin caller.revents
  <2>1. caller' = [caller EXCEPT !.at = "poll"] /\ stdout' = stdout /\ stdin' = stdin
    BY <1>1, <1>5 DEF ReadIn
  <2>2. /\ caller' \in [at : {"poll", "write", "read", "waitpid", "returned"}, text : Blocks,
                        revents : SUBSET {"in", "hup", "out"}, out : Blocks, str : Blocks]
        /\ caller'.at = "poll" /\ caller'.text = caller.text
        /\ caller'.out = caller.out /\ caller'.str = caller.str
    BY <1>2, <2>1
  <2>3. FilterTypeOK'  BY <1>1, <2>1, <2>2 DEF FilterInv, FilterTypeOK
  <2>4. InputFlows'  BY <1>1, <2>1, <2>2 DEF FilterInv, InputFlows
  <2>5. OutputFlows'  BY <1>1, <2>1, <2>2 DEF FilterInv, OutputFlows
  <2>6. ChildIsTrue'  BY <1>1, <2>1, <2>2 DEF FilterInv, ChildIsTrue
  <2>7. HangupIsTrue'  BY <2>2 DEF HangupIsTrue
  <2>. QED  BY <2>3, <2>4, <2>5, <2>6, <2>7 DEF FilterInv
<1>. QED  BY <1>3, <1>4, <1>5

(* waitpid only returns what has been read.                                *)
LEMMA ReapedKeeps == FilterInv /\ Reaped => FilterInv'
<1>. SUFFICES ASSUME FilterInv, Reaped PROVE FilterInv'  OBVIOUS
<1>1. /\ caller.at = "waitpid" /\ ~filter.runs /\ caller' = [caller EXCEPT !.at = "returned"]
      /\ stdin' = stdin /\ stdout' = stdout /\ filter' = filter
  BY DEF Reaped
<1>2. /\ caller' \in [at : {"poll", "write", "read", "waitpid", "returned"}, text : Blocks,
                      revents : SUBSET {"in", "hup", "out"}, out : Blocks, str : Blocks]
      /\ caller'.at = "returned" /\ caller'.text = caller.text
      /\ caller'.out = caller.out /\ caller'.str = caller.str
  BY <1>1 DEF FilterInv, FilterTypeOK
<1>3. FilterTypeOK'  BY <1>1, <1>2 DEF FilterInv, FilterTypeOK
<1>4. InputFlows'  BY <1>1, <1>2 DEF FilterInv, InputFlows
<1>5. OutputFlows'  BY <1>1, <1>2 DEF FilterInv, OutputFlows
<1>6. ChildIsTrue'  BY <1>1, <1>2 DEF FilterInv, ChildIsTrue
<1>7. HangupIsTrue'  BY <1>1, <1>2 DEF FilterInv, HangupIsTrue
<1>. QED  BY <1>3, <1>4, <1>5, <1>6, <1>7 DEF FilterInv

(* The child reads the next block of the text and makes something of it.   *)
LEMMA ChildReadsKeeps == FilterInv /\ ChildReads => FilterInv'
<1>. SUFFICES ASSUME FilterInv, ChildReads PROVE FilterInv'  OBVIOUS
<1>1. /\ filter.runs /\ MayRead /\ stdin.held # <<>> /\ caller' = caller /\ stdout' = stdout
      /\ filter' = [filter EXCEPT !.read = @ + 1,
                      !.todo = IF filter.kind = "silent" THEN @ ELSE Append(@, Head(stdin.held))]
      /\ stdin' = [stdin EXCEPT !.held = Tail(@)]
  BY DEF ChildReads
<1>2. /\ stdin.held \in Blocks /\ caller.out \in Blocks /\ caller.text \in Blocks
      /\ filter.todo \in Blocks /\ filter.read \in Nat /\ filter.kind \in Kinds
      /\ caller.str \in Blocks /\ stdout.held \in Blocks /\ stdin \in Ends
      /\ filter \in [kind : Kinds, runs : BOOLEAN, read : Nat, todo : Blocks]
  BY DEF FilterInv, FilterTypeOK, Ends
<1>3. /\ Len(stdin.held) <= PipeRoom /\ filter.read \in 0 .. Len(caller.text) /\ stdin.reader
      /\ stdin.held \o caller.out = SubSeq(caller.text, filter.read + 1, Len(caller.text))
  <2>1. Len(caller.text) \in Nat  BY <1>2, LenProperties DEF Blocks
  <2>2. stdin.reader  BY <1>1 DEF FilterInv, ChildIsTrue
  <2>3. filter.read <= Len(caller.text)  BY DEF FilterInv, InputFlows
  <2>4. filter.read \in 0 .. Len(caller.text)  BY <1>2, <2>1, <2>3
  <2>. QED  BY <2>2, <2>4 DEF FilterInv, InputFlows
<1>4. PICK h \in Nat, tail \in Blocks :
        /\ h = Head(stdin.held) /\ tail = Tail(stdin.held) /\ filter.read + 1 <= Len(caller.text)
        /\ tail \o caller.out = SubSeq(caller.text, filter.read + 2, Len(caller.text))
        /\ SubSeq(caller.text, 1, filter.read + 1) = Append(SubSeq(caller.text, 1, filter.read), h)
  <2>1. PICK text \in Blocks, held \in Blocks, out \in Blocks, n \in Nat :
          text = caller.text /\ held = stdin.held /\ out = caller.out /\ n = filter.read
    BY <1>2
  <2>2. n \in 0 .. Len(text) /\ held # <<>> /\ held \o out = SubSeq(text, n + 1, Len(text))
    BY <1>1, <1>3, <2>1
  <2>3. HeadIsNext(text, n, held, out)  BY <2>2, NextBlock, Zenon
  <2>. QED  BY <2>1, <2>3 DEF HeadIsNext
<1>5. PICK todo \in Blocks : todo = IF filter.kind = "silent" THEN filter.todo ELSE Append(filter.todo, h)
  <2>1. Append(filter.todo, h) \in Blocks  BY <1>2, AppendProperties DEF Blocks
  <2>2. CASE filter.kind = "silent"  BY <1>2, <2>2
  <2>3. CASE filter.kind # "silent"  BY <2>1, <2>3
  <2>. QED  BY <2>2, <2>3
<1>6. /\ filter' \in [kind : Kinds, runs : BOOLEAN, read : Nat, todo : Blocks]
      /\ filter'.kind = filter.kind /\ filter'.runs = filter.runs
      /\ filter'.read = filter.read + 1 /\ filter'.todo = todo
  <2>1. filter' = [filter EXCEPT !.read = filter.read + 1, !.todo = todo]
    BY <1>1, <1>2, <1>4, <1>5
  <2>2. filter.read + 1 \in Nat  BY <1>2
  <2>3. PICK f \in [kind : Kinds, runs : BOOLEAN, read : Nat, todo : Blocks] :
          f = [filter EXCEPT !.read = filter.read + 1]
    BY <1>2, <2>2
  <2>4. f.kind = filter.kind /\ f.runs = filter.runs /\ f.read = filter.read + 1  BY <1>2, <2>3
  <2>5. filter' = [f EXCEPT !.todo = todo]  BY <2>1, <2>3
  <2>. QED  BY <2>4, <2>5
<1>7. /\ stdin' \in Ends /\ stdin'.held = tail /\ stdin'.reader = stdin.reader
      /\ stdin'.writer = stdin.writer
  <2>1. stdin' = [stdin EXCEPT !.held = tail]  BY <1>1, <1>2, <1>4
  <2>. QED  BY <1>2, <2>1 DEF Ends
<1>8. FilterTypeOK'  BY <1>1, <1>6, <1>7 DEF FilterInv, FilterTypeOK
<1>9. InputFlows'
  <2>1. Len(tail) <= PipeRoom
    <3>1. Len(tail) = Len(stdin.held) - 1 /\ Len(stdin.held) \in Nat /\ PipeRoom \in Nat
      BY <1>1, <1>2, <1>4, HeadTailProperties, LenProperties, FilterProcAssumption DEF Blocks
    <3>. QED  BY <1>3, <3>1
  <2>2. tail \o caller.out = SubSeq(caller.text, (filter.read + 1) + 1, Len(caller.text))
    <3>1. (filter.read + 1) + 1 = filter.read + 2  BY <1>2
    <3>. QED  BY <1>4, <3>1
  <2>3. caller.at \in {"poll", "write", "read"} => (stdin.writer <=> caller.out # <<>>)
    BY DEF FilterInv, InputFlows
  <2>. QED  BY <1>1, <1>4, <1>6, <1>7, <2>1, <2>2, <2>3 DEF InputFlows
<1>10. OutputFlows'
  <2>1. (caller.str \o stdout.held) \o filter.todo = Said(filter.kind, caller.text, filter.read)
    BY DEF FilterInv, OutputFlows
  <2>2. (caller.str \o stdout.held) \o todo = Said(filter.kind, caller.text, filter.read + 1)
    <3>1. CASE filter.kind = "silent"  BY <1>5, <2>1, <3>1 DEF Said
    <3>2. CASE filter.kind # "silent"
      <4>1. PICK a \in Seq(Nat) : a = caller.str \o stdout.held
        BY <1>2, ConcatProperties DEF Blocks
      <4>2. PICK b \in Seq(Nat) : b = filter.todo  BY <1>2 DEF Blocks
      <4>3. PICK c \in Seq(Nat) : c = a \o b  BY ConcatProperties
      <4>4. Append(b, h) = b \o <<h>> /\ Append(c, h) = c \o <<h>>  BY AppendIsConcat
      <4>5. <<h>> \in Seq(Nat)  OBVIOUS
      <4>6. (a \o b) \o <<h>> = a \o (b \o <<h>>)
        <5>1. Associate(a, b, <<h>>)  BY <4>5, Regrouped
        <5>. QED  BY <5>1 DEF Associate
      <4>7. c = Said(filter.kind, caller.text, filter.read)  BY <2>1, <4>1, <4>2, <4>3
      <4>8. Said(filter.kind, caller.text, filter.read + 1)
              = Append(Said(filter.kind, caller.text, filter.read), h)
        <5>1. PICK text \in Blocks, n \in Nat, kind \in Kinds :
                text = caller.text /\ n = filter.read /\ kind = filter.kind
          BY <1>2
        <5>2. /\ n \in 0 .. Len(text) /\ kind \in Kinds \ {"silent"}
              /\ SubSeq(text, 1, n + 1) = Append(SubSeq(text, 1, n), h)
          BY <1>3, <1>4, <3>2, <5>1
        <5>3. Said(kind, text, n + 1) = Append(Said(kind, text, n), h)  BY <5>2, SaidGrows
        <5>. QED  BY <5>1, <5>3
      <4>9. todo = b \o <<h>>  BY <1>5, <3>2, <4>2, <4>4
      <4>. QED  BY <4>1, <4>3, <4>4, <4>6, <4>7, <4>8, <4>9
    <3>. QED  BY <3>1, <3>2
  <2>. QED  BY <1>1, <1>6, <2>2 DEF OutputFlows
<1>11. ChildIsTrue'
  <2>1. filter.kind = "head" => filter.read + 1 <= 1  BY <1>1, <1>2 DEF MayRead
  <2>. QED  BY <1>1, <1>6, <1>7, <2>1 DEF FilterInv, ChildIsTrue
<1>12. HangupIsTrue'  BY <1>1, <1>6, <1>7 DEF FilterInv, HangupIsTrue
<1>. QED  BY <1>8, <1>9, <1>10, <1>11, <1>12 DEF FilterInv

(* The child writes the next block of what it made.                        *)
LEMMA ChildWritesKeeps == FilterInv /\ ChildWrites => FilterInv'
<1>. SUFFICES ASSUME FilterInv, ChildWrites PROVE FilterInv'  OBVIOUS
<1>1. /\ filter.runs /\ filter.todo # <<>> /\ caller' = caller /\ stdin' = stdin
      /\ stdout' = [stdout EXCEPT !.held = Append(@, Head(filter.todo))]
      /\ filter' = [filter EXCEPT !.todo = Tail(@)]
  BY DEF ChildWrites
<1>2. /\ caller.str \in Blocks /\ stdout.held \in Blocks /\ filter.todo \in Blocks /\ stdout \in Ends
      /\ filter \in [kind : Kinds, runs : BOOLEAN, read : Nat, todo : Blocks]
  BY DEF FilterInv, FilterTypeOK, Ends
<1>3. PICK more \in Blocks, tail \in Blocks :
        /\ more = Append(stdout.held, Head(filter.todo)) /\ tail = Tail(filter.todo)
        /\ (caller.str \o more) \o tail = (caller.str \o stdout.held) \o filter.todo
  <2>1. PICK a \in Blocks, b \in Blocks, c \in Blocks :
          a = caller.str /\ b = stdout.held /\ c = filter.todo
    BY <1>2
  <2>2. c # <<>>  BY <1>1, <2>1
  <2>3. HeadMoves(a, b, c)  BY <2>2, MovedBlock, Zenon
  <2>. QED  BY <2>1, <2>3 DEF HeadMoves
<1>4. /\ filter' \in [kind : Kinds, runs : BOOLEAN, read : Nat, todo : Blocks]
      /\ filter'.kind = filter.kind /\ filter'.runs = filter.runs
      /\ filter'.read = filter.read /\ filter'.todo = tail
  BY <1>1, <1>2, <1>3
<1>5. /\ stdout' \in Ends /\ stdout'.held = more /\ stdout'.writer = stdout.writer
      /\ stdout'.reader = stdout.reader
  BY <1>1, <1>2, <1>3 DEF Ends
<1>6. filter.kind # "silent"
  <2>1. CASE filter.kind = "silent"
    <3>1. (caller.str \o stdout.held) \o filter.todo = <<>>  BY <2>1 DEF FilterInv, OutputFlows, Said
    <3>2. caller.str \o stdout.held \in Seq(Nat) /\ filter.todo \in Seq(Nat)
      BY <1>2, ConcatProperties DEF Blocks
    <3>3. filter.todo = <<>>  BY <3>1, <3>2, ConcatEqualIffEmpty
    <3>. QED  BY <1>1, <3>3
  <2>. QED  BY <2>1
<1>7. stdout.writer  BY <1>1, <1>6 DEF FilterInv, ChildIsTrue
<1>8. FilterTypeOK'  BY <1>1, <1>4, <1>5 DEF FilterInv, FilterTypeOK
<1>9. InputFlows'  BY <1>1, <1>4 DEF FilterInv, InputFlows
<1>10. OutputFlows'  BY <1>1, <1>3, <1>4, <1>5 DEF FilterInv, OutputFlows
<1>11. ChildIsTrue'  BY <1>1, <1>4, <1>5 DEF FilterInv, ChildIsTrue
<1>12. HangupIsTrue'  BY <1>1, <1>4, <1>5, <1>7 DEF FilterInv, HangupIsTrue
<1>. QED  BY <1>8, <1>9, <1>10, <1>11, <1>12 DEF FilterInv

(* A child that ends has been told everything, or reads no more.           *)
LEMMA ChildEndsKeeps == FilterInv /\ ChildEnds => FilterInv'
<1>. SUFFICES ASSUME FilterInv, ChildEnds PROVE FilterInv'  OBVIOUS
<1>1. /\ filter.runs /\ filter.todo = <<>> /\ (AtEof \/ ~MayRead) /\ caller' = caller
      /\ filter' = [filter EXCEPT !.runs = FALSE]
      /\ stdin' = [stdin EXCEPT !.reader = FALSE, !.held = <<>>]
      /\ stdout' = [stdout EXCEPT !.writer = FALSE]
  BY DEF ChildEnds
<1>2. /\ caller.text \in Blocks /\ filter.read \in Nat /\ stdout \in Ends /\ stdin \in Ends
      /\ filter \in [kind : Kinds, runs : BOOLEAN, read : Nat, todo : Blocks] /\ filter.kind \in Kinds
      /\ caller.out \in Blocks /\ stdin.held \in Blocks
      /\ caller.at \in {"poll", "write", "read", "waitpid", "returned"}
  BY DEF FilterInv, FilterTypeOK, Ends
<1>3. /\ filter' \in [kind : Kinds, runs : BOOLEAN, read : Nat, todo : Blocks]
      /\ filter'.kind = filter.kind /\ ~filter'.runs
      /\ filter'.read = filter.read /\ filter'.todo = filter.todo
  BY <1>1, <1>2
<1>4. <<>> \in Blocks /\ Len(<<>>) = 0  BY DEF Blocks
<1>5. /\ stdin' \in Ends /\ stdin'.held = <<>> /\ ~stdin'.reader /\ stdin'.writer = stdin.writer
      /\ stdout' \in Ends /\ stdout'.held = stdout.held /\ ~stdout'.writer
      /\ stdout'.reader = stdout.reader
  BY <1>1, <1>2, <1>4 DEF Ends
<1>6. /\ Len(caller.text) \in Nat /\ filter.read <= Len(caller.text)
      /\ stdin.held \o caller.out = SubSeq(caller.text, filter.read + 1, Len(caller.text))
      /\ caller.at \in {"poll", "write", "read"} => (stdin.writer <=> caller.out # <<>>)
  <2>1. stdin.reader  BY <1>1 DEF FilterInv, ChildIsTrue
  <2>. QED  BY <1>2, <2>1, LenProperties DEF FilterInv, InputFlows, Blocks
<1>7. ASSUME filter.kind # "silent", AtEof PROVE filter.read = Len(caller.text)
  <2>1. caller.at \notin {"waitpid", "returned"}
    BY <1>1, <1>7 DEF FilterInv, ChildIsTrue, HangupIsTrue
  <2>2. stdin.held = <<>> /\ caller.out = <<>>  BY <1>2, <1>6, <1>7, <2>1 DEF AtEof
  <2>3. <<>> \o <<>> = <<>>  BY <1>4, ConcatEmptySeq DEF Blocks
  <2>4. SubSeq(caller.text, filter.read + 1, Len(caller.text)) = <<>>  BY <1>6, <2>2, <2>3
  <2>5. CASE filter.read < Len(caller.text)
    <3>1. PICK text \in Seq(Nat), n \in Nat, m \in Nat :
            text = caller.text /\ n = filter.read + 1 /\ m = Len(text)
      <4>1. filter.read + 1 \in Nat /\ Len(caller.text) \in Nat /\ caller.text \in Seq(Nat)
        BY <1>2, <1>6 DEF Blocks
      <4>. QED  BY <4>1
    <3>2. n >= 1 /\ n <= m  BY <1>2, <1>6, <2>5, <3>1
    <3>3. \A i \in n .. m : text[i] \in Nat
      <4>1. \A i \in n .. m : i \in 1 .. Len(text)  BY <3>1, <3>2
      <4>. QED  BY <4>1, ElementOfSeq
    <3>4. Len(SubSeq(text, n, m)) = m - n + 1  BY <3>2, <3>3, SubSeqProperties
    <3>5. SubSeq(text, n, m) = <<>>  BY <2>4, <3>1
    <3>. QED  BY <1>4, <3>2, <3>4, <3>5
  <2>. QED  BY <1>2, <1>6, <2>5
<1>8. Said(filter.kind, caller.text, filter.read) = Made(filter.kind, caller.text)
  <2>1. SubSeq(caller.text, 1, Len(caller.text)) = caller.text  BY <1>2, SubSeqFull DEF Blocks
  <2>2. CASE filter.kind = "silent"  BY <2>2 DEF Said, Made
  <2>3. CASE filter.kind \in {"cat", "sort"}
    <3>1. filter.read = Len(caller.text)  BY <1>1, <1>7, <2>3 DEF MayRead
    <3>2. <<>> \o caller.text = caller.text  BY <1>2, ConcatEmptySeq DEF Blocks
    <3>. QED  BY <2>1, <2>3, <3>1, <3>2 DEF Said, Made, Before
  <2>4. CASE filter.kind = "banner"
    <3>1. filter.read = Len(caller.text)  BY <1>1, <1>7, <2>4 DEF MayRead
    <3>. QED  BY <2>1, <2>4, <3>1 DEF Said, Made, Before
  <2>5. CASE filter.kind = "head"
    <3>1. filter.read <= 1 /\ (filter.read = 1 \/ filter.read = Len(caller.text))
      BY <1>1, <1>2, <1>7, <2>5 DEF FilterInv, ChildIsTrue, MayRead
    <3>2. PICK size \in Nat : size = Len(caller.text)  BY <1>6
    <3>3. Min({1, size}) \in {1, size} /\ Min({1, size}) <= 1 /\ Min({1, size}) <= size
      <4>1. 1 \in Int /\ size \in Int  OBVIOUS
      <4>. QED  BY <4>1, LesserOfTwo
    <3>4. Min({1, size}) = filter.read  BY <1>2, <1>6, <3>1, <3>2, <3>3
    <3>5. SubSeq(caller.text, 1, filter.read) \in Blocks
      <4>1. filter.read \in 0 .. Len(caller.text)  BY <1>2, <1>6
      <4>. QED  BY <1>2, <4>1, CutInTwo
    <3>6. <<>> \o SubSeq(caller.text, 1, filter.read) = SubSeq(caller.text, 1, filter.read)
      BY <3>5, ConcatEmptySeq DEF Blocks
    <3>. QED  BY <2>5, <3>2, <3>4, <3>6 DEF Said, Made, Before
  <2>. QED  BY <1>2, <2>2, <2>3, <2>4, <2>5 DEF Kinds
<1>9. FilterTypeOK'  BY <1>1, <1>3, <1>5 DEF FilterInv, FilterTypeOK
<1>10. InputFlows'
  <2>1. PipeRoom \in Nat  BY FilterProcAssumption
  <2>. QED  BY <1>1, <1>3, <1>4, <1>5, <1>6, <2>1 DEF InputFlows
<1>11. OutputFlows'  BY <1>1, <1>3, <1>5 DEF FilterInv, OutputFlows
<1>12. ChildIsTrue'  BY <1>1, <1>3, <1>5, <1>8 DEF FilterInv, ChildIsTrue
<1>13. HangupIsTrue'  BY <1>1, <1>3, <1>5 DEF FilterInv, HangupIsTrue
<1>. QED  BY <1>9, <1>10, <1>11, <1>12, <1>13 DEF FilterInv

(* So every step keeps the invariant.                                      *)
LEMMA FilterStep == FilterInv /\ [FilterProcNext]_filterProcVars => FilterInv'
<1>. SUFFICES ASSUME FilterInv, [FilterProcNext]_filterProcVars PROVE FilterInv'  OBVIOUS
<1>1. CASE UNCHANGED filterProcVars
  BY <1>1 DEF filterProcVars, FilterInv, FilterTypeOK, InputFlows, OutputFlows, ChildIsTrue, HangupIsTrue
<1>2. CASE SendReceive
  BY <1>2, PollKeeps, WriteKeeps, ReadKeeps, ReapedKeeps DEF SendReceive
<1>3. CASE ChildSteps
  BY <1>3, ChildReadsKeeps, ChildWritesKeeps, ChildEndsKeeps DEF ChildSteps
<1>. QED  BY <1>1, <1>2, <1>3 DEF FilterProcNext

(* A call that has returned has everything that the child made of the      *)
(* text, in order, whoever read, wrote or left first; the child has been   *)
(* reaped and no pipe is left open (the safety half of FilterReturnsAll).  *)
THEOREM FiltersReturnAll == FilterProcSpec => []AllIsReturned
<1>1. FilterInv => AllIsReturned
  <2>. SUFFICES ASSUME FilterInv, caller.at = "returned"
                PROVE  /\ caller.str = Made(filter.kind, caller.text)
                       /\ ~filter.runs /\ ~stdin.writer /\ ~stdout.reader
    BY DEF AllIsReturned
  <2>1. /\ stdout.held = <<>> /\ ~stdin.writer /\ ~stdout.reader /\ ~filter.runs
    BY DEF FilterInv, HangupIsTrue
  <2>2. /\ filter.todo = <<>>
        /\ Said(filter.kind, caller.text, filter.read) = Made(filter.kind, caller.text)
    BY <2>1 DEF FilterInv, ChildIsTrue
  <2>3. caller.str \in Blocks  BY DEF FilterInv, FilterTypeOK
  <2>4. (caller.str \o <<>>) \o <<>> = caller.str
    <3>1. caller.str \o <<>> = caller.str  BY <2>3, ConcatEmptySeq DEF Blocks
    <3>. QED  BY <3>1
  <2>. QED  BY <2>1, <2>2, <2>4 DEF FilterInv, OutputFlows
<1>. QED  BY InitIsTrue, FilterStep, <1>1, PTL DEF FilterProcSpec

=============================================================================
