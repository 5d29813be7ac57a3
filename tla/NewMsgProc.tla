------------------------------- MODULE NewMsgProc -------------------------------
(***************************************************************************)
(* The program that is run when messages have come in, unless it still     *)
(* runs from the last time (functions.c).  Nothing tells the client that   *)
(* it has ended: it is asked for when the next messages come.  Numbers of  *)
(* processes are not used again.                                           *)
(***************************************************************************)
EXTENDS Integers, Sequences

CONSTANT MaxNews   \* bound on the times that messages come in

VARIABLES
  newmsgproc,      \* the variable: not set, a line with unbalanced quotes, a program
  newmsgproc_pid,  \* 0, or the one to ask for
  children,        \* of each process started: "running", "ended" or "reaped"
  news

newsVars == <<newmsgproc, newmsgproc_pid, children, news>>

NewsInit == newmsgproc = "not set" /\ newmsgproc_pid = 0 /\ children = <<>> /\ news = 0

(* waitpid with WNOHANG: the state after, and what it returns.  A process  *)
(* may end right before.                                                   *)
Waitpid(child) ==
  (IF child = "running" THEN {<<"running", "0">>} ELSE {})
    \cup (IF child = "reaped" THEN {<<"reaped", "-1">>} ELSE {<<"reaped", "pid">>})

(* Broken variant: the call in a debugging message is not made.            *)
CheckedOnce(child) == Waitpid(child)

(* It is asked for three times, first in a debugging message; what the     *)
(* last call returns counts.                                               *)
Checked(child) ==
  UNION {UNION {Waitpid(second[1]) : second \in Waitpid(first[1])} : first \in Waitpid(child)}

(* Broken variant: one that has not been reaped is taken to have ended.    *)
IsGoneUnlessReaped(answer) == answer # "pid"

IsGone(answer) == answer = "-1"

(* g_spawn_async, which may fail, with the program that there is.          *)
SpawnProgram(kids) ==
  \E ok \in BOOLEAN :
    LET started == ok /\ newmsgproc = "program" IN
    /\ children' = IF started THEN Append(kids, "running") ELSE kids
    /\ newmsgproc_pid' = IF started THEN Len(kids) + 1 ELSE 0

(* owl_function_do_newmsgproc, of messages that have been processed        *)
DoNewmsgproc ==
  /\ news < MaxNews /\ news' = news + 1
  /\ IF newmsgproc = "not set" THEN UNCHANGED <<newmsgproc_pid, children>>
     ELSE IF newmsgproc_pid = 0 THEN SpawnProgram(children)
     ELSE \E check \in Checked(children[newmsgproc_pid]) :
            LET kids == [children EXCEPT ![newmsgproc_pid] = check[1]] IN
            IF IsGone(check[2]) THEN SpawnProgram(kids)
            ELSE children' = kids /\ UNCHANGED newmsgproc_pid
  /\ UNCHANGED newmsgproc

SetNewmsgproc == newmsgproc' \in {"not set", "unbalanced", "program"} /\ UNCHANGED <<newmsgproc_pid, children, news>>

ProgramEnds ==
  \E i \in DOMAIN children :
    /\ children[i] = "running" /\ children' = [children EXCEPT ![i] = "ended"]
    /\ UNCHANGED <<newmsgproc, newmsgproc_pid, news>>

NewsNext == DoNewmsgproc \/ SetNewmsgproc \/ ProgramEnds

-----------------------------------------------------------------------------
(* "It will not be run again until the first instance exits", whatever the *)
(* variable is set to meanwhile; and no process is left that nobody asks   *)
(* for.                                                                    *)
OneInstanceRuns ==
  \A i \in DOMAIN children : children[i] = "reaped" \/ i = newmsgproc_pid

(* When messages come in and no instance runs, one is started, though the  *)
(* former one may have ended at any moment before.                         *)
NewsAreTold ==
  [][(/\ DoNewmsgproc /\ newmsgproc = "program"
      /\ \A i \in DOMAIN children : children[i] # "running")
     => newmsgproc_pid' \in {0, Len(children) + 1}]_newsVars
=============================================================================
