-------------------------------- MODULE Popexec --------------------------------
(***************************************************************************)
(* A shell command whose output is shown in a pop-up window (popexec.c).   *)
(*                                                                         *)
(* The main loop calls owl_popexec_inputhandler when the pipe is readable  *)
(* or hung up; the child, and descendants that inherited its output, run   *)
(* at the same time, between any two system calls of the handler.  The     *)
(* owl_popexec is shared by the window and the watch, and counted.         *)
(***************************************************************************)
EXTENDS Naturals

CONSTANTS
  MaxRuns,    \* bound on the commands run one after the other
  MaxWritten, \* bound on the blocks a command and its descendants write
  PipeSize,   \* blocks the pipe holds
  ReadMax     \* blocks read at a time (1024 bytes in the code)

ASSUME BoundsAssumption ==
  /\ MaxRuns \in Nat /\ MaxWritten \in Nat
  /\ PipeSize \in Nat \ {0} /\ ReadMax \in Nat \ {0}

VARIABLES
  win,        \* the pop-up: "closed", "open", or "closing" inside waitpid
  refcount,   \* pe->refcount; 0 when there is no owl_popexec
  winactive,  \* pe->winactive
  pid,        \* pe->pid # 0
  ioWatch,    \* pe->io_watch: "none" (0), "set" or "unset" (never written)
  source,     \* the main loop has the watch, and the pipe is open for reading
  strayed,    \* a source that is not this one's was asked to be removed
  child,      \* the process: "none", "running", "zombie" or "reaped"
  obedient,   \* the process dies of SIGTERM
  termed,     \* it has been sent SIGTERM
  writers,    \* who holds the pipe's write end
  avail, written, shown,   \* blocks in the pipe, written, and in the window
  pc, navail, \* where the handler is, and what FIONREAD told it
  reached,    \* "popexec should not have reached this point"
  runs

peVars    == <<refcount, winactive, pid, ioWatch, source, strayed>>
childVars == <<child, obedient, termed, writers, written>>
vars == <<win, peVars, childVars, avail, shown, pc, navail, reached, runs>>

Writers == {"child", "descendant"}

TypeOK ==
  /\ win \in {"closed", "open", "closing"}
  /\ refcount \in 0 .. 2
  /\ winactive \in BOOLEAN /\ pid \in BOOLEAN /\ source \in BOOLEAN
  /\ strayed \in BOOLEAN /\ reached \in BOOLEAN
  /\ ioWatch \in {"none", "set", "unset"}
  /\ child \in {"none", "running", "zombie", "reaped"}
  /\ obedient \in BOOLEAN /\ termed \in BOOLEAN
  /\ writers \in SUBSET Writers
  /\ avail \in 0 .. PipeSize /\ written \in 0 .. MaxWritten /\ shown \in 0 .. MaxWritten
  /\ pc \in {"loop", "checked", "reading"} /\ navail \in 0 .. PipeSize
  /\ runs \in 0 .. MaxRuns

Init ==
  /\ win = "closed" /\ refcount = 0
  /\ winactive = FALSE /\ pid = FALSE /\ ioWatch = "none" /\ source = FALSE
  /\ strayed = FALSE /\ reached = FALSE
  /\ child = "none" /\ obedient = TRUE /\ termed = FALSE /\ writers = {}
  /\ avail = 0 /\ written = 0 /\ shown = 0
  /\ pc = "loop" /\ navail = 0
  /\ runs = 0

-----------------------------------------------------------------------------
(* owl_popexec_new; another pop-up must not be open.                       *)
Open ==
  /\ win = "closed" /\ pc = "loop" /\ runs < MaxRuns
  /\ win' = "open" /\ runs' = runs + 1
  /\ avail' = 0 /\ written' = 0 /\ shown' = 0 /\ termed' = FALSE
  /\ UNCHANGED <<strayed, pc, navail, reached>>

(* pipe and fork succeed: the window and the watch each hold a reference.  *)
NewWithChild ==
  /\ Open
  /\ refcount' = 2 /\ winactive' = TRUE /\ pid' = TRUE
  /\ ioWatch' = "set" /\ source' = TRUE
  /\ child' = "running" /\ obedient' \in BOOLEAN /\ writers' = {"child"}

(* One of them fails: the window stays, pe->io_watch is not written.       *)
NewWithoutChild ==
  /\ Open
  /\ refcount' = 1 /\ winactive' = FALSE /\ pid' = FALSE
  /\ ioWatch' = "unset" /\ source' = FALSE
  /\ child' = "none" /\ obedient' = TRUE /\ writers' = {}

-----------------------------------------------------------------------------
(* The command runs by itself.                                             *)
running == <<win, peVars, shown, pc, navail, reached, runs, obedient, termed>>

Write ==
  /\ writers # {} /\ source
  /\ written < MaxWritten /\ avail < PipeSize
  /\ written' = written + 1 /\ avail' = avail + 1
  /\ UNCHANGED <<running, child, writers>>

(* It starts a process in the background, which inherits its output.       *)
Spawn ==
  /\ child = "running" /\ "child" \in writers
  /\ writers' = writers \cup {"descendant"}
  /\ UNCHANGED <<running, child, avail, written>>

(* It closes its output, or the process in the background ends.            *)
CloseOutput(w) ==
  /\ w \in writers
  /\ writers' = writers \ {w}
  /\ UNCHANGED <<running, child, avail, written>>

Exit ==
  /\ child = "running"
  /\ child' = "zombie" /\ writers' = writers \ {"child"}
  /\ UNCHANGED <<running, avail, written>>

(* SIGTERM takes effect.                                                   *)
Terminate == obedient /\ termed /\ Exit

-----------------------------------------------------------------------------
(* owl_popexec_unref; the watch's GDestroyNotify, or the close hook.       *)
Unref == refcount' = refcount - 1

(* Broken variant: the watch is destroyed without its GDestroyNotify.      *)
DestroySourceOnly == source' = FALSE /\ avail' = 0 /\ UNCHANGED refcount

(* The watch is gone and its channel, the last one, closes the pipe.       *)
DestroySource == source' = FALSE /\ avail' = 0 /\ Unref

(* Broken variants: the watch asks for G_IO_HUP alone, or for G_IO_IN.     *)
ReadyOnHangup == source /\ writers = {}

(* The poll finds G_IO_IN or G_IO_HUP.                                     *)
Ready == source /\ (avail > 0 \/ writers = {})

(* owl_popexec_inputhandler, up to FIONREAD.                               *)
HandlerStart ==
  /\ pc = "loop" /\ win # "closing" /\ Ready
  /\ UNCHANGED <<win, winactive, pid, strayed, childVars, shown, reached, runs>>
  /\ IF ~pid /\ ~winactive
       THEN ioWatch' = "none" /\ DestroySource /\ UNCHANGED <<pc, navail>>
       ELSE pc' = "checked" /\ navail' = avail /\ UNCHANGED <<refcount, ioWatch, source, avail>>

(* Broken variant: an exited child is reaped without a look at the pipe.   *)
HandlerReapEagerly ==
  /\ pc = "checked" /\ pid /\ child = "zombie"
  /\ child' = "reaped" /\ pid' = FALSE /\ ioWatch' = "none"
  /\ pc' = "loop" /\ DestroySource
  /\ UNCHANGED <<win, winactive, strayed, obedient, termed, writers, written, shown,
                 navail, reached, runs>>

(* Nothing to read and the child has exited: it is reaped, the watch goes. *)
HandlerReap ==
  /\ pc = "checked" /\ navail = 0 /\ pid /\ child = "zombie"
  /\ child' = "reaped" /\ pid' = FALSE /\ ioWatch' = "none"
  /\ pc' = "loop" /\ DestroySource
  /\ UNCHANGED <<win, winactive, strayed, obedient, termed, writers, written, shown,
                 navail, reached, runs>>

(* Otherwise: the point not to be reached, nothing to do yet, or a read.   *)
HandlerGoOn ==
  /\ pc = "checked" /\ ~(navail = 0 /\ pid /\ child = "zombie")
  /\ UNCHANGED <<win, winactive, pid, ioWatch, strayed, childVars, shown, runs>>
  /\ IF ~pid \/ ~winactive
       THEN reached' = TRUE /\ pc' = "loop" /\ DestroySource /\ UNCHANGED navail
       ELSE /\ UNCHANGED <<reached, refcount, source, avail>>
            /\ pc' = IF navail = 0 THEN "loop" ELSE "reading"
            /\ navail' = IF navail > ReadMax THEN ReadMax ELSE navail

(* Broken variant: the buffer is shown to its end, whatever was read.      *)
HandlerReadWhole ==
  /\ pc = "reading"
  /\ avail' = avail - navail /\ shown' = shown + ReadMax
  /\ pc' = "loop"
  /\ UNCHANGED <<win, peVars, childVars, navail, reached, runs>>

HandlerRead ==
  /\ pc = "reading"
  /\ avail' = avail - navail /\ shown' = shown + navail
  /\ pc' = "loop"
  /\ UNCHANGED <<win, peVars, childVars, navail, reached, runs>>

(* What closing lets go of at once: the watch's reference if there is one, *)
(* the window's own if there is no child to wait for.                      *)
WatchReference == IF ioWatch = "set" THEN 1 ELSE 0
WindowReference == IF pid THEN 0 ELSE 1

(* Broken variant: the watch is left to the handler.                       *)
CloseKeepingWatch ==
  /\ win = "open" /\ pc = "loop"
  /\ winactive' = FALSE
  /\ IF pid THEN win' = "closing" /\ termed' = TRUE /\ UNCHANGED refcount
     ELSE win' = "closed" /\ UNCHANGED termed /\ Unref
  /\ UNCHANGED <<pid, ioWatch, source, avail, strayed, child, obedient, writers, written,
                 shown, pc, navail, reached, runs>>

(* Broken variant: the child is waited for without having been killed.     *)
CloseWithoutSigterm ==
  /\ win = "open" /\ pc = "loop"
  /\ winactive' = FALSE /\ ioWatch' = "none"
  /\ strayed' \in (IF ioWatch = "unset" THEN {strayed, TRUE} ELSE {strayed})
  /\ IF ioWatch = "set" THEN source' = FALSE /\ avail' = 0 ELSE UNCHANGED <<source, avail>>
  /\ win' = IF pid THEN "closing" ELSE "closed"
  /\ refcount' = refcount - WatchReference - WindowReference
  /\ UNCHANGED <<termed, pid, child, obedient, writers, written, shown, pc, navail, reached, runs>>

(* owl_popexec_viewwin_onclose, up to waitpid.  What g_source_remove finds *)
(* under an id that was never written is any source, or none.              *)
Close ==
  /\ win = "open" /\ pc = "loop"
  /\ winactive' = FALSE /\ ioWatch' = "none"
  /\ strayed' \in (IF ioWatch = "unset" THEN {strayed, TRUE} ELSE {strayed})
  /\ IF ioWatch = "set" THEN source' = FALSE /\ avail' = 0 ELSE UNCHANGED <<source, avail>>
  /\ IF pid THEN win' = "closing" /\ termed' = TRUE ELSE win' = "closed" /\ UNCHANGED termed
  /\ refcount' = refcount - WatchReference - WindowReference
  /\ UNCHANGED <<pid, child, obedient, writers, written, shown, pc, navail, reached, runs>>

(* waitpid returns and the hook lets go of the owl_popexec.                *)
CloseReap ==
  /\ win = "closing" /\ child = "zombie"
  /\ child' = "reaped" /\ pid' = FALSE /\ win' = "closed" /\ Unref
  /\ UNCHANGED <<winactive, ioWatch, source, strayed, obedient, termed, writers, written,
                 avail, shown, pc, navail, reached, runs>>

-----------------------------------------------------------------------------
Handler == HandlerStart \/ HandlerReap \/ HandlerGoOn \/ HandlerRead

Command == Write \/ Spawn \/ Exit \/ \E w \in Writers : CloseOutput(w)

(* Everything is over: the window is closed and no command may be run.     *)
Over == win = "closed" /\ runs = MaxRuns /\ UNCHANGED vars

Next ==
  \/ NewWithChild \/ NewWithoutChild
  \/ Command \/ Terminate
  \/ Handler \/ Close \/ CloseReap
  \/ Over

Spec == Init /\ [][Next]_vars

-----------------------------------------------------------------------------
(* The references are counted: one for the window, one for the watch.  So  *)
(* the object is freed when both are gone, and not before.                 *)
RefcountIsExact ==
  refcount = (IF win = "closed" THEN 0 ELSE 1) + (IF source THEN 1 ELSE 0)

(* "popexec should not have reached this point"                            *)
AssertedPointNotReached == ~reached

(* "check to see if the child has ended gracefully and no more data is     *)
(* ready to be read": when the handler reaps the child and drops the pipe, *)
(* all that was ever written to it is in the window, even what was written *)
(* between the look at the pipe and the reaping.                           *)
OutputIsComplete ==
  win = "open" /\ child = "reaped" => shown = written /\ writers = {}

(* "child reaped, fd closed, callback removed": a closed window leaves     *)
(* none of them behind.                                                    *)
ClosedIsClean ==
  win = "closed" => /\ child \notin {"running", "zombie"}
                    /\ ~source /\ refcount = 0 /\ pc = "loop"

(* "data read until end if child running": as long as the window is open,  *)
(* all output comes to it.                                                 *)
OutputIsShown == []<>(avail = 0 \/ win # "open")

(* A command that ended, with nobody left to write, is reaped.             *)
ExitIsNoticed == child = "zombie" /\ writers = {} ~> child = "reaped"

(* Closing the window ends if the command dies of SIGTERM.                 *)
CloseReturns == win = "closing" /\ obedient ~> win = "closed"

(* What is written comes to the window, the end of the command is noticed  *)
(* and closing the window returns, each in the end.                        *)
PopupIsServed == OutputIsShown /\ ExitIsNoticed /\ CloseReturns

(* The pop-up implements the stream of its command's output.               *)
StreamState ==
  IF win # "open" THEN "closed" ELSE IF source THEN "open" ELSE "ended"

Stream == INSTANCE OutputStream WITH state <- StreamState

ImplementsStream == Stream!Spec
=============================================================================
