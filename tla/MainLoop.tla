-------------------------------- MODULE MainLoop --------------------------------
(***************************************************************************)
(* Startup, the main loop and shutdown, with their three threads:          *)
(*   - the main thread (owl.c main, select.c), which runs the tasks posted *)
(*     to it, the keys and the redraws in iterations of a GLib loop,       *)
(*   - the signal thread (signal.c), which waits for the watched signals   *)
(*     and posts a task for each,                                          *)
(*   - the logging thread (logging.c), which writes what is posted to it.  *)
(*                                                                         *)
(* A task is a signal to handle or the report of a failed write; an entry  *)
(* of the log is its number, 0 ends the log.  The model begins when the signal  *)
(* thread has been created.                                                *)
(***************************************************************************)
EXTENDS Naturals, Sequences, FiniteSets, SequencesExt

CONSTANTS
  Sizes,      \* sizes of the terminal
  MaxSignals, \* bound on the signals raised
  MaxKeys     \* bound on the key commands

ASSUME BoundsAssumption == Sizes # {} /\ MaxSignals \in Nat /\ MaxKeys \in Nat

VARIABLES
  phase,      \* "startup", "running", then the joins of main(), then "exited"
  main,       \* "poll" between iterations, "dispatch" or "search" inside one
  loop,       \* select.c's loop is not NULL
  tasks,      \* the tasks of the default context
  batch,      \* how many of them this iteration has still to run
  pending,    \* signals raised and not yet waited for
  killed,     \* SIGTERM was sent to the signal thread itself
  sigpc, sig, \* where the signal thread is, and with what signal
  interrupts, \* g.interrupt_count
  size, resizePending, drawn, \* of the terminal, g.resizepending, of the screen
  logq, logpc, \* the tasks of the logging thread, and whether it runs
  logged,     \* entries logged so far
  file,       \* entries in the file
  failed,     \* entries that could not be written
  quitAsked,  \* owl_function_quit has run
  nsignals, nkeys

mainVars   == <<phase, main, loop, batch>>
sigVars    == <<pending, killed, sigpc, sig>>
screenVars == <<size, resizePending, drawn>>
logVars    == <<logq, logpc, logged, file, failed>>
bounds     == <<nsignals, nkeys>>
vars == <<mainVars, tasks, sigVars, interrupts, screenVars, logVars, quitAsked, bounds>>

Signals == {"INT", "TERM", "HUP", "WINCH"}
Tasks == Signals \cup {"logerror"}
QuitEntry == 0
Phases == {"startup", "running", "sigjoin", "logquit", "logjoin", "exited"}

TypeOK ==
  /\ phase \in Phases /\ main \in {"poll", "dispatch", "search"}
  /\ loop \in BOOLEAN /\ tasks \in Seq(Tasks) /\ batch \in 0 .. Len(tasks)
  /\ pending \in SUBSET Signals /\ killed \in BOOLEAN
  /\ sigpc \in {"wait", "add", "post", "dead"} /\ sig \in Signals
  /\ interrupts \in 0 .. MaxSignals
  /\ size \in Sizes /\ resizePending \in BOOLEAN /\ drawn \in Sizes
  /\ logpc \in {"none", "running", "dead"} /\ logged \in 0 .. MaxKeys
  /\ logq \in Seq(QuitEntry .. MaxKeys)
  /\ file \in Seq(1 .. MaxKeys) /\ failed \in SUBSET (1 .. MaxKeys)
  /\ quitAsked \in BOOLEAN
  /\ nsignals \in 0 .. MaxSignals /\ nkeys \in 0 .. MaxKeys

Init ==
  /\ phase = "startup" /\ main = "poll" /\ loop = FALSE
  /\ tasks = <<>> /\ batch = 0
  /\ pending = {} /\ killed = FALSE /\ sigpc = "wait" /\ sig = "WINCH"
  /\ interrupts = 0
  /\ size \in Sizes /\ resizePending = FALSE /\ drawn = size
  /\ logq = <<>> /\ logpc = "none" /\ logged = 0 /\ file = <<>> /\ failed = {}
  /\ quitAsked = FALSE
  /\ nsignals = 0 /\ nkeys = 0

-----------------------------------------------------------------------------
(* The system and the user raise a watched signal; one already pending is  *)
(* not counted twice.  SIGWINCH says that the terminal changed its size.   *)
Raise(s) ==
  /\ nsignals < MaxSignals /\ phase # "exited"
  /\ nsignals' = nsignals + 1
  /\ pending' = pending \cup {s}
  /\ size' \in (IF s = "WINCH" THEN Sizes \ {size} ELSE {size})
  /\ UNCHANGED <<mainVars, tasks, killed, sigpc, sig, interrupts, resizePending, drawn,
                 logVars, quitAsked, nkeys>>

(* The signal thread: sigwaitinfo, then sig_handler in its two steps.      *)
outside == <<mainVars, screenVars, logVars, quitAsked, bounds>>

SigWait ==
  /\ sigpc = "wait"
  /\ \/ \E s \in pending :
          sig' = s /\ pending' = pending \ {s} /\ UNCHANGED killed
     \/ killed /\ sig' = "TERM" /\ killed' = FALSE /\ UNCHANGED pending
  /\ sigpc' = IF sig' = "INT" THEN "add" ELSE "post"
  /\ UNCHANGED <<outside, tasks, interrupts>>

(* owl_global_add_interrupt                                                *)
SigAdd ==
  /\ sigpc = "add"
  /\ interrupts' = interrupts + 1 /\ sigpc' = "post"
  /\ UNCHANGED <<outside, pending, killed, sig, tasks>>

(* Broken variant: the thread dies of SIGTERM before its callback runs.    *)
SigPostUnlessTerm ==
  /\ sigpc = "post"
  /\ tasks' = IF sig = "TERM" THEN tasks ELSE Append(tasks, sig)
  /\ sigpc' = IF sig = "TERM" THEN "dead" ELSE "wait"
  /\ UNCHANGED <<outside, pending, killed, sig, interrupts>>

(* owl_select_post_task; "die on SIGTERM".                                 *)
SigPost ==
  /\ sigpc = "post"
  /\ tasks' = Append(tasks, sig)
  /\ sigpc' = IF sig = "TERM" THEN "dead" ELSE "wait"
  /\ UNCHANGED <<outside, pending, killed, sig, interrupts>>

-----------------------------------------------------------------------------
(* owl_function_quit: the shutdown hooks, then owl_select_quit_loop.       *)
Quit == quitAsked' = TRUE /\ loop' = FALSE

(* The startup file quits.                                                 *)
StartupQuit ==
  /\ phase = "startup" /\ nkeys < MaxKeys
  /\ Quit /\ nkeys' = nkeys + 1
  /\ UNCHANGED <<phase, main, batch, tasks, sigVars, interrupts, screenVars, logVars, nsignals>>

(* The end of main's startup: owl_log_init and owl_select_run_loop.        *)
StartupFinish ==
  /\ phase = "startup"
  /\ phase' = "running" /\ loop' = TRUE /\ logpc' = "running"
  /\ UNCHANGED <<main, batch, tasks, sigVars, interrupts, screenVars, logq, logged, file,
                 failed, quitAsked, bounds>>

-----------------------------------------------------------------------------
(* An iteration runs every task that was there when it began.              *)
Running == phase = "running" /\ UNCHANGED <<sigVars, nsignals>>

BeginIteration ==
  /\ Running /\ main = "poll"
  /\ tasks # <<>> \/ resizePending \/ nkeys < MaxKeys
  /\ main' = "dispatch" /\ batch' = Len(tasks)
  /\ UNCHANGED <<phase, loop, tasks, interrupts, screenVars, logVars, quitAsked, nkeys>>

(* Broken variants: the flag is looked at and left, or taken unseen.       *)
PeekInterrupt == UNCHANGED interrupts

(* owl_global_take_interrupt; a SIGINT nobody took is the interrupt key.   *)
TakeInterrupt == interrupts' = IF interrupts > 0 THEN interrupts - 1 ELSE 0

(* _run_task on sig_handler_main_thread or owl_log_error_main_thread.      *)
RunTask ==
  /\ Running /\ main = "dispatch" /\ batch > 0
  /\ batch' = batch - 1 /\ tasks' = Tail(tasks)
  /\ LET t == Head(tasks)
     IN /\ IF t = "WINCH" THEN resizePending' = TRUE ELSE UNCHANGED resizePending
        /\ IF t \in {"TERM", "HUP"} THEN Quit ELSE UNCHANGED <<quitAsked, loop>>
        /\ IF t = "INT" THEN TakeInterrupt ELSE UNCHANGED interrupts
  /\ UNCHANGED <<phase, main, size, drawn, logVars, nkeys>>

(* A key: the quit command; a search, which begins; a message that is      *)
(* processed and logged.                                                   *)
Key ==
  /\ Running /\ main = "dispatch" /\ nkeys < MaxKeys
  /\ nkeys' = nkeys + 1
  /\ UNCHANGED <<phase, batch, tasks, interrupts, screenVars, logpc, file, failed>>
  /\ \/ Quit /\ UNCHANGED <<main, logq, logged>>
     \/ main' = "search" /\ UNCHANGED <<loop, quitAsked, logq, logged>>
     \/ /\ logged' = logged + 1 /\ logq' = Append(logq, logged')
        /\ UNCHANGED <<main, loop, quitAsked>>

(* owl_function_search_helper, or the list of zephyr users: the flag ends  *)
(* it, unless it finds something first.                                    *)
SearchInterrupted ==
  /\ Running /\ main = "search" /\ interrupts > 0
  /\ TakeInterrupt /\ main' = "dispatch"
  /\ UNCHANGED <<phase, loop, batch, tasks, screenVars, logVars, quitAsked, nkeys>>

SearchEnds ==
  /\ Running /\ main = "search"
  /\ main' = "dispatch"
  /\ UNCHANGED <<phase, loop, batch, tasks, interrupts, screenVars, logVars, quitAsked, nkeys>>

(* _owl_window_redraw_dispatch, owl_global_check_resize.                   *)
Redraw ==
  /\ Running /\ main = "dispatch" /\ resizePending
  /\ resizePending' = FALSE /\ drawn' = size
  /\ UNCHANGED <<mainVars, tasks, interrupts, size, logVars, quitAsked, nkeys>>

(* g_main_loop_run looks whether it has been quit; then the signal thread  *)
(* is killed (owl_signal_shutdown).                                        *)
EndIteration ==
  /\ phase = "running" /\ main = "dispatch" /\ batch = 0
  /\ main' = "poll"
  /\ IF loop THEN UNCHANGED <<phase, killed>>
     ELSE phase' = "sigjoin" /\ killed' = (sigpc # "dead")
  /\ UNCHANGED <<loop, batch, tasks, pending, sigpc, sig, interrupts, screenVars, logVars,
                 quitAsked, bounds>>

-----------------------------------------------------------------------------
(* The rest of main: the threads are joined one after the other.           *)
shutdown == <<main, loop, batch, sigVars, interrupts, screenVars, quitAsked, bounds>>

JoinSignalThread ==
  /\ phase = "sigjoin" /\ sigpc = "dead"
  /\ phase' = "logquit"
  /\ UNCHANGED <<shutdown, tasks, logVars>>

(* Broken variant: the logging loop is told to quit directly.              *)
LogQuitAtOnce ==
  /\ phase = "logquit"
  /\ phase' = "logjoin" /\ logpc' = "dead"
  /\ UNCHANGED <<shutdown, tasks, logq, logged, file, failed>>

(* owl_log_shutdown posts the end of the loop behind the entries.          *)
LogQuit ==
  /\ phase = "logquit"
  /\ phase' = "logjoin" /\ logq' = Append(logq, QuitEntry)
  /\ UNCHANGED <<shutdown, tasks, logpc, logged, file, failed>>

JoinLogThread ==
  /\ phase = "logjoin" /\ logpc = "dead"
  /\ phase' = "exited"
  /\ UNCHANGED <<shutdown, tasks, logVars>>

(* The logging thread: owl_log_write_entry, which may not open the file.   *)
LogWrite ==
  /\ logpc = "running" /\ logq # <<>> /\ Head(logq) # QuitEntry
  /\ logq' = Tail(logq)
  /\ \/ file' = Append(file, Head(logq)) /\ UNCHANGED <<tasks, failed>>
     \/ /\ failed' = failed \cup {Head(logq)} /\ tasks' = Append(tasks, "logerror")
        /\ UNCHANGED file
  /\ UNCHANGED <<mainVars, sigVars, interrupts, screenVars, logpc, logged, quitAsked, bounds>>

LogStop ==
  /\ logpc = "running" /\ logq # <<>> /\ Head(logq) = QuitEntry
  /\ logpc' = "dead" /\ logq' = Tail(logq)
  /\ UNCHANGED <<mainVars, tasks, sigVars, interrupts, screenVars, logged, file, failed,
                 quitAsked, bounds>>

-----------------------------------------------------------------------------
SignalThread == SigWait \/ SigAdd \/ SigPost

LogThread == LogWrite \/ LogStop

(* The steps the main thread takes without waiting for anybody's input.    *)
MainThread ==
  \/ StartupFinish
  \/ BeginIteration \/ RunTask \/ SearchInterrupted \/ SearchEnds \/ EndIteration
  \/ JoinSignalThread \/ LogQuit \/ JoinLogThread

Next ==
  \/ \E s \in Signals : Raise(s)
  \/ SignalThread
  \/ StartupQuit \/ Key \/ Redraw
  \/ MainThread
  \/ LogThread

Spec == Init /\ [][Next]_vars

(* Threads run when they can; a scheduled redraw is not passed over for    *)
(* ever.  Nobody has to press a key.                                       *)
FairSpec ==
  /\ Spec
  /\ WF_vars(SignalThread) /\ WF_vars(MainThread) /\ WF_vars(LogThread)
  /\ SF_vars(Redraw)

-----------------------------------------------------------------------------
(* "sig_handler_main_thread will check the flag to make sure no one else   *)
(* took it": every interrupt counted belongs to a task that is queued or   *)
(* about to be.  So a search is never ended by an interrupt of the past.   *)
InterruptIsFresh ==
  interrupts <= Cardinality({i \in DOMAIN tasks : tasks[i] = "INT"})
                + (IF sigpc = "post" /\ sig = "INT" THEN 1 ELSE 0)

(* The log is in the order of logging, nothing is written twice, and at    *)
(* the exit all is written but what could not be.                          *)
LogIsFaithful ==
  /\ \A i, j \in DOMAIN file : i < j => file[i] < file[j]
  /\ phase = "exited" => ToSet(file) = (1 .. logged) \ failed

(* owl.c: a SIGTERM or SIGHUP quits, at whatever time it comes.            *)
TermQuits == pending \cap {"TERM", "HUP"} # {} ~> phase = "exited"

(* Once the loop has been left the program ends: the joins return.         *)
ShutdownEnds == phase = "sigjoin" ~> phase = "exited"

(* The screen gets the size of the terminal, even when signals are merged. *)
SizeCatchesUp == size # drawn ~> size = drawn \/ phase \notin {"startup", "running"}

(* Every signal that asks for something gets it in the end.                *)
SignalsAreServed == TermQuits /\ ShutdownEnds /\ SizeCatchesUp

(* "Exit BarnOwl and run any shutdown activities."                         *)
QuitExits == quitAsked ~> phase = "exited"
=============================================================================
