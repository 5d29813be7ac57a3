----------------------------- MODULE OutputStream -----------------------------
(***************************************************************************)
(* What a pop-up promises of a command's output: the blocks get into the   *)
(* window in the order they were written, each one once, and the stream    *)
(* ends by itself only when all of them are there.  Closing the window     *)
(* ends it at any time.                                                    *)
(***************************************************************************)
EXTENDS Naturals

VARIABLES
  state,   \* "closed", "open", or "ended" in a window that is still there
  written, \* blocks written
  shown    \* blocks in the window

vars == <<state, written, shown>>

Init == state = "closed" /\ written = 0 /\ shown = 0

(* A new window starts from nothing; its command may fail to start.        *)
Start ==
  /\ state = "closed" /\ state' \in {"open", "ended"}
  /\ written' = 0 /\ shown' = 0

Produce ==
  /\ state = "open" /\ written' = written + 1
  /\ UNCHANGED <<state, shown>>

Deliver ==
  /\ state = "open" /\ shown' \in shown .. written
  /\ UNCHANGED <<state, written>>

End ==
  /\ state = "open" /\ shown = written /\ state' = "ended"
  /\ UNCHANGED <<written, shown>>

Close ==
  /\ state # "closed" /\ state' = "closed"
  /\ UNCHANGED <<written, shown>>

Next == Start \/ Produce \/ Deliver \/ End \/ Close

Spec == Init /\ [][Next]_vars
=============================================================================
