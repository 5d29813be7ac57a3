------------------------------ MODULE FilterProc ------------------------------
(***************************************************************************)
(* A child process that a text is piped through (filterproc.c): zcrypt and *)
(* gpg.  The client polls both pipes and serves what is ready, while the   *)
(* child does as it likes between any two of its steps: it may write       *)
(* before it reads, read all before it writes, or leave either pipe early. *)
(* Signals are taken by another thread: poll is not interrupted.           *)
(***************************************************************************)
EXTENDS Integers, Sequences, SequencesExt

CONSTANTS MaxText,   \* bound: blocks piped in
          PipeRoom,  \* blocks that a pipe holds
          BlocksRead \* blocks read at a time

ASSUME FilterProcAssumption ==
  MaxText \in Nat /\ PipeRoom \in Nat \ {0} /\ BlocksRead \in Nat \ {0}

VARIABLES caller,  \* send_receive: where it is, what poll said, out and str
          stdin, stdout,  \* the pipes: what they hold, and their two ends
          filter   \* the child: what it does, has read and will write

filterProcVars == <<caller, stdin, stdout, filter>>

Pipe == [held |-> <<>>, reader |-> TRUE, writer |-> TRUE]
HasRoom(pipe) == Len(pipe.held) < PipeRoom

(* What a child makes of its input, when nothing goes wrong.               *)
Kinds == {"cat", "sort", "banner", "head", "silent"}
Banner == [i \in 1 .. PipeRoom + 1 |-> 0]
Made(kind, text) ==
  CASE kind \in {"cat", "sort"} -> text
    [] kind = "banner" -> Banner \o text
    [] kind = "head"   -> SubSeq(text, 1, Min({1, Len(text)}))
    [] kind = "silent" -> <<>>

(* call_filter: nothing to write closes the pipe at once.                  *)
FilterProcInit ==
  \E kind \in Kinds, n \in 0 .. MaxText :
    LET text == [i \in 1 .. n |-> i] IN
    /\ caller = [at |-> "poll", revents |-> {}, text |-> text, out |-> text, str |-> <<>>]
    /\ stdin = [Pipe EXCEPT !.writer = n > 0]
    /\ stdout = [Pipe EXCEPT !.writer = kind # "silent"]
    /\ filter = [kind |-> kind, runs |-> TRUE, read |-> 0,
                 todo |-> IF kind = "banner" THEN Banner ELSE <<>>]

-----------------------------------------------------------------------------
Readable    == stdout.held # <<>>
LeftByChild == ~stdout.writer
Writable    == caller.out # <<>> /\ (HasRoom(stdin) \/ ~stdin.reader)

(* Broken variant: what the child says is read when it has been told all.  *)
PollWhole ==
  /\ caller.at = "poll"
  /\ IF caller.out # <<>> THEN Writable ELSE Readable \/ LeftByChild
  /\ caller' = [caller EXCEPT !.at = "write", !.revents =
       IF caller.out # <<>> THEN {"out"}
       ELSE {e \in {"in", "hup"} : (e = "in" /\ Readable) \/ (e = "hup" /\ LeftByChild)}]
  /\ UNCHANGED <<stdin, stdout, filter>>

Poll ==
  LET revents == {e \in {"in", "hup", "out"} :
                    \/ e = "in"  /\ Readable
                    \/ e = "hup" /\ LeftByChild
                    \/ e = "out" /\ Writable}
  IN  /\ caller.at = "poll" /\ revents # {}
      /\ caller' = [caller EXCEPT !.at = "write", !.revents = revents]
      /\ UNCHANGED <<stdin, stdout, filter>>

(* As much as the pipe takes; of a pipe that nobody reads, no more.        *)
WriteOut ==
  LET n == IF stdin.reader THEN Min({PipeRoom - Len(stdin.held), Len(caller.out)})
           ELSE Len(caller.out)
      left == IF "out" \in caller.revents THEN SubSeq(caller.out, n + 1, Len(caller.out)) ELSE caller.out
  IN  /\ caller.at = "write"
      /\ caller' = [caller EXCEPT !.at = "read", !.out = left]
      /\ stdin' = IF "out" \notin caller.revents THEN stdin
                  ELSE [stdin EXCEPT !.writer = left # <<>>,
                          !.held = IF stdin.reader THEN @ \o SubSeq(caller.out, 1, n) ELSE @]
      /\ UNCHANGED <<stdout, filter>>

ReadIn ==
  LET n == Min({BlocksRead, Len(stdout.held)}) IN
  /\ caller.at = "read"
  /\ CASE "in" \in caller.revents ->
            /\ caller' = [caller EXCEPT !.at = "poll", !.str = @ \o SubSeq(stdout.held, 1, n)]
            /\ stdout' = [stdout EXCEPT !.held = SubSeq(@, n + 1, Len(@))]
            /\ UNCHANGED stdin
       [] "in" \notin caller.revents /\ "hup" \in caller.revents ->
            /\ caller' = [caller EXCEPT !.at = "waitpid"]
            /\ stdout' = [stdout EXCEPT !.reader = FALSE]
            /\ stdin' = [stdin EXCEPT !.writer = FALSE]
       [] OTHER -> caller' = [caller EXCEPT !.at = "poll"] /\ UNCHANGED <<stdin, stdout>>
  /\ UNCHANGED filter

Reaped ==
  /\ caller.at = "waitpid" /\ ~filter.runs
  /\ caller' = [caller EXCEPT !.at = "returned"]
  /\ UNCHANGED <<stdin, stdout, filter>>

-----------------------------------------------------------------------------
(* The child reads a block, writes one, or ends.                           *)
MayRead == filter.kind # "head" \/ filter.read = 0
ChildReads ==
  /\ filter.runs /\ MayRead /\ stdin.held # <<>>
  /\ filter.kind \in {"cat", "banner", "head"} => filter.todo = <<>>
  /\ filter' = [filter EXCEPT !.read = @ + 1,
                  !.todo = IF filter.kind = "silent" THEN @ ELSE Append(@, Head(stdin.held))]
  /\ stdin' = [stdin EXCEPT !.held = Tail(@)]
  /\ UNCHANGED <<caller, stdout>>

AtEof == stdin.held = <<>> /\ ~stdin.writer
ChildWrites ==
  /\ filter.runs /\ filter.todo # <<>> /\ stdout.reader /\ HasRoom(stdout)
  /\ filter.kind = "sort" => AtEof
  /\ stdout' = [stdout EXCEPT !.held = Append(@, Head(filter.todo))]
  /\ filter' = [filter EXCEPT !.todo = Tail(@)]
  /\ UNCHANGED <<caller, stdin>>

ChildEnds ==
  /\ filter.runs /\ filter.todo = <<>> /\ (AtEof \/ ~MayRead)
  /\ filter' = [filter EXCEPT !.runs = FALSE]
  /\ stdin' = [stdin EXCEPT !.reader = FALSE, !.held = <<>>]
  /\ stdout' = [stdout EXCEPT !.writer = FALSE]
  /\ UNCHANGED caller

SendReceive == Poll \/ WriteOut \/ ReadIn \/ Reaped
ChildSteps  == ChildReads \/ ChildWrites \/ ChildEnds
FilterProcNext == SendReceive \/ ChildSteps

(* The client does nothing else meanwhile, and the child is scheduled.     *)
FilterProcFairness == WF_filterProcVars(SendReceive) /\ WF_filterProcVars(ChildSteps)

-----------------------------------------------------------------------------
(* A call returns, whatever the child does first and however little the    *)
(* pipes hold, with everything that the child wrote, in order; by then the *)
(* child has been reaped and no pipe is left open.                         *)
FilterReturnsAll ==
  <>(/\ caller.at = "returned" /\ caller.str = Made(filter.kind, caller.text)
     /\ ~filter.runs /\ ~stdin.writer /\ ~stdout.reader)
=============================================================================
