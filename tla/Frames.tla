------------------------------- MODULE Frames -------------------------------
(***************************************************************************)
(* How AIM frames are sent (txqueue.c, conn.c): at once over a connection  *)
(* that is open; those for one that is still being made wait in the        *)
(* session's queue, with the numbers they have been given, until it is     *)
(* there.  Connections are made, break and are killed beside each other.   *)
(* Nothing is sent with forced latency, and whole frames are sent.         *)
(***************************************************************************)
EXTENDS Subsequences, SequencesExt

CONSTANTS FrameConns,  \* connections
          SeqNumbers,  \* the numbers of frames: 2^16
          MaxSent      \* bound: the frames given to a connection, and those in the queue

ASSUME SeqNumbersAssumption == SeqNumbers \in Nat \ {0}

VARIABLES lines,          \* the connections: seqnum, the frames that were given
                          \* and those that have arrived
          queue_outgoing  \* [conn, seqnum, handled]

frameVars == <<lines, queue_outgoing>>

NewLine(state) == [state |-> state, seqnum |-> 0, given |-> 0, arrived |-> <<>>]

FramesInit ==
  /\ lines = [c \in FrameConns |-> NewLine("none")]
  /\ queue_outgoing = <<>>

InProgress(c) == lines[c].state = "connecting"

(* aim_newconn: being made, there at once, or given up (fd is -1).         *)
FrameConnect(c, state) ==
  /\ lines[c].state = "none"
  /\ lines' = [lines EXCEPT ![c] = NewLine(state)]
  /\ UNCHANGED queue_outgoing

(* sendframe_flap, of one frame after the other, over whatever the         *)
(* connection is by then.                                                  *)
SendFrames(line, seqnums) ==
  IF line.state = "open" THEN [line EXCEPT !.arrived = @ \o seqnums] ELSE line

(* The frames of a connection that are still to be sent, and their numbers *)
(* as they are in the queue.                                               *)
FramesOf(c) == [conn : {c}, seqnum : 0 .. SeqNumbers - 1, handled : {FALSE}]
Numbers(frames) == [i \in DOMAIN frames |-> frames[i].seqnum]
Unsent(c) == Numbers(Only(queue_outgoing, FramesOf(c)))

NextSeqnum(c) == (lines[c].seqnum + 1) % SeqNumbers
Numbered(c) == [lines EXCEPT ![c].seqnum = NextSeqnum(c), ![c].given = @ + 1]

(* Broken variant: nothing waits.                                          *)
EnqueueAtOnce(c) ==
  /\ lines[c].state # "none"
  /\ lines[c].given < MaxSent /\ Len(queue_outgoing) < MaxSent
  /\ lines' = [Numbered(c) EXCEPT ![c] = SendFrames(@, <<NextSeqnum(c)>>)]
  /\ UNCHANGED queue_outgoing

(* aim_tx_enqueue, with AIM_TX_IMMEDIATE.                                  *)
Enqueue(c) ==
  /\ lines[c].state # "none"
  /\ lines[c].given < MaxSent /\ Len(queue_outgoing) < MaxSent
  /\ IF InProgress(c)
       THEN /\ lines' = Numbered(c)
            /\ queue_outgoing' = Append(queue_outgoing,
                                        [conn |-> c, seqnum |-> NextSeqnum(c), handled |-> FALSE])
       ELSE /\ lines' = [Numbered(c) EXCEPT ![c] = SendFrames(@, <<NextSeqnum(c)>>)]
            /\ UNCHANGED queue_outgoing

(* Broken variant: whatever the connections are.                           *)
FlushAll(of) ==
  /\ lines' = [c \in FrameConns |-> SendFrames(of[c], Unsent(c))]
  /\ queue_outgoing' = <<>>

(* aim_tx_flushqueue and aim_tx_purgequeue, with the connections of: those *)
(* being made are passed over, their frames stay.                          *)
FlushQueue(of) ==
  LET made == {c \in FrameConns : of[c].state # "connecting"} IN
  /\ lines' = [c \in FrameConns |-> IF c \in made THEN SendFrames(of[c], Unsent(c)) ELSE of[c]]
  /\ queue_outgoing' = Only(queue_outgoing, UNION {FramesOf(c) : c \in FrameConns \ made})

(* aim_conn_completeconnect flushes what waits, also of other connections. *)
FrameConnected(c) ==
  /\ InProgress(c)
  /\ FlushQueue([lines EXCEPT ![c].state = "open"])

(* aim_select comes to the queue when no connection is dead or being made. *)
FlushWaiting ==
  /\ queue_outgoing # <<>>
  /\ \A c \in FrameConns : lines[c].state \notin {"dead", "connecting"}
  /\ \E c \in FrameConns : lines[c].state # "none"
  /\ FlushQueue(lines)

(* The other side is gone; a connection that cannot be made is found to be *)
(* complete.                                                               *)
FrameBreak(c) ==
  /\ lines[c].state = "open"
  /\ lines' = [lines EXCEPT ![c].state = "broken"] /\ UNCHANGED queue_outgoing

(* Broken variant: its frames stay. *)
KillKeepingFrames(c) ==
  /\ lines[c].state # "none"
  /\ lines' = [lines EXCEPT ![c] = NewLine("none")] /\ UNCHANGED queue_outgoing

(* aim_conn_kill, with aim_tx_cleanqueue; the memory of a connection may   *)
(* be that of the next one.                                                *)
FrameKill(c) ==
  /\ lines[c].state # "none"
  /\ lines' = [lines EXCEPT ![c] = NewLine("none")]
  /\ queue_outgoing' = [i \in DOMAIN queue_outgoing |->
       IF queue_outgoing[i].conn = c THEN [queue_outgoing[i] EXCEPT !.handled = TRUE]
       ELSE queue_outgoing[i]]

(* aim_session_init: what there was is forgotten. *)
FrameSession ==
  /\ lines' = [c \in FrameConns |-> NewLine("none")] /\ queue_outgoing' = <<>>

FramesNext ==
  \/ \E c \in FrameConns :
       \/ \E state \in {"connecting", "open", "dead"} : FrameConnect(c, state)
       \/ Enqueue(c) \/ FrameConnected(c) \/ FrameBreak(c) \/ FrameKill(c)
  \/ FlushWaiting \/ FrameSession

-----------------------------------------------------------------------------
(* Over a connection that is there every frame it was given has arrived,   *)
(* one after the other as they are numbered, whatever became of the others *)
(* while it was made; until then all of them wait, and of one that breaks  *)
(* only the last are missing.                                              *)
InOrder(line, unsent) ==
  LET all == [i \in 1 .. line.given |-> i % SeqNumbers]
  IN  IF line.state = "connecting" THEN line.arrived = <<>> /\ unsent = all
      ELSE IF line.state = "open" THEN line.arrived = all /\ unsent = <<>>
      ELSE IsPrefix(line.arrived, all) /\ unsent = <<>>

FramesArriveInOrder == \A c \in FrameConns : InOrder(lines[c], Unsent(c))
=============================================================================
