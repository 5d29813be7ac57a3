------------------------------ MODULE AutoReplies ------------------------------
(***************************************************************************)
(* Away messages: clients that answer by themselves the private messages   *)
(* that come in while their users are away, over Zephyr and over AIM.  Two *)
(* such clients could go on answering each other; what stops them is that  *)
(* an answer is known as one by its marks, its zsig and opcode or the      *)
(* auto-response TLV, when the other client makes a message of it.         *)
(***************************************************************************)
EXTENDS Naturals, Sequences

CONSTANTS
  People,     \* a client for each
  MaxSaid,    \* bound on messages that people write, and on changes of mind
  MaxTalk     \* bound on messages underway to one client

VARIABLES
  zaway, aaway, \* of each client: the variables of these names
  inflight,     \* the messages that the servers have for each person, oldest first
  messagequeue, \* of each client
  typed

talkVars == <<zaway, aaway, inflight, messagequeue, typed>>

(* A message that is sent: z_class, z_opcode and the zsig of a zephyr, the *)
(* TLVs of an AIM message.  replies counts, for the properties alone, how  *)
(* many messages in a row were answers to each other.                      *)
Zephyr(from, class, opcode, zsig, replies) ==
  [via |-> "zephyr", from |-> from, class |-> class, opcode |-> opcode, zsig |-> zsig,
   tlvs |-> {}, replies |-> replies]

(* A field that is empty, or that the protocol does not have.             *)
NoText == "no text"

(* Broken variant: the flag is not written.                                *)
SendImUnmarked(from, flags, replies) ==
  [via |-> "aim", from |-> from, class |-> NoText, opcode |-> NoText, zsig |-> NoText,
   tlvs |-> {2}, replies |-> replies]

(* aim_im_sendch1_ext: the text, and for AIM_IMFLAGS_AWAY TLV 4 or else    *)
(* for AIM_IMFLAGS_ACK TLV 3.                                              *)
SendIm(from, flags, replies) ==
  [via |-> "aim", from |-> from, class |-> NoText, opcode |-> NoText, zsig |-> NoText,
   tlvs |-> {2} \cup (IF "AWAY" \in flags THEN {4} ELSE IF "ACK" \in flags THEN {3} ELSE {}),
   replies |-> replies]

(* What incomingim_ch1 makes of them.                                      *)
IcbmFlags(tlvs) == (IF 4 \in tlvs THEN {"AWAY"} ELSE {}) \cup (IF 3 \in tlvs THEN {"ACK"} ELSE {})

AutoSig == "Automated reply:"

TalkInit ==
  /\ zaway \in [People -> BOOLEAN] /\ aaway = zaway
  /\ inflight = [p \in People |-> <<>>] /\ messagequeue = [p \in People |-> <<>>]
  /\ typed = 0

-----------------------------------------------------------------------------
Types == typed < MaxSaid /\ typed' = typed + 1

Underway(p) == Len(inflight[p]) + Len(messagequeue[p])

(* Somebody writes a zephyr or an instant message, perhaps to themselves.  *)
WriteTo(p, to, m) ==
  /\ Types /\ Underway(to) < MaxTalk
  /\ inflight' = [inflight EXCEPT ![to] = Append(@, m)]
  /\ UNCHANGED <<zaway, aaway, messagequeue>>

WriteSome(p) ==
  \E to \in People :
    \/ \E class \in {"message", "help"}, opcode \in {NoText, "ping"} :
         WriteTo(p, to, Zephyr(p, class, opcode, NoText, 0))
    \/ WriteTo(p, to, SendIm(p, {}, 0))

(* The commands zaway, aaway and away, with "on", "off" or "toggle".       *)
Switch(now, how) == how = "on" \/ (how = "toggle" /\ ~now)

ZawayCommand(p, how) ==
  /\ Types /\ zaway' = [zaway EXCEPT ![p] = Switch(@, how)]
  /\ UNCHANGED <<aaway, inflight, messagequeue>>

AawayCommand(p, how) ==
  /\ Types /\ aaway' = [aaway EXCEPT ![p] = Switch(@, how)]
  /\ UNCHANGED <<zaway, inflight, messagequeue>>

(* "away toggle" goes to on only when both are off: otherwise both end up  *)
(* off.                                                                    *)
AwayCommand(p, how) ==
  LET on == Switch(zaway[p] \/ aaway[p], how) IN
  /\ Types
  /\ zaway' = [zaway EXCEPT ![p] = on] /\ aaway' = [aaway EXCEPT ![p] = on]
  /\ UNCHANGED <<inflight, messagequeue>>

-----------------------------------------------------------------------------
(* owl_message_create_from_znotice, faimtest_parse_incoming_im_chan1: the  *)
(* attribute isauto of the message that is queued.                         *)
IsAuto(m) ==
  IF m.via = "zephyr" THEN m.zsig = AutoSig \/ m.opcode = "auto" ELSE "AWAY" \in IcbmFlags(m.tlvs)

TakeIn(p) ==
  /\ inflight[p] # <<>>
  /\ LET m == Head(inflight[p]) IN
       messagequeue' = [messagequeue EXCEPT
         ![p] = Append(@, [m |-> m, isauto |-> IsAuto(m)])]
  /\ inflight' = [inflight EXCEPT ![p] = Tail(@)]
  /\ UNCHANGED <<zaway, aaway, typed>>

(* owl_zephyr_zaway: "Some of this defined by the way zaway(1) works".     *)
(* Whoever is in People is addressed by their name alone.                  *)
IsForZaway(p, q) ==
  /\ q.m.class = "message" /\ q.m.from # p
  /\ q.m.opcode \notin {"ping", "auto"} /\ q.m.zsig # AutoSig /\ ~q.isauto

(* The answers of client p to a message of its queue: by                   *)
(* owl_zephyr_zaway, or owl_function_send_aimawymsg.                       *)
Answers(p, q) ==
  IF ~zaway[p] \/ q.isauto THEN <<>>
  ELSE IF q.m.via = "aim" THEN <<SendIm(p, {"AWAY"}, q.m.replies + 1)>>
  ELSE IF IsForZaway(p, q) THEN <<Zephyr(p, q.m.class, NoText, AutoSig, q.m.replies + 1)>>
  ELSE <<>>

(* owl_process_message: a message that is not punted is answered if the    *)
(* user is away now.  The copy of the answer that is displayed is queued   *)
(* as an outgoing message, which is never answered: it is left out.        *)
ProcessTakenIn(p, punted) ==
  /\ messagequeue[p] # <<>>
  /\ LET q == Head(messagequeue[p])
         answers == IF punted THEN <<>> ELSE Answers(p, q)
     IN  inflight' = [inflight EXCEPT ![q.m.from] = @ \o answers]
  /\ messagequeue' = [messagequeue EXCEPT ![p] = Tail(@)]
  /\ UNCHANGED <<zaway, aaway, typed>>

TalkNext ==
  \E p \in People :
    \/ WriteSome(p)
    \/ \E how \in {"on", "off", "toggle"} :
         ZawayCommand(p, how) \/ AawayCommand(p, how) \/ AwayCommand(p, how)
    \/ TakeIn(p)
    \/ \E punted \in BOOLEAN : ProcessTakenIn(p, punted)

-----------------------------------------------------------------------------
(* No client answers the automatic answer of another, or its own, over     *)
(* either protocol and whatever was switched on or off meanwhile: the      *)
(* marks that the sender puts on it are those that the receiver looks for. *)
AnswersAreNotAnswered ==
  \A p \in People :
    /\ \A i \in DOMAIN inflight[p] : inflight[p][i].replies <= 1
    /\ \A i \in DOMAIN messagequeue[p] :
         messagequeue[p][i].isauto <=> messagequeue[p][i].m.replies > 0
=============================================================================
