-------------------------------- MODULE Replies --------------------------------
(***************************************************************************)
(* Zephyr messages and the answers to them: a zwrite line and what it      *)
(* sends (zwrite.c), the messages made of it on both sides (message.c) and *)
(* the command that "reply" makes of such a message (Message/Zephyr.pm).   *)
(* Names are given with the realm or without, as each client is in one.    *)
(* Strings that are compared without regard to case stand for each other.  *)
(***************************************************************************)
EXTENDS Naturals, Sequences, SequencesExt

NoAt == "no @"   \* the realm of a name without "@"; "" is that of "name@"

(* inst is "" or begins with its separator, as in ann/root and ann.root.   *)
Name(user, inst, realm) == [user |-> user, inst |-> inst, realm |-> realm]
NoOne == Name("", "", NoAt)

(* short_zuser, long_zuser in a client whose realm is here                 *)
ShortZuser(n, here) == IF n.realm \in {"", here} THEN [n EXCEPT !.realm = NoAt] ELSE n
LongZuser(n, here)  == IF n.realm \in {"", NoAt} THEN [n EXCEPT !.realm = here] ELSE n

(* strip_realm of Message/Zephyr.pm                                        *)
StripRealm(n, here) == IF n.realm = here THEN [n EXCEPT !.realm = NoAt] ELSE n

(* owl_zephyr_smartstripped_user                                           *)
IsHost(n) ==
  \/ n.user \in {"host", "daemon"} /\ n.inst \in {"/root", "/x"}
  \/ n.user \in {"rcmd", "daemon"} /\ n.inst = ".root"
SmartStripped(n) == IF IsHost(n) THEN n ELSE [n EXCEPT !.inst = ""]

(* owl_zwrite_recip_is_personal: neither "" nor "@REALM"                   *)
IsPersonalRecip(n) == n.user # ""

-----------------------------------------------------------------------------
(* A zwrite, as owl_zwrite_create reads it: the class and the instance are *)
(* the defaults when they are not given.                                   *)
Zwrite0 == [cmd |-> "zwrite", class |-> "message", inst |-> "personal", realm |-> "",
            opcode |-> "", cc |-> FALSE, recips |-> <<>>]

(* "You must specify a recipient for zwrite"                               *)
ZwriteIsGood(z) == z.class # "message" \/ z.inst # "personal" \/ z.recips # <<>>

(* owl_zwrite_get_recip_n_with_realm                                       *)
Recip(z, i) == IF z.realm = "" THEN z.recips[i] ELSE [z.recips[i] EXCEPT !.realm = z.realm]
Recips(z) == [i \in DOMAIN z.recips |-> Recip(z, i)]
ZwriteIsPersonal(z) == \E n \in ToSet(z.recips) : IsPersonalRecip(n)

(* owl_zwrite_set_message: the list of recipients on top of the message.   *)
CcLine(z) == IF z.cc /\ ZwriteIsPersonal(z) THEN Recips(z) ELSE <<>>

(* owl_zwrite_send_message: whom the server takes the message to.  Without *)
(* recipients it is for the subscribers in the realm.                      *)
Destinations(z, here) ==
  IF z.recips = <<>> THEN {Name("", "", IF z.realm = "" THEN here ELSE z.realm)}
  ELSE {LongZuser(n, here) : n \in ToSet(Recips(z))}

(* owl_function_zcrypt sends under an opcode of its own.                   *)
Sent(z) == IF z.cmd = "zcrypt" THEN [z EXCEPT !.opcode = "crypt"] ELSE z

(* owl_zwrite_get_replyline, read as a zwrite again.                       *)
ReplyLine(z, i) == IF z.cc \/ z.recips = <<>> THEN z ELSE [z EXCEPT !.recips = <<z.recips[i]>>]

-----------------------------------------------------------------------------
(* The messages that both sides have of a zwrite.                          *)
Message(z, sender, recipient, out, line) ==
  [class |-> z.class, inst |-> z.inst, opcode |-> z.opcode, sender |-> sender,
   recipient |-> recipient, cc |-> CcLine(z), out |-> out, line |-> line]

(* owl_message_create_from_zwrite                                          *)
OutgoingMessage(z, i, me, here) ==
  Message(z, me, LongZuser(Recip(z, i), here), TRUE, ReplyLine(z, i))

(* owl_function_add_outgoing_zephyrs: one message that lists all who get   *)
(* a copy, or one for each person.                                         *)
OutgoingMessages(z, me, here) ==
  IF CcLine(z) # <<>> THEN {OutgoingMessage(z, 1, me, here)}
  ELSE {OutgoingMessage(z, i, me, here) : i \in {j \in DOMAIN z.recips : IsPersonalRecip(z.recips[j])}}

(* owl_message_create_from_znotice, for one of those it is sent to.        *)
IncomingMessage(z, from, destination) ==
  Message(z, from, IF z.recips = <<>> /\ z.realm = "" THEN NoOne ELSE destination, FALSE, Zwrite0)

IsPrivate(m) == IsPersonalRecip(m.recipient)

(* owl_message_get_cc_without_recipient *)
CcWithoutRecipient(m, here) ==
  SelectSeq(m.cc, LAMBDA n : ShortZuser(n, here) # ShortZuser(m.recipient, here))

(* Broken variant: with the realms that the names happen to have.          *)
SavedCcsAsWritten(m, here) ==
  LET others == SelectSeq(m.cc, LAMBDA n : n # m.recipient)
  IN  IF others = <<>> THEN {} ELSE ToSet(others) \cup {m.sender, m.recipient}

(* owl_message_save_ccs: all who take part, by which the conversation is   *)
(* narrowed to.  It is a sorted list; nobody is in it twice, unless their  *)
(* name is given in two ways.                                              *)
SavedCcs(m, here) ==
  LET others == CcWithoutRecipient(m, here)
  IN  IF others = <<>> THEN {}
      ELSE {ShortZuser(n, here) : n \in ToSet(others) \cup {m.sender, m.recipient}}

-----------------------------------------------------------------------------
(* owl_function_smartfilter: which messages a view has that is narrowed    *)
(* from the message "of".  BaseOf gives the class that one is related to   *)
(* (owl_util_baseclass), if the view is to have related classes too.       *)
BaseOf(class, related) == IF related /\ class \in {"unhelp", "help.d"} THEN "help" ELSE class

IsPersonal(m) == IsPrivate(m) /\ m.class = "message"

(* owl_function_smartfilter_cc                                             *)
InCircle(m, of, here) == IsPersonal(m) /\ SavedCcs(m, here) = SavedCcs(of, here)

(* Broken variant: only what the other one writes.                         *)
WithUserIncoming(m, longuser) == IsPersonal(m) /\ ~m.out /\ m.sender = longuser

(* owl_function_zuserfilt                                                  *)
WithUser(m, longuser) ==
  IsPersonal(m) /\ (IF m.out THEN m.recipient ELSE m.sender) = longuser

(* owl_function_classinstfilt                                              *)
OfClassInst(m, of, byInst, related) ==
  /\ BaseOf(m.class, related) = BaseOf(of.class, related)
  /\ byInst => m.inst = of.inst

Smartfilter(m, of, byInst, related, here) ==
  IF ~IsPersonal(of) THEN OfClassInst(m, of, byInst \/ of.class = "message", related)
  ELSE IF SavedCcs(of, here) # {} THEN InCircle(m, of, here)
  ELSE WithUser(m, IF of.out THEN of.recipient ELSE of.sender)

-----------------------------------------------------------------------------
(* The other people of a message with a cc line, as replycmd finds them.   *)
CcOf(m, to, me, here) ==
  LET others == ({to} \cup ToSet(m.cc)) \ {StripRealm(me, here)}
  IN  IF m.sender.realm = here THEN others
      ELSE {IF n.realm = NoAt THEN [n EXCEPT !.realm = m.sender.realm] ELSE n : n \in others}

(* replycmd and replysendercmd ("alone"): the zwrite that the command they *)
(* give is read as.                                                        *)
ReplyCmd(m, alone, me, here, smartstrip) ==
  LET personally == alone /\ ~IsPrivate(m)
      to == StripRealm(IF personally \/ IsPrivate(m) THEN m.sender ELSE m.recipient, here)
      cc == IsPrivate(m) /\ m.cc # <<>> /\ ~alone
      z  == [Zwrite0 EXCEPT
               !.cmd   = IF m.opcode = "crypt" /\ ~personally THEN "zcrypt" ELSE "zwrite",
               !.class = IF personally THEN "message" ELSE m.class,
               !.inst  = IF personally THEN "personal" ELSE m.inst]
  IN  CASE m.out       -> m.line
        [] cc          -> [z EXCEPT !.cc = TRUE, !.recips = SetToSeq(CcOf(m, to, me, here))]
        [] m.recipient = NoOne /\ ~personally -> z
        [] OTHER       -> [z EXCEPT !.recips = <<IF smartstrip THEN SmartStripped(to) ELSE to>>]

-----------------------------------------------------------------------------
(* What a zwrite from a client starts: those it reaches answer, each in a  *)
(* client of its own realm, and so may the one who wrote it.               *)
Circle(z, me, here) == {me} \cup Destinations(z, here)

(* "reply" answers whom it should: everyone who was told to have a copy,   *)
(* in whatever realms they are, or the writer alone, or the subscribers of *)
(* the same class; under the same class and instance, and encrypted when   *)
(* the message was.  A copy to oneself may come with it.                   *)
AnswersTheCircle(z, from, here, to, there, smartstrip) ==
  LET m == IncomingMessage(Sent(z), from, to)
      r == ReplyCmd(m, FALSE, to, there, smartstrip)
      reached == Destinations(r, there)
  IN  /\ r.class = z.class /\ r.inst = z.inst /\ r.cmd = z.cmd
      /\ CASE ~IsPrivate(m) -> reached = {to}
           [] m.cc # <<>>   -> /\ Circle(z, from, here) \ {to} \subseteq reached
                               /\ reached \subseteq Circle(z, from, here)
           [] OTHER         -> reached = {IF smartstrip THEN SmartStripped(from) ELSE from}

(* "replysender" answers the writer alone, in public matters personally.   *)
AnswersTheSender(z, from, to, there) ==
  LET r == ReplyCmd(IncomingMessage(Sent(z), from, to), TRUE, to, there, FALSE)
  IN  /\ Destinations(r, there) = {from}
      /\ IsPersonalRecip(to) => r.cmd = z.cmd

(* An outgoing message is followed up on to those it went to, together all.*)
FollowsUp(z, me, here) ==
  LET out == OutgoingMessages(Sent(z), me, here)
      lines == {ReplyCmd(m, FALSE, me, here, FALSE) : m \in out}
  IN  /\ \A m \in out : m.recipient \in Destinations(m.line, here)
      /\ ZwriteIsPersonal(z) =>
           UNION {Destinations(l, here) : l \in lines} = Destinations(z, here)

(* All who have a copy file the message under one conversation, and their  *)
(* answers to it too.                                                      *)
OneConversation(z, from, here, to) ==
  LET m == IncomingMessage(Sent(z), from, to)
      r == ReplyCmd(m, FALSE, to, here, FALSE)
  IN  z.cc /\ IsPersonalRecip(to) /\ to.realm = here =>
        /\ \A out \in OutgoingMessages(Sent(z), from, here) : SavedCcs(out, here) = SavedCcs(m, here)
        /\ SavedCcs(m, here) # {} =>
             \A out \in OutgoingMessages(Sent(r), to, here) : SavedCcs(out, here) = SavedCcs(m, here)

(* Who narrows to a message sees it and what they answer to it.  Two cases *)
(* are left out: a circle over several realms, where a cc line has names   *)
(* without their realm, and a cc line that has nobody but its reader.      *)
AnswerStaysInView(z, from, to, there) ==
  LET m == IncomingMessage(Sent(z), from, to)
      r == ReplyCmd(m, FALSE, to, there, FALSE)
  IN  m.cc = <<>> \/ (to.realm = from.realm /\ SavedCcs(m, there) # {}) =>
      \A byInst, related \in BOOLEAN :
        \A shown \in {m} \cup OutgoingMessages(Sent(r), to, there) :
          Smartfilter(shown, m, byInst, related, there)

(* Where names say who is meant: no -r that is given to names which have   *)
(* an "@" already, no "name@" in a cc line, which each reader takes for    *)
(* their own realm, no copy for the writer, and no two people of one name  *)
(* in different realms, one of whom replycmd would drop.                   *)
NamesAreClear(z, from) ==
  /\ z.realm # "" => \A n \in ToSet(z.recips) : n.realm = NoAt
  /\ z.cc => \A n \in ToSet(z.recips) : n.realm # ""
  /\ from \notin Destinations(z, from.realm)
  /\ \A p, q \in Circle(z, from, from.realm) : p.user = q.user /\ p.inst = q.inst => p = q

(* All of it, for one zwrite line and one who writes it; what is sent to   *)
(* the subscribers in a realm may be read in others.                       *)
RepliesReach(z, from) ==
  LET here == from.realm IN
  ZwriteIsGood(z) /\ NamesAreClear(z, from) =>
    /\ FollowsUp(z, from, here)
    /\ \A to \in Destinations(z, here) \ {from} :
         /\ OneConversation(z, from, here, to)
         /\ \A there \in {to.realm} \cup (IF IsPersonalRecip(to) THEN {} ELSE {here}) :
              /\ AnswersTheSender(z, from, to, there)
              /\ IsPersonalRecip(to) => AnswerStaysInView(z, from, to, there)
              /\ \A smartstrip \in BOOLEAN : AnswersTheCircle(z, from, here, to, there, smartstrip)
=============================================================================
