------------------------------ MODULE Logging ------------------------------
(***************************************************************************)
(* What is logged and in which files (logging.c): the messages Replies     *)
(* makes of zwrites, and the instant messages of Conversations.  The text  *)
(* that is written and the thread that writes it are elsewhere (MainLoop). *)
(***************************************************************************)
EXTENDS Replies, Conversations

(* The variables that logging consults; filtered is whether the logfilter  *)
(* takes the message.                                                      *)
LogSettings(directions) ==
  [logging : BOOLEAN, classlogging : BOOLEAN, loglogins : BOOLEAN, filtered : BOOLEAN,
   loggingdirection : directions]

(* What of a message decides whether it is logged.                         *)
ImTraits(m) ==
  [direction |-> m.direction, login |-> m.type = "aim" /\ m.login # "none",
   personal |-> m.private \/ (m.type = "aim" /\ m.login # "none")]

(* owl_log_shouldlog_message *)
ShouldLog(t, s) ==
  s.filtered \/ /\ t.login => s.loglogins
                /\ s.loggingdirection \in {"both", t.direction}
                /\ IF t.personal THEN s.logging ELSE s.classlogging

-----------------------------------------------------------------------------
(* A file of the personal log, or of the log of classes: what kind of name *)
(* it has and which.  A sender whose name has a "/", or other characters   *)
(* that names do not have, is weird.                                       *)
All   == <<"personal", "all">>
Weird == <<"personal", "weird">>
UserFile(n)     == <<"personal", "user", n>>
ImFile(type, n) == <<"personal", type, n>>

HasSlash(n) == n.inst \in {"/root", "/x"}
SenderFile(n) == IF HasSlash(n) THEN Weird ELSE UserFile(n)

(* Those who got a copy besides the recipient, as they are named in here.  *)
OthersOf(m, here) == {ShortZuser(n, here) : n \in ToSet(CcWithoutRecipient(m, here))}

(* owl_log_outgoing: the file of each person the message is for.           *)
OutgoingLog(m, here) ==
  {UserFile(n) : n \in {ShortZuser(m.recipient, here)} \cup OthersOf(m, here)} \cup {All}

ImOutgoingLog(m) ==
  {All, IF m.type \in {"jabber", "aim"} THEN ImFile(m.type, m.recipient)
        ELSE <<"personal", "loopback">>}

(* Broken variant: only in the file of the sender.                         *)
IncomingLogOfSender(m, here) ==
  IF IsPersonal(m) THEN {All, SenderFile(ShortZuser(m.sender, here))}
  ELSE {<<"class", "name", m.class>>}

(* owl_log_incoming: the file of the sender, and of all who got a copy     *)
(* with the user; or that of the class.                                    *)
IncomingLog(m, here) ==
  LET from == ShortZuser(m.sender, here) IN
  IF IsPersonal(m)
    THEN {All, SenderFile(from)} \cup {UserFile(n) : n \in OthersOf(m, here) \ {from}}
    ELSE {<<"class", "name", m.class>>}

ImIncomingLog(m) ==
  LET personal == IF m.type = "jabber" THEN m.jtype # "groupchat" ELSE ImTraits(m).personal
      file == CASE m.type = "aim" -> ImFile("aim", m.sender)
                [] m.type = "jabber" /\ personal ->
                     IF m.sender.res # "" THEN Weird ELSE ImFile("jabber", m.sender)
                [] OTHER -> <<"personal", "unknown">>
  IN  IF personal THEN {All, file}
      ELSE {IF m.type = "jabber" THEN <<"class", "room", m.recipient>> ELSE <<"class", "unknown">>}

ImLog(m) == IF m.direction = "in" THEN ImIncomingLog(m) ELSE ImOutgoingLog(m)

-----------------------------------------------------------------------------
(* A personal zephyr among people of one realm is logged on every side, by *)
(* whom it is from as by each of those it is for, in the files of all the  *)
(* others of the circle and in no one else's.                              *)
CircleIsLogged(z, from) ==
  LET here == from.realm
      CircleOf(m) == IF SavedCcs(m, here) # {} THEN SavedCcs(m, here)
                   ELSE {ShortZuser(m.sender, here), ShortZuser(m.recipient, here)}
      FilesOf(m, me) == {UserFile(n) : n \in CircleOf(m) \ {ShortZuser(me, here)}} \cup {All}
      sent == Sent(z)
      plain == ~HasSlash(from) /\ \A n \in Destinations(z, here) : ~HasSlash(n) /\ n # from
  IN  plain /\ ZwriteIsGood(z) =>
        /\ \A m \in OutgoingMessages(sent, from, here) :
             IsPersonal(m) => OutgoingLog(m, here) = FilesOf(m, from)
        /\ \A to \in Destinations(z, here) :
             LET m == IncomingMessage(sent, from, to) IN
             to.realm = here /\ IsPersonal(m) => IncomingLog(m, here) = FilesOf(m, to)

(* Two instant messages of one conversation, unless it is held with        *)
(* somebody in a room, are in one file, and are both logged or neither.    *)
LoggedTogether(m, n) ==
  /\ ImLog(m) = ImLog(n)
  /\ \A s \in LogSettings({"both"}) : ShouldLog(ImTraits(m), s) = ShouldLog(ImTraits(n), s)

AimIsLogged(me, u, d, v, e) ==
  LET Between(w, dir) == IF dir = "in" THEN AimMessage(w, me, "in", "none")
                         ELSE AimMessage(me, w, "out", "none")
  IN  /\ AimUserFilter(Between(v, e), u, me) /\ u # me => LoggedTogether(Between(u, d), Between(v, e))
      /\ \A l \in {"login", "logout"} : ImLog(AimMessage(u, me, "in", l)) = ImLog(Between(u, "in"))

JabberIsLogged(m, mucs) ==
  LET answer == JabberMessage(m.to, m.from, IF m.direction = "in" THEN "out" ELSE "in", m.jtype, mucs) IN
  m.private /\ m.from.base \notin mucs /\ m.to.base \notin mucs => LoggedTogether(m, answer)
=============================================================================
