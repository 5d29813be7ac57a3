----------------------------- MODULE Conversations -----------------------------
(***************************************************************************)
(* Instant messages, the commands that answer them and the filters that    *)
(* narrow to their conversations, over AIM, IRC and Jabber: how a reply is *)
(* read again and which connection it goes out on (IRC.pm, Jabber.pm),     *)
(* and what is displayed of it.  Names are compared as the filters do,     *)
(* which quote what they are made of.                                      *)
(***************************************************************************)
EXTENDS Naturals, Sequences, FiniteSets, SequencesExt

(* What a lookup that dies gives.                                          *)
Dies == {}

(* A message, with the attributes of all protocols.                        *)
Im0 == [type |-> "", direction |-> "in", sender |-> "", recipient |-> "", private |-> FALSE,
        login |-> "none", network |-> "", channel |-> "", room |-> "", jtype |-> ""]

-----------------------------------------------------------------------------
(* AIM: incoming, outgoing, and buddies that log in or out.                *)
AimMessage(from, to, direction, login) ==
  [Im0 EXCEPT !.type = "aim", !.direction = direction, !.sender = from, !.recipient = to,
              !.private = login = "none", !.login = login]

(* replycmd of Message/AIM.pm: whom aimwrite is for.                       *)
AimReply(m) == IF m.direction = "in" THEN m.sender ELSE m.recipient

(* Broken variant: only what the other one says.                           *)
AimUserFilterIn(m, user, me) == m.type = "aim" /\ m.sender = user /\ m.recipient = me

(* owl_function_aimuserfilt, of messages that me is logged in for          *)
AimUserFilter(m, user, me) ==
  m.type = "aim" /\ {<<m.sender, m.recipient>>} \subseteq {<<user, me>>, <<me, user>>}

-----------------------------------------------------------------------------
(* IRC.  nets gives of each alias whether it is registered, and channels.  *)
IsPrivateIrc(to, channels) == to \notin channels

(* handle_message, and process_msg of what the user sends.                 *)
IrcMessage(net, from, to, direction, channels) ==
  LET private == IsPrivateIrc(to, channels) IN
  [Im0 EXCEPT !.type = "irc", !.network = net, !.sender = from, !.recipient = to,
              !.private = private, !.channel = IF private THEN "" ELSE to,
              !.direction = IF private THEN direction ELSE "in"]

(* The reply commands of both: "irc-msg -a net to".                        *)
IrcReply(m) ==
  [alias |-> m.network,
   to |-> IF ~m.private THEN m.channel
          ELSE IF m.direction = "in" THEN m.sender ELSE m.recipient]

(* smartfilter of Message/IRC.pm                                           *)
IrcFilter(m, of) ==
  m.type = "irc" /\
    IF of.private
      THEN LET who == IF of.direction = "out" THEN of.recipient ELSE of.sender IN
           m.private /\ (IF m.direction = "in" THEN m.sender ELSE m.recipient) = who
      ELSE m.network = of.network /\ m.channel = of.channel

Registered(nets, alias) ==
  IF alias \in DOMAIN nets /\ nets[alias].registered THEN {alias} ELSE Dies

(* find_channel: the one network that has it.                              *)
FindChannel(nets, c) ==
  LET found == {n \in DOMAIN nets : c \in nets[n].channels} IN
  IF Cardinality(found) = 1 THEN found ELSE {}

NoMessage == Im0

(* mk_irc_command.  The connection is that of -a, or that has the channel, *)
(* or of the current message, or the only one.  What is left of the        *)
(* arguments goes to the command.                                          *)
IrcTarget(nets, alias, channel, current) ==
  LET byAlias == IF alias = "" THEN {} ELSE Registered(nets, alias)
      byChannel == IF channel = "" THEN {} ELSE FindChannel(nets, channel)
  IN  CASE alias # "" -> byAlias
        [] byChannel # {} -> byChannel
        [] current.type = "irc" -> Registered(nets, current.network)
        [] Cardinality(DOMAIN nets) = 1 -> DOMAIN nets
        [] OTHER -> Dies

(* Broken variant: the channel stays in the arguments.                     *)
IrcChannelCommandKeeping(nets, alias, args, current, channels) ==
  LET named == args # <<>> /\ args[1] \in channels
      channel == IF named THEN args[1] ELSE IF current.type = "irc" /\ ~current.private
                 THEN current.channel ELSE ""
      conn == IrcTarget(nets, alias, IF named THEN channel ELSE "", current)
  IN  IF channel = "" THEN Dies
      ELSE {[conn |-> c, channel |-> channel, args |-> args] : c \in conn}

(* A command with CHANNEL_ARG: the channel is the first argument, or that  *)
(* of the current message.  It is taken from the arguments only if one     *)
(* network has it.                                                         *)
IrcChannelCommand(nets, alias, args, current, channels) ==
  LET named == args # <<>> /\ args[1] \in channels
      channel == IF named THEN args[1] ELSE IF current.type = "irc" /\ ~current.private
                 THEN current.channel ELSE ""
      conn == IrcTarget(nets, alias, IF named THEN channel ELSE "", current)
      rest == IF named /\ FindChannel(nets, channel) # {} THEN Tail(args) ELSE args
  IN  IF channel = "" THEN Dies
      ELSE {[conn |-> c, channel |-> channel, args |-> rest] : c \in conn}

-----------------------------------------------------------------------------
(* Jabber.  A JID; a word that is none has it as its base.                 *)
Jid(base, res) == [base |-> base, res |-> res]

(* j2hash, of a message on an account that is in the rooms mucs: the nick  *)
(* of who speaks in a room, and the full JID of who speaks from one.       *)
JabberMessage(from, to, direction, jtype, mucs) ==
  LET shown(jid) == IF jid.base \in mucs THEN jid ELSE Jid(jid.base, "") IN
  [type |-> "jabber", direction |-> direction, jtype |-> jtype, from |-> from, to |-> to,
   private |-> jtype = "chat",
   room |-> IF jtype = "groupchat" THEN from.base ELSE "",
   sender |-> IF jtype = "groupchat" THEN Jid("", from.res) ELSE shown(from),
   recipient |-> IF jtype = "groupchat" THEN Jid(from.base, "") ELSE shown(to)]

(* resolveConnectedJID.  contains tells which words are found in the JIDs. *)
ByBase(accounts, base, contains) ==
  LET exact == {a \in accounts : a.base = base}
      similar == {a \in accounts : <<base, a.base>> \in contains}
      found == IF exact # {} THEN exact ELSE similar
  IN  IF Cardinality(found) = 1 THEN found ELSE Dies

ResolveConnectedJID(accounts, given, loose, contains) ==
  IF given.res = "" THEN ByBase(accounts, given.base, contains)
  ELSE IF given \in accounts THEN {given}
  ELSE IF loose THEN ByBase(accounts, given.base, contains) ELSE Dies

(* resolveDestJID: a name of the roster, or a JID.                         *)
ResolveDestJID(to, roster, jids) ==
  LET found == {i \in DOMAIN roster :
                  to = Jid(roster[i].name, "") \/ roster[i].base = to.base}
      first == roster[CHOOSE i \in found : \A j \in found : i <= j]
  IN  IF found # {} THEN {IF to = Jid(first.name, "") THEN Jid(first.base, "") ELSE to}
      ELSE IF to.base \in jids THEN {to} ELSE {}

(* Broken variant: a chat with somebody in a room is taken for the room's. *)
ResolveTypeOfBase(to, mucs) == IF to.base \in mucs THEN "groupchat" ELSE "chat"

(* resolveType                                                             *)
ResolveType(to, mucs) == IF to.base \in mucs /\ to.res = "" THEN "groupchat" ELSE "chat"

(* guess_jwrite with -a: what cmd_jwrite sends to.                         *)
Jwrite(from, to, accounts, roster, mucs, jids, contains) ==
  {[from |-> f, to |-> t, jtype |-> ResolveType(t, mucs)] :
     f \in ResolveConnectedJID(accounts, from, TRUE, contains),
     t \in ResolveDestJID(to, roster, jids)}

(* replycmd, replysendercmd ("alone") of Message/Jabber.pm                 *)
JabberReply(m, alone) ==
  IF m.jtype = "groupchat" /\ ~alone THEN [from |-> m.to, to |-> Jid(m.room, "")]
  ELSE IF m.direction = "in" THEN [from |-> m.to, to |-> m.from]
  ELSE [from |-> m.from, to |-> m.to]

(* smartfilter of Message/Jabber.pm                                        *)
JabberFilter(m, of) ==
  IF of.jtype = "groupchat" THEN m.room = of.room
  ELSE LET user == IF of.direction = "in" THEN of.from.base ELSE of.to.base IN
       (IF m.direction = "in" THEN m.from.base ELSE m.to.base) = user

(* What is displayed of an answer: the message that process_owl_jwrite     *)
(* queues, or what the room sends back.                                    *)
JabberAnswer(sent, nick, mucs) ==
  IF sent.jtype = "groupchat"
    THEN JabberMessage(Jid(sent.to.base, nick), sent.from, "in", "groupchat", mucs)
    ELSE JabberMessage(sent.from, sent.to, "out", "chat", mucs)

-----------------------------------------------------------------------------
(* What a reader relies on when they narrow to a conversation and answer.  *)

(* The view of an AIM conversation has what was said to and by its other   *)
(* side, in either direction, and nothing said with anybody else.          *)
AimTogether(me, user, direction, other, otherDirection) ==
  LET between(who, dir) ==
        IF dir = "in" THEN AimMessage(who, me, dir, "none") ELSE AimMessage(me, who, dir, "none")
  IN  AimUserFilter(between(other, otherDirection), AimReply(between(user, direction)), me)
        <=> other = user

(* The answer goes out on the network the message came from, whatever      *)
(* message is current by then, stays in its view, and is followed up on    *)
(* like the message itself.                                                *)
IrcTogether(nets, m, current, nick, channels) ==
  LET reply == IrcReply(m)
      answer == IrcMessage(reply.alias, nick, reply.to, "out", channels)
  IN  /\ IrcFilter(m, m) /\ IrcFilter(answer, m)
      /\ IrcReply(answer) = reply
      /\ nets[m.network].registered => IrcTarget(nets, reply.alias, "", current) = {m.network}

(* A command about a channel goes where the user is in it, if the line     *)
(* leaves no doubt, and never takes the channel for the text.              *)
IrcCommandIsClear(nets, args, current, channels) ==
  LET named == args # <<>> /\ args[1] \in channels
      clear == IF named THEN FindChannel(nets, args[1]) # {}
               ELSE /\ current.type = "irc" /\ ~current.private
                    /\ current.channel \in nets[current.network].channels
  IN  clear => \A c \in IrcChannelCommand(nets, "", args, current, channels) :
                 c.channel \in nets[c.conn].channels /\ ToSet(c.args) \cap channels = {}

(* A Jabber message is answered from the account it came to, though that   *)
(* has another resource since, to whom it came from and in the way it      *)
(* came: a word in private with somebody in a room is not said aloud.      *)
JabberTogether(m, accounts, roster, mucs, jids, nick, alone) ==
  LET reply == JabberReply(m, alone)
      own == {a \in accounts : a = reply.from}
      heirs == {a \in accounts : a.base = reply.from.base}
      sent == Jwrite(reply.from, reply.to, accounts, roster, mucs, jids, {})
  IN  own # {} \/ Cardinality(heirs) = 1 =>
        \E w \in sent : /\ sent = {w} /\ w.to = reply.to
                        /\ w.from \in (IF own # {} THEN own ELSE heirs)
                        /\ w.jtype = (IF alone THEN "chat" ELSE m.jtype)
                        /\ JabberFilter(JabberAnswer(w, nick, mucs), m) \/ alone
                        /\ JabberFilter(m, m)
=============================================================================
