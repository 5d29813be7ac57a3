---------------------------------- MODULE Irc ----------------------------------
(***************************************************************************)
(* One IRC network over the years: the commands that open and close its    *)
(* connection (IRC.pm), the callbacks of the connection and its timer      *)
(* (IRC/Connection.pm), and the lists of names asked for over it.  The     *)
(* connection itself is AnyEvent::IRC's, modelled from how it is used.     *)
(***************************************************************************)
EXTENDS Naturals, Sequences, SequencesExt, FiniteSets

CONSTANTS
  Channels,
  MaxLosses,      \* bound on lost or silent connections
  MaxOrders       \* bound on commands about channels and on ended connections

ASSUME ChannelsAssumption == IsFiniteSet(Channels)

VARIABLES
  ircnet,     \* the object in %ircnets, or NoNet
  irclink,    \* of its conn: "none", "connecting", "socket", "registered"
  channel_list, \* of its conn: the channels the server has it in
  irctimer,   \* reconnect_timer: "none", "pending", "spent"
  answers,    \* the numerics about names that are underway, oldest first
  ircseen     \* for properties and bounds: what the user and the network did

ircVars == <<ircnet, irclink, channel_list, irctimer, answers, ircseen>>

NoNet == [backoff |-> 0]
NewNet == [backoff |-> 0, did_quit |-> FALSE, autoconnect_channels |-> {},
           channel_list |-> {}, asked |-> FALSE, names_tmp |-> <<>>]
IrcListed == ircnet # NoNet

(* asked: names_tmp is not 0.  wanted: the channels joined and not left.   *)
(* silent: the server no longer answers pings.  lapsed: a ping of the      *)
(* registered connection went unanswered.  torn: a connection was lost in  *)
(* a list of names.  shown: the list that was popped up last.              *)
Seen0 == [wanted |-> {}, silent |-> FALSE, lapsed |-> FALSE, losses |-> 0, orders |-> 0,
          torn |-> FALSE, shown |-> [title |-> "", names |-> <<>>]]

IrcInit ==
  /\ ircnet = NoNet /\ irclink = "none" /\ channel_list = {} /\ irctimer = "none"
  /\ answers = <<>> /\ ircseen = Seen0

-----------------------------------------------------------------------------
(* schedule_reconnect: twice the last interval, up to five minutes.        *)
Longer(interval) ==
  IF interval = 0 THEN 5 ELSE IF 2 * interval > 300 THEN 300 ELSE 2 * interval

(* AnyEvent::IRC forgets the channels with a connection.                   *)
Unlink(next) == irclink' = next /\ channel_list' = {} /\ answers' = <<>>

(* on_disconnect: the object goes away with its timer.                     *)
OnDisconnect(net) ==
  IF net.did_quit
    THEN ircnet' = NoNet /\ irctimer' = "none"
    ELSE ircnet' = [net EXCEPT !.backoff = Longer(@)] /\ irctimer' = "pending"

(* cmd_connect: an alias that is listed is refused.                        *)
IrcConnect ==
  /\ ~IrcListed /\ ircseen.orders < MaxOrders
  /\ ircnet' = NewNet /\ Unlink("connecting") /\ irctimer' = "none"
  /\ ircseen' = [Seen0 EXCEPT !.orders = ircseen.orders + 1, !.losses = ircseen.losses]

(* An attempt gets a socket, or ends with "Connection to ... failed!".     *)
IrcTcpUp ==
  /\ irclink = "connecting" /\ irclink' = "socket"
  /\ ircseen' = [ircseen EXCEPT !.silent = FALSE]
  /\ UNCHANGED <<ircnet, channel_list, irctimer, answers>>

IrcConnfail ==
  /\ irclink = "connecting" /\ Unlink("none") /\ UNCHANGED <<ircnet, irctimer, ircseen>>

(* What the server says of channels, one after the other: for each, 353    *)
(* twice, with two of its names, and 366.                                  *)
NamesOf(order) ==
  [i \in 1 .. 3 * Len(order) |->
     [num |-> IF i % 3 = 0 THEN 366 ELSE 353, of |-> order[(i + 2) \div 3]]]

(* Joins, in any order: the server tells the names as if asked.            *)
Joining(new) ==
  /\ channel_list' = channel_list \cup new
  /\ \E order \in [1 .. Cardinality(new) -> new] :
       ToSet(order) = new /\ answers' = answers \o NamesOf(order)

(* Broken variant: the timer is left running.                              *)
IrcConnectedKeepingTimer ==
  /\ irclink = "socket" /\ irclink' = "registered"
  /\ Joining(ircnet.autoconnect_channels)
  /\ ircnet' = [ircnet EXCEPT !.autoconnect_channels = {}, !.backoff = 0]
  /\ ircseen' = [ircseen EXCEPT !.lapsed = FALSE]
  /\ UNCHANGED irctimer

(* on_connect, connected                                                   *)
IrcConnected ==
  /\ irclink = "socket" /\ irclink' = "registered"
  /\ irctimer' = "none"
  /\ Joining(ircnet.autoconnect_channels)
  /\ ircnet' = [ircnet EXCEPT !.autoconnect_channels = {}, !.backoff = 0]
  /\ ircseen' = [ircseen EXCEPT !.lapsed = FALSE]

Loses == ircseen.losses < MaxLosses
Torn == ircseen.torn \/ ircnet.names_tmp # <<>>

IrcLost ==
  /\ irclink \in {"socket", "registered"} /\ Loses
  /\ Unlink("none") /\ OnDisconnect(ircnet)
  /\ ircseen' = [ircseen EXCEPT !.losses = @ + 1, !.silent = FALSE, !.torn = Torn]

(* The server falls silent, or answers again.                              *)
IrcSilent ==
  /\ irclink = "registered" /\ (ircseen.silent \/ Loses)
  /\ ircseen' = [ircseen EXCEPT !.silent = ~@, !.losses = IF ircseen.silent THEN @ ELSE @ + 1]
  /\ UNCHANGED <<ircnet, irclink, channel_list, irctimer, answers>>

(* The callback of enable_ping calls on_disconnect and schedules once more *)
(* itself.  The socket stays open, and is not pinged any longer; if the    *)
(* server answers again, the timer is not called off.                      *)
PingTimeout ==
  /\ irclink = "registered" /\ ircseen.silent /\ irctimer # "pending"
  /\ ircnet' = [ircnet EXCEPT !.backoff = Longer(Longer(@))]
  /\ irctimer' = "pending"
  /\ ircseen' = [ircseen EXCEPT !.lapsed = TRUE]
  /\ UNCHANGED <<irclink, channel_list, answers>>

(* Broken variant: only without a connection.                              *)
ReconnectWhenDown ==
  /\ irctimer = "pending" /\ irclink = "none" /\ Unlink("connecting")
  /\ ircnet' = [ircnet EXCEPT !.autoconnect_channels = ircnet.channel_list] /\ irctimer' = "spent"
  /\ ircseen' = [ircseen EXCEPT !.silent = FALSE, !.torn = Torn]

(* reconnect, called by the timer.  It looks for the channels in the       *)
(* object, where nothing puts them, not in its conn.  connect drops a      *)
(* connection that is still open before.                                   *)
Reconnect ==
  LET net == [ircnet EXCEPT !.autoconnect_channels = ircnet.channel_list] IN
  /\ irctimer = "pending" /\ Unlink("connecting")
  /\ IF irclink \in {"socket", "registered"}
       THEN OnDisconnect(net)
       ELSE ircnet' = net /\ irctimer' = "spent"
  /\ ircseen' = [ircseen EXCEPT !.silent = FALSE, !.torn = Torn]

(* cmd_disconnect: without a socket and a timer nothing happens.           *)
IrcDisconnect ==
  /\ IrcListed /\ Unlink("none") /\ UNCHANGED ircseen
  /\ \/ irclink \in {"socket", "registered"} /\ OnDisconnect([ircnet EXCEPT !.did_quit = TRUE])
     \/ irclink \in {"none", "connecting"} /\ irctimer # "none"
        /\ ircnet' = NoNet /\ irctimer' = "none"

-----------------------------------------------------------------------------
(* get_connection_by_alias: commands are for registered connections.       *)
Orders == irclink = "registered" /\ ~ircseen.silent /\ ircseen.orders < MaxOrders

IrcJoin(c) ==
  /\ Orders /\ c \notin channel_list /\ Joining({c})
  /\ ircseen' = [ircseen EXCEPT !.orders = @ + 1, !.wanted = @ \cup {c}]
  /\ UNCHANGED <<ircnet, irclink, irctimer>>

IrcPart(c) ==
  /\ Orders /\ c \in channel_list
  /\ channel_list' = channel_list \ {c}
  /\ ircseen' = [ircseen EXCEPT !.orders = @ + 1, !.wanted = @ \ {c}]
  /\ UNCHANGED <<ircnet, irclink, irctimer, answers>>

(* cmd_names                                                               *)
IrcNames(c) ==
  /\ Orders
  /\ ircnet' = [ircnet EXCEPT !.asked = TRUE, !.names_tmp = <<>>]
  /\ answers' = answers \o NamesOf(<<c>>)
  /\ ircseen' = [ircseen EXCEPT !.orders = @ + 1]
  /\ UNCHANGED <<irclink, channel_list, irctimer>>

IrcAnswered == irclink = "registered" /\ ~ircseen.silent /\ answers # <<>> /\ answers' = Tail(answers)

(* on_namreply                                                             *)
NamReply ==
  /\ IrcAnswered /\ Head(answers).num = 353
  /\ ircnet' = IF ~ircnet.asked THEN ircnet
               ELSE [ircnet EXCEPT !.names_tmp = Append(@, Head(answers).of)]
  /\ UNCHANGED <<irclink, channel_list, irctimer, ircseen>>

(* Broken variant: the names are kept.                                     *)
EndOfNamesKeeping ==
  /\ IrcAnswered /\ Head(answers).num = 366
  /\ ircseen' = IF ~ircnet.asked THEN ircseen
                ELSE [ircseen EXCEPT !.shown = [title |-> Head(answers).of, names |-> ircnet.names_tmp]]
  /\ UNCHANGED <<ircnet, irclink, channel_list, irctimer>>

(* on_endofnames                                                           *)
EndOfNames ==
  /\ IrcAnswered /\ Head(answers).num = 366
  /\ IF ~ircnet.asked THEN UNCHANGED <<ircnet, ircseen>>
     ELSE /\ ircseen' = [ircseen EXCEPT !.shown = [title |-> Head(answers).of,
                                                   names |-> ircnet.names_tmp]]
          /\ ircnet' = [ircnet EXCEPT !.asked = FALSE, !.names_tmp = <<>>]
  /\ UNCHANGED <<irclink, channel_list, irctimer>>

IrcNext ==
  \/ IrcConnect \/ IrcTcpUp \/ IrcConnfail \/ IrcConnected \/ IrcLost \/ IrcSilent
  \/ PingTimeout \/ Reconnect \/ IrcDisconnect \/ NamReply \/ EndOfNames
  \/ \E c \in Channels : IrcJoin(c) \/ IrcPart(c) \/ IrcNames(c)

(* The timer fires, an attempt to connect ends, and a server that is       *)
(* reached time and again lets the user in once before the timer, whose    *)
(* interval grows to five minutes.                                         *)
IrcFairness ==
  WF_ircVars(Reconnect) /\ WF_ircVars(IrcTcpUp \/ IrcConnfail) /\ SF_ircVars(IrcConnected)

-----------------------------------------------------------------------------
(* The timer of a reconnection runs for a network that the user has not    *)
(* given up, and beside a registered connection, which it will drop, only  *)
(* if a ping of that very connection went unanswered, never as a remnant   *)
(* of the one before; and a list of names that is shown has those of the   *)
(* channel in its title only, whatever was joined and asked for at once.   *)
IrcIsOrderly ==
  /\ irctimer = "pending" => IrcListed
  /\ irctimer = "pending" /\ irclink = "registered" => ircseen.lapsed
  /\ ~ircseen.torn => \A i \in DOMAIN ircseen.shown.names : ircseen.shown.names[i] = ircseen.shown.title

(* A connection that is lost, or stays silent, is tried again time after   *)
(* time, until there is one or an attempt fails or the user gives up.      *)
LostIsRetried == []<>(irctimer # "pending" /\ irclink \in {"registered", "none"})

(* "Reconnect and re-join channels on IRC disconnect" (ChangeLog): where   *)
(* there is a connection again, the user is in the channels that they      *)
(* joined and did not leave.                                               *)
ChannelsAreRejoined == irclink = "registered" => ircseen.wanted \subseteq channel_list
=============================================================================
