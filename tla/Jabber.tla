--------------------------------- MODULE Jabber --------------------------------
(***************************************************************************)
(* Jabber accounts: logging in, with a prompt when the password is missing *)
(* or wrong, and out; the table of connections (ConnectionManager.pm) and  *)
(* the dispatch on their file descriptors (BarnOwl.pm); the timer that     *)
(* looks after them and connects lost ones again; the rooms they are in    *)
(* (Connection.pm).  An account stands for its entry in the table,         *)
(* whatever full JID the entry is renamed to.                              *)
(***************************************************************************)
EXTENDS Naturals, FiniteSets, FiniteSetsExt, SequencesExt

CONSTANTS
  Accounts, Rooms,
  Locked,        \* the rooms that need a password
  AutoReconnect, \* the variable jabber:reconnect
  MaxBreaks,     \* bound on lost connections and failures of the server
  MaxDone        \* bound on what the user does

ASSUME AccountsAssumption == IsFiniteSet(Accounts)

VARIABLES
  conn,      \* the connections; see Entry
  dispatch,  \* _io_dispatches: the account to serve when the fd is readable
  keepAliveTimer,
  prompt,    \* {} or the account whose password is asked for
  havepass,  \* jlogin_havepass
  network    \* what the servers have, and what has happened; tick: with each tick

jabberVars == <<conn, dispatch, keepAliveTimer, prompt, havepass, network>>

Fds == 1 .. Cardinality(Accounts)
Nobody == {}

(* fileno keeps the number of the last socket; sock is the one open now.   *)
Absent == [status |-> "absent", fileno |-> 0, sock |-> 0, mucs |-> {}]

JabberInit ==
  /\ conn = [a \in Accounts |-> Absent]
  /\ dispatch = [f \in Fds |-> Nobody]
  /\ keepAliveTimer = FALSE /\ prompt = {} /\ havepass = FALSE
  /\ network = [broken |-> {}, up |-> TRUE, joined |-> [a \in Accounts |-> {}],
                breaks |-> 0, done |-> 0, cancelled |-> FALSE, unasked |-> FALSE, tick |-> FALSE]

(* Several connections may change in one step: t is the table meanwhile.   *)
Table == [conn |-> conn, dispatch |-> dispatch, timer |-> keepAliveTimer, network |-> network]
BecomeTable(t) ==
  /\ conn' = t.conn /\ dispatch' = t.dispatch /\ keepAliveTimer' = t.timer /\ network' = t.network

JabberListed(t) == {a \in Accounts : t.conn[a].status # "absent"}
Active(t) == {a \in Accounts : t.conn[a].status = "available"}

(* The system gives the lowest number that is free.                        *)
NewFd(t) == Min(Fds \ {t.conn[a].sock : a \in Accounts})

-----------------------------------------------------------------------------
(* Broken variant: the dispatch is left.                                   *)
RemoveDispatchNever(t, a) == t

(* remove_io_dispatch of the Client's fileno, if it ever had one.          *)
RemoveDispatch(t, a) ==
  IF t.conn[a].fileno = 0 THEN t
  ELSE [t EXCEPT !.dispatch[t.conn[a].fileno] = Nobody]

(* Disconnect                                                              *)
Hung(t, a) ==
  [t EXCEPT !.conn[a].sock = 0, !.network.broken = @ \ {a}, !.network.joined[a] = {}]

RemoveConnection(t, a) == [Hung(RemoveDispatch(t, a), a) EXCEPT !.conn[a] = Absent]

ScheduleReconnect(t, a) ==
  IF ~AutoReconnect THEN RemoveConnection(t, a)
  ELSE [Hung(RemoveDispatch(t, a), a) EXCEPT !.conn[a].status = "reconnecting"]

(* A socket that Connect and AuthSend have made, and onConnect.            *)
OnConnect(t, a) ==
  LET f == NewFd(t) IN
  [t EXCEPT !.conn[a].status = "available", !.conn[a].sock = f, !.conn[a].fileno = f,
            !.dispatch[f] = {a}, !.timer = TRUE]

(* What becomes of an attempt: "unreachable" if the server is down.        *)
Outcomes == IF network.up THEN {"ok", "refused"} ELSE {"unreachable"}

(* tryReconnect, once it is time.  The rooms are joined again, without     *)
(* their passwords: ARGS is the number of arguments.                       *)
TryReconnect(t, a, outcome) ==
  IF t.conn[a].status # "reconnecting" THEN t
  ELSE CASE outcome = "unreachable" -> t
         [] outcome = "refused" -> RemoveConnection(t, a)
         [] outcome = "ok" ->
              [OnConnect(t, a) EXCEPT !.network.joined[a] = t.conn[a].mucs \ Locked]

-----------------------------------------------------------------------------
(* Commands are typed while no password is asked for.                      *)
Does == network.done < MaxDone /\ prompt = {}
Done(t) == [t EXCEPT !.network.done = @ + 1]

(* do_login; a refused one asks for the password if it has not.            *)
DoLogin(t, a, outcome) ==
  /\ BecomeTable(CASE outcome = "ok" -> OnConnect(t, a)
                   [] outcome = "refused" /\ havepass ->
                        [t EXCEPT !.network.unasked = @ \/ prompt # {a}]
                   [] OTHER -> t)
  /\ LET ask == outcome = "refused" /\ ~havepass IN
       prompt' = (IF ask THEN {a} ELSE {}) /\ havepass' = ask

(* cmd_login: an account that waits to be connected again is tried now.    *)
CmdLogin(a, outcome) ==
  /\ Does
  /\ \/ conn[a].status = "absent" /\ DoLogin(Done(Table), a, outcome)
     \/ /\ conn[a].status = "reconnecting"
        /\ BecomeTable(TryReconnect(Done(Table), a, outcome))
        /\ UNCHANGED <<prompt, havepass>>

(* The prompt is answered, or cancelled; then havepass stays.              *)
EnterPassword(outcome) == \E a \in prompt : DoLogin(Table, a, outcome)

CancelPassword ==
  /\ prompt # {} /\ prompt' = {}
  /\ network' = [network EXCEPT !.cancelled = TRUE]
  /\ UNCHANGED <<conn, dispatch, keepAliveTimer, havepass>>

(* cmd_logout, of one account or with -A of all.  The accounts of a hash   *)
(* come in any order.                                                      *)
RemovedInTurn(order, t) ==
  LET g[k \in 0 .. Len(order)] == IF k = 0 THEN t ELSE RemoveConnection(g[k - 1], order[k])
  IN  g[Len(order)]

CmdLogout(S) ==
  /\ Does /\ S \subseteq JabberListed(Table) /\ S # {}
  /\ \E order \in SetToSeqs(S) : BecomeTable(RemovedInTurn(order, Done(Table)))
  /\ UNCHANGED <<prompt, havepass>>

(* jmuc_join, jmuc_part on an account that is connected                    *)
JmucJoin(a, room) ==
  /\ Does /\ a \in Active(Table)
  /\ BecomeTable([Done(Table) EXCEPT !.conn[a].mucs = @ \cup {room},
                                     !.network.joined[a] = @ \cup {room}])
  /\ UNCHANGED <<prompt, havepass>>

JmucPart(a, room) ==
  /\ Does /\ a \in Active(Table) /\ room \in conn[a].mucs
  /\ BecomeTable([Done(Table) EXCEPT !.conn[a].mucs = @ \ {room},
                                     !.network.joined[a] = @ \ {room}])
  /\ UNCHANGED <<prompt, havepass>>

-----------------------------------------------------------------------------
(* A connection breaks; the server goes down or comes back.                *)
Break(a) ==
  /\ a \in Active(Table) \ network.broken /\ network.breaks < MaxBreaks
  /\ network' = [network EXCEPT !.broken = @ \cup {a}, !.breaks = @ + 1]
  /\ UNCHANGED <<conn, dispatch, keepAliveTimer, prompt, havepass>>

ServerChanges ==
  /\ ~network.up \/ network.breaks < MaxBreaks
  /\ network' = [network EXCEPT !.up = ~@, !.breaks = IF network.up THEN @ + 1 ELSE @]
  /\ UNCHANGED <<conn, dispatch, keepAliveTimer, prompt, havepass>>

(* Process: undefined on a connection that is broken.                      *)
JabberProcess(t, a) == IF a \in t.network.broken THEN ScheduleReconnect(t, a) ELSE t

(* OwlProcess, when a descriptor that is dispatched on is readable         *)
OwlProcess(f) ==
  \E a \in dispatch[f] :
    /\ a \in network.broken /\ BecomeTable(JabberProcess(Table, a))
    /\ UNCHANGED <<prompt, havepass>>

Ticked == [Table EXCEPT !.network.tick = ~@]

TriedInTurn(order, outcome, t) ==
  LET g[k \in 0 .. Len(order)] ==
        IF k = 0 THEN t ELSE TryReconnect(g[k - 1], order[k], outcome[order[k]])
  IN  g[Len(order)]

ProcessedInTurn(order, t) ==
  LET g[k \in 0 .. Len(order)] == IF k = 0 THEN t ELSE JabberProcess(g[k - 1], order[k])
  IN  g[Len(order)]

(* Broken variant: only lost connections are looked after.                 *)
DoKeepAliveOfLost(due, outcome) ==
  /\ keepAliveTimer
  /\ IF JabberListed(Table) = {} THEN BecomeTable([Ticked EXCEPT !.timer = FALSE])
     ELSE \E order \in SetToSeqs(due) : BecomeTable(TriedInTurn(order, outcome, Ticked))
  /\ UNCHANGED <<prompt, havepass>>

(* do_keep_alive_and_auto_away, every five seconds: those whose time has   *)
(* come are tried again, and all that are connected are processed.  It     *)
(* stops itself when there is nobody left.                                 *)
DoKeepAlive(due, outcome) ==
  /\ keepAliveTimer
  /\ IF JabberListed(Table) = {} THEN BecomeTable([Ticked EXCEPT !.timer = FALSE])
     ELSE \E order \in SetToSeqs(due) :
            LET tried == TriedInTurn(order, outcome, Ticked) IN
            \E then \in SetToSeqs(Active(tried)) : BecomeTable(ProcessedInTurn(then, tried))
  /\ UNCHANGED <<prompt, havepass>>

JabberWaiting == {a \in Accounts : conn[a].status = "reconnecting"}

Tick(due) == \E outcome \in [due -> Outcomes] : DoKeepAlive(due, outcome)

JabberNext ==
  \/ \E a \in Accounts :
       \/ \E outcome \in Outcomes : CmdLogin(a, outcome)
       \/ Break(a)
       \/ \E room \in Rooms : JmucJoin(a, room) \/ JmucPart(a, room)
  \/ \E outcome \in Outcomes : EnterPassword(outcome)
  \/ CancelPassword \/ ServerChanges
  \/ \E S \in SUBSET Accounts : (Cardinality(S) = 1 \/ S = JabberListed(Table)) /\ CmdLogout(S)
  \/ \E f \in Fds : OwlProcess(f)
  \/ \E due \in SUBSET JabberWaiting : Tick(due)

(* The timer goes on firing, and the time of each account comes: it waits  *)
(* for five minutes at most.  This is weak fairness, with what enables a   *)
(* tick written out.                                                       *)
JabberFairness ==
  /\ \/ []<>~keepAliveTimer
     \/ []<><<\E due \in SUBSET JabberWaiting : Tick(due)>>_jabberVars
  /\ \A a \in Accounts :
       \/ []<>~(keepAliveTimer /\ a \in JabberWaiting)
       \/ []<><<\E due \in SUBSET JabberWaiting : a \in due /\ Tick(due)>>_jabberVars

-----------------------------------------------------------------------------
(* Descriptors that are closed and given out again never lead to another   *)
(* account or to none; the timer runs while anybody is to be looked after; *)
(* who is connected, for the first time or again, is in their open rooms;  *)
(* and a password is asked for once before the login fails, unless an      *)
(* earlier prompt was cancelled.                                           *)
JabberIsOrderly ==
  /\ \A f \in Fds : \A a \in dispatch[f] : conn[a].status = "available" /\ conn[a].sock = f
  /\ \A a, b \in Active(Table) : a # b => conn[a].sock # conn[b].sock
  /\ JabberListed(Table) # {} => keepAliveTimer
  /\ \A a \in Active(Table) : conn[a].mucs \ Locked \subseteq network.joined[a]
  /\ network.unasked => network.cancelled

(* A connection that breaks is noticed, though its dispatch may have been  *)
(* taken away when another account that had the same descriptor before     *)
(* went; and one that is lost is connected again or given up for refused,  *)
(* while the server can be reached.                                        *)
BrokenIsMended ==
  \A a \in Accounts : []<>(a \notin network.broken) /\ []<>(a \notin JabberWaiting \/ ~network.up)

-----------------------------------------------------------------------------
(***************************************************************************)
(* The rosters of Jabber accounts: the copy each connection has of the one *)
(* on the server (Roster.pm), the jroster command that edits it            *)
(* (Jabber.pm), and the questions of those who want to see the user's      *)
(* presence, which "yes" and "no" answer with that command (commands.c).   *)
(* What a client sends is with the server at once; what the server sends   *)
(* waits in order until the client reads it.  Of subscriptions only those  *)
(* to the user's presence are here; short names are left out.              *)
(***************************************************************************)

Names == INSTANCE Conversations

CONSTANTS
  Connections,    \* the full JIDs that may be logged in
  Contacts,
  RosterGroups,
  NamesWithin,    \* <<b, c>>: the base b is found within the base c
  MaxRosterSteps  \* bound on what users, contacts and connections do

(* A JID is never empty.                                                   *)
ASSUME RosterAssumption ==
  IsFiniteSet(Connections) /\ IsFiniteSet(Contacts) /\ \A c \in Connections : c.base # ""

VARIABLES
  status,     \* of each connection: "absent", "available", "reconnecting"
  copies,     \* Roster of each connection: contact -> groups
  servers,    \* of each account: its roster, who sees it, who has asked to
  underway,   \* of each connection: what the server has sent it, oldest first
  questions,  \* the messages that ask
  steps, dropped

rosterVars == <<status, copies, servers, underway, questions, steps, dropped>>

Bases == {c.base : c \in Connections}
NoRoster == [x \in {} |-> {}]

RosterInit ==
  /\ status = [c \in Connections |-> "absent"]
  /\ copies = [c \in Connections |-> NoRoster]
  /\ servers = [b \in Bases |-> [roster |-> NoRoster, seers |-> {}, pending |-> {}]]
  /\ underway = [c \in Connections |-> <<>>]
  /\ questions = <<>> /\ steps = 0 /\ dropped = FALSE

Stepped == steps < MaxRosterSteps /\ steps' = steps + 1
ListedConns == {c \in Connections : status[c] # "absent"}

-----------------------------------------------------------------------------
(* The server.  An item replaces the former one, and every connection is   *)
(* told; those that log in are told again who has asked.                   *)
Stanza(kind, contact, groups) == [kind |-> kind, contact |-> contact, groups |-> groups]

Pushed(base, stanza) ==
  [c \in Connections |->
     IF c.base = base /\ status[c] = "available" THEN Append(underway[c], stanza) ELSE underway[c]]

WithItem(roster, contact, groups) == [x \in DOMAIN roster \cup {contact} |->
                                        IF x = contact THEN groups ELSE roster[x]]

SetItem(base, contact, groups) ==
  /\ servers' = [servers EXCEPT ![base].roster = WithItem(@, contact, groups)]
  /\ underway' = Pushed(base, Stanza("item", contact, groups))

RemoveItem(base, contact) ==
  /\ servers' = [servers EXCEPT ![base].roster = Restrict(@, DOMAIN @ \ {contact}),
                                ![base].seers = @ \ {contact}]
  /\ underway' = Pushed(base, Stanza("remove", contact, {}))

(* "subscribed", of somebody who has asked; and "unsubscribed".            *)
TakeSubscribed(base, contact) ==
  IF contact \notin servers[base].pending THEN UNCHANGED <<servers, underway>>
  ELSE LET groups == IF contact \in DOMAIN servers[base].roster
                     THEN servers[base].roster[contact] ELSE {}
       IN  /\ servers' = [servers EXCEPT ![base].seers = @ \cup {contact},
                                         ![base].pending = @ \ {contact},
                                         ![base].roster = WithItem(@, contact, groups)]
           /\ underway' = Pushed(base, Stanza("item", contact, groups))

TakeUnsubscribed(base, contact) ==
  /\ servers' = [servers EXCEPT ![base].seers = @ \ {contact}, ![base].pending = @ \ {contact}]
  /\ UNCHANGED underway

(* A contact asks to see the presence of an account.                       *)
ContactAsks(base, contact) ==
  /\ contact \notin servers[base].seers \cup servers[base].pending /\ Stepped
  /\ servers' = [servers EXCEPT ![base].pending = @ \cup {contact}]
  /\ underway' = Pushed(base, Stanza("subscribe", contact, {}))
  /\ UNCHANGED <<status, copies, questions, dropped>>

-----------------------------------------------------------------------------
(* Broken variant: the copy from before the loss is kept.                  *)
RosterKept(c) == copies[c]

(* Roster, of a client that is connected anew, and fetch                   *)
FetchedRoster(c) == servers[c.base].roster

(* do_login or tryReconnect, and onConnect                                 *)
ConnectAccount(c) ==
  /\ status[c] # "available" /\ Stepped
  /\ status' = [status EXCEPT ![c] = "available"]
  /\ copies' = [copies EXCEPT ![c] = FetchedRoster(c)]
  /\ \E asking \in SetToSeqs(servers[c.base].pending) :
       underway' = [underway EXCEPT ![c] =
                      [i \in DOMAIN asking |-> Stanza("subscribe", asking[i], {})]]
  /\ UNCHANGED <<servers, questions, dropped>>

(* The connection is lost, or the account is logged out.                   *)
DisconnectAccount(c, s) ==
  /\ status[c] = "available" /\ Stepped
  /\ status' = [status EXCEPT ![c] = s]
  /\ copies' = [copies EXCEPT ![c] = IF s = "absent" THEN NoRoster ELSE @]
  /\ underway' = [underway EXCEPT ![c] = <<>>]
  /\ UNCHANGED <<servers, questions, dropped>>

(* process_presence_subscribe.  said, sent and own are for the properties: *)
(* the words typed for it, what went out and for whom it could.            *)
Question(to, from) ==
  [to |-> to, from |-> from, question |-> "true", yescommand |-> "auth", nocommand |-> "deauth",
   said |-> <<>>, sent |-> <<>>, own |-> {}]

(* handleRoster: what the server says of one contact.                      *)
HandleRoster(copy, stanza) ==
  IF stanza.kind = "remove" THEN Restrict(copy, DOMAIN copy \ {stanza.contact})
  ELSE WithItem(copy, stanza.contact, stanza.groups)

ReadStanza(c) ==
  /\ underway[c] # <<>>
  /\ underway' = [underway EXCEPT ![c] = Tail(@)]
  /\ LET stanza == Head(underway[c]) IN
       IF stanza.kind = "subscribe"
         THEN questions' = Append(questions, Question(c.base, stanza.contact)) /\ UNCHANGED copies
         ELSE copies' = [copies EXCEPT ![c] = HandleRoster(@, stanza)] /\ UNCHANGED questions
  /\ UNCHANGED <<status, servers, steps, dropped>>

-----------------------------------------------------------------------------
(* defaultJID *)
DefaultJID == IF Cardinality(ListedConns) = 1 THEN ListedConns ELSE {}

(* cmd_jroster: the connection it is for, or nothing when it dies.  It is  *)
(* the only one if none is given; one that waits to be connected again has *)
(* no Client to send with.                                                 *)
JrosterAccount(given) ==
  LET found == IF given = "" THEN DefaultJID
               ELSE Names!ResolveConnectedJID(ListedConns, Names!Jid(given, ""), FALSE, NamesWithin)
  IN  {c \in found : status[c] = "available"}

(* Broken variant: -p keeps the groups, and they go without it.            *)
AllGroupsInverted(c, contact, groups, purge) ==
  groups \cup (IF purge /\ contact \in DOMAIN copies[c] THEN copies[c][contact] ELSE {})

(* jroster_add: those given, and those in the copy                         *)
AllGroups(c, contact, groups, purge) ==
  groups \cup (IF ~purge /\ contact \in DOMAIN copies[c] THEN copies[c][contact] ELSE {})

ServerGroups(base, contact) ==
  IF contact \in DOMAIN servers[base].roster THEN servers[base].roster[contact] ELSE {}

JrosterAdd(c, contact, groups, purge) ==
  LET all == AllGroups(c, contact, groups, purge) IN
  /\ SetItem(c.base, contact, all)
  /\ dropped' = (\/ dropped
                 \/ ~purge /\ underway[c] = <<>> /\ ~ServerGroups(c.base, contact) \subseteq all)

(* jroster_sub: the presence goes out to the contact, whom the copy is     *)
(* searched for.                                                           *)
JrosterSub(c, contact, groups, purge) ==
  IF contact \in DOMAIN copies[c] THEN UNCHANGED <<servers, underway, dropped>>
  ELSE JrosterAdd(c, contact, groups, purge)

JrosterRemove(c, contact) == RemoveItem(c.base, contact) /\ UNCHANGED dropped
JrosterAuth(c, contact)   == TakeSubscribed(c.base, contact) /\ UNCHANGED dropped
JrosterDeauth(c, contact) == TakeUnsubscribed(c.base, contact) /\ UNCHANGED dropped

Jroster(cmd, c, contact, groups, purge) ==
  \/ cmd = "add"    /\ JrosterAdd(c, contact, groups, purge)
  \/ cmd = "sub"    /\ JrosterSub(c, contact, groups, purge)
  \/ cmd = "remove" /\ JrosterRemove(c, contact)
  \/ cmd = "auth"   /\ JrosterAuth(c, contact)
  \/ cmd = "deauth" /\ JrosterDeauth(c, contact)

JrosterCommand ==
  /\ Stepped
  /\ \E given \in Bases \cup {""}, contact \in Contacts, purge \in BOOLEAN,
        groups \in SUBSET RosterGroups, cmd \in {"add", "sub", "remove", "auth", "deauth"} :
       /\ cmd \notin {"add", "sub"} => groups = {} /\ ~purge
       /\ \E c \in JrosterAccount(given) : Jroster(cmd, c, contact, groups, purge)
  /\ UNCHANGED <<status, copies, questions>>

-----------------------------------------------------------------------------
(* owl_message_set_isanswered *)
SetIsanswered(q) == [q EXCEPT !.question = "answered"]

(* Broken variant: the account is not given, as when there is only one.    *)
QuestionAccountDefault(q) == JrosterAccount("")

(* "-a $to" of the commands that a question carries                        *)
QuestionAccount(q) == JrosterAccount(q.to)

(* owl_command_yes, owl_command_no, on a question that the user has moved  *)
(* to.  The command is run, whatever comes of it.                          *)
AnswerQuestion(i, word) ==
  LET q    == questions[i]
      cmd  == IF word = "yes" THEN q.yescommand ELSE q.nocommand
      went == QuestionAccount(q)
      own  == {c \in ListedConns : c.base = q.to}
      sent == [j \in 1 .. Cardinality(went) |-> [by |-> CHOOSE c \in went : TRUE, cmd |-> cmd]]
  IN  /\ i \in DOMAIN questions /\ q.question # "answered"
      /\ IF went = {} THEN UNCHANGED <<servers, underway, dropped>>
         ELSE \E c \in went : Jroster(cmd, c, q.from, {}, FALSE)
      /\ questions' = [questions EXCEPT ![i] =
           SetIsanswered([q EXCEPT !.said = Append(@, word), !.sent = @ \o sent,
                                   !.own = {c \in own : Cardinality(own) = 1 /\ status[c] = "available"}])]
      /\ UNCHANGED <<status, copies, steps>>

RosterNext ==
  \/ \E b \in Bases, x \in Contacts : ContactAsks(b, x)
  \/ \E c \in Connections :
       ConnectAccount(c) \/ ReadStanza(c) \/ \E s \in {"absent", "reconnecting"} : DisconnectAccount(c, s)
  \/ JrosterCommand
  \/ \E i \in 1 .. MaxRosterSteps, word \in {"yes", "no"} : AnswerQuestion(i, word)

-----------------------------------------------------------------------------
(* A question is answered once, by the account that was asked and in the   *)
(* words first typed, if that account is connected and only once; "yes"    *)
(* typed later, or after a new connection, sends nothing more.             *)
QuestionsAreAnsweredOnce ==
  \A i \in DOMAIN questions :
    LET q == questions[i] IN
    /\ Len(q.said) <= 1 /\ Len(q.sent) <= Len(q.said)
    /\ \A c \in q.own :
         q.sent = <<[by |-> c, cmd |-> IF q.said[1] = "yes" THEN "auth" ELSE "deauth"]>>

(* A connection that has read all it was sent has the roster that the      *)
(* server has, through losses and whatever other connections of the        *)
(* account have changed.                                                   *)
RostersAreCurrent ==
  \A c \in Connections :
    status[c] = "available" /\ underway[c] = <<>> => copies[c] = servers[c.base].roster

(* "will not remove <jid> from any groups": nor does it, when the copy it  *)
(* goes by is current.                                                     *)
GroupsAreKept == ~dropped
=============================================================================
