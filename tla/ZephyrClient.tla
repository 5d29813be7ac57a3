------------------------------ MODULE ZephyrClient ------------------------------
(***************************************************************************)
(* Zephyr subscriptions (zephyr.c): the client asks its host manager for a *)
(* sign of life and goes on; what is loaded before the answer is deferred. *)
(* Subscriptions are kept from session to session in ~/.zephyr.subs, which *)
(* also lists punts ("-" lines) and comments, and is changed line by line. *)
(* Names are compared without regard to case, so they stand for their      *)
(* classes under it; recipients "" and "*" are one, as they are in a line. *)
(***************************************************************************)
EXTENDS Subsequences, SequencesExt

CONSTANTS
  Subs,        \* what the user subscribes to: class and instance
  DefaultSubs, \* those that libzephyr adds by itself
  PersonalSub, \* <message,*,%me%>
  LoginSubs,   \* one for each user in ~/.anyone
  SubsFiles,   \* the contents ~/.zephyr.subs may have at first
  MaxCommands, \* bound on what the user does
  MaxSubsSessions

(* The lines of the file; one without a recipient is "short".              *)
SubsLine(kind, sub) == [kind |-> kind, sub |-> sub]
SubsLines == [kind : {"sub", "punt", "comment", "short"}, sub : Subs]

ASSUME SubsFilesAssumption == SubsFiles \subseteq Seq(SubsLines)

VARIABLES
  zephyr,    \* "asked" and waiting, "ready", or "failed" for good
  initial,   \* g.load_initial_subs
  deferred,  \* deferred_subs
  subs,      \* what the server has for this client
  subsfile,  \* ~/.zephyr.subs
  told,      \* what the user has been told is subscribed to
  kept,      \* and is in the file
  commands, sessions

subsVars == <<zephyr, initial, deferred, subs, subsfile, told, kept, commands, sessions>>

(* Broken variant: the lines of punts are subscribed to as well.           *)
LoadedWithPunts(file) == {l.sub : l \in {k \in ToSet(file) : k.kind \in {"sub", "punt"}}}

(* owl_zephyr_loadsubs, up to the request: a line that starts with "-" is  *)
(* for the list of punts, and one that has not three fields is passed over.*)
Loaded(file) == {l.sub : l \in {k \in ToSet(file) : k.kind = "sub"}}

SubsInit ==
  /\ zephyr = "asked" /\ initial \in BOOLEAN /\ deferred = <<>>
  /\ subs = {} /\ told = {}
  /\ subsfile \in SubsFiles /\ kept = Loaded(subsfile)
  /\ commands = 0 /\ sessions = 1

-----------------------------------------------------------------------------
(* owl_zephyr_load_initial_subs: the requests it makes.                    *)
InitialRequests ==
  IF initial THEN <<DefaultSubs, {PersonalSub}, Loaded(subsfile), LoginSubs>> ELSE <<>>

(* At most one of the requests is refused, with an error; 0 for none.      *)
AcceptedOf(requests, refused) ==
  UNION {requests[i] : i \in DOMAIN requests \ {refused}}

(* What the user takes for subscribed to: what was asked for, or what the  *)
(* server has when there has been an error to look after.                  *)
Tell(requests, refused) ==
  told' = IF refused = 0 THEN told \cup UNION ToSet(requests) ELSE subs'

(* Broken variant: only the first of the deferred lists is asked for.      *)
AnsweredFirst ==
  /\ zephyr = "asked" /\ zephyr' = "ready"
  /\ LET requests == InitialRequests \o SelectSeq(deferred, LAMBDA l : l = deferred[1]) IN
     \E refused \in 0 .. Len(requests) :
       subs' = AcceptedOf(requests, refused) /\ Tell(requests, refused)
  /\ deferred' = <<>>
  /\ UNCHANGED <<initial, subsfile, kept, commands, sessions>>

(* owl_zephyr_finish_initialization                                        *)
Answered ==
  /\ zephyr = "asked" /\ zephyr' = "ready"
  /\ LET requests == InitialRequests \o deferred IN
     \E refused \in 0 .. Len(requests) :
       subs' = AcceptedOf(requests, refused) /\ Tell(requests, refused)
  /\ deferred' = <<>>
  /\ UNCHANGED <<initial, subsfile, kept, commands, sessions>>

(* ZInitialize or ZOpenPort fails: the watch is gone, and so is Zephyr.    *)
AnsweredBadly ==
  /\ zephyr = "asked" /\ zephyr' = "failed"
  /\ UNCHANGED <<initial, deferred, subs, subsfile, told, kept, commands, sessions>>

-----------------------------------------------------------------------------
SubsCommand ==
  /\ commands < MaxCommands /\ commands' = commands + 1
  /\ UNCHANGED <<zephyr, initial, sessions>>

(* owl_zephyr_loadsubs_helper for each of the lists, which is asked for at *)
(* once or deferred; the user hears of success in both cases.              *)
Request(lists) ==
  IF zephyr = "ready"
    THEN \E refused \in 0 .. Len(lists) :
           /\ subs' = subs \cup AcceptedOf(lists, refused)
           /\ Tell(lists, refused)
           /\ UNCHANGED deferred
    ELSE /\ deferred' = deferred \o lists
         /\ told' = told \cup UNION ToSet(lists)
         /\ UNCHANGED subs

(* owl_function_loadsubs.  Before Zephyr is ready the default list of      *)
(* libzephyr is not asked for, nor deferred.                               *)
LoadSubs ==
  /\ SubsCommand
  /\ Request(<<Loaded(subsfile)>> \o (IF zephyr = "ready" THEN <<DefaultSubs>> ELSE <<>>)
               \o << {PersonalSub} >>)
  /\ UNCHANGED <<subsfile, kept>>

(* owl_function_loadloginsubs                                              *)
LoadLoginSubs ==
  /\ SubsCommand /\ Request(<<LoginSubs>>)
  /\ UNCHANGED <<subsfile, kept>>

(* owl_zephyr_addsub: a line that is not there yet is appended.            *)
AddSub(s) ==
  LET line == SubsLine("sub", s) IN
  \/ /\ line \in ToSet(subsfile) /\ UNCHANGED <<subsfile, kept>>
  \/ /\ line \notin ToSet(subsfile)
     /\ subsfile' = Append(subsfile, line) /\ kept' = kept \cup {s}
  \/ line \notin ToSet(subsfile) /\ UNCHANGED <<subsfile, kept>> \* it cannot be opened

(* Broken variant: one line only is removed.                               *)
DelSubOnce(s) ==
  LET line == SubsLine("sub", s) IN
  /\ subsfile' = RemoveFirst(subsfile, line) /\ kept' = kept \ {s}

(* owl_zephyr_delsub: owl_util_file_deleteline writes the other lines to a *)
(* new file that takes the place of the old one, or is given up.           *)
DelSub(s) ==
  LET line == SubsLine("sub", s) IN
  \/ subsfile' = Without(subsfile, {line}) /\ kept' = kept \ {s}
  \/ UNCHANGED <<subsfile, kept>>

(* owl_command_subscribe: what the server refuses, as libzephyr does while *)
(* it is not ready, is not written down.                                   *)
Subscribe(s, temp) ==
  /\ SubsCommand /\ UNCHANGED deferred
  /\ \/ /\ zephyr = "ready"
        /\ subs' = subs \cup {s} \cup DefaultSubs /\ told' = told \cup {s} \cup DefaultSubs
        /\ IF temp THEN UNCHANGED <<subsfile, kept>> ELSE AddSub(s)
     \/ UNCHANGED <<subs, told, subsfile, kept>>

(* owl_command_unsubscribe: the line goes, whatever the server says.       *)
Unsubscribe(s, temp) ==
  /\ SubsCommand /\ UNCHANGED deferred
  /\ \/ zephyr = "ready" /\ subs' = subs \ {s} /\ told' = told \ {s}
     \/ UNCHANGED <<subs, told>>
  /\ IF temp THEN UNCHANGED <<subsfile, kept>> ELSE DelSub(s)

(* owl_function_unsuball                                                   *)
UnsubAll ==
  /\ SubsCommand /\ UNCHANGED <<deferred, subsfile, kept>>
  /\ \/ zephyr = "ready" /\ subs' = {} /\ told' = {}
     \/ UNCHANGED <<subs, told>>

(* The client quits, as owl_zephyr_shutdown does, or is killed; the server *)
(* forgets a client that has gone.  The next one starts with the file.     *)
NextSession ==
  /\ sessions < MaxSubsSessions /\ sessions' = sessions + 1
  /\ zephyr' = "asked" /\ initial' \in BOOLEAN /\ deferred' = <<>>
  /\ subs' = {} /\ told' = {}
  /\ UNCHANGED <<subsfile, kept, commands>>

SubsNext ==
  \/ Answered \/ AnsweredBadly
  \/ LoadSubs \/ LoadLoginSubs \/ UnsubAll
  \/ \E s \in Subs, temp \in BOOLEAN : Subscribe(s, temp) \/ Unsubscribe(s, temp)
  \/ NextSession

-----------------------------------------------------------------------------
(* What the user has been told is subscribed to is so on the server, once  *)
(* it is there, though some of it was asked for before; and what has been  *)
(* put in the file or left there, no more and no less, is what the next    *)
(* session is subscribed to, through all changes and failures between.     *)
SubscriptionsAreKept ==
  /\ zephyr = "ready" => subs = told
  /\ Loaded(subsfile) = kept

-----------------------------------------------------------------------------
(***************************************************************************)
(* Who of the user's Zephyr buddies is logged in: the server's notices of  *)
(* logins and logouts, and the locations the client asks for every three   *)
(* minutes, one request for each line of ~/.anyone ("pseudo-logins").      *)
(* Both come as datagrams, in any order or never.  libzephyr reads them    *)
(* from its socket into a queue of its own, also while it waits for the    *)
(* server in some other call; the event source takes them from the queue,  *)
(* a bounded number at a time, and puts messages on the message queue.     *)
(***************************************************************************)

CONSTANTS
  Anyone,      \* the users in ~/.anyone
  MaxNotices,  \* OWL_MAX_ZEPHYRGRAMS_TO_PROCESS
  MaxMoves,    \* bound on logins, logouts, checks by the user, slow replies
  MaxArrived   \* bound on the notices in socket and queue

ASSUME NoticesAssumption == MaxNotices \in Nat

VARIABLES
  online,      \* who is logged in
  flying,      \* the datagrams on their way
  socket, zqueue, \* those that arrived: unread, and in libzephyr's queue
  notify,      \* pseudologin_notify
  zusers,      \* the buddy list
  msgqueue,    \* login and logout messages not processed yet
  ignorelogins,
  moves

buddyVars ==
  <<online, flying, socket, zqueue, notify, zusers, msgqueue, ignorelogins, moves>>

(* A request or reply is listed while its zald is on the list of the       *)
(* client, and loud when the check that made it asked to notify.           *)
Datagram(what, user, on, listed, loud) ==
  [what |-> what, user |-> user, online |-> on, listed |-> listed, loud |-> loud]
IsLocate(d) == d.what \in {"request", "reply"}

LoginNotice(user, on) == Datagram("login", user, on, FALSE, FALSE)

(* A message that comes of a notice, or of a reply.                        *)
LoginMessage(user, on, pseudo, loud) ==
  [user |-> user, online |-> on, pseudo |-> pseudo, loud |-> loud]

BuddyInit ==
  /\ online \in SUBSET Anyone /\ zusers = {}
  /\ flying = {} /\ socket = <<>> /\ zqueue = <<>> /\ msgqueue = <<>>
  /\ notify = FALSE /\ ignorelogins \in BOOLEAN
  /\ moves = 0

-----------------------------------------------------------------------------
(* The users, the server and the network.                                  *)
Elsewhere == UNCHANGED <<notify, zusers, msgqueue, ignorelogins>>

Move(u) ==
  /\ moves < MaxMoves /\ moves' = moves + 1
  /\ online' = IF u \in online THEN online \ {u} ELSE online \cup {u}
  /\ flying' = flying \cup {LoginNotice(u, u \notin online)}
  /\ UNCHANGED <<socket, zqueue>> /\ Elsewhere

(* The server answers a request.                                           *)
Locate(d) ==
  /\ d \in flying /\ d.what = "request"
  /\ flying' = (flying \ {d})
                 \cup {Datagram("reply", d.user, d.user \in online, d.listed, d.loud)}
  /\ UNCHANGED <<online, socket, zqueue, moves>> /\ Elsewhere

Arrive(d) ==
  /\ d \in flying /\ d.what # "request"
  /\ Len(socket) + Len(zqueue) < MaxArrived
  /\ socket' = Append(socket, d) /\ flying' = flying \ {d}
  /\ UNCHANGED <<online, zqueue, moves>> /\ Elsewhere

Lose(d) ==
  /\ d \in flying /\ flying' = flying \ {d}
  /\ UNCHANGED <<online, socket, zqueue, moves>> /\ Elsewhere

-----------------------------------------------------------------------------
Unlisted(d) == [d EXCEPT !.listed = FALSE]
UnlistedAll(s) == [i \in DOMAIN s |-> Unlisted(s[i])]
Requests(loud) == {Datagram("request", u, FALSE, TRUE, loud) : u \in Anyone}

(* Broken variant: the requests of the check before stay on the list.      *)
BuddyCheckAdding(loud) ==
  /\ notify' = loud
  /\ flying' = flying \cup Requests(loud)
  /\ UNCHANGED <<socket, zqueue>>

(* owl_function_zephyr_buddy_check: the zalds of the check before are      *)
(* dropped, and everyone is asked for.                                     *)
BuddyCheck(loud) ==
  /\ notify' = loud
  /\ flying' = {Unlisted(d) : d \in flying} \cup Requests(loud)
  /\ socket' = UnlistedAll(socket) /\ zqueue' = UnlistedAll(zqueue)

(* owl_variable_pseudologins_set, which the user may use at any time.      *)
SetPseudologins ==
  /\ moves < MaxMoves /\ moves' = moves + 1
  /\ BuddyCheck(FALSE)
  /\ UNCHANGED <<online, zusers, msgqueue, ignorelogins>>

Awaited == \E d \in flying \cup ToSet(socket) \cup ToSet(zqueue) : d.listed

(* owl_zephyr_buddycheck_timer.  What is not answered by then is lost, or  *)
(* a reply is that slow: so seldom that it counts as a move.               *)
BuddyCheckTimer ==
  /\ IF Awaited THEN moves < MaxMoves /\ moves' = moves + 1 ELSE UNCHANGED moves
  /\ BuddyCheck(TRUE)
  /\ UNCHANGED <<online, zusers, msgqueue, ignorelogins>>

(* Another call of libzephyr waits for its answer: what comes before goes  *)
(* to the queue.                                                           *)
OtherCall ==
  /\ socket # <<>>
  /\ zqueue' = zqueue \o socket /\ socket' = <<>>
  /\ UNCHANGED <<online, flying, moves>> /\ Elsewhere

-----------------------------------------------------------------------------
(* What a notice does; b stands for the buddy list and the message queue.  *)
Queue(b, m) == [b EXCEPT !.msgqueue = Append(@, m)]

(* owl_zephyr_process_pseudologin: a reply to no zald is passed over.      *)
ProcessPseudologin(b, d) ==
  IF ~d.listed \/ (d.online <=> d.user \in b.zusers) THEN b
  ELSE LET said == IF notify THEN Queue(b, LoginMessage(d.user, d.online, TRUE, d.loud)) ELSE b
       IN [said EXCEPT !.zusers = IF d.online THEN @ \cup {d.user} ELSE @ \ {d.user}]

ProcessNotice(b, d) ==
  IF IsLocate(d) THEN ProcessPseudologin(b, d)
  ELSE Queue(b, LoginMessage(d.user, d.online, FALSE, FALSE))

(* Broken variant: the source waits for the socket alone.                  *)
SourceReadySocket == socket # <<>>

(* owl_zephyr_event_prepare, check: there is something in the queue, or    *)
(* in the socket.                                                          *)
SourceReady == zqueue # <<>> \/ socket # <<>>

(* What the first n notices do, one after the other.                       *)
Processed(all, n) ==
  LET b[k \in 0 .. n] == IF k = 0 THEN [zusers |-> zusers, msgqueue |-> msgqueue]
                         ELSE ProcessNotice(b[k - 1], all[k])
  IN  b[n]

(* _owl_zephyr_process_events: ZPending reads the socket empty.            *)
ProcessEvents ==
  /\ SourceReady
  /\ LET all == zqueue \o socket
         n == IF Len(all) < MaxNotices THEN Len(all) ELSE MaxNotices
     IN /\ zusers' = Processed(all, n).zusers /\ msgqueue' = Processed(all, n).msgqueue
        /\ zqueue' = SubSeq(all, n + 1, Len(all)) /\ socket' = <<>>
  /\ UNCHANGED <<online, flying, notify, ignorelogins, moves>>

(* owl_process_message, for one login or logout: with ignorelogins it is   *)
(* deleted first.                                                          *)
ProcessMessage ==
  /\ msgqueue # <<>>
  /\ LET m == Head(msgqueue) IN
     zusers' = IF ignorelogins THEN zusers
               ELSE IF m.online THEN zusers \cup {m.user} ELSE zusers \ {m.user}
  /\ msgqueue' = Tail(msgqueue)
  /\ UNCHANGED <<online, flying, socket, zqueue, notify, ignorelogins, moves>>

BuddyNext ==
  \/ \E u \in Anyone : Move(u)
  \/ \E d \in flying : Locate(d) \/ Arrive(d) \/ Lose(d)
  \/ SetPseudologins \/ BuddyCheckTimer \/ OtherCall
  \/ ProcessEvents \/ ProcessMessage

(* The main loop dispatches a source that is ready and a timer that is due,*)
(* and a datagram sent over and over comes through.                        *)
Listed(what) == {d \in flying : d.what = what /\ d.listed}

BuddyFairness ==
  /\ []<>~SourceReady \/ []<><<ProcessEvents>>_buddyVars
  /\ []<>(msgqueue = <<>>) \/ []<><<ProcessMessage>>_buddyVars
  /\ []<>Awaited \/ []<><<BuddyCheckTimer>>_buddyVars
  /\ []<>(Listed("request") \cup Listed("reply") = {})
  /\ \A u \in Anyone :
       <>[](\A d \in flying : d.user # u \/ ~d.listed)
         \/ []<><<\E d \in Listed("reply") : d.user = u /\ Arrive(d)>>_buddyVars

-----------------------------------------------------------------------------
(* "If 'notify' is '1' then send a pseudo login or logout message [...]    *)
(* The list is updated regardless": what is announced comes of a check     *)
(* that was to announce it, though checks of both kinds overlap and the    *)
(* client has one flag for all of them.                                    *)
SilentChecksAreSilent ==
  \A m \in ToSet(msgqueue) : m.pseudo => m.loud

(* Once nobody comes or goes any more, the buddy list is right for good,   *)
(* with all messages processed in their order: lost and late notices are   *)
(* made up for by the checks.                                              *)
BuddiesConverge == <>[](zusers = online)
=============================================================================
