----------------------------- MODULE AimSession -----------------------------
(***************************************************************************)
(* The AIM session as BarnOwl drives it (aim.c, buddylist.c) over the      *)
(* connections of libfaim (conn.c, rxqueue.c): a connection to the         *)
(* authorizer, then one to the BOS server and perhaps one to a chat        *)
(* service.  The main loop polls their sockets; each time one is ready one *)
(* connection is attended to.  The servers are external.                   *)
(***************************************************************************)
EXTENDS Naturals, Sequences, SequencesExt

CONSTANTS
  Screennames,
  MaxCalls,  \* bound on the user's commands
  MaxFrames  \* bound on what the servers send

ASSUME AimAssumption == MaxCalls \in Nat /\ MaxFrames \in Nat

VARIABLES
  connlist,  \* sess->connlist, the newest first
  polled,    \* there is an aim_event_source
  loggedin,  \* g.aim_loggedin
  buddylist, \* the buddies that are logged in
  ignoring,  \* g.ignoreaimlogin
  timers,    \* timers that run: [nop, known: those whose id is kept, ignore]
  calls, frames

aimVars == <<connlist, polled, loggedin, buddylist, ignoring, timers, calls, frames>>

(* A connection is being made (AIM_CONN_STATUS_INPROGRESS), open or dead   *)
(* (its fd is -1); wire is what the server has sent that has not been      *)
(* read, closed that nothing follows, online whom it has told to be there; *)
(* moved says that the session was migrated to it.                         *)
Conn(type, state) ==
  [type |-> type, state |-> state, wire |-> <<>>, closed |-> FALSE, online |-> {}, moved |-> FALSE]

AimInit ==
  /\ connlist = <<>> /\ polled = FALSE /\ loggedin = FALSE
  /\ buddylist = {} /\ ignoring = FALSE
  /\ timers = [nop |-> 0, known |-> FALSE, ignore |-> 0]
  /\ calls = MaxCalls /\ frames = MaxFrames

Frame(kind) == [kind |-> kind, name |-> ""]
Presence(kind, name) == [kind |-> kind, name |-> name]

(* What aim_newconn gives.                                                 *)
States == {"connecting", "open", "dead"}

(* Those whom nothing has been heard from or is to be heard from.          *)
Pollable(conn) ==
  \/ conn.state = "connecting"
  \/ conn.state = "open" /\ (conn.wire # <<>> \/ conn.closed)

-----------------------------------------------------------------------------
(* What aim.c does when the session ends, as changes of the state.         *)

(* The end of owl_aim_logout and of owl_aim_login_error.                   *)
Stop ==
  /\ loggedin' = FALSE /\ polled' = FALSE
  /\ timers' = IF timers.known THEN [timers EXCEPT !.nop = @ - 1, !.known = FALSE] ELSE timers

(* owl_aim_logout, with aim_session_kill: the buddies are left.            *)
LoggedOut == Stop /\ connlist' = <<>> /\ UNCHANGED <<buddylist, ignoring>>

(* A mutant: the buddies of the former session stay.                       *)
AimLoginKeepingBuddies(state) ==
  /\ calls > 0 /\ calls' = calls - 1
  /\ connlist' = <<Conn("auth", state)>>
  /\ polled' = TRUE
  /\ timers' = [timers EXCEPT !.nop = @ + 1, !.known = TRUE]
  /\ UNCHANGED <<loggedin, buddylist, ignoring, frames>>

(* owl_function_aimlogin and owl_aim_login.  The session is set up anew    *)
(* whatever there was: the connections of a former one are forgotten, and  *)
(* the id of its timer too.                                                *)
AimLogin(state) ==
  /\ calls > 0 /\ calls' = calls - 1
  /\ buddylist' = {}
  /\ connlist' = <<Conn("auth", state)>>
  /\ polled' = TRUE
  /\ timers' = [timers EXCEPT !.nop = @ + 1, !.known = TRUE]
  /\ UNCHANGED <<loggedin, ignoring, frames>>

(* owl_command_aimlogout.                                                  *)
AimLogout ==
  /\ calls > 0 /\ calls' = calls - 1
  /\ Stop /\ connlist' = <<>> /\ buddylist' = {}
  /\ UNCHANGED <<ignoring, frames>>

(* owl_aim_unset_ignorelogin, of any timer that was started.               *)
IgnoreTimer ==
  /\ timers.ignore > 0
  /\ timers' = [timers EXCEPT !.ignore = @ - 1]
  /\ ignoring' = FALSE
  /\ UNCHANGED <<connlist, polled, loggedin, buddylist, calls, frames>>

-----------------------------------------------------------------------------
(* The servers.                                                            *)
Sends(i, frame) == connlist' = [connlist EXCEPT ![i].wire = Append(@, frame)]

ServerSends(i) ==
  /\ frames > 0 /\ frames' = frames - 1
  /\ connlist[i].state = "open" /\ ~connlist[i].closed
  /\ \/ connlist[i].type = "auth" /\ \E kind \in {"ok", "fail"} : Sends(i, Frame(kind))
     \/ /\ connlist[i].type = "bos"
        /\ \E kind \in {"redirect", "negotiate", "migrate"} : Sends(i, Frame(kind))
     \/ /\ connlist[i].type = "bos"
        /\ \E name \in Screennames :
             LET kind == IF name \in connlist[i].online THEN "offgoing" ELSE "oncoming"
                 who  == IF kind = "oncoming" THEN connlist[i].online \cup {name}
                         ELSE connlist[i].online \ {name}
             IN  connlist' = [connlist EXCEPT ![i].wire = Append(@, Presence(kind, name)),
                                              ![i].online = who]
  /\ UNCHANGED <<polled, loggedin, buddylist, ignoring, timers, calls>>

ServerCloses(i) ==
  /\ connlist[i].state # "dead" /\ ~connlist[i].closed
  /\ connlist' = [connlist EXCEPT ![i].closed = TRUE]
  /\ UNCHANGED <<polled, loggedin, buddylist, ignoring, timers, calls, frames>>

-----------------------------------------------------------------------------
(* owl_aim_process_events, run by the event source when one of the sockets *)
(* is ready.                                                               *)

(* aim_select: a dead connection comes before all, else the first that is  *)
(* ready.  A list that is empty is not met here: nothing would be polled.  *)
Waiting ==
  LET dead == {i \in DOMAIN connlist : connlist[i].state = "dead"}
      ready == {i \in DOMAIN connlist : Pollable(connlist[i])}
      of == IF dead # {} THEN dead ELSE ready
  IN  CHOOSE i \in of : \A j \in of : i <= j

(* check, in the event source: dead connections have no socket to poll.    *)
Dispatched == polled /\ \E i \in DOMAIN connlist : Pollable(connlist[i])

Dispatch(i) ==
  /\ Dispatched /\ i \in DOMAIN connlist
  /\ i = Waiting
  /\ UNCHANGED <<calls, frames>>

(* aim_conn_completeconnect.                                               *)
Connected(i) ==
  /\ Dispatch(i) /\ connlist[i].state = "connecting"
  /\ connlist' = [connlist EXCEPT ![i].state = "open"]
  /\ UNCHANGED <<polled, loggedin, buddylist, ignoring, timers>>

(* A mutant: only the connection is given up.                              *)
LostAlone(i) ==
  /\ Dispatch(i)
  /\ connlist[i].state = "dead" \/ (connlist[i].state = "open" /\ connlist[i].wire = <<>>)
  /\ connlist' = RemoveAt(connlist, i)
  /\ UNCHANGED <<polled, loggedin, buddylist, ignoring, timers>>

(* aim_get_command fails on a dead connection and at the end of the data:  *)
(* whatever the connection was for, the whole session ends.                *)
Lost(i) ==
  /\ Dispatch(i)
  /\ connlist[i].state = "dead" \/ (connlist[i].state = "open" /\ connlist[i].wire = <<>>)
  /\ LoggedOut

(* aim_rxdispatch hands the frame that was read to its handler.            *)
Gets(i, kind) ==
  /\ Dispatch(i) /\ connlist[i].state = "open"
  /\ connlist[i].wire # <<>> /\ Head(connlist[i].wire).kind = kind

Killed(i) == RemoveAt(connlist, i)

(* A mutant: the connection is left to the server to close.                *)
AuthFailedWaiting(i) ==
  /\ Gets(i, "fail")
  /\ Stop /\ UNCHANGED <<connlist, buddylist, ignoring>>

(* faimtest_parse_authresp with an error.                                  *)
AuthFailed(i) ==
  /\ Gets(i, "fail")
  /\ Stop /\ connlist' = Killed(i)
  /\ UNCHANGED <<buddylist, ignoring>>

(* faimtest_parse_authresp: a BOS server that cannot be reached is given   *)
(* up without a word, else owl_aim_successful_login.                       *)
AuthOk(i, state) ==
  /\ Gets(i, "ok")
  /\ UNCHANGED <<buddylist, polled>>
  /\ IF state = "dead"
     THEN /\ connlist' = Killed(i)
          /\ UNCHANGED <<loggedin, ignoring, timers>>
     ELSE /\ connlist' = <<Conn("bos", state)>> \o Killed(i)
          /\ loggedin' = TRUE /\ ignoring' = TRUE
          /\ timers' = [timers EXCEPT !.ignore = @ + 1]

(* migrate: the new server is given no cookie.                             *)
Migrate(i, state) ==
  /\ Gets(i, "migrate")
  /\ connlist' = (IF state = "dead" THEN <<>>
               ELSE <<[Conn("bos", state) EXCEPT !.moved = TRUE]>>) \o Killed(i)
  /\ UNCHANGED <<polled, loggedin, buddylist, ignoring, timers>>

(* faimtest_parse_connerr, when the server says why it will close.         *)
ConnErr(i) ==
  /\ Gets(i, "negotiate")
  /\ connlist' = Killed(i)
  /\ UNCHANGED <<polled, loggedin, buddylist, ignoring, timers>>

Read(i) == [connlist EXCEPT ![i].wire = Tail(@)]

(* faimtest_handleredirect, chatnav_redirect and chat_redirect: aim_newconn*)
(* never says AIM_CONN_STATUS_RESOLVERR alone, so what cannot be reached is*)
(* kept.                                                                   *)
Redirect(i, state) ==
  /\ Gets(i, "redirect")
  /\ connlist' = <<Conn("chat", state)>> \o Read(i)
  /\ UNCHANGED <<polled, loggedin, buddylist, ignoring, timers>>

(* faimtest_parse_oncoming, owl_buddylist_oncoming.                        *)
Oncoming(i) ==
  /\ Gets(i, "oncoming")
  /\ buddylist' = buddylist \cup {Head(connlist[i].wire).name}
  /\ connlist' = Read(i)
  /\ UNCHANGED <<polled, loggedin, ignoring, timers>>

(* faimtest_parse_offgoing, owl_buddylist_offgoing.                        *)
Offgoing(i) ==
  /\ Gets(i, "offgoing")
  /\ buddylist' = buddylist \ {Head(connlist[i].wire).name}
  /\ connlist' = Read(i)
  /\ UNCHANGED <<polled, loggedin, ignoring, timers>>

Process(i) ==
  \/ Connected(i) \/ Lost(i) \/ AuthFailed(i) \/ ConnErr(i) \/ Oncoming(i) \/ Offgoing(i)
  \/ \E state \in States : AuthOk(i, state) \/ Migrate(i, state) \/ Redirect(i, state)

AimNext ==
  \/ \E state \in States : AimLogin(state)
  \/ AimLogout
  \/ IgnoreTimer
  \/ \E i \in DOMAIN connlist : ServerSends(i) \/ ServerCloses(i) \/ Process(i)

(* The main loop dispatches a source that is ready: weak fairness, written *)
(* out with the condition.                                                 *)
AimFairness == []<>~Dispatched \/ []<><<\E i \in DOMAIN connlist : Process(i)>>_aimVars

AimSpec == AimInit /\ [][AimNext]_aimVars /\ AimFairness
-----------------------------------------------------------------------------
(* While the client is logged in, or has a connection, its event source is *)
(* there to read it: no way out of a login or of a session leaves a socket *)
(* that nobody polls, and none leaves a session without its source.        *)
ServedWhileConnected == loggedin \/ connlist # <<>> => polled

(* Once what the BOS server has sent is read, the buddy list has those it  *)
(* has told to be there and nobody else, whatever sessions came before; a  *)
(* session that was migrated may also have some who left meanwhile.        *)
BuddyListIsExact ==
  \A i \in DOMAIN connlist :
    connlist[i].type = "bos" /\ connlist[i].wire = <<>> =>
      /\ connlist[i].online \subseteq buddylist
      /\ ~connlist[i].moved => buddylist = connlist[i].online

(* No session is left unread, nor shown with the buddies of another.       *)
SessionIsServed == ServedWhileConnected /\ BuddyListIsExact

(* A BOS server that hangs up, with nothing left to read from it, ends the *)
(* session, unless the user begins another one.                            *)
HungUp == loggedin /\ \E i \in DOMAIN connlist :
            connlist[i].type = "bos" /\ connlist[i].closed /\ connlist[i].wire = <<>>

HangUpIsNoticed == HungUp ~> ~loggedin \/ \E i \in DOMAIN connlist : connlist[i].type = "auth"

(* "don't let invalid/dead connections sit around": a session without a    *)
(* live connection to a BOS server is noticed, and the user logged out.    *)
Severed ==
  loggedin /\ \A i \in DOMAIN connlist : connlist[i].type = "bos" => connlist[i].closed

LossIsNoticed == Severed ~> ~Severed
=============================================================================
