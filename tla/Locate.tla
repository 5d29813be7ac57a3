------------------------------- MODULE Locate -------------------------------
(***************************************************************************)
(* What libfaim asks the server about buddies (locate.c, with the cache of *)
(* requests of snac.c).  Each buddy who comes online is asked about, one   *)
(* at a time: torequest are those still to be asked about, the latest      *)
(* first, and the next one is taken when an answer comes.  BarnOwl itself  *)
(* asks about nobody.  The server is external.                             *)
(***************************************************************************)
EXTENDS Naturals, Sequences, SequencesExt

CONSTANTS
  Located,    \* screen names, as aim_sncmp tells them apart
  MaxArrivals \* bound on how often one of them comes online

ASSUME LocateAssumption == MaxArrivals \in Nat

VARIABLES
  torequest, \* sess->locate.torequest
  requested, \* sess->locate.requested: searched as a whole, so a set
  waiting,   \* sess->locate.waiting_for_response
  userinfo,  \* sess->locate.userinfo: whose information is kept
  snacid,    \* sess->snacid_next
  snacs,     \* sess->snac_hash: the requests kept to understand an error
  asked,     \* the requests that the server has not answered
  responses, \* what it has answered, on the way
  arrivals,  \* how many arrivals remain
  due,       \* who came online and has not been answered since
  explicit,  \* an answer was taken for one that BarnOwl had asked for
  unanswered \* the last request was never answered, or its error not understood

locateVars == <<torequest, requested, waiting, userinfo, snacid, snacs, asked,
                responses, arrivals, due, explicit, unanswered>>

LocateInit ==
  /\ torequest = <<>> /\ requested = {} /\ waiting = FALSE /\ userinfo = {}
  /\ snacid = 1 /\ snacs = {} /\ asked = {} /\ responses = <<>>
  /\ arrivals = MaxArrivals
  /\ due = {} /\ explicit = FALSE /\ unanswered = FALSE

Snac(id, sn) == [id |-> id, sn |-> sn]
Reply(kind, snac) == [kind |-> kind, id |-> snac.id, sn |-> snac.sn]

(* aim_locate_getinfoshort, with aim_cachesnac.                            *)
GetInfoShort(sn, cached) ==
  /\ snacs' = cached \cup {Snac(snacid, sn)}
  /\ asked' = asked \cup {Snac(snacid, sn)}
  /\ snacid' = snacid + 1

(* A mutant: the next one is asked about whatever is underway.             *)
DoRequestAtOnce(queue, others, busy, cached) ==
  \/ /\ queue # <<>>
     /\ waiting' = TRUE
     /\ torequest' = Tail(queue) /\ requested' = others \cup {Head(queue)}
     /\ GetInfoShort(Head(queue), cached)
  \/ /\ queue = <<>>
     /\ waiting' = busy /\ torequest' = queue /\ requested' = others
     /\ snacs' = cached /\ UNCHANGED <<snacid, asked>>

(* aim_locate_dorequest, when queue, others, busy and cached are what      *)
(* torequest, requested, waiting and snacs have become.                    *)
DoRequest(queue, others, busy, cached) ==
  \/ /\ queue # <<>> /\ ~busy
     /\ waiting' = TRUE
     /\ torequest' = Tail(queue) /\ requested' = others \cup {Head(queue)}
     /\ GetInfoShort(Head(queue), cached)
  \/ /\ queue = <<>> \/ busy
     /\ waiting' = busy /\ torequest' = queue /\ requested' = others
     /\ snacs' = cached /\ UNCHANGED <<snacid, asked>>

(* aim_locate_requestuserinfo.                                             *)
RequestUserinfo(sn) ==
  \/ /\ sn \in ToSet(torequest)
     /\ UNCHANGED <<torequest, requested, waiting, snacid, snacs, asked>>
  \/ /\ sn \notin ToSet(torequest)
     /\ DoRequest(<<sn>> \o torequest, requested, waiting, snacs)

(* buddychange, of a buddy who comes online.  One who leaves is not asked  *)
(* about, and stays in the queue.                                          *)
BuddyChange(sn) ==
  /\ arrivals > 0 /\ arrivals' = arrivals - 1
  /\ RequestUserinfo(sn)
  /\ due' = due \cup {sn}
  /\ UNCHANGED <<userinfo, responses, explicit, unanswered>>

(* A mutant: an answer does not bring up the next one.                     *)
GotUserinfoOnly(sn, cached) ==
  /\ waiting' = (waiting /\ sn \notin requested) /\ requested' = requested \ {sn}
  /\ snacs' = cached /\ UNCHANGED <<torequest, snacid, asked>>
  /\ explicit' = (explicit \/ sn \notin requested)
  /\ due' = due \ {sn}

(* aim_locate_gotuserinfo: an answer about someone who was not asked about *)
(* is given to BarnOwl's handler.                                          *)
GotUserinfo(sn, cached) ==
  /\ \/ sn \in requested /\ DoRequest(torequest, requested \ {sn}, FALSE, cached)
     \/ /\ sn \notin requested
        /\ snacs' = cached /\ UNCHANGED <<torequest, requested, waiting, snacid, asked>>
  /\ explicit' = (explicit \/ sn \notin requested)
  /\ due' = due \ {sn}

(* userinfo, with aim_locate_adduserinfo: the cached request is left.      *)
ReadUserinfo ==
  /\ responses # <<>> /\ Head(responses).kind = "userinfo"
  /\ responses' = Tail(responses)
  /\ userinfo' = userinfo \cup {Head(responses).sn}
  /\ GotUserinfo(Head(responses).sn, snacs)
  /\ UNCHANGED <<arrivals, unanswered>>

(* error: whom it is about is known from the request, if that is still     *)
(* cached; else nothing is done, and nobody else is ever asked about.      *)
ReadError ==
  /\ responses # <<>> /\ Head(responses).kind = "error"
  /\ responses' = Tail(responses)
  /\ \/ \E snac \in snacs : /\ snac.id = Head(responses).id
                            /\ GotUserinfo(snac.sn, snacs \ {snac})
                            /\ UNCHANGED unanswered
     \/ /\ \A snac \in snacs : snac.id # Head(responses).id
        /\ unanswered' = TRUE
        /\ UNCHANGED <<torequest, requested, waiting, snacid, snacs, asked, due, explicit>>
  /\ UNCHANGED <<userinfo, arrivals>>

(* aim_cleansnacs, when a message or a no-op is sent: what was asked more  *)
(* than a minute ago, which is what was asked before some request.         *)
CleanSnacs ==
  /\ \E id \in 2 .. snacid : snacs' = {snac \in snacs : snac.id >= id}
  /\ snacs' # snacs
  /\ UNCHANGED <<torequest, requested, waiting, userinfo, snacid, asked, responses,
                 arrivals, due, explicit, unanswered>>

(* The server answers, or does not.                                        *)
ServerReplies ==
  /\ \E snac \in asked, kind \in {"userinfo", "error"} :
       /\ asked' = asked \ {snac}
       /\ responses' = Append(responses, Reply(kind, snac))
  /\ UNCHANGED <<torequest, requested, waiting, userinfo, snacid, snacs, arrivals,
                 due, explicit, unanswered>>

ServerIsSilent ==
  /\ \E snac \in asked : asked' = asked \ {snac}
  /\ unanswered' = TRUE
  /\ UNCHANGED <<torequest, requested, waiting, userinfo, snacid, snacs, responses,
                 arrivals, due, explicit>>

(* The session ends: owl_aim_logout and owl_aim_init, with locate_shutdown *)
(* and aim_session_init.                                                   *)
SessionEnds ==
  /\ snacid > 1
  /\ torequest' = <<>> /\ requested' = {} /\ waiting' = FALSE /\ userinfo' = {}
  /\ snacid' = 1 /\ snacs' = {} /\ asked' = {} /\ responses' = <<>>
  /\ due' = {} /\ unanswered' = FALSE
  /\ UNCHANGED <<arrivals, explicit>>

LocateNext ==
  \/ \E sn \in Located : BuddyChange(sn)
  \/ ReadUserinfo \/ ReadError
  \/ CleanSnacs \/ SessionEnds
  \/ ServerReplies \/ ServerIsSilent

LocateSpec == LocateInit /\ [][LocateNext]_locateVars

(* What has come in is read, and a request that the server does not pass   *)
(* over is answered.                                                       *)
LocateFairness ==
  /\ WF_locateVars(ReadUserinfo \/ ReadError)
  /\ WF_locateVars(ServerReplies \/ ServerIsSilent)

-----------------------------------------------------------------------------
(* Whoever came online has been answered since, or is asked about or going *)
(* to be; of those to be asked about, somebody is being asked about unless *)
(* there is nobody; one at a time, and what comes is about that one, so    *)
(* that BarnOwl is never shown what it has not asked for.  What was asked  *)
(* is underway, or will never be answered.                                 *)
EachIsAskedInTurn ==
  /\ due \subseteq ToSet(torequest) \cup requested
  /\ \A a, b \in requested : a = b
  /\ waiting <=> requested # {}
  /\ torequest # <<>> => waiting
  /\ ~explicit
  /\ waiting => asked # {} \/ responses # <<>> \/ unanswered

(* Unless a request goes without its answer, which the queue does not get  *)
(* over, everyone who came online is answered.                             *)
AllAreAnswered == [](due # {} => <>(due = {} \/ unanswered))
=============================================================================
