------------------------------ MODULE MCSources ------------------------------
(***************************************************************************)
(* What reaches the client over file descriptors from other processes: the *)
(* output of a pop-up's command, AIM sessions and the buddy list that the  *)
(* AIM server keeps, Zephyr, IRC, Jabber and what is polled from the web.  *)
(* active says which of them runs.                                         *)
(*                                                                         *)
(* Two commands run one after the other, each with up to four blocks of    *)
(* output, through a pipe of three blocks read two at a time.              *)
(***************************************************************************)
EXTENDS Popexec, Ssi, AimSession, ZephyrClient, AutoReplies, Irc, Jabber,
        Feeds, Frames, FilterProc, NewMsgProc, Locate

CONSTANT Machines  \* those to run

VARIABLE active

sourceVars == <<active, vars, ssiVars, aimVars, subsVars, buddyVars, talkVars,
                ircVars, jabberVars, tweetVars, postVars, frameVars, filterProcVars, rosterVars, newsVars, locateVars>>

MCList == <<[Item("", 0, 0, "group") EXCEPT !.members = <<1>>],
            [Item("Buddies", 1, 0, "group") EXCEPT !.members = <<1>>], Item("ann", 1, 1, "buddy")>>

SipbSub == <<"sipb", "*">>
HelpSub == <<"help", "*">>
MCDefaultSubs == {<<"message", "urgent">>}
MCPersonalSub == <<"message", "*">>
MCLoginSubs == {<<"login", "ann">>}
MCSubs == {SipbSub, HelpSub}
MCSubsFiles ==
  {<<>>, <<SubsLine("sub", SipbSub), SubsLine("comment", HelpSub), SubsLine("sub", SipbSub)>>,
   <<SubsLine("punt", HelpSub), SubsLine("short", SipbSub)>>}

MCConnections == {Names!Jid("ann", "1"), Names!Jid("ann", "2"), Names!Jid("joann", "1")}
MCWithin == {<<"ann", "joann">>}

SourcesInit ==
  /\ active \in Machines
  /\ Init /\ SsiInit /\ AimInit
  /\ SubsInit  /\ (active # "subs" => initial /\ subsfile = <<>>)
  /\ BuddyInit /\ (active # "buddies" => online = {} /\ ~ignorelogins)
  /\ TalkInit  /\ (active # "talk" => \A p \in People : ~zaway[p])
  /\ IrcInit /\ JabberInit /\ PostInit /\ FramesInit
  /\ TweetInit /\ (active # "tweets" => twitter.last_id = 0)
  /\ RosterInit /\ NewsInit /\ LocateInit
  /\ FilterProcInit /\ (active # "filter" => caller.text = <<>> /\ filter.kind = "cat")

SourcesNext ==
  /\ UNCHANGED active
  /\ \/ /\ active = "popexec" /\ Next
        /\ UNCHANGED <<ssiVars, aimVars, subsVars, buddyVars, talkVars,
                       ircVars, jabberVars, tweetVars, postVars, frameVars, filterProcVars, rosterVars, newsVars, locateVars>>
     \/ /\ active = "ssi" /\ SsiNext
        /\ UNCHANGED <<vars, aimVars, subsVars, buddyVars, talkVars,
                       ircVars, jabberVars, tweetVars, postVars, frameVars, filterProcVars, rosterVars, newsVars, locateVars>>
     \/ /\ active = "aim" /\ AimNext
        /\ UNCHANGED <<vars, ssiVars, subsVars, buddyVars, talkVars,
                       ircVars, jabberVars, tweetVars, postVars, frameVars, filterProcVars, rosterVars, newsVars, locateVars>>
     \/ /\ active = "subs" /\ SubsNext
        /\ UNCHANGED <<vars, ssiVars, aimVars, buddyVars, talkVars,
                       ircVars, jabberVars, tweetVars, postVars, frameVars, filterProcVars, rosterVars, newsVars, locateVars>>
     \/ /\ active = "buddies" /\ BuddyNext
        /\ UNCHANGED <<vars, ssiVars, aimVars, subsVars, talkVars,
                       ircVars, jabberVars, tweetVars, postVars, frameVars, filterProcVars, rosterVars, newsVars, locateVars>>
     \/ /\ active = "talk" /\ TalkNext
        /\ UNCHANGED <<vars, ssiVars, aimVars, subsVars, buddyVars,
                       ircVars, jabberVars, tweetVars, postVars, frameVars, filterProcVars, rosterVars, newsVars, locateVars>>
     \/ /\ active = "irc" /\ IrcNext
        /\ UNCHANGED <<vars, ssiVars, aimVars, subsVars, buddyVars,
                       talkVars, jabberVars, tweetVars, postVars, frameVars, filterProcVars, rosterVars, newsVars, locateVars>>
     \/ /\ active = "jabber" /\ JabberNext
        /\ UNCHANGED <<vars, ssiVars, aimVars, subsVars, buddyVars,
                       talkVars, ircVars, tweetVars, postVars, frameVars, filterProcVars, rosterVars, newsVars, locateVars>>
     \/ /\ active = "tweets" /\ TweetNext
        /\ UNCHANGED <<vars, ssiVars, aimVars, subsVars, buddyVars,
                       talkVars, ircVars, jabberVars, postVars, frameVars, filterProcVars, rosterVars, newsVars, locateVars>>
     \/ /\ active = "posts" /\ PostNext
        /\ UNCHANGED <<vars, ssiVars, aimVars, subsVars, buddyVars,
                       talkVars, ircVars, jabberVars, tweetVars, frameVars, filterProcVars, rosterVars, newsVars, locateVars>>
     \/ /\ active = "frames" /\ FramesNext
        /\ UNCHANGED <<vars, ssiVars, aimVars, subsVars, buddyVars, talkVars,
                       ircVars, jabberVars, tweetVars, postVars, filterProcVars, rosterVars, newsVars, locateVars>>
     \/ /\ active = "filter" /\ FilterProcNext
        /\ UNCHANGED <<vars, ssiVars, aimVars, subsVars, buddyVars, talkVars,
                       ircVars, jabberVars, tweetVars, postVars, frameVars, rosterVars, newsVars, locateVars>>
     \/ /\ active = "roster" /\ RosterNext
        /\ UNCHANGED <<vars, ssiVars, aimVars, subsVars, buddyVars, talkVars,
                       ircVars, jabberVars, tweetVars, postVars, frameVars, filterProcVars, newsVars, locateVars>>
     \/ /\ active = "news" /\ NewsNext
        /\ UNCHANGED <<vars, ssiVars, aimVars, subsVars, buddyVars, talkVars,
                       ircVars, jabberVars, tweetVars, postVars, frameVars, filterProcVars, rosterVars, locateVars>>
     \/ /\ active = "locate" /\ LocateNext
        /\ UNCHANGED <<vars, ssiVars, aimVars, subsVars, buddyVars, talkVars,
                       ircVars, jabberVars, tweetVars, postVars, frameVars, filterProcVars, rosterVars, newsVars>>

(* The main loop dispatches the watch of a pop-up while it is ready, a     *)
(* process that has been killed ends, and waitpid returns then.            *)
PopexecFairness == WF_vars(Handler) /\ WF_vars(Terminate) /\ WF_vars(CloseReap)

SourcesFairness ==
  \/ active = "popexec" /\ PopexecFairness
  \/ active = "ssi"     /\ SsiFairness
  \/ active = "aim"     /\ AimFairness
  \/ active = "buddies" /\ BuddyFairness
  \/ active = "irc"     /\ IrcFairness
  \/ active = "jabber"  /\ JabberFairness
  \/ active = "filter"  /\ FilterProcFairness
  \/ active = "locate"  /\ LocateFairness
  \/ active \in {"subs", "talk", "tweets", "posts", "frames", "roster", "news"}

SourcesSpec == SourcesInit /\ [][SourcesNext]_sourceVars /\ SourcesFairness

(* A child process does not keep the client waiting: a command whose       *)
(* output is in a pop-up is served, and a filter returns with all it said. *)
ChildrenAreServed == PopupIsServed /\ (active = "filter" => FilterReturnsAll)

(* The lists come to rest: the edits of the AIM list, refused ones         *)
(* included, the Zephyr buddies that log in and out, and the AIM buddies   *)
(* to be asked about.                                                      *)
ListsSettle == ExchangeEnds /\ BuddiesConverge /\ AllAreAnswered

(* AIM: a session is served by the connections it has, the buddy list that *)
(* its server keeps is the one the client goes by, when nothing is         *)
(* underway, and who comes online is asked about, in turn.                 *)
AimIsServed == SessionIsServed /\ CopiesAreExact /\ EachIsAskedInTurn

(* Jabber: reconnection never meets a connection that works, an account    *)
(* that is another or a user who has given up; the rosters are those of    *)
(* the servers, in which contacts stay in the groups that nobody took them *)
(* out of; and who asks to see the user's presence is answered once.       *)
JabberIsServed ==
  JabberIsOrderly /\ RostersAreCurrent /\ GroupsAreKept /\ QuestionsAreAnsweredOnce

(* What comes from outside is shown once, and in order: what is polled     *)
(* from the web, the frames of an AIM connection, and who is there among   *)
(* the Zephyr buddies, of whom a silent check announces nobody.            *)
ShownOnceAndInOrder == FeedsAreShownOnce /\ FramesArriveInOrder /\ SilentChecksAreSilent

(* A connection that ends is noticed, and tried again where the protocol   *)
(* connects again by itself.                                               *)
LossesAreServed == HangUpIsNoticed /\ LostIsRetried /\ BrokenIsMended
=============================================================================
