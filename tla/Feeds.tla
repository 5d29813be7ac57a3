-------------------------------- MODULE Feeds --------------------------------
(***************************************************************************)
(* What is polled from Twitter and Facebook, whose servers keep posts and  *)
(* show them to who asks: a tweet once, by its id, over two requests; a    *)
(* Facebook post and its comments by their times, from answers that come   *)
(* when they come and may be to polls that overlap.  A request may fail.   *)
(* An answer is taken to be complete: that Facebook is asked for 200 posts *)
(* at most (Handle.pm:251), and that Twitter sends a page at a time, is    *)
(* left out.  The user goes on polling.                                    *)
(***************************************************************************)
EXTENDS Subsequences, SequencesExt, FiniteSetsExt

CONSTANTS MaxTweets,   \* bound: the tweets and direct messages that are sent
          MaxPosts,    \* bound: the posts and comments, and the seconds that pass
          MaxPolls,    \* bound: the Facebook polls underway at a time
          MaxRefusals  \* bound: the requests that fail

VARIABLES tweets,   \* the server's: kind, and whether it came within a poll
          twitter,  \* a handle
          wall,     \* Facebook's posts and comments, as they are written, with
                    \* their times and the posts they belong to
          facebook  \* a handle

tweetVars == <<tweets, twitter>>
postVars  == <<wall, facebook>>

TweetKinds == {"home", "mention", "both", "direct"}
Own == {"home", "mention", "both"}

(* twitter: the ids of the last tweet and direct message; those taken and  *)
(* not yet shown; whether it is within a poll or asleep.                   *)
(* The newest tweet of the timeline counts as seen when the handle is new. *)
TweetInit ==
  /\ tweets = <<[kind |-> "home", within |-> FALSE]>>
  /\ twitter \in {[last_id |-> last, last_direct |-> 0, timeline |-> {}, at |-> "idle",
                   asleep |-> FALSE, shown |-> <<>>, refusals |-> 0] : last \in {0, 1}}

-----------------------------------------------------------------------------
(* The ids that the server has after since, of those kinds.                *)
Since(since, kinds) == {i \in DOMAIN tweets : i > since /\ tweets[i].kind \in kinds}
Ordered(ids) == [k \in 1 .. Cardinality(ids) |-> KthOf(ids, k)]

Tweet ==
  /\ Len(tweets) < MaxTweets
  /\ \E k \in TweetKinds : tweets' = Append(tweets, [kind |-> k, within |-> twitter.at = "mentions"])
  /\ UNCHANGED twitter

(* twitter_error: it sleeps for a while, unless the server only says no.   *)
TwitterError ==
  /\ twitter.refusals < MaxRefusals
  /\ \E asleep \in {twitter.asleep, TRUE} :
       twitter' = [twitter EXCEPT !.at = "idle", !.timeline = {}, !.asleep = asleep, !.refusals = @ + 1]

(* sleep: both timers are set anew.                                        *)
Awake ==
  /\ twitter.asleep /\ twitter' = [twitter EXCEPT !.asleep = FALSE]
  /\ UNCHANGED tweets

(* Broken variant: what was asked for counts as seen.                      *)
PollHomeMarking ==
  /\ twitter.at = "idle"
  /\ \/ /\ twitter' = [twitter EXCEPT !.timeline = Since(twitter.last_id, {"home", "both"}), !.at = "mentions",
                         !.last_id = Max({@} \cup Since(twitter.last_id, {"home", "both"}))]
     \/ TwitterError
  /\ UNCHANGED tweets

(* poll_twitter, from the timer or, asleep or not, after a post of one's   *)
(* own: home first.                                                        *)
PollHome ==
  /\ twitter.at = "idle"
  /\ \/ /\ twitter' = [twitter EXCEPT !.timeline = Since(twitter.last_id, {"home", "both"}), !.at = "mentions"]
     \/ TwitterError
  /\ UNCHANGED tweets

(* Then the mentions; what is in both is shown once.                       *)
PollMentions ==
  /\ twitter.at = "mentions"
  /\ \/ LET timeline == twitter.timeline \cup Since(twitter.last_id, {"mention", "both"}) IN
        /\ twitter' = [twitter EXCEPT !.timeline = {}, !.at = "idle",
                         !.shown = @ \o Ordered({i \in timeline : i > twitter.last_id}),
                         !.last_id = Max({@} \cup timeline)]
     \/ TwitterError
  /\ UNCHANGED tweets

PollDirect ==
  /\ twitter.at = "idle" /\ ~twitter.asleep
  /\ \/ LET direct == Since(twitter.last_direct, {"direct"}) IN
        /\ direct # {}
        /\ twitter' = [twitter EXCEPT !.shown = @ \o Ordered(direct), !.last_direct = Max(direct)]
     \/ TwitterError
  /\ UNCHANGED tweets

-----------------------------------------------------------------------------
(* A post is named by its place on the wall, and belongs to itself.  A     *)
(* time is late when somebody asked before within that second.             *)
Entry(post) == [post |-> post, at |-> wall.now, late |-> wall.now \in wall.asked]

Passes ==
  /\ wall.now < MaxPosts /\ wall' = [wall EXCEPT !.now = @ + 1]
  /\ UNCHANGED facebook

Written == Len(wall.posts)
Post ==
  /\ Written < MaxPosts
  /\ wall' = [wall EXCEPT !.posts = Append(@, Entry(Written + 1))]
  /\ UNCHANGED facebook
Comment ==
  /\ Written < MaxPosts
  /\ \E i \in DOMAIN wall.posts : wall' = [wall EXCEPT !.posts = Append(@, Entry(wall.posts[i].post))]
  /\ UNCHANGED facebook

(* answers: those underway, by how much of the wall is in them.  shown and *)
(* again: what was, and what was shown another time.                       *)
PostInit ==
  /\ wall = [now |-> 0, posts |-> <<>>, asked |-> {}]
  /\ facebook = [last_poll |-> 0, logged_in |-> TRUE, answers |-> {}, shown |-> {}, again |-> {},
                 refusals |-> 0]

(* Broken variant: the time of asking counts.                              *)
PollFacebookMarking ==
  /\ facebook.logged_in /\ Cardinality(facebook.answers) < MaxPolls
  /\ facebook' = [facebook EXCEPT !.answers = @ \cup {Written}, !.last_poll = Max({@, wall.now})]
  /\ wall' = [wall EXCEPT !.asked = @ \cup {wall.now}]

(* poll_facebook asks; the answer is what the server has at some time.     *)
PollFacebook ==
  /\ facebook.logged_in /\ Cardinality(facebook.answers) < MaxPolls
  /\ facebook' = [facebook EXCEPT !.answers = @ \cup {Written}]
  /\ wall' = [wall EXCEPT !.asked = @ \cup {wall.now}]

(* updated_time, of the post of an entry: its last comment's, or its own.  *)
Updated(i, n) == Max({wall.posts[j].at : j \in {k \in 1 .. n : wall.posts[k].post = wall.posts[i].post}})

(* The posts of an answer that are new, and the comments.                  *)
NewIn(n, since) == {i \in 1 .. n : wall.posts[i].at >= since /\ Updated(i, n) >= since}

AnswerCame ==
  /\ \E n \in facebook.answers :
       LET new == NewIn(n, facebook.last_poll) IN
       facebook' = [facebook EXCEPT
          !.answers = @ \ {n}, !.shown = @ \cup new, !.again = @ \cup (new \cap facebook.shown),
          !.last_poll = Max({@} \cup {Updated(i, n) + 1 : i \in 1 .. n})]
  /\ UNCHANGED wall

(* check_result: the poll failed, or the user has to be logged in again,   *)
(* which facebook_do_auth tries once.                                      *)
AnswerFailed ==
  /\ facebook.refusals < MaxRefusals
  /\ \E n \in facebook.answers, logged_in \in BOOLEAN :
       facebook' = [facebook EXCEPT !.answers = @ \ {n}, !.refusals = @ + 1,
                                    !.logged_in = @ /\ logged_in]
  /\ UNCHANGED wall

LoggedIn ==
  /\ ~facebook.logged_in /\ facebook' = [facebook EXCEPT !.logged_in = TRUE]
  /\ UNCHANGED wall

-----------------------------------------------------------------------------
TweetNext == Tweet \/ Awake \/ PollHome \/ PollMentions \/ PollDirect

PostNext == Passes \/ Post \/ Comment \/ PollFacebook \/ AnswerCame \/ AnswerFailed \/ LoggedIn

(* What is not shown twice is in order, and what counts as seen has been   *)
(* shown, but for a tweet that came between the two requests of a poll.    *)
InIdOrder(shown, kinds) ==
  \A j, k \in {i \in DOMAIN shown : tweets[shown[i]].kind \in kinds} : j < k => shown[j] < shown[k]

LastSeen(i) == IF tweets[i].kind = "direct" THEN twitter.last_direct ELSE twitter.last_id

TweetsAreShownOnce ==
  /\ InIdOrder(twitter.shown, Own) /\ InIdOrder(twitter.shown, {"direct"})
  /\ \A i \in DOMAIN tweets :
       i \in ToSet(twitter.shown) \/ i = 1 \/ tweets[i].within \/ i > LastSeen(i)

PostsAreShownOnce ==
  /\ facebook.again = {}
  /\ \A i \in DOMAIN wall.posts :
       i \in facebook.shown \/ wall.posts[i].late \/ wall.posts[i].at >= facebook.last_poll

(* Whatever fails, is late or overlaps, a post is shown to the user once,  *)
(* and not taken for seen before; lost are only a tweet that comes between *)
(* the requests of one poll and a post that comes in the second in which   *)
(* Facebook was asked.                                                     *)
FeedsAreShownOnce == TweetsAreShownOnce /\ PostsAreShownOnce
=============================================================================
