---------------------------- MODULE SourcesProofs ----------------------------
(***************************************************************************)
(* What reaches the client from outside is shown once, and in the order it *)
(* has there: tweets and posts (Feeds), and with the frames and the buddy  *)
(* checks of NetworksProofs the whole of MCSources, however many tweets,   *)
(* posts and frames there are.  And what Jabber keeps of the other side is *)
(* how it is there: the table of connections, for any set of accounts, the *)
(* copies of rosters, and who has answered a question.                     *)
(***************************************************************************)
EXTENDS MCSources, NetworksProofs, SsiProofs

-----------------------------------------------------------------------------
(* Feeds: tweets.                                                           *)
TweetsSpec == TweetInit /\ [][TweetNext]_tweetVars

TweetRecords == [kind : TweetKinds, within : BOOLEAN]

Handles ==
  [last_id : Nat, last_direct : Nat, timeline : SUBSET Nat, at : {"idle", "mentions"},
   asleep : BOOLEAN, shown : Seq(Nat), refusals : Nat]

(* What was shown counts as seen, and what is taken does not; of the home  *)
(* timeline the second request finds all that came before the first.       *)
Taken ==
  /\ \A i \in twitter.timeline : i \in DOMAIN tweets /\ i > twitter.last_id /\ tweets[i].kind \in Own
  /\ \A i \in ToSet(twitter.shown) : i \in DOMAIN tweets /\ i <= LastSeen(i)
  /\ twitter.at = "mentions" =>
       \A i \in DOMAIN tweets :
         i > twitter.last_id /\ tweets[i].kind \in {"home", "both"} => i \in twitter.timeline \/ tweets[i].within

TweetInv ==
  /\ tweets \in Seq(TweetRecords) /\ twitter \in Handles
  /\ twitter.last_id <= Len(tweets) /\ twitter.last_direct <= Len(tweets)
  /\ Taken /\ TweetsAreShownOnce

-----------------------------------------------------------------------------
(* Numbers in order: those of the set, growing.                            *)
LEMMA OrderedGrow ==
  ASSUME NEW n \in Nat, NEW ids \in SUBSET (1 .. n)
  PROVE  /\ Ordered(ids) \in Seq(Nat) /\ ToSet(Ordered(ids)) = ids
         /\ \A j, k \in DOMAIN Ordered(ids) : j < k => Ordered(ids)[j] < Ordered(ids)[k]
<1>1. PICK t : t = Ordered(ids)  OBVIOUS
<1>2. PICK c \in Nat : c = Cardinality(ids)  BY PositionsAreFinite
<1>3. t = [k \in 1 .. c |-> KthOf(ids, k)]  BY <1>1, <1>2 DEF Ordered
<1>4. \A k \in 1 .. c : t[k] = KthOf(ids, k) /\ t[k] \in ids /\ Rank(t[k], ids) = k
  BY <1>2, <1>3, KthIsFound
<1>5. t \in [1 .. c -> Nat] /\ DOMAIN t = 1 .. c
  <2>1. \A x \in ids : x \in Nat  OBVIOUS
  <2>2. \A k \in 1 .. c : KthOf(ids, k) \in Nat  BY <1>4, <2>1
  <2>. QED  BY <1>3, <2>2
<1>6. t \in Seq(Nat)  BY <1>2, <1>5, SeqDef
<1>7. ToSet(t) = ids
  <2>1. \A k \in DOMAIN t : t[k] \in ids  BY <1>4, <1>5
  <2>2. ASSUME NEW i \in ids PROVE \E k \in DOMAIN t : t[k] = i
    <3>1. PICK k \in 1 .. c : k = Rank(i, ids)  BY <1>2, RanksCount
    <3>2. t[k] \in ids /\ Rank(t[k], ids) = Rank(i, ids)  BY <1>4, <3>1
    <3>3. t[k] = i  BY <3>2, RanksDiffer
    <3>. QED  BY <1>5, <3>1, <3>3
  <2>. QED  BY <2>1, <2>2 DEF ToSet
<1>8. ASSUME NEW j \in DOMAIN t, NEW k \in DOMAIN t, j < k  PROVE t[j] < t[k]
  <2>1. PICK x \in Nat, y \in Nat : x = t[j] /\ y = t[k] /\ x \in ids /\ y \in ids
    BY <1>4, <1>5
  <2>2. Rank(x, ids) = j /\ Rank(y, ids) = k /\ j \in Nat /\ k \in Nat  BY <1>2, <1>4, <1>5, <2>1
  <2>3. x # y  BY <1>8, <2>2
  <2>4. ~(y < x)
    <3>1. y < x => Rank(y, ids) < Rank(x, ids)  BY <2>1, RanksGrow
    <3>. QED  BY <1>8, <2>2, <3>1
  <2>. QED  BY <2>1, <2>3, <2>4
<1>. QED  BY <1>1, <1>6, <1>7, <1>8

(* What is shown next, in order and behind what was shown of those kinds.  *)
LEMMA ShownStaysOrdered ==
  ASSUME NEW s \in Seq(Nat), NEW t \in Seq(Nat), NEW kinds, InIdOrder(s, kinds),
         \A j, k \in DOMAIN t : j < k => t[j] < t[k],
         \A x \in ToSet(s), y \in ToSet(t) :
           tweets[x].kind \in kinds /\ tweets[y].kind \in kinds => x < y
  PROVE  InIdOrder(s \o t, kinds)
<1>1. PICK m \in Nat, n \in Nat : m = Len(s) /\ n = Len(t) /\ DOMAIN s = 1 .. m /\ DOMAIN t = 1 .. n
  BY LenProperties
<1>2. PICK a : a = s \o t  OBVIOUS
<1>3. /\ a \in Seq(Nat) /\ Len(a) = m + n
      /\ \A i \in 1 .. m + n : a[i] = IF i <= m THEN s[i] ELSE t[i - m]
  BY <1>1, <1>2, ConcatProperties
<1>4. DOMAIN a = 1 .. m + n  BY <1>3, LenProperties
<1>5. SUFFICES ASSUME NEW j \in DOMAIN a, NEW k \in DOMAIN a, j < k,
                      tweets[a[j]].kind \in kinds, tweets[a[k]].kind \in kinds
               PROVE  a[j] < a[k]
  BY <1>2 DEF InIdOrder
<1>6. j \in Nat /\ k \in Nat /\ j \in 1 .. m + n /\ k \in 1 .. m + n  BY <1>1, <1>4
<1>7. CASE k <= m
  <2>1. a[j] = s[j] /\ a[k] = s[k] /\ j \in DOMAIN s /\ k \in DOMAIN s
    BY <1>1, <1>3, <1>5, <1>6, <1>7
  <2>. QED  BY <1>5, <2>1 DEF InIdOrder
<1>8. CASE j <= m /\ ~(k <= m)
  <2>0. j \in 1 .. m /\ k - m \in 1 .. n  BY <1>6, <1>8
  <2>1. a[j] = s[j] /\ a[k] = t[k - m] /\ j \in DOMAIN s /\ k - m \in DOMAIN t
    BY <1>1, <1>3, <1>6, <1>8, <2>0
  <2>2. s[j] \in ToSet(s) /\ t[k - m] \in ToSet(t)  BY <2>1 DEF ToSet
  <2>. QED  BY <1>5, <2>1, <2>2
<1>9. CASE ~(j <= m) /\ ~(k <= m)
  <2>0. j - m \in 1 .. n /\ k - m \in 1 .. n /\ j - m < k - m  BY <1>5, <1>6, <1>9
  <2>1. a[j] = t[j - m] /\ a[k] = t[k - m] /\ j - m \in DOMAIN t /\ k - m \in DOMAIN t
    BY <1>1, <1>3, <1>6, <1>9, <2>0
  <2>. QED  BY <2>0, <2>1
<1>. QED  BY <1>5, <1>6, <1>7, <1>8, <1>9

(* A kind is one's own or direct, and not both.                            *)
LEMMA KindsAreApart ==
  ASSUME tweets \in Seq(TweetRecords)
  PROVE  /\ Len(tweets) \in Nat /\ DOMAIN tweets = 1 .. Len(tweets)
         /\ \A i \in DOMAIN tweets : /\ tweets[i].kind \in Own \/ tweets[i].kind = "direct"
                                   /\ tweets[i].within \in BOOLEAN
         /\ "direct" \notin Own
<1>1. Len(tweets) \in Nat /\ DOMAIN tweets = 1 .. Len(tweets)  BY LenProperties
<1>2. \A i \in DOMAIN tweets : tweets[i] \in TweetRecords  BY <1>1, ElementOfSeq
<1>. QED  BY <1>1, <1>2 DEF TweetRecords, TweetKinds, Own

LEMMA TweetsStart == TweetInit => TweetInv
<1>1. SUFFICES ASSUME TweetInit PROVE TweetInv  OBVIOUS
<1>2. PICK first : first = [kind |-> "home", within |-> FALSE]  OBVIOUS
<1>3. first \in TweetRecords /\ tweets = <<first>>  BY <1>1, <1>2 DEF TweetInit, TweetRecords, TweetKinds
<1>4. tweets \in Seq(TweetRecords) /\ Len(tweets) = 1 /\ DOMAIN tweets = 1 .. 1  BY <1>3
<1>5. PICK last \in {0, 1} :
        twitter = [last_id |-> last, last_direct |-> 0, timeline |-> {}, at |-> "idle",
                   asleep |-> FALSE, shown |-> <<>>, refusals |-> 0]
  BY <1>1 DEF TweetInit
<1>6. twitter \in Handles /\ twitter.last_id <= 1 /\ twitter.last_direct = 0 /\ twitter.timeline = {}
      /\ twitter.at = "idle" /\ twitter.shown = <<>>
  BY <1>5 DEF Handles
<1>7. ToSet(twitter.shown) = {} /\ DOMAIN twitter.shown = {}  BY <1>6 DEF ToSet
<1>8. Taken  BY <1>6, <1>7 DEF Taken
<1>9. TweetsAreShownOnce  BY <1>4, <1>7 DEF TweetsAreShownOnce, InIdOrder
<1>. QED  BY <1>4, <1>6, <1>8, <1>9 DEF TweetInv

(* A new tweet is behind all that was seen.                                *)
LEMMA NewTweetKeeps ==
  ASSUME TweetInv, Tweet
  PROVE  TweetInv'
<1>1. PICK n \in Nat : n = Len(tweets) /\ DOMAIN tweets = 1 .. n  BY KindsAreApart DEF TweetInv
<1>2. PICK new \in TweetRecords : tweets' = Append(tweets, new) /\ new.within = (twitter.at = "mentions")
  <2>1. PICK k \in TweetKinds : tweets' = Append(tweets, [kind |-> k, within |-> twitter.at = "mentions"])
    BY DEF Tweet
  <2>2. [kind |-> k, within |-> twitter.at = "mentions"] \in TweetRecords  BY DEF TweetRecords
  <2>. QED  BY <2>1, <2>2
<1>3. /\ tweets' \in Seq(TweetRecords) /\ Len(tweets') = n + 1 /\ DOMAIN tweets' = 1 .. n + 1
      /\ tweets'[n + 1] = new /\ \A i \in 1 .. n : tweets'[i] = tweets[i]
  <2>1. /\ tweets' \in Seq(TweetRecords) /\ Len(tweets') = n + 1
        /\ tweets'[n + 1] = new /\ \A i \in 1 .. n : tweets'[i] = tweets[i]
    BY <1>1, <1>2, AppendProperties DEF TweetInv
  <2>. QED  BY <2>1, LenProperties
<1>4. twitter' = twitter /\ twitter \in Handles /\ twitter.last_id <= n /\ twitter.last_direct <= n
  BY <1>1 DEF Tweet, TweetInv
<1>5. \A i \in 1 .. n : LastSeen(i)' = LastSeen(i)  BY <1>3, <1>4 DEF LastSeen
<1>6. LastSeen(n + 1)' <= n /\ LastSeen(n + 1)' \in Nat  BY <1>4 DEF LastSeen, Handles
<1>7. Taken'
  <2>1. twitter.timeline \subseteq 1 .. n /\ ToSet(twitter.shown) \subseteq 1 .. n
    BY <1>1 DEF TweetInv, Taken
  <2>2. \A i \in twitter.timeline : i \in 1 .. n + 1 /\ i > twitter.last_id /\ tweets'[i].kind \in Own
    BY <1>1, <1>3, <2>1 DEF TweetInv, Taken
  <2>3. \A i \in ToSet(twitter.shown) : i \in 1 .. n + 1 /\ i <= LastSeen(i)'
    BY <1>1, <1>5, <2>1 DEF TweetInv, Taken
  <2>4. ASSUME twitter.at = "mentions", NEW i \in 1 .. n + 1, i > twitter.last_id,
               tweets'[i].kind \in {"home", "both"}
        PROVE  i \in twitter.timeline \/ tweets'[i].within
    <3>1. CASE i \in 1 .. n  BY <1>1, <1>3, <2>4, <3>1 DEF TweetInv, Taken
    <3>2. CASE i = n + 1  BY <1>2, <1>3, <2>4, <3>2
    <3>. QED  BY <3>1, <3>2
  <2>. QED  BY <1>3, <1>4, <2>2, <2>3, <2>4 DEF Taken
<1>8. TweetsAreShownOnce'
  <2>1. ASSUME NEW kinds, InIdOrder(twitter.shown, kinds)  PROVE InIdOrder(twitter.shown, kinds)'
    <3>1. \A i \in DOMAIN twitter.shown : twitter.shown[i] \in 1 .. n
      BY <1>1 DEF TweetInv, Taken, ToSet
    <3>2. \A i \in DOMAIN twitter.shown : tweets'[twitter.shown[i]] = tweets[twitter.shown[i]]
      BY <1>3, <3>1
    <3>. QED  BY <1>4, <2>1, <3>2 DEF InIdOrder
  <2>2. ASSUME NEW i \in 1 .. n + 1
        PROVE  i \in ToSet(twitter.shown) \/ i = 1 \/ tweets'[i].within \/ i > LastSeen(i)'
    <3>1. CASE i \in 1 .. n  BY <1>1, <1>3, <1>5, <3>1 DEF TweetInv, TweetsAreShownOnce
    <3>2. CASE i = n + 1  BY <1>6, <3>2
    <3>. QED  BY <3>1, <3>2
  <2>3. InIdOrder(twitter.shown, Own)' /\ InIdOrder(twitter.shown, {"direct"})'
    BY <2>1 DEF TweetInv, TweetsAreShownOnce, Own
  <2>. QED  BY <1>3, <1>4, <2>2, <2>3 DEF TweetsAreShownOnce
<1>9. n <= n + 1  BY <1>1
<1>. QED  BY <1>1, <1>3, <1>4, <1>7, <1>8 DEF TweetInv, Handles

(* A handle that has other things to do keeps what it has seen.            *)
LEMMA SeenStays ==
  ASSUME TweetInv, UNCHANGED tweets, twitter' \in Handles, twitter'.last_id = twitter.last_id,
         twitter'.last_direct = twitter.last_direct, twitter'.shown = twitter.shown,
         \/ twitter'.timeline = twitter.timeline /\ twitter'.at = twitter.at
         \/ twitter'.timeline = {} /\ twitter'.at = "idle"
         \/ twitter'.timeline = Since(twitter.last_id, {"home", "both"}) /\ twitter'.at = "mentions"
  PROVE  TweetInv'
<1>1. tweets' = tweets  OBVIOUS
<1>2. \A i : LastSeen(i)' = LastSeen(i)  BY <1>1 DEF LastSeen
<1>3. TweetsAreShownOnce'  BY <1>1, <1>2 DEF TweetInv, TweetsAreShownOnce, InIdOrder
<1>4. Taken'
  <2>1. \A i \in ToSet(twitter.shown) : i \in DOMAIN tweets /\ i <= LastSeen(i)'
    BY <1>2 DEF TweetInv, Taken
  <2>2. CASE twitter'.timeline = twitter.timeline /\ twitter'.at = twitter.at
    BY <1>1, <2>1, <2>2 DEF TweetInv, Taken
  <2>3. CASE twitter'.timeline = {} /\ twitter'.at = "idle"  BY <1>1, <2>1, <2>3 DEF Taken
  <2>4. CASE twitter'.timeline = Since(twitter.last_id, {"home", "both"}) /\ twitter'.at = "mentions"
    <3>1. \A i \in DOMAIN tweets : i > twitter.last_id /\ tweets[i].kind \in {"home", "both"}
                                     <=> i \in Since(twitter.last_id, {"home", "both"})
      BY DEF Since
    <3>2. \A i \in Since(twitter.last_id, {"home", "both"}) :
             i \in DOMAIN tweets /\ i > twitter.last_id /\ tweets[i].kind \in Own
      BY DEF Since, Own
    <3>. QED  BY <1>1, <2>1, <2>4, <3>1, <3>2 DEF Taken
  <2>. QED  BY <2>2, <2>3, <2>4
<1>. QED  BY <1>1, <1>3, <1>4 DEF TweetInv

LEMMA TwitterErrorKeeps == TweetInv /\ TwitterError /\ UNCHANGED tweets => TweetInv'
<1>1. SUFFICES ASSUME TweetInv, TwitterError, UNCHANGED tweets PROVE TweetInv'  OBVIOUS
<1>2. twitter \in Handles  BY <1>1 DEF TweetInv
<1>3. PICK asleep \in BOOLEAN :
        twitter' = [twitter EXCEPT !.at = "idle", !.timeline = {}, !.asleep = asleep, !.refusals = @ + 1]
  BY <1>1, <1>2 DEF TwitterError, Handles
<1>4. twitter' \in Handles /\ twitter'.last_id = twitter.last_id
      /\ twitter'.last_direct = twitter.last_direct /\ twitter'.shown = twitter.shown
      /\ twitter'.timeline = {} /\ twitter'.at = "idle"
  <2>1. PICK count \in Nat : count = twitter.refusals + 1  BY <1>2 DEF Handles
  <2>2. twitter' = [twitter EXCEPT !.at = "idle", !.timeline = {}, !.asleep = asleep, !.refusals = count]
    BY <1>3, <2>1
  <2>. QED  BY <1>2, <2>2 DEF Handles
<1>. QED  BY <1>1, <1>4, SeenStays

(* The second request: all that is shown is behind what was seen, and it   *)
(* is all there is to show but what came between the two.                  *)
LEMMA MentionsKeep ==
  ASSUME TweetInv, UNCHANGED tweets, twitter.at = "mentions",
         NEW timeline, timeline = twitter.timeline \cup Since(twitter.last_id, {"mention", "both"}),
         twitter' = [twitter EXCEPT !.timeline = {}, !.at = "idle",
                       !.shown = @ \o Ordered({i \in timeline : i > twitter.last_id}),
                       !.last_id = Max({@} \cup timeline)]
  PROVE  TweetInv'
<1>1. PICK n \in Nat : n = Len(tweets) /\ DOMAIN tweets = 1 .. n  BY KindsAreApart DEF TweetInv
<1>2. twitter \in Handles  BY DEF TweetInv
<1>3. PICK last \in Nat : last = twitter.last_id /\ last <= n  BY <1>1, <1>2 DEF TweetInv, Handles
<1>4. timeline \in SUBSET (1 .. n) /\ \A i \in timeline : i > last /\ tweets[i].kind \in Own
  <2>1. \A i \in twitter.timeline : i \in 1 .. n /\ i > last /\ tweets[i].kind \in Own
    BY <1>1, <1>3 DEF TweetInv, Taken
  <2>2. \A i \in Since(last, {"mention", "both"}) : i \in 1 .. n /\ i > last /\ tweets[i].kind \in Own
    BY <1>1 DEF Since, Own
  <2>. QED  BY <1>3, <2>1, <2>2
<1>5. {i \in timeline : i > twitter.last_id} = timeline  BY <1>3, <1>4
<1>6. PICK more : more = Ordered(timeline)  OBVIOUS
<1>7. /\ more \in Seq(Nat) /\ ToSet(more) = timeline
      /\ \A j, k \in DOMAIN more : j < k => more[j] < more[k]
  BY <1>1, <1>4, <1>6, OrderedGrow
<1>8. PICK top : top = Max({last} \cup timeline)  OBVIOUS
<1>9. top \in Nat /\ top <= n /\ top >= last /\ (\A i \in timeline : i <= top)
      /\ (top = last \/ top \in timeline)
  <2>1. PICK T : T = {last} \cup timeline  OBVIOUS
  <2>2. T \in SUBSET Nat /\ T # {} /\ \A x \in T : x <= n  BY <1>1, <1>3, <1>4, <2>1
  <2>3. Max(T) \in T /\ \A x \in T : x <= Max(T)  BY <1>1, <2>2, GreatestNumber
  <2>. QED  BY <1>8, <2>1, <2>2, <2>3
<1>10. PICK said \in Seq(Nat) : said = twitter.shown  BY <1>2 DEF Handles
<1>11. PICK longer \in Seq(Nat) : longer = said \o more /\ ToSet(longer) = ToSet(said) \cup timeline
  <2>1. PICK longer : longer = said \o more  OBVIOUS
  <2>2. longer \in Seq(Nat) /\ ToSet(longer) = ToSet(said) \cup ToSet(more)
    BY <1>7, <2>1, ElementsOfConcat
  <2>. QED  BY <1>7, <2>1, <2>2
<1>12. twitter' = [twitter EXCEPT !.timeline = {}, !.at = "idle", !.shown = longer, !.last_id = top]
  BY <1>3, <1>5, <1>6, <1>8, <1>10, <1>11
<1>13. /\ twitter' \in Handles /\ twitter'.timeline = {} /\ twitter'.at = "idle"
       /\ twitter'.shown = longer /\ twitter'.last_id = top
       /\ twitter'.last_direct = twitter.last_direct
  BY <1>2, <1>9, <1>12 DEF Handles
<1>14. ASSUME NEW i \in 1 .. n
       PROVE  /\ tweets[i].kind = "direct" => LastSeen(i)' = LastSeen(i)
              /\ tweets[i].kind # "direct" => LastSeen(i)' = top /\ LastSeen(i) = last
  BY <1>3, <1>13 DEF LastSeen
<1>15. \A i \in 1 .. n : (tweets[i].kind \in Own \/ tweets[i].kind = "direct")
                         /\ ~(tweets[i].kind \in Own /\ tweets[i].kind = "direct")
                         /\ tweets[i].within \in BOOLEAN
  BY <1>1, KindsAreApart DEF TweetInv
<1>16. ToSet(said) \subseteq 1 .. n /\ \A i \in ToSet(said) : i <= LastSeen(i)
  BY <1>1, <1>10 DEF TweetInv, Taken
<1>17. Taken'
  <2>1. ASSUME NEW i \in ToSet(longer) PROVE i \in 1 .. n /\ i <= LastSeen(i)'
    <3>1. CASE i \in timeline
      <4>1. i \in 1 .. n /\ LastSeen(i)' = top  BY <1>4, <1>14, <1>15, <3>1
      <4>. QED  BY <1>9, <3>1, <4>1
    <3>2. CASE i \in ToSet(said)
      <4>1. i \in 1 .. n /\ i <= LastSeen(i)  BY <1>16, <3>2
      <4>. QED  BY <1>3, <1>9, <1>14, <4>1
    <3>. QED  BY <1>11, <3>1, <3>2
  <2>. QED  BY <1>1, <1>13, <2>1 DEF Taken
<1>18. TweetsAreShownOnce'
  <2>1. InIdOrder(longer, Own)
    <3>1. InIdOrder(said, Own)  BY <1>10 DEF TweetInv, TweetsAreShownOnce
    <3>2. ASSUME NEW x \in ToSet(said), NEW y \in ToSet(more), tweets[x].kind \in Own  PROVE x < y
      <4>1. x \in 1 .. n /\ x <= LastSeen(x)  BY <1>16
      <4>2. LastSeen(x) = last  BY <1>14, <1>15, <3>2, <4>1
      <4>3. y \in 1 .. n /\ y > last  BY <1>4, <1>7
      <4>. QED  BY <1>3, <4>1, <4>2, <4>3
    <3>. QED  BY <1>7, <1>11, <3>1, <3>2, ShownStaysOrdered
  <2>2. InIdOrder(longer, {"direct"})
    <3>1. InIdOrder(said, {"direct"})  BY <1>10 DEF TweetInv, TweetsAreShownOnce
    <3>2. \A y \in ToSet(more) : tweets[y].kind \notin {"direct"}  BY <1>4, <1>7, <1>15
    <3>. QED  BY <1>7, <1>11, <3>1, <3>2, ShownStaysOrdered
  <2>3. ASSUME NEW i \in 1 .. n
        PROVE  i \in ToSet(longer) \/ i = 1 \/ tweets[i].within \/ i > LastSeen(i)'
    <3>1. i \in ToSet(said) \/ i = 1 \/ tweets[i].within \/ i > LastSeen(i)
      BY <1>1, <1>10 DEF TweetInv, TweetsAreShownOnce
    <3>2. CASE tweets[i].kind = "direct"  BY <1>11, <1>14, <3>1, <3>2
    <3>3. CASE tweets[i].kind # "direct" /\ i > last
      <4>1. tweets[i].kind \in {"home", "both"} => i \in twitter.timeline \/ tweets[i].within
        BY <1>1, <1>3, <3>3 DEF TweetInv, Taken
      <4>2. tweets[i].kind \in {"mention", "both"} => i \in Since(last, {"mention", "both"})
        BY <1>1, <3>3 DEF Since
      <4>3. i \in timeline \/ tweets[i].within  BY <1>3, <1>15, <3>3, <4>1, <4>2 DEF Own
      <4>. QED  BY <1>11, <4>3
    <3>4. CASE tweets[i].kind # "direct" /\ ~(i > last)  BY <1>11, <1>14, <3>1, <3>4
    <3>. QED  BY <3>2, <3>3, <3>4
  <2>4. InIdOrder(longer, Own)' /\ InIdOrder(longer, {"direct"})'  BY <2>1, <2>2 DEF InIdOrder, Own
  <2>. QED  BY <1>1, <1>13, <2>3, <2>4 DEF TweetsAreShownOnce
<1>. QED  BY <1>1, <1>9, <1>13, <1>17, <1>18 DEF TweetInv

(* Direct messages are shown by their own ids.                             *)
LEMMA DirectKeep ==
  ASSUME TweetInv, UNCHANGED tweets,
         NEW direct, direct = Since(twitter.last_direct, {"direct"}), direct # {},
         twitter' = [twitter EXCEPT !.shown = @ \o Ordered(direct), !.last_direct = Max(direct)]
  PROVE  TweetInv'
<1>1. PICK n \in Nat : n = Len(tweets) /\ DOMAIN tweets = 1 .. n  BY KindsAreApart DEF TweetInv
<1>2. twitter \in Handles  BY DEF TweetInv
<1>3. PICK last \in Nat : last = twitter.last_direct /\ last <= n  BY <1>1, <1>2 DEF TweetInv, Handles
<1>4. direct \in SUBSET (1 .. n) /\ \A i \in direct : i > last /\ tweets[i].kind = "direct"
  BY <1>1, <1>3 DEF Since
<1>5. PICK more : more = Ordered(direct)  OBVIOUS
<1>6. /\ more \in Seq(Nat) /\ ToSet(more) = direct
      /\ \A j, k \in DOMAIN more : j < k => more[j] < more[k]
  BY <1>1, <1>4, <1>5, OrderedGrow
<1>7. PICK top : top = Max(direct)  OBVIOUS
<1>8. top \in Nat /\ top <= n /\ top > last /\ \A i \in direct : i <= top
  <2>1. direct \in SUBSET Nat /\ \A x \in direct : x <= n  BY <1>1, <1>4
  <2>2. Max(direct) \in direct /\ \A x \in direct : x <= Max(direct)  BY <1>1, <2>1, GreatestNumber
  <2>. QED  BY <1>3, <1>4, <1>7, <2>1, <2>2
<1>9. PICK said \in Seq(Nat) : said = twitter.shown  BY <1>2 DEF Handles
<1>10. PICK longer \in Seq(Nat) : longer = said \o more /\ ToSet(longer) = ToSet(said) \cup direct
  <2>1. PICK longer : longer = said \o more  OBVIOUS
  <2>2. longer \in Seq(Nat) /\ ToSet(longer) = ToSet(said) \cup ToSet(more)
    BY <1>6, <2>1, ElementsOfConcat
  <2>. QED  BY <1>6, <2>1, <2>2
<1>11. twitter' = [twitter EXCEPT !.shown = longer, !.last_direct = top]  BY <1>5, <1>7, <1>9, <1>10
<1>12. /\ twitter' \in Handles /\ twitter'.timeline = twitter.timeline /\ twitter'.at = twitter.at
       /\ twitter'.shown = longer /\ twitter'.last_id = twitter.last_id /\ twitter'.last_direct = top
  BY <1>2, <1>8, <1>11 DEF Handles
<1>13. ASSUME NEW i \in 1 .. n
       PROVE  /\ tweets[i].kind # "direct" => LastSeen(i)' = LastSeen(i)
              /\ tweets[i].kind = "direct" => LastSeen(i)' = top /\ LastSeen(i) = last
  BY <1>3, <1>12 DEF LastSeen
<1>14. \A i \in 1 .. n : ~(tweets[i].kind \in Own /\ tweets[i].kind = "direct")
                         /\ tweets[i].within \in BOOLEAN
  BY <1>1, KindsAreApart DEF TweetInv
<1>15. ToSet(said) \subseteq 1 .. n /\ \A i \in ToSet(said) : i <= LastSeen(i)
  BY <1>1, <1>9 DEF TweetInv, Taken
<1>16. Taken'
  <2>1. ASSUME NEW i \in ToSet(longer) PROVE i \in 1 .. n /\ i <= LastSeen(i)'
    <3>1. CASE i \in direct
      <4>1. i \in 1 .. n /\ LastSeen(i)' = top  BY <1>4, <1>13, <3>1
      <4>. QED  BY <1>8, <3>1, <4>1
    <3>2. CASE i \in ToSet(said)
      <4>1. i \in 1 .. n /\ i <= LastSeen(i)  BY <1>15, <3>2
      <4>2. tweets[i].kind = "direct" => LastSeen(i)' = top /\ i <= last  BY <1>13, <4>1
      <4>3. tweets[i].kind # "direct" => LastSeen(i)' = LastSeen(i)  BY <1>13, <4>1
      <4>4. i <= last => i <= top  BY <1>3, <1>8, <4>1
      <4>. QED  BY <4>1, <4>2, <4>3, <4>4
    <3>. QED  BY <1>10, <3>1, <3>2
  <2>. QED  BY <1>1, <1>12, <2>1 DEF TweetInv, Taken
<1>17. TweetsAreShownOnce'
  <2>1. InIdOrder(longer, {"direct"})
    <3>1. InIdOrder(said, {"direct"})  BY <1>9 DEF TweetInv, TweetsAreShownOnce
    <3>2. ASSUME NEW x \in ToSet(said), NEW y \in ToSet(more), tweets[x].kind \in {"direct"}  PROVE x < y
      <4>1. x \in 1 .. n /\ x <= LastSeen(x)  BY <1>15
      <4>2. LastSeen(x) = last  BY <1>13, <3>2, <4>1
      <4>3. y \in 1 .. n /\ y > last  BY <1>4, <1>6
      <4>. QED  BY <1>3, <4>1, <4>2, <4>3
    <3>. QED  BY <1>6, <1>10, <3>1, <3>2, ShownStaysOrdered
  <2>2. InIdOrder(longer, Own)
    <3>1. InIdOrder(said, Own)  BY <1>9 DEF TweetInv, TweetsAreShownOnce
    <3>2. \A y \in ToSet(more) : tweets[y].kind \notin Own  BY <1>4, <1>6, <1>14
    <3>. QED  BY <1>6, <1>10, <3>1, <3>2, ShownStaysOrdered
  <2>3. ASSUME NEW i \in 1 .. n
        PROVE  i \in ToSet(longer) \/ i = 1 \/ tweets[i].within \/ i > LastSeen(i)'
    <3>1. i \in ToSet(said) \/ i = 1 \/ tweets[i].within \/ i > LastSeen(i)
      BY <1>1, <1>9 DEF TweetInv, TweetsAreShownOnce
    <3>2. CASE tweets[i].kind # "direct"  BY <1>10, <1>13, <3>1, <3>2
    <3>3. CASE tweets[i].kind = "direct" /\ i > last
      <4>1. i \in direct  BY <1>1, <1>3, <3>3 DEF Since
      <4>. QED  BY <1>10, <4>1
    <3>4. CASE tweets[i].kind = "direct" /\ ~(i > last)  BY <1>10, <1>13, <3>1, <3>4
    <3>. QED  BY <3>2, <3>3, <3>4
  <2>4. InIdOrder(longer, Own)' /\ InIdOrder(longer, {"direct"})'  BY <2>1, <2>2 DEF InIdOrder, Own
  <2>. QED  BY <1>1, <1>12, <2>3, <2>4 DEF TweetsAreShownOnce
<1>. QED  BY <1>1, <1>8, <1>12, <1>16, <1>17 DEF TweetInv

LEMMA TweetsStep == TweetInv /\ [TweetNext]_tweetVars => TweetInv'
<1>1. SUFFICES ASSUME TweetInv, [TweetNext]_tweetVars PROVE TweetInv'  OBVIOUS
<1>2. twitter \in Handles /\ tweets \in Seq(TweetRecords)  BY <1>1 DEF TweetInv
<1>3. CASE Tweet  BY <1>1, <1>3, NewTweetKeeps
<1>4. CASE Awake
  <2>1. twitter' = [twitter EXCEPT !.asleep = FALSE] /\ tweets' = tweets  BY <1>4 DEF Awake
  <2>2. twitter' \in Handles /\ twitter'.last_id = twitter.last_id
        /\ twitter'.last_direct = twitter.last_direct /\ twitter'.shown = twitter.shown
        /\ twitter'.timeline = twitter.timeline /\ twitter'.at = twitter.at
    BY <1>2, <2>1 DEF Handles
  <2>. QED  BY <1>1, <2>1, <2>2, SeenStays
<1>5. CASE PollHome
  <2>1. CASE TwitterError  BY <1>1, <1>5, <2>1, TwitterErrorKeeps DEF PollHome
  <2>2. CASE ~TwitterError
    <3>1. PICK found : found = Since(twitter.last_id, {"home", "both"})  OBVIOUS
    <3>2. found \in SUBSET Nat  BY <1>2, <3>1, LenProperties DEF Since
    <3>3. twitter' = [twitter EXCEPT !.timeline = found, !.at = "mentions"] /\ tweets' = tweets
      BY <1>5, <2>2, <3>1 DEF PollHome
    <3>4. twitter' \in Handles /\ twitter'.last_id = twitter.last_id
          /\ twitter'.last_direct = twitter.last_direct /\ twitter'.shown = twitter.shown
          /\ twitter'.timeline = found /\ twitter'.at = "mentions"
      BY <1>2, <3>2, <3>3 DEF Handles
    <3>. QED  BY <1>1, <3>1, <3>3, <3>4, SeenStays
  <2>. QED  BY <2>1, <2>2
<1>6. CASE PollMentions
  <2>1. CASE TwitterError  BY <1>1, <1>6, <2>1, TwitterErrorKeeps DEF PollMentions
  <2>2. CASE ~TwitterError  BY <1>1, <1>6, <2>2, MentionsKeep DEF PollMentions
  <2>. QED  BY <2>1, <2>2
<1>7. CASE PollDirect
  <2>1. CASE TwitterError  BY <1>1, <1>7, <2>1, TwitterErrorKeeps DEF PollDirect
  <2>2. CASE ~TwitterError  BY <1>1, <1>7, <2>2, DirectKeep DEF PollDirect
  <2>. QED  BY <2>1, <2>2
<1>8. CASE UNCHANGED tweetVars
  <2>1. tweets' = tweets /\ twitter' = twitter  BY <1>8 DEF tweetVars
  <2>. QED  BY <1>1, <1>2, <2>1, SeenStays
<1>. QED  BY <1>1, <1>3, <1>4, <1>5, <1>6, <1>7, <1>8 DEF TweetNext

(* What the polls of Twitter (Handle.pm) show is in the order of the ids,  *)
(* and what counts as seen has been shown, but for a tweet between the two *)
(* requests of a poll, whatever fails.                                     *)
THEOREM TweetsStayInOrder == TweetsSpec => []TweetsAreShownOnce
<1>1. TweetInv => TweetsAreShownOnce  BY DEF TweetInv
<1>. QED  BY <1>1, TweetsStart, TweetsStep, PTL DEF TweetsSpec

-----------------------------------------------------------------------------
(* Feeds: Facebook.                                                         *)
PostsSpec == PostInit /\ [][PostNext]_postVars

Entries == [post : Nat, at : Nat, late : BOOLEAN]

Walls == [now : Nat, posts : Seq(Entries), asked : SUBSET Nat]
FacebookHandles ==
  [last_poll : Nat, logged_in : BOOLEAN, answers : SUBSET Nat, shown : SUBSET Nat, again : SUBSET Nat,
   refusals : Nat]

At(i) == wall.posts[i].at

(* Times grow along the wall.                                              *)
TimesGrow ==
  \A i \in DOMAIN wall.posts :
    At(i) <= wall.now /\ \A j \in DOMAIN wall.posts : j <= i => At(j) <= At(i)

(* What an answer does not have is later than what it has, or late.        *)
AnswersAreTimely ==
  \A n \in facebook.answers :
    /\ n <= Len(wall.posts)
    /\ \A j \in 1 .. n : /\ At(j) = wall.now => wall.now \in wall.asked
                       /\ \A i \in n + 1 .. Len(wall.posts) : At(i) = At(j) => wall.posts[i].late

PostInv ==
  /\ wall \in Walls /\ facebook \in FacebookHandles
  /\ TimesGrow /\ AnswersAreTimely
  /\ \A i \in facebook.shown : i \in DOMAIN wall.posts /\ At(i) < facebook.last_poll
  /\ wall.now < facebook.last_poll => wall.now \in wall.asked
  /\ facebook.last_poll <= wall.now + 1
  /\ PostsAreShownOnce

-----------------------------------------------------------------------------
LEMMA PostsStart == PostInit => PostInv
<1>1. SUFFICES ASSUME PostInit PROVE PostInv  OBVIOUS
<1>2. wall \in Walls /\ wall.now = 0 /\ wall.posts = <<>>  BY <1>1 DEF PostInit, Walls
<1>3. DOMAIN wall.posts = {}  BY <1>2
<1>4. facebook \in FacebookHandles /\ facebook.last_poll = 0 /\ facebook.answers = {}
      /\ facebook.shown = {} /\ facebook.again = {}
  BY <1>1 DEF PostInit, FacebookHandles
<1>. QED  BY <1>2, <1>3, <1>4 DEF PostInv, TimesGrow, AnswersAreTimely, PostsAreShownOnce

LEMMA WallIsNumbered ==
  ASSUME wall \in Walls
  PROVE  /\ wall.now \in Nat /\ Len(wall.posts) \in Nat /\ DOMAIN wall.posts = 1 .. Len(wall.posts)
         /\ \A i \in DOMAIN wall.posts : At(i) \in Nat /\ wall.posts[i].late \in BOOLEAN
                                         /\ wall.posts[i] \in Entries
<1>1. wall.posts \in Seq(Entries) /\ wall.now \in Nat  BY DEF Walls
<1>2. Len(wall.posts) \in Nat /\ DOMAIN wall.posts = 1 .. Len(wall.posts)  BY <1>1, LenProperties
<1>3. \A i \in DOMAIN wall.posts : wall.posts[i] \in Entries  BY <1>1, <1>2, ElementOfSeq
<1>. QED  BY <1>1, <1>2, <1>3 DEF At, Entries

(* Time passes: nothing is of that second yet.                             *)
LEMMA PassesKeeps == PostInv /\ Passes => PostInv'
<1>1. SUFFICES ASSUME PostInv, Passes PROVE PostInv'  OBVIOUS
<1>2. wall \in Walls  BY <1>1 DEF PostInv
<1>3. PICK now \in Nat, n \in Nat :
        now = wall.now /\ n = Len(wall.posts) /\ DOMAIN wall.posts = 1 .. n
        /\ \A i \in 1 .. n : At(i) \in Nat
  BY <1>2, WallIsNumbered
<1>4. wall' = [wall EXCEPT !.now = now + 1] /\ facebook' = facebook  BY <1>1, <1>3 DEF Passes
<1>5. wall' \in Walls /\ wall'.now = now + 1 /\ wall'.posts = wall.posts /\ wall'.asked = wall.asked
  BY <1>2, <1>3, <1>4 DEF Walls
<1>6. \A i : At(i)' = At(i)  BY <1>5 DEF At
<1>7. TimesGrow'
  <2>1. \A i \in 1 .. n : At(i) <= now + 1  BY <1>1, <1>3 DEF PostInv, TimesGrow
  <2>. QED  BY <1>1, <1>3, <1>5, <1>6, <2>1 DEF PostInv, TimesGrow
<1>8. AnswersAreTimely'
  <2>1. \A i \in 1 .. n : At(i) # now + 1  BY <1>1, <1>3 DEF PostInv, TimesGrow
  <2>2. \A a \in facebook.answers : a \in Nat /\ a <= n
    BY <1>1, <1>3 DEF PostInv, AnswersAreTimely, FacebookHandles
  <2>3. \A a \in facebook.answers : \A j \in 1 .. a : At(j) # now + 1  BY <2>1, <2>2
  <2>. QED  BY <1>1, <1>4, <1>5, <1>6, <2>3 DEF PostInv, AnswersAreTimely
<1>9. facebook.last_poll \in Nat /\ facebook.last_poll <= now + 1
  BY <1>1, <1>3 DEF PostInv, FacebookHandles
<1>10. PostsAreShownOnce'  BY <1>1, <1>4, <1>5 DEF PostInv, PostsAreShownOnce
<1>11. facebook.last_poll <= now + 1 + 1 /\ ~(now + 1 < facebook.last_poll)  BY <1>9
<1>. QED  BY <1>1, <1>4, <1>5, <1>6, <1>7, <1>8, <1>10, <1>11 DEF PostInv

(* A post or comment is written: it is late if it is of a second of which  *)
(* somebody has asked.                                                     *)
LEMMA WritingKeeps ==
  ASSUME PostInv, NEW post \in Nat, wall' = [wall EXCEPT !.posts = Append(@, Entry(post))],
         UNCHANGED facebook
  PROVE  PostInv'
<1>1. wall \in Walls  BY DEF PostInv
<1>2. PICK now \in Nat, n \in Nat :
        now = wall.now /\ n = Len(wall.posts) /\ DOMAIN wall.posts = 1 .. n
        /\ \A i \in 1 .. n : At(i) \in Nat
  BY <1>1, WallIsNumbered
<1>3. PICK new \in Entries : new = Entry(post) /\ new.at = now /\ new.late = (now \in wall.asked)
  <2>1. Entry(post) = [post |-> post, at |-> now, late |-> now \in wall.asked]  BY <1>2 DEF Entry
  <2>2. [post |-> post, at |-> now, late |-> now \in wall.asked] \in Entries  BY DEF Entries
  <2>. QED  BY <2>1, <2>2
<1>4. PICK posts : posts = Append(wall.posts, new)  OBVIOUS
<1>5. /\ posts \in Seq(Entries) /\ Len(posts) = n + 1 /\ posts[n + 1] = new
      /\ \A i \in 1 .. n : posts[i] = wall.posts[i]
  BY <1>1, <1>2, <1>4, AppendProperties DEF Walls
<1>6. DOMAIN posts = 1 .. n + 1  BY <1>5, LenProperties
<1>7. wall' = [wall EXCEPT !.posts = posts]  BY <1>3, <1>4
<1>8. wall' \in Walls /\ wall'.now = now /\ wall'.posts = posts /\ wall'.asked = wall.asked
  BY <1>1, <1>2, <1>5, <1>7 DEF Walls
<1>9. /\ \A i \in 1 .. n : At(i)' = At(i) /\ posts[i].late = wall.posts[i].late
      /\ At(n + 1)' = now
  BY <1>3, <1>5, <1>8 DEF At
<1>10. \A i \in 1 .. n : At(i) <= now  BY <1>2 DEF PostInv, TimesGrow
<1>11. TimesGrow'
  <2>1. ASSUME NEW i \in 1 .. n + 1, NEW j \in 1 .. n + 1, j <= i
        PROVE  At(i)' <= now /\ At(j)' <= At(i)'
    <3>1. CASE i \in 1 .. n
      <4>1. j \in 1 .. n  BY <1>2, <2>1, <3>1
      <4>2. At(i) <= now /\ At(j) <= At(i)  BY <1>2, <1>10, <2>1, <3>1, <4>1 DEF PostInv, TimesGrow
      <4>. QED  BY <1>9, <3>1, <4>1, <4>2
    <3>2. CASE i = n + 1
      <4>1. CASE j \in 1 .. n  BY <1>2, <1>9, <1>10, <3>2, <4>1
      <4>2. CASE j = n + 1  BY <1>2, <1>9, <3>2, <4>2
      <4>. QED  BY <4>1, <4>2
    <3>. QED  BY <3>1, <3>2
  <2>2. \A i \in 1 .. n + 1 : i <= i  BY <1>2
  <2>. QED  BY <1>6, <1>8, <2>1, <2>2 DEF TimesGrow
<1>12. AnswersAreTimely'
  <2>1. SUFFICES ASSUME NEW a \in facebook.answers
        PROVE  /\ a <= n + 1
               /\ \A j \in 1 .. a : /\ At(j)' = now => now \in wall.asked
                                  /\ \A i \in a + 1 .. n + 1 : At(i)' = At(j)' => posts[i].late
    BY <1>5, <1>8 DEF AnswersAreTimely
  <2>2. a \in Nat /\ a <= n  BY <1>2 DEF PostInv, AnswersAreTimely, FacebookHandles
  <2>3. ASSUME NEW j \in 1 .. a
        PROVE  /\ At(j)' = now => now \in wall.asked
               /\ \A i \in a + 1 .. n + 1 : At(i)' = At(j)' => posts[i].late
    <3>1. j \in 1 .. n /\ At(j)' = At(j)  BY <1>9, <2>2
    <3>2. At(j) = now => now \in wall.asked  BY <1>2 DEF PostInv, AnswersAreTimely
    <3>3. ASSUME NEW i \in a + 1 .. n + 1, At(i)' = At(j)'  PROVE posts[i].late
      <4>1. CASE i \in 1 .. n
        <5>1. i \in a + 1 .. n /\ At(i) = At(j)  BY <1>9, <3>1, <3>3, <4>1
        <5>2. wall.posts[i].late  BY <1>2, <5>1 DEF PostInv, AnswersAreTimely
        <5>. QED  BY <1>9, <4>1, <5>2
      <4>2. CASE i = n + 1
        <5>1. At(j) = now  BY <1>9, <3>1, <3>3, <4>2
        <5>. QED  BY <1>3, <1>5, <3>2, <4>2, <5>1
      <4>. QED  BY <2>2, <4>1, <4>2
    <3>. QED  BY <3>1, <3>2, <3>3
  <2>. QED  BY <2>2, <2>3
<1>13. \A i \in facebook.shown : i \in 1 .. n + 1 /\ At(i)' < facebook.last_poll
  <2>1. \A i \in facebook.shown : i \in 1 .. n /\ At(i) < facebook.last_poll  BY <1>2 DEF PostInv
  <2>. QED  BY <1>9, <2>1
<1>14. PostsAreShownOnce'
  <2>1. facebook.last_poll \in Nat /\ (now < facebook.last_poll => now \in wall.asked)
    BY <1>2 DEF PostInv, FacebookHandles
  <2>2. ASSUME NEW i \in 1 .. n + 1
        PROVE  i \in facebook.shown \/ posts[i].late \/ posts[i].at >= facebook.last_poll
    <3>1. CASE i \in 1 .. n  BY <1>2, <1>5, <3>1 DEF PostInv, PostsAreShownOnce
    <3>2. CASE i = n + 1
      <4>1. posts[i].at = now /\ posts[i].late = (now \in wall.asked)  BY <1>3, <1>5, <3>2
      <4>2. PICK last \in Nat : last = facebook.last_poll  BY <2>1
      <4>3. now < last \/ now >= last  BY <1>2
      <4>. QED  BY <2>1, <4>1, <4>2, <4>3
    <3>. QED  BY <3>1, <3>2
  <2>. QED  BY <1>6, <1>8, <2>2 DEF PostInv, PostsAreShownOnce
<1>. QED  BY <1>2, <1>6, <1>8, <1>11, <1>12, <1>13, <1>14 DEF PostInv

(* Whoever asks has an answer that lacks nothing, in a second asked of.    *)
LEMMA PollKeeps == PostInv /\ PollFacebook => PostInv'
<1>1. SUFFICES ASSUME PostInv, PollFacebook PROVE PostInv'  OBVIOUS
<1>2. wall \in Walls /\ facebook \in FacebookHandles  BY <1>1 DEF PostInv
<1>3. PICK now \in Nat, n \in Nat :
        now = wall.now /\ n = Len(wall.posts) /\ DOMAIN wall.posts = 1 .. n
  BY <1>2, WallIsNumbered
<1>4. wall' = [wall EXCEPT !.asked = @ \cup {now}]
      /\ facebook' = [facebook EXCEPT !.answers = @ \cup {n}]
  BY <1>1, <1>3 DEF PollFacebook, Written
<1>5. wall' \in Walls /\ wall'.now = now /\ wall'.posts = wall.posts /\ wall'.asked = wall.asked \cup {now}
  BY <1>2, <1>3, <1>4 DEF Walls
<1>6. /\ facebook' \in FacebookHandles /\ facebook'.answers = facebook.answers \cup {n}
      /\ facebook'.shown = facebook.shown /\ facebook'.again = facebook.again
      /\ facebook'.last_poll = facebook.last_poll
  BY <1>2, <1>3, <1>4 DEF FacebookHandles
<1>7. \A i : At(i)' = At(i)  BY <1>5 DEF At
<1>8. TimesGrow'  BY <1>1, <1>3, <1>5, <1>7 DEF PostInv, TimesGrow
<1>9. AnswersAreTimely'
  <2>1. n + 1 .. n = {}  BY <1>3
  <2>2. \A a \in facebook.answers \cup {n} :
          a <= n /\ \A j \in 1 .. a : \A i \in a + 1 .. n : At(i) = At(j) => wall.posts[i].late
    BY <1>1, <1>3, <2>1 DEF PostInv, AnswersAreTimely
  <2>. QED  BY <1>3, <1>5, <1>6, <1>7, <2>2 DEF AnswersAreTimely
<1>10. PostsAreShownOnce'  BY <1>1, <1>5, <1>6 DEF PostInv, PostsAreShownOnce
<1>. QED  BY <1>1, <1>3, <1>5, <1>6, <1>7, <1>8, <1>9, <1>10 DEF PostInv

(* The latest time of a post within an answer is one of the answer, and    *)
(* not before any of its entries.                                          *)
LEMMA UpdatedIsLatest ==
  ASSUME PostInv, NEW n \in Nat, n <= Len(wall.posts), NEW i \in 1 .. n
  PROVE  /\ \E j \in 1 .. n : Updated(i, n) = At(j)
         /\ Updated(i, n) \in Nat /\ At(i) <= Updated(i, n)
<1>1. PICK len \in Nat, now \in Nat :
        len = Len(wall.posts) /\ now = wall.now /\ DOMAIN wall.posts = 1 .. len
        /\ \A j \in 1 .. len : At(j) \in Nat /\ At(j) <= now
  BY WallIsNumbered DEF PostInv, TimesGrow
<1>2. PICK T : T = {At(j) : j \in {k \in 1 .. n : wall.posts[k].post = wall.posts[i].post}}  OBVIOUS
<1>3. T \in SUBSET Nat /\ At(i) \in T /\ \A x \in T : x <= now /\ \E j \in 1 .. n : x = At(j)
  <2>1. \A j \in 1 .. n : At(j) \in Nat /\ At(j) <= now  BY <1>1
  <2>. QED  BY <1>2, <2>1
<1>4. Max(T) \in T /\ \A x \in T : x <= Max(T)  BY <1>1, <1>3, GreatestNumber
<1>5. Updated(i, n) = Max(T)  BY <1>2 DEF Updated, At
<1>. QED  BY <1>3, <1>4, <1>5

(* An answer: the bound is put behind the last that it has.                *)
LEMMA FacebookAnswerKeeps == PostInv /\ AnswerCame => PostInv'
<1>1. SUFFICES ASSUME PostInv, AnswerCame PROVE PostInv'  OBVIOUS
<1>2. wall \in Walls /\ facebook \in FacebookHandles  BY <1>1 DEF PostInv
<1>3. PICK now \in Nat, len \in Nat :
        now = wall.now /\ len = Len(wall.posts) /\ DOMAIN wall.posts = 1 .. len
        /\ \A i \in 1 .. len : At(i) \in Nat /\ At(i) <= now /\ wall.posts[i].late \in BOOLEAN
  BY <1>1, <1>2, WallIsNumbered DEF PostInv, TimesGrow
<1>4. PICK n \in facebook.answers :
        facebook' = [facebook EXCEPT
          !.answers = @ \ {n}, !.shown = @ \cup NewIn(n, facebook.last_poll),
          !.again = @ \cup (NewIn(n, facebook.last_poll) \cap facebook.shown),
          !.last_poll = Max({@} \cup {Updated(i, n) + 1 : i \in 1 .. n})]
  BY <1>1 DEF AnswerCame
<1>5. n \in Nat /\ n <= len  BY <1>1, <1>2, <1>3 DEF PostInv, AnswersAreTimely, FacebookHandles
<1>6. PICK since \in Nat : since = facebook.last_poll /\ since <= now + 1
  BY <1>1, <1>2, <1>3 DEF PostInv, FacebookHandles
<1>7. \A i \in 1 .. n : /\ Updated(i, n) \in Nat /\ At(i) <= Updated(i, n)
                      /\ \E j \in 1 .. n : Updated(i, n) = At(j)
  BY <1>1, <1>3, <1>5, UpdatedIsLatest
<1>8. PICK new : new = NewIn(n, since)  OBVIOUS
<1>9. new = {i \in 1 .. n : At(i) >= since}
  <2>1. \A i \in 1 .. n : At(i) \in Nat  BY <1>3, <1>5
  <2>2. \A i \in 1 .. n : At(i) >= since => Updated(i, n) >= since  BY <1>6, <1>7, <2>1
  <2>. QED  BY <1>8, <2>2 DEF NewIn, At
<1>10. PICK top : top = Max({since} \cup {Updated(i, n) + 1 : i \in 1 .. n})  OBVIOUS
<1>11. /\ top \in Nat /\ top >= since /\ \A i \in 1 .. n : At(i) < top
       /\ top = since \/ \E j \in 1 .. n : top = At(j) + 1
  <2>1. PICK T : T = {since} \cup {Updated(i, n) + 1 : i \in 1 .. n}  OBVIOUS
  <2>2. \A i \in 1 .. n : Updated(i, n) + 1 \in Nat /\ Updated(i, n) + 1 <= now + 1
                          /\ \E j \in 1 .. n : Updated(i, n) + 1 = At(j) + 1
    <3>1. SUFFICES ASSUME NEW i \in 1 .. n
          PROVE Updated(i, n) + 1 \in Nat /\ Updated(i, n) + 1 <= now + 1
                /\ \E j \in 1 .. n : Updated(i, n) + 1 = At(j) + 1
      OBVIOUS
    <3>2. PICK j \in 1 .. n : Updated(i, n) = At(j)  BY <1>7
    <3>3. At(j) \in Nat /\ At(j) <= now  BY <1>3, <1>5
    <3>. QED  BY <3>2, <3>3
  <2>3. T \in SUBSET Nat /\ since \in T /\ \A x \in T : x <= now + 1  BY <1>6, <2>1, <2>2
  <2>4. top \in T /\ \A x \in T : x <= top
    <3>1. T # {} /\ now + 1 \in Nat  BY <2>3
    <3>. QED  BY <1>10, <2>1, <2>3, <3>1, GreatestNumber
  <2>5. ASSUME NEW i \in 1 .. n PROVE At(i) < top
    <3>1. Updated(i, n) + 1 \in T  BY <2>1
    <3>2. PICK u \in Nat : u = Updated(i, n) /\ At(i) <= u  BY <1>7
    <3>3. u + 1 <= top /\ At(i) \in Nat /\ top \in Nat  BY <1>3, <1>5, <2>3, <2>4, <3>1, <3>2
    <3>. QED  BY <3>2, <3>3
  <2>. QED  BY <2>1, <2>2, <2>3, <2>4, <2>5
<1>12. new \cap facebook.shown = {}
  <2>1. \A i \in facebook.shown : i \in 1 .. len /\ At(i) < since  BY <1>1, <1>3, <1>6 DEF PostInv
  <2>2. \A i \in new : i \in 1 .. len /\ At(i) >= since  BY <1>5, <1>9
  <2>. QED  BY <1>3, <1>6, <2>1, <2>2
<1>13. PICK again, said, others :
         again = facebook.again \cup (new \cap facebook.shown) /\ said = facebook.shown \cup new
         /\ others = facebook.answers \ {n}
  OBVIOUS
<1>14. again = facebook.again /\ said \in SUBSET Nat /\ others \in SUBSET Nat
  BY <1>2, <1>9, <1>12, <1>13 DEF FacebookHandles
<1>15. facebook' = [facebook EXCEPT !.answers = others, !.shown = said, !.again = again, !.last_poll = top]
  BY <1>4, <1>6, <1>8, <1>10, <1>13
<1>16. /\ facebook' \in FacebookHandles /\ facebook'.answers = others
       /\ facebook'.shown = said /\ facebook'.again = facebook.again /\ facebook'.last_poll = top
  BY <1>2, <1>11, <1>14, <1>15 DEF FacebookHandles
<1>17. wall' = wall  BY <1>1 DEF AnswerCame
<1>18. \A i : At(i)' = At(i)  BY <1>17 DEF At
<1>19. TimesGrow'  BY <1>1, <1>17, <1>18 DEF PostInv, TimesGrow
<1>20. AnswersAreTimely'  BY <1>1, <1>13, <1>16, <1>17, <1>18 DEF PostInv, AnswersAreTimely
<1>21. \A i \in said : i \in 1 .. len /\ At(i) < top
  <2>1. \A i \in facebook.shown : i \in 1 .. len /\ At(i) < since  BY <1>1, <1>3, <1>6 DEF PostInv
  <2>2. \A i \in new : i \in 1 .. len /\ At(i) < top  BY <1>5, <1>9, <1>11
  <2>. QED  BY <1>3, <1>6, <1>11, <1>13, <2>1, <2>2
<1>22. top <= now + 1 /\ (now < top => now \in wall.asked)
  <2>1. CASE top = since  BY <1>1, <1>3, <1>6, <2>1 DEF PostInv
  <2>2. CASE \E j \in 1 .. n : top = At(j) + 1
    <3>1. PICK j \in 1 .. n : top = At(j) + 1  BY <2>2
    <3>2. At(j) \in Nat /\ At(j) <= now /\ (At(j) = now => now \in wall.asked)
      BY <1>1, <1>3, <1>5 DEF PostInv, AnswersAreTimely
    <3>. QED  BY <1>3, <3>1, <3>2
  <2>. QED  BY <1>11, <2>1, <2>2
<1>23. ASSUME NEW i \in 1 .. len
       PROVE  i \in said \/ wall.posts[i].late \/ At(i) >= top
  <2>1. i \in facebook.shown \/ wall.posts[i].late \/ At(i) >= since
    BY <1>1, <1>3, <1>6 DEF PostInv, PostsAreShownOnce, At
  <2>2. CASE i \in 1 .. n  BY <1>9, <1>13, <2>1, <2>2
  <2>3. CASE i \notin 1 .. n /\ \E j \in 1 .. n : top = At(j) + 1
    <3>1. PICK j \in 1 .. n : top = At(j) + 1  BY <2>3
    <3>2. i \in n + 1 .. len /\ j \in 1 .. len /\ j <= i  BY <1>3, <1>5, <2>3
    <3>3. At(j) <= At(i) /\ At(i) \in Nat /\ At(j) \in Nat  BY <1>1, <1>3, <3>2 DEF PostInv, TimesGrow
    <3>4. At(i) = At(j) => wall.posts[i].late  BY <1>1, <1>3, <3>2 DEF PostInv, AnswersAreTimely
    <3>. QED  BY <3>1, <3>3, <3>4
  <2>4. CASE top = since  BY <1>13, <2>1, <2>4
  <2>. QED  BY <1>11, <2>2, <2>3, <2>4
<1>24. PostsAreShownOnce'
  <2>1. facebook.again = {}  BY <1>1 DEF PostInv, PostsAreShownOnce
  <2>. QED  BY <1>3, <1>16, <1>17, <1>23, <2>1 DEF PostsAreShownOnce, At
<1>. QED  BY <1>2, <1>3, <1>16, <1>17, <1>18, <1>19, <1>20, <1>21, <1>22, <1>24 DEF PostInv

(* An answer that says nothing takes nothing with it.                      *)
LEMMA HandleKeeps ==
  ASSUME PostInv, UNCHANGED wall, facebook' \in FacebookHandles, facebook'.answers \subseteq facebook.answers,
         facebook'.shown = facebook.shown, facebook'.again = facebook.again,
         facebook'.last_poll = facebook.last_poll
  PROVE  PostInv'
<1>1. wall' = wall  OBVIOUS
<1>2. \A i : At(i)' = At(i)  BY <1>1 DEF At
<1>3. TimesGrow'  BY <1>1, <1>2 DEF PostInv, TimesGrow
<1>4. AnswersAreTimely'  BY <1>1, <1>2 DEF PostInv, AnswersAreTimely
<1>5. PostsAreShownOnce'  BY <1>1 DEF PostInv, PostsAreShownOnce
<1>. QED  BY <1>1, <1>2, <1>3, <1>4, <1>5 DEF PostInv

LEMMA PostsStep == PostInv /\ [PostNext]_postVars => PostInv'
<1>1. SUFFICES ASSUME PostInv, [PostNext]_postVars PROVE PostInv'  OBVIOUS
<1>2. wall \in Walls /\ facebook \in FacebookHandles  BY <1>1 DEF PostInv
<1>3. CASE Passes  BY <1>1, <1>3, PassesKeeps
<1>4. CASE Post
  <2>1. Written + 1 \in Nat  BY <1>2, WallIsNumbered DEF Written
  <2>. QED  BY <1>1, <1>4, <2>1, WritingKeeps DEF Post
<1>5. CASE Comment
  <2>1. PICK i \in DOMAIN wall.posts : wall' = [wall EXCEPT !.posts = Append(@, Entry(wall.posts[i].post))]
    BY <1>5 DEF Comment
  <2>2. wall.posts[i].post \in Nat  BY <1>2, WallIsNumbered DEF Entries
  <2>. QED  BY <1>1, <1>5, <2>1, <2>2, WritingKeeps DEF Comment
<1>6. CASE PollFacebook  BY <1>1, <1>6, PollKeeps
<1>7. CASE AnswerCame  BY <1>1, <1>7, FacebookAnswerKeeps
<1>8. CASE AnswerFailed
  <2>1. PICK n \in facebook.answers, logged_in \in BOOLEAN :
          facebook' = [facebook EXCEPT !.answers = @ \ {n}, !.refusals = @ + 1, !.logged_in = @ /\ logged_in]
    BY <1>8 DEF AnswerFailed
  <2>2. PICK others \in SUBSET Nat, count \in Nat, in \in BOOLEAN :
          others = facebook.answers \ {n} /\ count = facebook.refusals + 1
          /\ in = (facebook.logged_in /\ logged_in)
    <3>1. facebook.answers \in SUBSET Nat /\ facebook.refusals \in Nat  BY <1>2 DEF FacebookHandles
    <3>2. facebook.answers \ {n} \in SUBSET Nat /\ facebook.refusals + 1 \in Nat  BY <3>1
    <3>3. (facebook.logged_in /\ logged_in) \in BOOLEAN  OBVIOUS
    <3>. QED  BY <3>2, <3>3
  <2>3. facebook' = [facebook EXCEPT !.answers = others, !.refusals = count, !.logged_in = in]
    BY <2>1, <2>2
  <2>4. /\ facebook' \in FacebookHandles /\ facebook'.answers = others
        /\ facebook'.shown = facebook.shown /\ facebook'.again = facebook.again
        /\ facebook'.last_poll = facebook.last_poll
    BY <1>2, <2>2, <2>3 DEF FacebookHandles
  <2>. QED  BY <1>1, <1>8, <2>2, <2>4, HandleKeeps DEF AnswerFailed
<1>9. CASE LoggedIn
  <2>1. facebook' = [facebook EXCEPT !.logged_in = TRUE] /\ wall' = wall  BY <1>9 DEF LoggedIn
  <2>2. /\ facebook' \in FacebookHandles /\ facebook'.answers = facebook.answers
        /\ facebook'.shown = facebook.shown /\ facebook'.again = facebook.again
        /\ facebook'.last_poll = facebook.last_poll
    BY <1>2, <2>1 DEF FacebookHandles
  <2>. QED  BY <1>1, <2>1, <2>2, HandleKeeps
<1>10. CASE UNCHANGED postVars
  <2>1. wall' = wall /\ facebook' = facebook  BY <1>10 DEF postVars
  <2>. QED  BY <1>1, <1>2, <2>1, HandleKeeps
<1>. QED  BY <1>1, <1>3, <1>4, <1>5, <1>6, <1>7, <1>8, <1>9, <1>10 DEF PostNext

(* The polls of Facebook (Handle.pm) show a post or a comment once, and    *)
(* take none for seen that was not shown, in whatever order the answers to *)
(* overlapping polls come.                                                 *)
THEOREM PostsStayInOrder == PostsSpec => []PostsAreShownOnce
<1>1. PostInv => PostsAreShownOnce  BY DEF PostInv
<1>. QED  BY <1>1, PostsStart, PostsStep, PTL DEF PostsSpec

-----------------------------------------------------------------------------
(* Jabber: the table of connections.                                       *)
Places == 0 .. Cardinality(Accounts)

Conns == [status : {"absent", "available", "reconnecting"}, fileno : Places, sock : Places,
          mucs : SUBSET Rooms]

Networks == [broken : SUBSET Accounts, up : BOOLEAN, joined : [Accounts -> SUBSET Rooms],
             breaks : Nat, done : Nat, cancelled : BOOLEAN, unasked : BOOLEAN, tick : BOOLEAN]

TableRecords == [conn : [Accounts -> Conns], dispatch : [Fds -> SUBSET Accounts], timer : BOOLEAN,
                 network : Networks]

ConnIsSound(c) ==
  /\ c.status = "available" => c.sock = c.fileno /\ c.sock \in Fds
  /\ c.status # "available" => c.sock = 0
  /\ c.status = "absent" => c = Absent

(* A connection is served by its socket only, and sockets are its own.     *)
TableIsSound(t) ==
  /\ \A f \in Fds : \A a \in t.dispatch[f] : t.conn[a].status = "available" /\ t.conn[a].sock = f
  /\ \A a \in Accounts : ConnIsSound(t.conn[a])
  /\ \A a, b \in Accounts :
       t.conn[a].status = "available" /\ t.conn[b].status = "available" /\ a # b
         => t.conn[a].sock # t.conn[b].sock
  /\ \A a \in Accounts : t.conn[a].status # "absent" => t.timer
  /\ \A a \in Accounts :
       t.conn[a].status = "available" => t.conn[a].mucs \ Locked \subseteq t.network.joined[a]
  /\ \A a \in t.network.broken : t.conn[a].status = "available"

Tables == {t \in TableRecords : TableIsSound(t)}

(* A table with the entry of one account replaced.                         *)
WithEntry(t, a, c, d, timer, n) ==
  [conn |-> [t.conn EXCEPT ![a] = c], dispatch |-> d, timer |-> timer, network |-> n]

Undispatched(t, a) ==
  IF t.conn[a].fileno = 0 THEN t.dispatch ELSE [t.dispatch EXCEPT ![t.conn[a].fileno] = Nobody]

HasEntry(u, t, a, c, d, timer, n) ==
  /\ u \in TableRecords /\ u.conn[a] = c /\ \A b \in Accounts : b # a => u.conn[b] = t.conn[b]
  /\ u.dispatch = d /\ u.timer = timer /\ u.network = n

LEMMA EntryForm ==
  ASSUME NEW t \in TableRecords, NEW a \in Accounts, NEW c \in Conns, NEW d \in [Fds -> SUBSET Accounts],
         NEW timer \in BOOLEAN, NEW n \in Networks
  PROVE  HasEntry(WithEntry(t, a, c, d, timer, n), t, a, c, d, timer, n)
<1>. DEFINE u == WithEntry(t, a, c, d, timer, n)
<1>1. PICK k \in [Accounts -> Conns] : k = [t.conn EXCEPT ![a] = c]  BY DEF TableRecords
<1>2. k[a] = c /\ \A b \in Accounts : b # a => k[b] = t.conn[b]  BY <1>1 DEF TableRecords
<1>3. u = [conn |-> k, dispatch |-> d, timer |-> timer, network |-> n]  BY <1>1 DEF WithEntry
<1>. HIDE DEF u
<1>4. /\ u \in TableRecords /\ u.conn[a] = c /\ \A b \in Accounts : b # a => u.conn[b] = t.conn[b]
      /\ u.dispatch = d /\ u.timer = timer /\ u.network = n
  BY <1>2, <1>3 DEF TableRecords
<1>. QED  BY <1>4 DEF HasEntry, u

LEMMA LeavingKeeps ==
  ASSUME NEW t \in Tables, NEW a \in Accounts, NEW c \in Conns, ConnIsSound(c), c.status # "available",
         c.status = "absent" \/ t.conn[a].status # "absent",
         NEW n \in Networks, \A b \in Accounts : b # a => n.joined[b] = t.network.joined[b],
         n.broken \subseteq t.network.broken \ {a},
         NEW u, u = WithEntry(t, a, c, Undispatched(t, a), t.timer, n)
  PROVE  u \in Tables
<1>1. t \in TableRecords /\ TableIsSound(t)  BY DEF Tables
<1>2. t.conn[a] \in Conns /\ t.timer \in BOOLEAN /\ t.dispatch \in [Fds -> SUBSET Accounts]
  BY <1>1 DEF TableRecords
<1>3. PICK d : d = Undispatched(t, a)  OBVIOUS
<1>4. d \in [Fds -> SUBSET Accounts]  BY <1>2, <1>3 DEF Undispatched, Nobody
<1>5. \A f \in Fds : d[f] \subseteq t.dispatch[f] /\ a \notin d[f]
  <2>1. ASSUME NEW f \in Fds PROVE d[f] \subseteq t.dispatch[f] /\ a \notin d[f]
    <3>1. CASE t.conn[a].fileno = f
      <4>1. f # 0  BY DEF Fds
      <4>2. d[f] = {}  BY <1>2, <1>3, <3>1, <4>1 DEF Undispatched, Nobody
      <4>. QED  BY <4>2
    <3>2. CASE t.conn[a].fileno # f
      <4>1. d[f] = t.dispatch[f]  BY <1>2, <1>3, <3>2 DEF Undispatched
      <4>2. a \in t.dispatch[f] => t.conn[a].status = "available" /\ t.conn[a].sock = f
        BY <1>1 DEF TableIsSound
      <4>3. t.conn[a].status = "available" => t.conn[a].sock = t.conn[a].fileno
        BY <1>1 DEF TableIsSound, ConnIsSound
      <4>. QED  BY <3>2, <4>1, <4>2, <4>3
    <3>. QED  BY <3>1, <3>2
  <2>. QED  BY <2>1
<1>6. /\ u \in TableRecords /\ u.conn[a] = c /\ \A b \in Accounts : b # a => u.conn[b] = t.conn[b]
      /\ u.dispatch = d /\ u.timer = t.timer /\ u.network = n
  BY <1>1, <1>2, <1>3, <1>4, EntryForm DEF HasEntry
<1>7. ASSUME NEW f \in Fds, NEW b \in u.dispatch[f] PROVE u.conn[b].status = "available" /\ u.conn[b].sock = f
  <2>1. b \in t.dispatch[f] /\ b # a /\ b \in Accounts  BY <1>2, <1>5, <1>6, <1>7
  <2>. QED  BY <1>1, <1>6, <2>1 DEF TableIsSound
<1>8. \A b \in Accounts : ConnIsSound(u.conn[b])  BY <1>1, <1>6 DEF TableIsSound
<1>9. \A b \in Accounts : u.conn[b].status = "available" => b # a /\ u.conn[b] = t.conn[b]  BY <1>6
<1>10. \A x, b \in Accounts :
       u.conn[x].status = "available" /\ u.conn[b].status = "available" /\ x # b
         => u.conn[x].sock # u.conn[b].sock
  BY <1>1, <1>9 DEF TableIsSound
<1>11. \A b \in Accounts : u.conn[b].status # "absent" => u.timer  BY <1>1, <1>6 DEF TableIsSound
<1>12. \A b \in Accounts :
       u.conn[b].status = "available" => u.conn[b].mucs \ Locked \subseteq u.network.joined[b]
  BY <1>1, <1>6, <1>9 DEF TableIsSound
<1>14. \A b \in u.network.broken : u.conn[b].status = "available"
  <2>1. ASSUME NEW b \in u.network.broken PROVE u.conn[b].status = "available"
    <3>1. b \in t.network.broken /\ b # a /\ b \in Accounts  BY <1>6, <2>1 DEF Networks
    <3>2. t.conn[b].status = "available"  BY <1>1, <3>1 DEF TableIsSound
    <3>. QED  BY <1>6, <3>1, <3>2
  <2>. QED  BY <2>1
<1>13. TableIsSound(u)  BY <1>7, <1>8, <1>10, <1>11, <1>12, <1>14 DEF TableIsSound
<1>. QED  BY <1>6, <1>13 DEF Tables

(* A free number.                                                          *)
LEMMA FreeFd ==
  ASSUME NEW t \in Tables, NEW a \in Accounts, t.conn[a].status # "available"
  PROVE  NewFd(t) \in Fds /\ \A b \in Accounts : t.conn[b].sock # NewFd(t)
<1>. DEFINE taken == {t.conn[b].sock : b \in Accounts}
<1>1. PICK n \in Nat : n = Cardinality(Accounts)  BY AccountsAssumption, FS_CardinalityType
<1>2. IsFiniteSet(Fds) /\ Cardinality(Fds) = n  BY <1>1, FS_Interval DEF Fds
<1>3. IsFiniteSet(Accounts \ {a}) /\ Cardinality(Accounts \ {a}) = n - 1
  BY <1>1, AccountsAssumption, FS_RemoveElement
<1>4. t.conn[a].sock = 0  BY DEF Tables, TableIsSound, ConnIsSound
<1>5. Fds \ taken # {}
  <2>1. SUFFICES ASSUME Fds \subseteq taken PROVE FALSE  OBVIOUS
  <2>2. PICK g : g = [f \in Fds |-> CHOOSE b \in Accounts : t.conn[b].sock = f]  OBVIOUS
  <2>3. \A f \in Fds : g[f] \in Accounts /\ t.conn[g[f]].sock = f  BY <2>1, <2>2
  <2>4. \A f \in Fds : g[f] \in Accounts \ {a}
    <3>1. \A f \in Fds : f # 0  BY DEF Fds
    <3>. QED  BY <1>4, <2>3, <3>1
  <2>5. g \in Injection(Fds, Accounts \ {a})
    <3>1. g \in [Fds -> Accounts \ {a}]  BY <2>2, <2>4
    <3>2. \A f, h \in Fds : g[f] = g[h] => f = h  BY <2>3
    <3>. QED  BY <3>1, <3>2 DEF Injection, IsInjective
  <2>6. n <= n - 1  BY <1>2, <1>3, <2>5, FS_Injection
  <2>. QED  BY <2>6
<1>6. NewFd(t) \in Fds \ taken
  <2>. HIDE DEF taken
  <2>6. Fds \subseteq Nat  BY DEF Fds
  <2>1. PICK T \in SUBSET Nat : T = Fds \ taken /\ T # {}  BY <1>5, <2>6
  <2>2. PICK m \in T : \A k \in T : m <= k  BY <2>1, LeastNumber
  <2>3. PICK least : least = CHOOSE x \in T : \A y \in T : x <= y  OBVIOUS
  <2>4. least \in T  BY <2>2, <2>3
  <2>5. Min(T) = least  BY <2>3 DEF Min
  <2>7. T = Fds \ {t.conn[b].sock : b \in Accounts}  BY <2>1 DEF taken
  <2>. QED  BY <2>1, <2>4, <2>5, <2>7 DEF NewFd
<1>. QED  BY <1>6

CutOff(n, a) == [n EXCEPT !.broken = @ \ {a}, !.joined[a] = {}]

LEMMA CutOffForm ==
  ASSUME NEW n \in Networks, NEW a \in Accounts
  PROVE  /\ CutOff(n, a) \in Networks
         /\ \A b \in Accounts : b # a => CutOff(n, a).joined[b] = n.joined[b]
         /\ CutOff(n, a).broken = n.broken \ {a}
         /\ CutOff(n, a).unasked = n.unasked /\ CutOff(n, a).cancelled = n.cancelled
<1>1. PICK m : m = CutOff(n, a)  OBVIOUS
<1>2. PICK j \in [Accounts -> SUBSET Rooms] : j = [n.joined EXCEPT ![a] = {}]  BY DEF Networks
<1>3. PICK k \in Networks : k = [n EXCEPT !.broken = @ \ {a}]  BY DEF Networks
<1>4. m = [k EXCEPT !.joined = j]  BY <1>1, <1>2, <1>3 DEF CutOff, Networks
<1>5. \A b \in Accounts : b # a => j[b] = n.joined[b]  BY <1>2 DEF Networks
<1>6. k.unasked = n.unasked /\ k.cancelled = n.cancelled /\ k.broken = n.broken \ {a}  BY <1>3 DEF Networks
<1>7. m \in Networks /\ m.joined = j /\ m.broken = k.broken /\ m.unasked = k.unasked /\ m.cancelled = k.cancelled
  BY <1>4 DEF Networks
<1>. QED  BY <1>1, <1>5, <1>6, <1>7

LEMMA HungForm ==
  ASSUME NEW t \in TableRecords, NEW a \in Accounts
  PROVE  Hung(t, a) = WithEntry(t, a, [t.conn[a] EXCEPT !.sock = 0], t.dispatch, t.timer,
                               CutOff(t.network, a))
<1>1. PICK k, d, timer, n : t = [conn |-> k, dispatch |-> d, timer |-> timer, network |-> n]
  BY DEF TableRecords
<1>2. k \in [Accounts -> Conns] /\ n \in Networks  BY <1>1 DEF TableRecords
<1>3. PICK k1 : k1 = [k EXCEPT ![a] = [k[a] EXCEPT !.sock = 0]]  OBVIOUS
<1>4. PICK n1 : n1 = CutOff(n, a)  OBVIOUS
<1>5. Hung(t, a) = [conn |-> k1, dispatch |-> d, timer |-> timer, network |-> n1]
  <2>1. PICK n2 : n2 = [n EXCEPT !.broken = @ \ {a}]  OBVIOUS
  <2>2. n1 = [n2 EXCEPT !.joined[a] = {}]  BY <1>2, <1>4, <2>1 DEF CutOff, Networks
  <2>3. PICK t1 : t1 = [t EXCEPT !.conn[a].sock = 0]  OBVIOUS
  <2>4. t1 = [conn |-> k1, dispatch |-> d, timer |-> timer, network |-> n]
    BY <1>1, <1>3, <2>3
  <2>5. PICK t2 : t2 = [t1 EXCEPT !.network.broken = @ \ {a}]  OBVIOUS
  <2>6. t2 = [conn |-> k1, dispatch |-> d, timer |-> timer, network |-> n2]
    BY <2>1, <2>4, <2>5
  <2>7. Hung(t, a) = [t2 EXCEPT !.network.joined[a] = {}]  BY <2>3, <2>5, Zenon DEF Hung
  <2>. QED  BY <2>2, <2>6, <2>7
<1>. QED  BY <1>1, <1>3, <1>4, <1>5 DEF WithEntry

LEMMA DispatchForm ==
  ASSUME NEW t \in TableRecords, NEW a \in Accounts
  PROVE  RemoveDispatch(t, a) = [conn |-> t.conn, dispatch |-> Undispatched(t, a), timer |-> t.timer,
                                 network |-> t.network]
<1>1. PICK k, d, timer, n : t = [conn |-> k, dispatch |-> d, timer |-> timer, network |-> n]
  BY DEF TableRecords
<1>. QED  BY <1>1 DEF RemoveDispatch, Undispatched

(* What becomes of a table where no attempt to log in is made: no account  *)
(* is listed that was not, and nothing has gone wrong with a password.     *)
Passing(t, u) ==
  /\ u \in Tables
  /\ u.network.unasked = t.network.unasked /\ u.network.cancelled = t.network.cancelled
  /\ \A a \in Accounts : t.conn[a].status = "absent" => u.conn[a].status = "absent"

LEMMA LeavingPasses ==
  ASSUME NEW t \in Tables, NEW a \in Accounts, NEW c \in Conns, ConnIsSound(c), c.status # "available",
         c.status = "absent" \/ t.conn[a].status # "absent",
         NEW n \in Networks, \A b \in Accounts : b # a => n.joined[b] = t.network.joined[b],
         n.broken \subseteq t.network.broken \ {a},
         n.unasked = t.network.unasked, n.cancelled = t.network.cancelled
  PROVE  Passing(t, WithEntry(t, a, c, Undispatched(t, a), t.timer, n))
<1>1. t \in TableRecords  BY DEF Tables
<1>2. t.timer \in BOOLEAN /\ Undispatched(t, a) \in [Fds -> SUBSET Accounts]
  BY <1>1 DEF TableRecords, Undispatched, Nobody
<1>3. PICK u : u = WithEntry(t, a, c, Undispatched(t, a), t.timer, n)  OBVIOUS
<1>4. HasEntry(u, t, a, c, Undispatched(t, a), t.timer, n)  BY <1>1, <1>2, <1>3, EntryForm, Zenon
<1>5. u \in Tables  BY <1>3, LeavingKeeps
<1>6. u.network = n /\ \A b \in Accounts : t.conn[b].status = "absent" => u.conn[b].status = "absent"
  BY <1>4 DEF HasEntry
<1>. QED  BY <1>3, <1>5, <1>6 DEF Passing

LEMMA RemovalKeeps ==
  ASSUME NEW t \in Tables, NEW a \in Accounts
  PROVE  Passing(t, RemoveConnection(t, a))
<1>1. t \in TableRecords  BY DEF Tables
<1>2. PICK r : r = RemoveDispatch(t, a)  OBVIOUS
<1>3. Absent \in Conns /\ ConnIsSound(Absent) /\ Absent.status = "absent"
  BY AccountsAssumption, FS_CardinalityType DEF Absent, Conns, ConnIsSound, Places
<1>4. PICK d \in [Fds -> SUBSET Accounts] : d = Undispatched(t, a)
  BY <1>1 DEF Undispatched, Nobody, TableRecords
<1>5. r = [conn |-> t.conn, dispatch |-> d, timer |-> t.timer, network |-> t.network]
  BY <1>1, <1>2, <1>4, DispatchForm
<1>6. r \in TableRecords  BY <1>1, <1>5 DEF TableRecords
<1>7. PICK n \in Networks : 
        /\ n = CutOff(t.network, a) /\ n.broken = t.network.broken \ {a}
        /\ n.unasked = t.network.unasked /\ n.cancelled = t.network.cancelled
        /\ \A b \in Accounts : b # a => n.joined[b] = t.network.joined[b]
  BY <1>1, CutOffForm DEF TableRecords
<1>8. PICK k : k = [t.conn EXCEPT ![a] = [t.conn[a] EXCEPT !.sock = 0]]  OBVIOUS
<1>9. Hung(r, a) = [conn |-> k, dispatch |-> d, timer |-> t.timer, network |-> n]
  BY <1>5, <1>6, <1>7, <1>8, HungForm DEF WithEntry
<1>10. RemoveConnection(t, a) = [conn |-> [k EXCEPT ![a] = Absent], dispatch |-> d, timer |-> t.timer, network |-> n]
  BY <1>2, <1>9 DEF RemoveConnection
<1>11. [k EXCEPT ![a] = Absent] = [t.conn EXCEPT ![a] = Absent]  BY <1>1, <1>8 DEF TableRecords
<1>12. RemoveConnection(t, a) = WithEntry(t, a, Absent, Undispatched(t, a), t.timer, n)
  BY <1>4, <1>10, <1>11 DEF WithEntry
<1>. QED  BY <1>3, <1>7, <1>12, LeavingPasses

LEMMA ReconnectKeeps ==
  ASSUME NEW t \in Tables, NEW a \in Accounts, t.conn[a].status = "available"
  PROVE  Passing(t, ScheduleReconnect(t, a))
<1>1. t \in TableRecords  BY DEF Tables
<1>2. PICK r : r = RemoveDispatch(t, a)  OBVIOUS
<1>3. CASE ~AutoReconnect  BY <1>3, RemovalKeeps DEF ScheduleReconnect
<1>4. CASE AutoReconnect
  <2>4. PICK d \in [Fds -> SUBSET Accounts] : d = Undispatched(t, a)
    BY <1>1 DEF Undispatched, Nobody, TableRecords
  <2>5. r = [conn |-> t.conn, dispatch |-> d, timer |-> t.timer, network |-> t.network]
    BY <1>1, <1>2, <2>4, DispatchForm
  <2>6. r \in TableRecords  BY <1>1, <2>5 DEF TableRecords
  <2>7. PICK n \in Networks : 
        /\ n = CutOff(t.network, a) /\ n.broken = t.network.broken \ {a}
        /\ n.unasked = t.network.unasked /\ n.cancelled = t.network.cancelled
        /\ \A b \in Accounts : b # a => n.joined[b] = t.network.joined[b]
    BY <1>1, CutOffForm DEF TableRecords
  <2>8. PICK k : k = [t.conn EXCEPT ![a] = [t.conn[a] EXCEPT !.sock = 0]]  OBVIOUS
  <2>9. Hung(r, a) = [conn |-> k, dispatch |-> d, timer |-> t.timer, network |-> n]
    BY <2>5, <2>6, <2>7, <2>8, HungForm DEF WithEntry
  <2>10. PICK c : c = [t.conn[a] EXCEPT !.sock = 0, !.status = "reconnecting"]  OBVIOUS
  <2>11. ScheduleReconnect(t, a) = [conn |-> [t.conn EXCEPT ![a] = c], dispatch |-> d, timer |-> t.timer, network |-> n]
    <3>1. t.conn \in [Accounts -> Conns]  BY <1>1 DEF TableRecords
    <3>2. k[a] = [t.conn[a] EXCEPT !.sock = 0]  BY <2>8, <3>1
    <3>3. [k[a] EXCEPT !.status = "reconnecting"] = c  BY <2>10, <3>1, <3>2 DEF Conns
    <3>4. [k EXCEPT ![a].status = "reconnecting"] = [t.conn EXCEPT ![a] = c]
      BY <2>8, <3>1, <3>3
    <3>. QED  BY <1>2, <1>4, <2>9, <3>4 DEF ScheduleReconnect
  <2>12. c \in Conns /\ c.status = "reconnecting" /\ c.sock = 0
    <3>1. PICK x \in Conns : x = t.conn[a]  BY <1>1 DEF TableRecords
    <3>2. PICK n1, n2, n3, n4 : x = [status |-> n1, fileno |-> n2, sock |-> n3, mucs |-> n4]
      BY DEF Conns
    <3>3. c = [status |-> "reconnecting", fileno |-> n2, sock |-> 0, mucs |-> n4]
      <4>1. PICK y : y = [x EXCEPT !.sock = 0]  OBVIOUS
      <4>2. y = [status |-> n1, fileno |-> n2, sock |-> 0, mucs |-> n4]  BY <3>2, <4>1
      <4>3. c = [y EXCEPT !.status = "reconnecting"]  BY <2>10, <3>1, <4>1
      <4>. QED  BY <4>2, <4>3
    <3>4. 0 \in Places  BY AccountsAssumption, FS_CardinalityType DEF Places
    <3>. QED  BY <3>2, <3>3, <3>4 DEF Conns
  <2>13. ConnIsSound(c)  BY <2>12 DEF ConnIsSound
  <2>14. ScheduleReconnect(t, a) = WithEntry(t, a, c, Undispatched(t, a), t.timer, n)
    BY <2>4, <2>11 DEF WithEntry
  <2>. QED  BY <2>7, <2>12, <2>13, <2>14, LeavingPasses
<1>. QED  BY <1>3, <1>4

(* A connection is made: its socket is one that nobody had.                *)
LEMMA EntryArrives ==
  ASSUME NEW t \in Tables, NEW a \in Accounts, NEW c \in Conns, t.conn[a].status # "available",
         c.status = "available", c.sock = NewFd(t), c.fileno = NewFd(t),
         NEW n \in Networks, \A b \in Accounts : b # a => n.joined[b] = t.network.joined[b],
         c.mucs \ Locked \subseteq n.joined[a], n.broken \subseteq t.network.broken,
         NEW u, u = WithEntry(t, a, c, [t.dispatch EXCEPT ![NewFd(t)] = {a}], TRUE, n)
  PROVE  u \in Tables
<1>1. t \in TableRecords /\ TableIsSound(t)  BY DEF Tables
<1>2. PICK f \in Fds : f = NewFd(t) /\ \A b \in Accounts : t.conn[b].sock # f  BY FreeFd
<1>3. t.conn \in [Accounts -> Conns] /\ t.dispatch \in [Fds -> SUBSET Accounts]  BY <1>1 DEF TableRecords
<1>4. PICK d \in [Fds -> SUBSET Accounts] : d = [t.dispatch EXCEPT ![f] = {a}]  BY <1>3
<1>5. /\ u \in TableRecords /\ u.conn[a] = c /\ \A b \in Accounts : b # a => u.conn[b] = t.conn[b]
      /\ u.dispatch = d /\ u.network = n /\ u.timer
  <2>1. PICK yes \in BOOLEAN : yes = TRUE  OBVIOUS
  <2>2. u = WithEntry(t, a, c, d, yes, n)  BY <1>2, <1>4, <2>1
  <2>3. HasEntry(u, t, a, c, d, yes, n)  BY <1>1, <2>2, EntryForm, Zenon
  <2>5. u.timer  BY <2>1, <2>3 DEF HasEntry
  <2>. QED  BY <2>3, <2>5 DEF HasEntry
<1>13. d[f] = {a} /\ \A g \in Fds : g # f => d[g] = t.dispatch[g]  BY <1>3, <1>4
<1>6. c.sock = f /\ c.fileno = f  BY <1>2
<1>7. ASSUME NEW g \in Fds, NEW b \in u.dispatch[g]
      PROVE  u.conn[b].status = "available" /\ u.conn[b].sock = g
  <2>1. CASE g = f
    <3>2. u.dispatch[g] = {a}  BY <1>5, <1>13, <2>1, Zenon
    <3>1. b = a  BY <1>7, <3>2
    <3>. QED  BY <1>5, <1>6, <2>1, <3>1
  <2>2. CASE g # f
    <3>1. b \in t.dispatch[g]  BY <1>5, <1>7, <1>13, <2>2
    <3>2. b \in Accounts /\ t.conn[b].status = "available" /\ t.conn[b].sock = g
      BY <1>1, <1>3, <3>1 DEF TableIsSound
    <3>. QED  BY <1>5, <3>2
  <2>. QED  BY <2>1, <2>2
<1>8. ConnIsSound(c)  BY <1>6 DEF ConnIsSound
<1>16. u.conn[a] = c /\ \A b \in Accounts : b # a => u.conn[b] = t.conn[b]  BY <1>5
<1>9. ASSUME NEW b \in Accounts PROVE ConnIsSound(u.conn[b])
  <2>1. ConnIsSound(t.conn[b])  BY <1>1 DEF TableIsSound
  <2>2. CASE b = a  BY <1>8, <1>16, <2>2
  <2>3. CASE b # a
    <3>1. u.conn[b] = t.conn[b]  BY <1>16, <2>3
    <3>. QED  BY <2>1, <3>1
  <2>. QED  BY <2>2, <2>3
<1>10. ASSUME NEW x \in Accounts, NEW b \in Accounts, x # b,
              u.conn[x].status = "available", u.conn[b].status = "available"
       PROVE  u.conn[x].sock # u.conn[b].sock
  <2>1. CASE x = a
    <3>1. u.conn[x].sock = f  BY <1>6, <1>16, <2>1
    <3>2. u.conn[b] = t.conn[b]  BY <1>10, <1>16, <2>1
    <3>3. t.conn[b].sock # f  BY <1>2
    <3>. QED  BY <3>1, <3>2, <3>3
  <2>2. CASE b = a
    <3>1. u.conn[b].sock = f  BY <1>6, <1>16, <2>2
    <3>2. u.conn[x] = t.conn[x]  BY <1>10, <1>16, <2>2
    <3>3. t.conn[x].sock # f  BY <1>2
    <3>. QED  BY <3>1, <3>2, <3>3
  <2>3. CASE x # a /\ b # a
    <3>1. u.conn[x] = t.conn[x] /\ u.conn[b] = t.conn[b]  BY <1>5, <2>3
    <3>2. t.conn[x].status = "available" /\ t.conn[b].status = "available"  BY <1>10, <3>1
    <3>3. t.conn[x].sock # t.conn[b].sock  BY <1>1, <1>10, <3>2 DEF TableIsSound
    <3>. QED  BY <3>1, <3>3
  <2>. QED  BY <2>1, <2>2, <2>3
<1>11. ASSUME NEW b \in Accounts, u.conn[b].status = "available"
       PROVE  u.conn[b].mucs \ Locked \subseteq u.network.joined[b]
  <2>1. CASE b = a  BY <1>5, <2>1
  <2>2. CASE b # a
    <3>1. u.conn[b] = t.conn[b] /\ u.network.joined[b] = t.network.joined[b]  BY <1>5, <2>2
    <3>2. t.conn[b].status = "available" => t.conn[b].mucs \ Locked \subseteq t.network.joined[b]
      BY <1>1 DEF TableIsSound
    <3>. QED  BY <1>11, <3>1, <3>2
  <2>. QED  BY <2>1, <2>2
<1>14. \A b \in u.network.broken : u.conn[b].status = "available"
  <2>1. ASSUME NEW b \in u.network.broken PROVE u.conn[b].status = "available"
    <3>1. b \in t.network.broken /\ b \in Accounts  BY <1>5, <2>1 DEF Networks
    <3>2. t.conn[b].status = "available"  BY <1>1, <3>1 DEF TableIsSound
    <3>3. b # a  BY <3>2
    <3>. QED  BY <1>5, <3>1, <3>2, <3>3
  <2>. QED  BY <2>1
<1>12. TableIsSound(u)  BY <1>5, <1>7, <1>9, <1>10, <1>11, <1>14 DEF TableIsSound
<1>. QED  BY <1>5, <1>12 DEF Tables

(* The entry of an account that is connected anew.                         *)
Arrived(t, a) == [status |-> "available", fileno |-> NewFd(t), sock |-> NewFd(t), mucs |-> t.conn[a].mucs]

LEMMA OnConnectForm ==
  ASSUME NEW t \in Tables, NEW a \in Accounts, t.conn[a].status # "available"
  PROVE  /\ Arrived(t, a) \in Conns
         /\ OnConnect(t, a) = WithEntry(t, a, Arrived(t, a), [t.dispatch EXCEPT ![NewFd(t)] = {a}], TRUE,
                                       t.network)
<1>1. t \in TableRecords  BY DEF Tables
<1>2. PICK f \in Fds : f = NewFd(t)  BY FreeFd
<1>3. f \in Places  BY <1>2 DEF Places, Fds
<1>4. PICK k, d, timer, n : t = [conn |-> k, dispatch |-> d, timer |-> timer, network |-> n]
  BY <1>1 DEF TableRecords
<1>5. k \in [Accounts -> Conns]  BY <1>1, <1>4 DEF TableRecords
<1>6. PICK n1, n2, n3, n4 : k[a] = [status |-> n1, fileno |-> n2, sock |-> n3, mucs |-> n4] /\ n4 \in SUBSET Rooms
  BY <1>5 DEF Conns
<1>7. PICK c : c = [status |-> "available", fileno |-> f, sock |-> f, mucs |-> n4]  OBVIOUS
<1>8. c = Arrived(t, a)  BY <1>2, <1>4, <1>6, <1>7 DEF Arrived
<1>9. c \in Conns  BY <1>3, <1>6, <1>7 DEF Conns
<1>10. PICK t1 : t1 = [t EXCEPT !.conn[a].status = "available"]  OBVIOUS
<1>11. PICK k1 : k1 = [k EXCEPT ![a] = [status |-> "available", fileno |-> n2, sock |-> n3, mucs |-> n4]]
  OBVIOUS
<1>12. t1 = [conn |-> k1, dispatch |-> d, timer |-> timer, network |-> n]
  BY <1>4, <1>5, <1>6, <1>10, <1>11
<1>13. PICK t2 : t2 = [t1 EXCEPT !.conn[a].sock = f]  OBVIOUS
<1>14. PICK k2 : k2 = [k EXCEPT ![a] = [status |-> "available", fileno |-> n2, sock |-> f, mucs |-> n4]]
  OBVIOUS
<1>15. t2 = [conn |-> k2, dispatch |-> d, timer |-> timer, network |-> n]
  BY <1>5, <1>11, <1>12, <1>13, <1>14
<1>16. PICK t3 : t3 = [t2 EXCEPT !.conn[a].fileno = f]  OBVIOUS
<1>17. PICK k3 : k3 = [k EXCEPT ![a] = c]  OBVIOUS
<1>18. t3 = [conn |-> k3, dispatch |-> d, timer |-> timer, network |-> n]
  BY <1>5, <1>7, <1>14, <1>15, <1>16, <1>17
<1>19. OnConnect(t, a) = [t3 EXCEPT !.dispatch[f] = {a}, !.timer = TRUE]
  BY <1>2, <1>10, <1>13, <1>16, Zenon DEF OnConnect
<1>20. OnConnect(t, a) = [conn |-> k3, dispatch |-> [d EXCEPT ![f] = {a}], timer |-> TRUE, network |-> n]
  BY <1>18, <1>19
<1>. QED  BY <1>2, <1>4, <1>8, <1>9, <1>17, <1>20 DEF WithEntry

LEMMA TryPasses ==
  ASSUME NEW t \in Tables, NEW a \in Accounts, NEW outcome \in {"ok", "refused", "unreachable"}
  PROVE  Passing(t, TryReconnect(t, a, outcome))
<1>1. t \in TableRecords  BY DEF Tables
<1>2. Passing(t, t)  BY DEF Passing
<1>3. CASE t.conn[a].status # "reconnecting" \/ outcome = "unreachable"
  BY <1>2, <1>3 DEF TryReconnect
<1>4. CASE t.conn[a].status = "reconnecting" /\ outcome = "refused"
  BY <1>4, RemovalKeeps DEF TryReconnect
<1>5. CASE t.conn[a].status = "reconnecting" /\ outcome = "ok"
  <2>1. PICK o : o = OnConnect(t, a)  OBVIOUS
  <2>2. PICK rooms : rooms = t.conn[a].mucs \ Locked  OBVIOUS
  <2>3. TryReconnect(t, a, outcome) = [o EXCEPT !.network.joined[a] = rooms]
    BY <1>5, <2>1, <2>2 DEF TryReconnect
  <2>4. PICK c \in Conns : /\ c = Arrived(t, a) /\ c.status = "available" /\ c.mucs = t.conn[a].mucs
                          /\ c.sock = NewFd(t) /\ c.fileno = NewFd(t)
    BY <1>5, OnConnectForm DEF Arrived
  <2>5. PICK d : d = [t.dispatch EXCEPT ![NewFd(t)] = {a}]  OBVIOUS
  <2>6. o = [conn |-> [t.conn EXCEPT ![a] = c], dispatch |-> d, timer |-> TRUE, network |-> t.network]
    BY <1>5, <2>1, <2>4, <2>5, OnConnectForm DEF WithEntry
  <2>7. PICK n : n = [t.network EXCEPT !.joined[a] = rooms]  OBVIOUS
  <2>8. TryReconnect(t, a, outcome)
          = [conn |-> [t.conn EXCEPT ![a] = c], dispatch |-> d, timer |-> TRUE, network |-> n]
    BY <2>3, <2>6, <2>7
  <2>9. rooms \in SUBSET Rooms
    <3>1. t.conn[a] \in Conns  BY <1>1 DEF TableRecords
    <3>. QED  BY <2>2, <3>1 DEF Conns
  <2>10. /\ n \in Networks /\ n.joined[a] = rooms /\ n.broken = t.network.broken
         /\ n.unasked = t.network.unasked /\ n.cancelled = t.network.cancelled
         /\ \A b \in Accounts : b # a => n.joined[b] = t.network.joined[b]
    <3>1. PICK m \in Networks : m = t.network  BY <1>1 DEF TableRecords
    <3>2. PICK j \in [Accounts -> SUBSET Rooms] : j = [m.joined EXCEPT ![a] = rooms]  BY <2>9 DEF Networks
    <3>3. n = [m EXCEPT !.joined = j]  BY <2>7, <3>1, <3>2 DEF Networks
    <3>4. j[a] = rooms /\ \A b \in Accounts : b # a => j[b] = m.joined[b]  BY <3>2 DEF Networks
    <3>5. /\ n \in Networks /\ n.joined = j /\ n.broken = m.broken
          /\ n.unasked = m.unasked /\ n.cancelled = m.cancelled
      BY <3>3 DEF Networks
    <3>. QED  BY <3>1, <3>4, <3>5
  <2>11. PICK u : u = TryReconnect(t, a, outcome)  OBVIOUS
  <2>12. u = WithEntry(t, a, c, [t.dispatch EXCEPT ![NewFd(t)] = {a}], TRUE, n)
    BY <2>5, <2>8, <2>11 DEF WithEntry
  <2>13. t.conn[a].status # "available"  BY <1>5
  <2>14. c.mucs \ Locked \subseteq n.joined[a] /\ n.broken \subseteq t.network.broken
    BY <2>2, <2>4, <2>10
  <2>15. u \in Tables  BY <2>4, <2>10, <2>12, <2>13, <2>14, EntryArrives
  <2>16. /\ u.network.unasked = t.network.unasked /\ u.network.cancelled = t.network.cancelled
         /\ u.conn = [t.conn EXCEPT ![a] = c]
    BY <2>8, <2>10, <2>11
  <2>17. \A b \in Accounts : t.conn[b].status = "absent" => u.conn[b].status = "absent"
    <3>1. ASSUME NEW b \in Accounts, t.conn[b].status = "absent" PROVE u.conn[b].status = "absent"
      <4>1. b # a  BY <1>5, <3>1
      <4>2. u.conn[b] = t.conn[b]  BY <1>1, <2>16, <4>1 DEF TableRecords
      <4>. QED  BY <3>1, <4>2
    <3>. QED  BY <3>1
  <2>. QED  BY <2>11, <2>15, <2>16, <2>17 DEF Passing
<1>. QED  BY <1>3, <1>4, <1>5

LEMMA ProcessPasses ==
  ASSUME NEW t \in Tables, NEW a \in Accounts
  PROVE  Passing(t, JabberProcess(t, a))
<1>1. Passing(t, t)  BY DEF Passing
<1>2. a \in t.network.broken => t.conn[a].status = "available"  BY DEF Tables, TableIsSound
<1>. QED  BY <1>1, <1>2, ReconnectKeeps DEF JabberProcess

LEMMA PassesOn ==
  ASSUME NEW t, NEW u, NEW w, Passing(t, u), Passing(u, w)
  PROVE  Passing(t, w)
BY DEF Passing

LEMMA OrderForm ==
  ASSUME NEW S, NEW order \in SetToSeqs(S), IsFiniteSet(S)
  PROVE  Len(order) \in Nat /\ \A k \in 1 .. Len(order) : order[k] \in S
<1>1. PICK n \in Nat : n = Cardinality(S)  BY FS_CardinalityType
<1>2. order \in [1 .. n -> S]  BY <1>1 DEF SetToSeqs
<1>3. order \in Seq(S)  BY <1>2, SeqDef
<1>4. Len(order) = n  BY <1>2, <1>3, LenProperties
<1>. QED  BY <1>2, <1>4

LEMMA RemovingPasses ==
  ASSUME NEW t \in Tables, NEW S \in SUBSET Accounts, NEW order \in SetToSeqs(S)
  PROVE  Passing(t, RemovedInTurn(order, t))
<1>. DEFINE V == {u \in Tables : Passing(t, u)}
            n == Len(order)
            Step(g, k) == IF k = 0 THEN t ELSE RemoveConnection(g[k - 1], order[k])
<1>1. n \in Nat /\ \A k \in 1 .. n : order[k] \in Accounts
  <2>1. IsFiniteSet(S)  BY AccountsAssumption, FS_Subset
  <2>. QED  BY <2>1, OrderForm
<1>2. t \in V  BY DEF Passing
<1>3. ASSUME NEW u \in V, NEW a \in Accounts  PROVE RemoveConnection(u, a) \in V
  <2>1. Passing(u, RemoveConnection(u, a))  BY RemovalKeeps
  <2>2. Passing(t, RemoveConnection(u, a))  BY <2>1, PassesOn
  <2>. QED  BY <2>2 DEF Passing
<1>. HIDE DEF V, n
<1>4. PICK step : step = [x \in (1 .. n) \X V |-> RemoveConnection(x[2], order[x[1]])]  OBVIOUS
<1>5. step \in [(1 .. n) \X V -> V]  BY <1>1, <1>3, <1>4
<1>6. PICK f \in [0 .. n -> V] : Runs(f, n, t, step)  BY <1>1, <1>2, <1>5, RunsExist, Zenon
<1>7. \A k \in 1 .. n : f[k] = RemoveConnection(f[k - 1], order[k])
  <2>1. SUFFICES ASSUME NEW k \in 1 .. n PROVE f[k] = RemoveConnection(f[k - 1], order[k])  OBVIOUS
  <2>2. f[k - 1] \in V  BY <1>1
  <2>3. PICK x : x = <<k, f[k - 1]>>  OBVIOUS
  <2>4. x \in (1 .. n) \X V /\ x[1] = k /\ x[2] = f[k - 1]  BY <2>2, <2>3
  <2>5. step[x] = RemoveConnection(x[2], order[x[1]])  BY <1>4, <2>4
  <2>. QED  BY <1>6, <2>3, <2>4, <2>5 DEF Runs
<1>8. f = [k \in 0 .. n |-> Step(f, k)]  BY <1>1, <1>6, <1>7 DEF Runs
<1>9. PICK b : b = CHOOSE g : g = [k \in 0 .. n |-> Step(g, k)]  OBVIOUS
<1>10. b = [k \in 0 .. n |-> Step(b, k)]  BY <1>8, <1>9
<1>11. RemovedInTurn(order, t) = b[n]  BY <1>9 DEF RemovedInTurn, n
<1>12. b[0] = t /\ \A k \in 1 .. n : b[k] = RemoveConnection(b[k - 1], order[k])  BY <1>1, <1>10
<1>13. \A k \in 1 .. n : b[k - 1] \in V => b[k] \in V  BY <1>1, <1>3, <1>12
<1>14. b[n] \in V  BY <1>1, <1>2, <1>12, <1>13, RunStays
<1>. QED  BY <1>11, <1>14 DEF V
LEMMA TryingPasses ==
  ASSUME NEW t \in Tables, NEW S \in SUBSET Accounts, NEW order \in SetToSeqs(S),
         NEW outcome, \A a \in S : outcome[a] \in {"ok", "refused", "unreachable"}
  PROVE  Passing(t, TriedInTurn(order, outcome, t))
<1>. DEFINE V == {u \in Tables : Passing(t, u)}
            n == Len(order)
            Step(g, k) == IF k = 0 THEN t ELSE TryReconnect(g[k - 1], order[k], outcome[order[k]])
<1>1. n \in Nat /\ \A k \in 1 .. n : order[k] \in S
  <2>1. IsFiniteSet(S)  BY AccountsAssumption, FS_Subset
  <2>. QED  BY <2>1, OrderForm
<1>2. t \in V  BY DEF Passing
<1>3. ASSUME NEW u \in V, NEW a \in S  PROVE TryReconnect(u, a, outcome[a]) \in V
  <2>1. Passing(u, TryReconnect(u, a, outcome[a]))  BY TryPasses
  <2>2. Passing(t, TryReconnect(u, a, outcome[a]))  BY <2>1, PassesOn
  <2>. QED  BY <2>2 DEF Passing
<1>. HIDE DEF V, n
<1>4. PICK step : step = [x \in (1 .. n) \X V |-> TryReconnect(x[2], order[x[1]], outcome[order[x[1]]])]  OBVIOUS
<1>5. step \in [(1 .. n) \X V -> V]  BY <1>1, <1>3, <1>4
<1>6. PICK f \in [0 .. n -> V] : Runs(f, n, t, step)  BY <1>1, <1>2, <1>5, RunsExist, Zenon
<1>7. \A k \in 1 .. n : f[k] = TryReconnect(f[k - 1], order[k], outcome[order[k]])
  <2>1. SUFFICES ASSUME NEW k \in 1 .. n PROVE f[k] = TryReconnect(f[k - 1], order[k], outcome[order[k]])  OBVIOUS
  <2>2. f[k - 1] \in V  BY <1>1
  <2>3. PICK x : x = <<k, f[k - 1]>>  OBVIOUS
  <2>4. x \in (1 .. n) \X V /\ x[1] = k /\ x[2] = f[k - 1]  BY <2>2, <2>3
  <2>5. step[x] = TryReconnect(x[2], order[x[1]], outcome[order[x[1]]])  BY <1>4, <2>4
  <2>. QED  BY <1>6, <2>3, <2>4, <2>5 DEF Runs
<1>8. f = [k \in 0 .. n |-> Step(f, k)]  BY <1>1, <1>6, <1>7 DEF Runs
<1>9. PICK b : b = CHOOSE g : g = [k \in 0 .. n |-> Step(g, k)]  OBVIOUS
<1>10. b = [k \in 0 .. n |-> Step(b, k)]  BY <1>8, <1>9
<1>11. TriedInTurn(order, outcome, t) = b[n]  BY <1>9 DEF TriedInTurn, n
<1>12. b[0] = t /\ \A k \in 1 .. n : b[k] = TryReconnect(b[k - 1], order[k], outcome[order[k]])  BY <1>1, <1>10
<1>13. \A k \in 1 .. n : b[k - 1] \in V => b[k] \in V  BY <1>1, <1>3, <1>12
<1>14. b[n] \in V  BY <1>1, <1>2, <1>12, <1>13, RunStays
<1>. QED  BY <1>11, <1>14 DEF V

LEMMA ProcessingPasses ==
  ASSUME NEW t \in Tables, NEW S \in SUBSET Accounts, NEW order \in SetToSeqs(S)
  PROVE  Passing(t, ProcessedInTurn(order, t))
<1>. DEFINE V == {u \in Tables : Passing(t, u)}
            n == Len(order)
            Step(g, k) == IF k = 0 THEN t ELSE JabberProcess(g[k - 1], order[k])
<1>1. n \in Nat /\ \A k \in 1 .. n : order[k] \in Accounts
  <2>1. IsFiniteSet(S)  BY AccountsAssumption, FS_Subset
  <2>. QED  BY <2>1, OrderForm
<1>2. t \in V  BY DEF Passing
<1>3. ASSUME NEW u \in V, NEW a \in Accounts  PROVE JabberProcess(u, a) \in V
  <2>1. Passing(u, JabberProcess(u, a))  BY ProcessPasses
  <2>2. Passing(t, JabberProcess(u, a))  BY <2>1, PassesOn
  <2>. QED  BY <2>2 DEF Passing
<1>. HIDE DEF V, n
<1>4. PICK step : step = [x \in (1 .. n) \X V |-> JabberProcess(x[2], order[x[1]])]  OBVIOUS
<1>5. step \in [(1 .. n) \X V -> V]  BY <1>1, <1>3, <1>4
<1>6. PICK f \in [0 .. n -> V] : Runs(f, n, t, step)  BY <1>1, <1>2, <1>5, RunsExist, Zenon
<1>7. \A k \in 1 .. n : f[k] = JabberProcess(f[k - 1], order[k])
  <2>1. SUFFICES ASSUME NEW k \in 1 .. n PROVE f[k] = JabberProcess(f[k - 1], order[k])  OBVIOUS
  <2>2. f[k - 1] \in V  BY <1>1
  <2>3. PICK x : x = <<k, f[k - 1]>>  OBVIOUS
  <2>4. x \in (1 .. n) \X V /\ x[1] = k /\ x[2] = f[k - 1]  BY <2>2, <2>3
  <2>5. step[x] = JabberProcess(x[2], order[x[1]])  BY <1>4, <2>4
  <2>. QED  BY <1>6, <2>3, <2>4, <2>5 DEF Runs
<1>8. f = [k \in 0 .. n |-> Step(f, k)]  BY <1>1, <1>6, <1>7 DEF Runs
<1>9. PICK b : b = CHOOSE g : g = [k \in 0 .. n |-> Step(g, k)]  OBVIOUS
<1>10. b = [k \in 0 .. n |-> Step(b, k)]  BY <1>8, <1>9
<1>11. ProcessedInTurn(order, t) = b[n]  BY <1>9 DEF ProcessedInTurn, n
<1>12. b[0] = t /\ \A k \in 1 .. n : b[k] = JabberProcess(b[k - 1], order[k])  BY <1>1, <1>10
<1>13. \A k \in 1 .. n : b[k - 1] \in V => b[k] \in V  BY <1>1, <1>3, <1>12
<1>14. b[n] \in V  BY <1>1, <1>2, <1>12, <1>13, RunStays
<1>. QED  BY <1>11, <1>14 DEF V


-----------------------------------------------------------------------------
JabberSpec == JabberInit /\ [][JabberNext]_jabberVars

JabberInv ==
  /\ Table \in Tables
  /\ \A a \in prompt : a \in Accounts /\ prompt = {a} /\ conn[a].status = "absent"
  /\ havepass => prompt # {} \/ network.cancelled
  /\ network.unasked => network.cancelled

LEMMA TableForm ==
  /\ Table.conn = conn /\ Table.dispatch = dispatch /\ Table.timer = keepAliveTimer
  /\ Table.network = network
BY DEF Table

LEMMA TableBecomes ==
  ASSUME NEW u \in Tables, BecomeTable(u)
  PROVE  Table' = u
<1>1. PICK k, d, timer, n : u = [conn |-> k, dispatch |-> d, timer |-> timer, network |-> n]
  BY DEF Tables, TableRecords
<1>2. conn' = k /\ dispatch' = d /\ keepAliveTimer' = timer /\ network' = n  BY <1>1 DEF BecomeTable
<1>. QED  BY <1>1, <1>2 DEF Table

LEMMA PassingKeeps ==
  ASSUME JabberInv, NEW u, Passing(Table, u), BecomeTable(u), UNCHANGED <<prompt, havepass>>
  PROVE  JabberInv'
<1>1. Table' = u /\ u \in Tables  BY TableBecomes DEF Passing
<1>2. conn' = u.conn /\ network' = u.network  BY DEF BecomeTable
<1>3. network'.unasked = network.unasked /\ network'.cancelled = network.cancelled
  BY <1>2, TableForm DEF Passing
<1>4. \A a \in Accounts : conn[a].status = "absent" => conn'[a].status = "absent"
  BY <1>2, TableForm DEF Passing
<1>. QED  BY <1>1, <1>3, <1>4 DEF JabberInv

(* The network changes alone, or the timer stops when nobody is listed.    *)
LEMMA NetworkPasses ==
  ASSUME NEW t \in Tables, NEW n \in Networks, NEW timer \in BOOLEAN,
         n.joined = t.network.joined, \A a \in n.broken : t.conn[a].status = "available",
         \A a \in Accounts : t.conn[a].status # "absent" => timer,
         NEW u, u = [conn |-> t.conn, dispatch |-> t.dispatch, timer |-> timer, network |-> n]
  PROVE  /\ u \in Tables
         /\ n.unasked = t.network.unasked /\ n.cancelled = t.network.cancelled => Passing(t, u)
<1>1. t \in TableRecords /\ TableIsSound(t)  BY DEF Tables
<1>2. u.conn = t.conn /\ u.dispatch = t.dispatch /\ u.timer = timer /\ u.network = n  OBVIOUS
<1>3. u \in TableRecords  BY <1>1 DEF TableRecords
<1>4. TableIsSound(u)
  <2>1. /\ \A f \in Fds : \A a \in u.dispatch[f] : u.conn[a].status = "available" /\ u.conn[a].sock = f
        /\ \A a \in Accounts : ConnIsSound(u.conn[a])
        /\ \A a, b \in Accounts :
             u.conn[a].status = "available" /\ u.conn[b].status = "available" /\ a # b
               => u.conn[a].sock # u.conn[b].sock
    <3>1. /\ \A f \in Fds : \A a \in t.dispatch[f] : t.conn[a].status = "available" /\ t.conn[a].sock = f
          /\ \A a \in Accounts : ConnIsSound(t.conn[a])
          /\ \A a, b \in Accounts :
               t.conn[a].status = "available" /\ t.conn[b].status = "available" /\ a # b
                 => t.conn[a].sock # t.conn[b].sock
      BY <1>1 DEF TableIsSound
    <3>. QED  BY <1>2, <3>1
  <2>2. \A a \in Accounts : u.conn[a].status # "absent" => u.timer  BY <1>2
  <2>3. \A a \in Accounts :
          u.conn[a].status = "available" => u.conn[a].mucs \ Locked \subseteq u.network.joined[a]
    BY <1>1, <1>2 DEF TableIsSound
  <2>4. \A a \in u.network.broken : u.conn[a].status = "available"  BY <1>2
  <2>. QED  BY <2>1, <2>2, <2>3, <2>4, Zenon DEF TableIsSound
<1>5. u \in Tables  BY <1>3, <1>4 DEF Tables
<1>. QED  BY <1>2, <1>5 DEF Passing

LEMMA SameTimer ==
  ASSUME NEW t \in Tables
  PROVE  /\ t.timer \in BOOLEAN /\ \A a \in Accounts : t.conn[a].status # "absent" => t.timer
         /\ t.network \in Networks /\ \A a \in t.network.broken : t.conn[a].status = "available"
BY DEF Tables, TableRecords, TableIsSound

LEMMA DonePasses ==
  ASSUME JabberInv
  PROVE  Passing(Table, Done(Table)) /\ Passing(Table, Ticked)
<1>1. PICK t \in Tables : t = Table  BY DEF JabberInv
<1>2. PICK m \in Networks : m = t.network  BY SameTimer
<1>3. ASSUME NEW n, n = [m EXCEPT !.done = @ + 1] \/ n = [m EXCEPT !.tick = ~@]
      PROVE  /\ n \in Networks /\ n.joined = m.joined /\ n.broken = m.broken
             /\ n.unasked = m.unasked /\ n.cancelled = m.cancelled
  <2>1. CASE n = [m EXCEPT !.done = @ + 1]
    <3>1. m.done + 1 \in Nat  BY DEF Networks
    <3>2. n \in Networks  BY <2>1, <3>1 DEF Networks
    <3>. QED  BY <2>1, <3>2 DEF Networks
  <2>2. CASE n = [m EXCEPT !.tick = ~@]
    <3>1. n \in Networks  BY <2>2 DEF Networks
    <3>. QED  BY <2>2, <3>1 DEF Networks
  <2>. QED  BY <1>3, <2>1, <2>2
<1>4. ASSUME NEW n, n = [m EXCEPT !.done = @ + 1] \/ n = [m EXCEPT !.tick = ~@],
             NEW u, u = [conn |-> t.conn, dispatch |-> t.dispatch, timer |-> t.timer, network |-> n]
      PROVE  Passing(t, u)
  <2>1. /\ n \in Networks /\ n.joined = t.network.joined /\ n.broken = t.network.broken
        /\ n.unasked = t.network.unasked /\ n.cancelled = t.network.cancelled
    BY <1>2, <1>3, <1>4
  <2>. QED  BY <1>4, <2>1, NetworkPasses, SameTimer
<1>5. Done(t) = [conn |-> t.conn, dispatch |-> t.dispatch, timer |-> t.timer, network |-> [m EXCEPT !.done = @ + 1]]
  BY <1>2 DEF Done, Tables, TableRecords
<1>6. Ticked = [conn |-> t.conn, dispatch |-> t.dispatch, timer |-> t.timer, network |-> [m EXCEPT !.tick = ~@]]
  BY <1>1, <1>2 DEF Ticked, Tables, TableRecords
<1>. QED  BY <1>1, <1>4, <1>5, <1>6

LEMMA LogoutKeeps ==
  ASSUME JabberInv, NEW S \in SUBSET Accounts, CmdLogout(S)
  PROVE  JabberInv'
<1>1. PICK t \in Tables : t = Done(Table) /\ Passing(Table, t)  BY DonePasses DEF Passing
<1>2. PICK order \in SetToSeqs(S) : BecomeTable(RemovedInTurn(order, t))
  BY <1>1 DEF CmdLogout
<1>3. PICK u : u = RemovedInTurn(order, t)  OBVIOUS
<1>4. Passing(t, u)  BY <1>3, RemovingPasses
<1>5. Passing(Table, u)  BY <1>1, <1>4, PassesOn
<1>. QED  BY <1>2, <1>3, <1>5, PassingKeeps DEF CmdLogout

LEMMA OwlProcessKeeps ==
  ASSUME JabberInv, NEW f \in Fds, OwlProcess(f)
  PROVE  JabberInv'
<1>1. PICK a \in dispatch[f] : BecomeTable(JabberProcess(Table, a)) /\ UNCHANGED <<prompt, havepass>>
  BY DEF OwlProcess
<1>2. a \in Accounts  BY TableForm DEF JabberInv, Tables, TableRecords
<1>3. PICK u : u = JabberProcess(Table, a)  OBVIOUS
<1>4. Passing(Table, u)  BY <1>2, <1>3, ProcessPasses DEF JabberInv
<1>. QED  BY <1>1, <1>3, <1>4, PassingKeeps

LEMMA TickKeeps ==
  ASSUME JabberInv, NEW late \in SUBSET JabberWaiting, Tick(late)
  PROVE  JabberInv'
<1>1. PICK outcome \in [late -> Outcomes] : DoKeepAlive(late, outcome)  BY DEF Tick
<1>2. UNCHANGED <<prompt, havepass>>  BY <1>1 DEF DoKeepAlive
<1>3. PICK t \in Tables : t = Ticked /\ Passing(Table, t)  BY DonePasses DEF Passing
<1>4. CASE JabberListed(Table) = {}
  <2>1. PICK u : u = [t EXCEPT !.timer = FALSE]  OBVIOUS
  <2>2. u = [conn |-> t.conn, dispatch |-> t.dispatch, timer |-> FALSE, network |-> t.network]
    BY <2>1 DEF Tables, TableRecords
  <2>3. \A a \in Accounts : t.conn[a].status = "absent"
    BY <1>3, <1>4 DEF JabberListed, Passing
  <2>4. /\ t.network \in Networks /\ \A a \in t.network.broken : t.conn[a].status = "available"
        /\ FALSE \in BOOLEAN
    BY SameTimer
  <2>5. Passing(t, u)  BY <2>2, <2>3, <2>4, NetworkPasses
  <2>6. Passing(Table, u)  BY <1>3, <2>5, PassesOn
  <2>7. BecomeTable(u)  BY <1>1, <1>3, <1>4, <2>1 DEF DoKeepAlive
  <2>. QED  BY <1>2, <2>6, <2>7, PassingKeeps
<1>5. CASE JabberListed(Table) # {}
  <2>1. PICK order \in SetToSeqs(late) :
          \E then \in SetToSeqs(Active(TriedInTurn(order, outcome, t))) :
            BecomeTable(ProcessedInTurn(then, TriedInTurn(order, outcome, t)))
    BY <1>1, <1>3, <1>5 DEF DoKeepAlive
  <2>2. PICK tried : tried = TriedInTurn(order, outcome, t)  OBVIOUS
  <2>3. PICK then \in SetToSeqs(Active(tried)) : BecomeTable(ProcessedInTurn(then, tried))
    BY <2>1, <2>2
  <2>4. late \in SUBSET Accounts  BY DEF JabberWaiting
  <2>5. \A a \in late : outcome[a] \in {"ok", "refused", "unreachable"}  BY DEF Outcomes
  <2>6. Passing(t, tried)  BY <2>2, <2>4, <2>5, TryingPasses
  <2>7. tried \in Tables  BY <2>6 DEF Passing
  <2>8. Active(tried) \in SUBSET Accounts  BY DEF Active
  <2>9. PICK u : u = ProcessedInTurn(then, tried)  OBVIOUS
  <2>10. Passing(tried, u)  BY <2>7, <2>8, <2>9, ProcessingPasses
  <2>11. Passing(Table, u)  BY <1>3, <2>6, <2>10, PassesOn
  <2>. QED  BY <1>2, <2>3, <2>9, <2>11, PassingKeeps
<1>. QED  BY <1>4, <1>5

LEMMA LoginKeeps ==
  ASSUME JabberInv, NEW t \in Tables, Passing(Table, t), NEW a \in Accounts,
         t.conn[a].status = "absent", NEW outcome, DoLogin(t, a, outcome),
         prompt = {} \/ prompt = {a}
  PROVE  JabberInv'
<1>1. t.network.unasked = network.unasked /\ t.network.cancelled = network.cancelled
  BY TableForm DEF Passing
<1>2. PICK u : u = CASE outcome = "ok" -> OnConnect(t, a)
                     [] outcome = "refused" /\ havepass ->
                          [t EXCEPT !.network.unasked = @ \/ prompt # {a}]
                     [] OTHER -> t
  OBVIOUS
<1>3. BecomeTable(u)  BY <1>2 DEF DoLogin
<1>4. CASE outcome = "ok"
  <2>1. u = OnConnect(t, a)  BY <1>2, <1>4
  <2>2. PICK c \in Conns : /\ c = Arrived(t, a) /\ c.status = "available" /\ c.mucs = t.conn[a].mucs
                          /\ c.sock = NewFd(t) /\ c.fileno = NewFd(t)
    BY OnConnectForm DEF Arrived
  <2>3. u = WithEntry(t, a, c, [t.dispatch EXCEPT ![NewFd(t)] = {a}], TRUE, t.network)
    BY <2>1, <2>2, OnConnectForm
  <2>4. t.conn[a].status # "available"  OBVIOUS
  <2>5. c.mucs = {}
    <3>1. t.conn[a] = Absent  BY DEF Tables, TableIsSound, ConnIsSound
    <3>. QED  BY <2>2, <3>1 DEF Absent
  <2>6. t.network \in Networks /\ c.mucs \ Locked \subseteq t.network.joined[a]  BY <2>5, SameTimer
  <2>7. u \in Tables  BY <2>2, <2>3, <2>4, <2>6, EntryArrives
  <2>8. u.network = t.network  BY <2>3 DEF WithEntry
  <2>9. network' = t.network  BY <1>3, <2>8 DEF BecomeTable
  <2>10. prompt' = {} /\ ~havepass'  BY <1>4 DEF DoLogin
  <2>11. Table' \in Tables  BY <1>3, <2>7, TableBecomes
  <2>. QED  BY <1>1, <2>9, <2>10, <2>11 DEF JabberInv
<1>5. CASE outcome = "refused" /\ havepass
  <2>1. PICK m \in Networks : m = t.network  BY SameTimer
  <2>2. PICK yes \in BOOLEAN : yes = (m.unasked \/ prompt # {a})  OBVIOUS
  <2>3. PICK n : n = [m EXCEPT !.unasked = yes]  OBVIOUS
  <2>4. u = [conn |-> t.conn, dispatch |-> t.dispatch, timer |-> t.timer, network |-> n]
    <3>1. u = [t EXCEPT !.network.unasked = @ \/ prompt # {a}]  BY <1>2, <1>5
    <3>. QED  BY <2>1, <2>2, <2>3, <3>1 DEF Tables, TableRecords
  <2>5. /\ n \in Networks /\ n.joined = m.joined /\ n.broken = m.broken /\ n.unasked = yes
        /\ n.cancelled = m.cancelled
    BY <2>3 DEF Networks
  <2>6. u \in Tables  BY <2>1, <2>4, <2>5, NetworkPasses, SameTimer
  <2>7. network' = n  BY <1>3, <2>4 DEF BecomeTable
  <2>8. yes => network.cancelled  BY <1>1, <1>5, <2>1, <2>2 DEF JabberInv
  <2>9. network'.unasked => network'.cancelled  BY <1>1, <2>1, <2>5, <2>7, <2>8
  <2>10. prompt' = {} /\ ~havepass'  BY <1>5 DEF DoLogin
  <2>11. Table' \in Tables  BY <1>3, <2>6, TableBecomes
  <2>. QED  BY <2>9, <2>10, <2>11 DEF JabberInv
<1>6. CASE outcome # "ok" /\ ~(outcome = "refused" /\ havepass)
  <2>1. u = t  BY <1>2, <1>6
  <2>2. Table' = t /\ network' = t.network /\ conn' = t.conn  BY <1>3, <2>1, TableBecomes DEF BecomeTable
  <2>3. \/ prompt' = {} /\ ~havepass'
        \/ prompt' = {a}
    BY DEF DoLogin
  <2>. QED  BY <1>1, <2>2, <2>3 DEF JabberInv
<1>. QED  BY <1>4, <1>5, <1>6

LEMMA CmdLoginKeeps ==
  ASSUME JabberInv, NEW a \in Accounts, NEW outcome \in Outcomes, CmdLogin(a, outcome)
  PROVE  JabberInv'
<1>1. PICK t \in Tables : t = Done(Table) /\ Passing(Table, t)  BY DonePasses DEF Passing
<1>2. CASE conn[a].status = "absent" /\ DoLogin(Done(Table), a, outcome)
  <2>1. t.conn[a].status = "absent"  BY <1>1, <1>2, TableForm DEF Passing
  <2>2. prompt = {}  BY DEF CmdLogin, Does
  <2>3. DoLogin(t, a, outcome)  BY <1>1, <1>2
  <2>. QED  BY <1>1, <2>1, <2>2, <2>3, LoginKeeps
<1>3. CASE BecomeTable(TryReconnect(Done(Table), a, outcome)) /\ UNCHANGED <<prompt, havepass>>
  <2>1. PICK u : u = TryReconnect(t, a, outcome)  OBVIOUS
  <2>2. outcome \in {"ok", "refused", "unreachable"}  BY DEF Outcomes
  <2>3. Passing(t, u)  BY <2>1, <2>2, TryPasses
  <2>4. Passing(Table, u)  BY <1>1, <2>3, PassesOn
  <2>. QED  BY <1>1, <1>3, <2>1, <2>4, PassingKeeps
<1>. QED  BY <1>2, <1>3 DEF CmdLogin

LEMMA EnterPasswordKeeps ==
  ASSUME JabberInv, NEW outcome, EnterPassword(outcome)
  PROVE  JabberInv'
<1>1. PICK a \in prompt : DoLogin(Table, a, outcome)  BY DEF EnterPassword
<1>2. a \in Accounts /\ prompt = {a} /\ Table.conn[a].status = "absent"  BY TableForm DEF JabberInv
<1>3. PICK t \in Tables : t = Table  BY DEF JabberInv
<1>4. Passing(Table, t)  BY <1>3 DEF Passing
<1>. QED  BY <1>1, <1>2, <1>3, <1>4, LoginKeeps

(* Where only what the network has changes.                                *)
LEMMA NetworkKeeps ==
  ASSUME JabberInv, NEW n \in Networks, network' = n, n.joined = network.joined,
         \A a \in n.broken : conn[a].status = "available",
         UNCHANGED <<conn, dispatch, keepAliveTimer>>
  PROVE  Table' \in Tables
<1>1. PICK t \in Tables : t = Table  BY DEF JabberInv
<1>2. t.conn = conn /\ t.dispatch = dispatch /\ t.timer = keepAliveTimer /\ t.network = network
  BY <1>1, TableForm
<1>3. PICK u : u = [conn |-> t.conn, dispatch |-> t.dispatch, timer |-> t.timer, network |-> n]  OBVIOUS
<1>4. u \in Tables  BY <1>2, <1>3, NetworkPasses, SameTimer
<1>5. Table' = u  BY <1>2, <1>3 DEF Table
<1>. QED  BY <1>4, <1>5

LEMMA NetworkForm ==
  ASSUME JabberInv
  PROVE  network \in Networks /\ \A a \in network.broken : a \in Accounts /\ conn[a].status = "available"
<1>1. network \in Networks  BY TableForm, SameTimer DEF JabberInv
<1>2. \A a \in network.broken : conn[a].status = "available"  BY TableForm, SameTimer DEF JabberInv
<1>. QED  BY <1>1, <1>2 DEF Networks

LEMMA CancelKeeps == JabberInv /\ CancelPassword => JabberInv'
<1>1. SUFFICES ASSUME JabberInv, CancelPassword PROVE JabberInv'  OBVIOUS
<1>2. PICK n \in Networks : n = [network EXCEPT !.cancelled = TRUE]  BY <1>1, NetworkForm DEF Networks
<1>3. n.joined = network.joined /\ n.broken = network.broken /\ n.cancelled
  BY <1>1, <1>2, NetworkForm DEF Networks
<1>4. network' = n /\ UNCHANGED <<conn, dispatch, keepAliveTimer>> /\ prompt' = {}
  BY <1>1, <1>2 DEF CancelPassword
<1>5. Table' \in Tables  BY <1>1, <1>3, <1>4, NetworkKeeps, NetworkForm
<1>. QED  BY <1>3, <1>4, <1>5 DEF JabberInv

LEMMA BreakKeeps ==
  ASSUME JabberInv, NEW a \in Accounts, Break(a)
  PROVE  JabberInv'
<1>1. PICK m \in Networks : m = network  BY NetworkForm
<1>2. PICK b : b = m.broken \cup {a}  OBVIOUS
<1>3. PICK n : n = [m EXCEPT !.broken = b, !.breaks = @ + 1]  OBVIOUS
<1>4. b \in SUBSET Accounts /\ m.breaks + 1 \in Nat  BY <1>2 DEF Networks
<1>5. /\ n \in Networks /\ n.broken = b /\ n.joined = m.joined /\ n.unasked = m.unasked
      /\ n.cancelled = m.cancelled
  BY <1>3, <1>4 DEF Networks
<1>6. network' = n /\ UNCHANGED <<conn, dispatch, keepAliveTimer, prompt, havepass>>
  BY <1>1, <1>2, <1>3 DEF Break
<1>7. \A x \in b : conn[x].status = "available"
  BY <1>1, <1>2, NetworkForm, TableForm DEF Break, Active
<1>8. Table' \in Tables  BY <1>1, <1>5, <1>6, <1>7, NetworkKeeps
<1>. QED  BY <1>1, <1>5, <1>6, <1>8 DEF JabberInv

LEMMA ServerChangesKeep == JabberInv /\ ServerChanges => JabberInv'
<1>1. SUFFICES ASSUME JabberInv, ServerChanges PROVE JabberInv'  OBVIOUS
<1>2. PICK m \in Networks : m = network  BY <1>1, NetworkForm
<1>3. PICK k : k = IF m.up THEN m.breaks + 1 ELSE m.breaks  OBVIOUS
<1>4. k \in Nat  BY <1>3 DEF Networks
<1>5. PICK up \in BOOLEAN : up = ~m.up  OBVIOUS
<1>6. PICK n : n = [m EXCEPT !.up = up, !.breaks = k]  OBVIOUS
<1>7. /\ n \in Networks /\ n.broken = m.broken /\ n.joined = m.joined /\ n.unasked = m.unasked
      /\ n.cancelled = m.cancelled
  BY <1>4, <1>6 DEF Networks
<1>8. network' = n /\ UNCHANGED <<conn, dispatch, keepAliveTimer, prompt, havepass>>
  BY <1>1, <1>2, <1>3, <1>5, <1>6 DEF ServerChanges
<1>9. Table' \in Tables  BY <1>1, <1>2, <1>7, <1>8, NetworkKeeps, NetworkForm
<1>. QED  BY <1>1, <1>2, <1>7, <1>8, <1>9 DEF JabberInv

(* The rooms of an account that is connected change, here and there.       *)
LEMMA RoomsPass ==
  ASSUME NEW t \in Tables, NEW a \in Accounts, t.conn[a].status = "available",
         NEW mucs \in SUBSET Rooms, NEW rooms \in SUBSET Rooms, mucs \ Locked \subseteq rooms,
         NEW u, u = WithEntry(t, a, [t.conn[a] EXCEPT !.mucs = mucs], t.dispatch, t.timer,
                             [t.network EXCEPT !.joined[a] = rooms])
  PROVE  Passing(t, u)
<1>1. t \in TableRecords /\ TableIsSound(t)  BY DEF Tables
<1>2. PICK x \in Conns : x = t.conn[a] /\ x.status = "available"  BY <1>1 DEF TableRecords
<1>3. PICK c \in Conns : /\ c = [x EXCEPT !.mucs = mucs] /\ c.status = x.status /\ c.sock = x.sock
                         /\ c.fileno = x.fileno /\ c.mucs = mucs
  <2>1. PICK c : c = [x EXCEPT !.mucs = mucs]  OBVIOUS
  <2>2. /\ c \in Conns /\ c.status = x.status /\ c.sock = x.sock
        /\ c.fileno = x.fileno /\ c.mucs = mucs
    BY <2>1 DEF Conns
  <2>. QED  BY <2>1, <2>2
<1>4. PICK m \in Networks : m = t.network  BY SameTimer
<1>5. PICK j \in [Accounts -> SUBSET Rooms] : j = [m.joined EXCEPT ![a] = rooms]  BY DEF Networks
<1>6. j[a] = rooms /\ \A b \in Accounts : b # a => j[b] = m.joined[b]  BY <1>5 DEF Networks
<1>7. PICK n : n = [m EXCEPT !.joined = j]  OBVIOUS
<1>8. /\ n \in Networks /\ n.joined = j /\ n.broken = m.broken /\ n.unasked = m.unasked
      /\ n.cancelled = m.cancelled
  BY <1>7 DEF Networks
<1>9. n = [t.network EXCEPT !.joined[a] = rooms]  BY <1>4, <1>5, <1>7 DEF Networks
<1>10. u = WithEntry(t, a, c, t.dispatch, t.timer, n)  BY <1>2, <1>3, <1>9
<1>11. t.timer \in BOOLEAN /\ t.dispatch \in [Fds -> SUBSET Accounts]  BY <1>1 DEF TableRecords
<1>12. HasEntry(u, t, a, c, t.dispatch, t.timer, n)  BY <1>1, <1>8, <1>10, <1>11, EntryForm, Zenon
<1>13. /\ u \in TableRecords /\ u.dispatch = t.dispatch /\ u.timer = t.timer /\ u.network = n
       /\ u.conn[a] = c /\ \A b \in Accounts : b # a => u.conn[b] = t.conn[b]
  BY <1>12, Zenon DEF HasEntry
<1>14. \A b \in Accounts : u.conn[b].status = t.conn[b].status /\ u.conn[b].sock = t.conn[b].sock
  BY <1>2, <1>3, <1>13
<1>15. ConnIsSound(c)
  <2>1. ConnIsSound(x)  BY <1>1, <1>2 DEF TableIsSound
  <2>. QED  BY <1>2, <1>3, <2>1 DEF ConnIsSound
<1>16. TableIsSound(u)
  <2>1. ASSUME NEW f \in Fds, NEW b \in u.dispatch[f]  PROVE u.conn[b].status = "available" /\ u.conn[b].sock = f
    <3>1. b \in t.dispatch[f] /\ b \in Accounts  BY <1>11, <1>13, <2>1
    <3>2. t.conn[b].status = "available" /\ t.conn[b].sock = f  BY <1>1, <3>1 DEF TableIsSound
    <3>. QED  BY <1>14, <3>1, <3>2
  <2>2. \A b \in Accounts : ConnIsSound(u.conn[b])  BY <1>1, <1>13, <1>15 DEF TableIsSound
  <2>3. \A y, b \in Accounts :
          u.conn[y].status = "available" /\ u.conn[b].status = "available" /\ y # b
            => u.conn[y].sock # u.conn[b].sock
    BY <1>1, <1>14 DEF TableIsSound
  <2>4. \A b \in Accounts : u.conn[b].status # "absent" => u.timer  BY <1>1, <1>13, <1>14 DEF TableIsSound
  <2>5. ASSUME NEW b \in Accounts, u.conn[b].status = "available"
        PROVE  u.conn[b].mucs \ Locked \subseteq u.network.joined[b]
    <3>1. CASE b = a  BY <1>3, <1>6, <1>8, <1>13, <3>1
    <3>2. CASE b # a
      <4>1. u.conn[b] = t.conn[b] /\ u.network.joined[b] = t.network.joined[b]
        BY <1>4, <1>6, <1>8, <1>13, <3>2
      <4>. QED  BY <1>1, <2>5, <4>1 DEF TableIsSound
    <3>. QED  BY <3>1, <3>2
  <2>6. \A b \in u.network.broken : u.conn[b].status = "available"
    <3>1. ASSUME NEW b \in u.network.broken PROVE u.conn[b].status = "available"
      <4>1. b \in t.network.broken /\ b \in Accounts  BY <1>4, <1>8, <1>13, <3>1 DEF Networks
      <4>. QED  BY <1>1, <1>14, <4>1 DEF TableIsSound
    <3>. QED  BY <3>1
  <2>. QED  BY <2>1, <2>2, <2>3, <2>4, <2>5, <2>6 DEF TableIsSound
<1>17. u \in Tables  BY <1>13, <1>16 DEF Tables
<1>. QED  BY <1>4, <1>8, <1>13, <1>14, <1>17 DEF Passing

LEMMA MucKeeps ==
  ASSUME JabberInv, NEW a \in Accounts, NEW room \in Rooms, JmucJoin(a, room) \/ JmucPart(a, room)
  PROVE  JabberInv'
<1>1. PICK t \in Tables : t = Done(Table) /\ Passing(Table, t)  BY DonePasses DEF Passing
<1>2. t.conn = conn /\ t.network.joined = network.joined
  <2>1. t.conn = Table.conn /\ t.network = [Table.network EXCEPT !.done = @ + 1]
    BY <1>1 DEF Done, JabberInv, Tables, TableRecords
  <2>. QED  BY <2>1, TableForm, NetworkForm DEF Networks
<1>3. t \in TableRecords /\ t.conn[a].status = "available"
  BY <1>2, TableForm DEF Tables, JmucJoin, JmucPart, Active
<1>4. PICK old \in SUBSET Rooms, had \in SUBSET Rooms :
        old = t.conn[a].mucs /\ had = t.network.joined[a]
  BY <1>3 DEF TableRecords, Conns, Networks
<1>5. old \ Locked \subseteq had  BY <1>3, <1>4 DEF Tables, TableIsSound
<1>6. PICK mucs \in SUBSET Rooms, rooms \in SUBSET Rooms :
        /\ mucs \ Locked \subseteq rooms
        /\ BecomeTable([t EXCEPT !.conn[a].mucs = mucs, !.network.joined[a] = rooms])
  <2>1. CASE JmucJoin(a, room)
    <3>1. BecomeTable([t EXCEPT !.conn[a].mucs = @ \cup {room}, !.network.joined[a] = @ \cup {room}])
      BY <1>1, <2>1 DEF JmucJoin
    <3>2. PICK mucs \in SUBSET Rooms, rooms \in SUBSET Rooms : mucs = old \cup {room} /\ rooms = had \cup {room}
      OBVIOUS
    <3>3. mucs \ Locked \subseteq rooms  BY <1>5, <3>2
    <3>4. [t EXCEPT !.conn[a].mucs = @ \cup {room}, !.network.joined[a] = @ \cup {room}]
            = [t EXCEPT !.conn[a].mucs = mucs, !.network.joined[a] = rooms]
      BY <1>4, <3>2
    <3>. QED  BY <3>1, <3>3, <3>4
  <2>2. CASE JmucPart(a, room)
    <3>1. BecomeTable([t EXCEPT !.conn[a].mucs = @ \ {room}, !.network.joined[a] = @ \ {room}])
      BY <1>1, <2>2 DEF JmucPart
    <3>2. PICK mucs \in SUBSET Rooms, rooms \in SUBSET Rooms : mucs = old \ {room} /\ rooms = had \ {room}
      OBVIOUS
    <3>3. mucs \ Locked \subseteq rooms  BY <1>5, <3>2
    <3>4. [t EXCEPT !.conn[a].mucs = @ \ {room}, !.network.joined[a] = @ \ {room}]
            = [t EXCEPT !.conn[a].mucs = mucs, !.network.joined[a] = rooms]
      BY <1>4, <3>2
    <3>. QED  BY <3>1, <3>3, <3>4
  <2>. QED  BY <2>1, <2>2
<1>7. PICK u : u = [t EXCEPT !.conn[a].mucs = mucs, !.network.joined[a] = rooms]  OBVIOUS
<1>8. u = WithEntry(t, a, [t.conn[a] EXCEPT !.mucs = mucs], t.dispatch, t.timer,
                   [t.network EXCEPT !.joined[a] = rooms])
  <2>1. PICK k, d, timer, n : t = [conn |-> k, dispatch |-> d, timer |-> timer, network |-> n]
    BY <1>3 DEF TableRecords
  <2>2. PICK k1 : k1 = [k EXCEPT ![a].mucs = mucs]  OBVIOUS
  <2>3. k1 = [k EXCEPT ![a] = [k[a] EXCEPT !.mucs = mucs]]  BY <2>2
  <2>. QED  BY <1>7, <2>1, <2>2, <2>3 DEF WithEntry
<1>9. Passing(t, u)  BY <1>3, <1>6, <1>8, RoomsPass
<1>10. Passing(Table, u)  BY <1>1, <1>9, PassesOn
<1>. QED  BY <1>6, <1>7, <1>10, PassingKeeps DEF JmucJoin, JmucPart

LEMMA JabberStart == JabberInit => JabberInv
<1>1. SUFFICES ASSUME JabberInit PROVE JabberInv  OBVIOUS
<1>2. PICK n \in Nat : n = Cardinality(Accounts) /\ Places = 0 .. n
  BY AccountsAssumption, FS_CardinalityType DEF Places
<1>3. Absent \in Conns /\ ConnIsSound(Absent) /\ Absent.status = "absent"
  BY <1>2 DEF Absent, Conns, ConnIsSound
<1>4. conn \in [Accounts -> Conns] /\ \A a \in Accounts : conn[a] = Absent  BY <1>1, <1>3 DEF JabberInit
<1>5. dispatch \in [Fds -> SUBSET Accounts] /\ \A f \in Fds : dispatch[f] = {}
  BY <1>1 DEF JabberInit, Nobody
<1>6. PICK j \in [Accounts -> SUBSET Rooms] : j = [a \in Accounts |-> {}]  OBVIOUS
<1>7. network = [broken |-> {}, up |-> TRUE, joined |-> j, breaks |-> 0, done |-> 0, cancelled |-> FALSE,
                 unasked |-> FALSE, tick |-> FALSE]
  BY <1>1, <1>6 DEF JabberInit
<1>8. network \in Networks /\ network.broken = {} /\ ~network.unasked  BY <1>7 DEF Networks
<1>9. prompt = {} /\ ~havepass /\ keepAliveTimer \in BOOLEAN  BY <1>1 DEF JabberInit
<1>10. PICK t : t = Table  OBVIOUS
<1>11. t.conn = conn /\ t.dispatch = dispatch /\ t.network = network  BY <1>10, TableForm
<1>12. t \in TableRecords  BY <1>4, <1>5, <1>8, <1>9, <1>10 DEF Table, TableRecords
<1>13. TableIsSound(t)  BY <1>3, <1>4, <1>5, <1>8, <1>11 DEF TableIsSound
<1>. QED  BY <1>8, <1>9, <1>10, <1>12, <1>13 DEF JabberInv, Tables

LEMMA JabberStep == JabberInv /\ [JabberNext]_jabberVars => JabberInv'
<1>1. SUFFICES ASSUME JabberInv, [JabberNext]_jabberVars PROVE JabberInv'  OBVIOUS
<1>2. ASSUME NEW a \in Accounts, NEW outcome \in Outcomes, CmdLogin(a, outcome)  PROVE JabberInv'
  BY <1>1, <1>2, CmdLoginKeeps
<1>3. ASSUME NEW a \in Accounts, Break(a)  PROVE JabberInv'  BY <1>1, <1>3, BreakKeeps
<1>4. ASSUME NEW a \in Accounts, NEW room \in Rooms, JmucJoin(a, room) \/ JmucPart(a, room)
      PROVE  JabberInv'
  BY <1>1, <1>4, MucKeeps
<1>5. ASSUME NEW outcome \in Outcomes, EnterPassword(outcome)  PROVE JabberInv'
  BY <1>1, <1>5, EnterPasswordKeeps
<1>6. CASE CancelPassword  BY <1>1, <1>6, CancelKeeps
<1>7. CASE ServerChanges  BY <1>1, <1>7, ServerChangesKeep
<1>8. ASSUME NEW S \in SUBSET Accounts, CmdLogout(S)  PROVE JabberInv'  BY <1>1, <1>8, LogoutKeeps
<1>9. ASSUME NEW f \in Fds, OwlProcess(f)  PROVE JabberInv'  BY <1>1, <1>9, OwlProcessKeeps
<1>10. ASSUME NEW late \in SUBSET JabberWaiting, Tick(late)  PROVE JabberInv'  BY <1>1, <1>10, TickKeeps
<1>11. CASE UNCHANGED jabberVars  BY <1>1, <1>11 DEF jabberVars, JabberInv, Table
<1>. QED
  BY <1>1, <1>2, <1>3, <1>4, <1>5, <1>6, <1>7, <1>8, <1>9, <1>10, <1>11, Zenon DEF JabberNext

LEMMA JabberInvIsEnough == JabberInv => JabberIsOrderly
<1>1. SUFFICES ASSUME JabberInv PROVE JabberIsOrderly  OBVIOUS
<1>2. PICK t \in Tables : t = Table  BY <1>1 DEF JabberInv
<1>3. t.conn = conn /\ t.dispatch = dispatch /\ t.timer = keepAliveTimer /\ t.network = network
  BY <1>2, TableForm
<1>4. TableIsSound(t)  BY DEF Tables
<1>5. \A f \in Fds : \A a \in dispatch[f] : conn[a].status = "available" /\ conn[a].sock = f
  BY <1>3, <1>4 DEF TableIsSound
<1>6. \A a, b \in Active(Table) : a # b => conn[a].sock # conn[b].sock
  BY <1>2, <1>3, <1>4 DEF TableIsSound, Active
<1>7. JabberListed(Table) # {} => keepAliveTimer  BY <1>2, <1>3, <1>4 DEF TableIsSound, JabberListed
<1>8. \A a \in Active(Table) : conn[a].mucs \ Locked \subseteq network.joined[a]
  BY <1>2, <1>3, <1>4 DEF TableIsSound, Active
<1>. QED  BY <1>1, <1>5, <1>6, <1>7, <1>8 DEF JabberInv, JabberIsOrderly

(* Over any number of Jabber accounts and rooms (Jabber.pm and what is     *)
(* under it), descriptors used again, the timer, the rooms and the         *)
(* password prompts are in order.                                          *)
THEOREM JabberStaysOrderly == JabberSpec => []JabberIsOrderly
BY JabberStart, JabberStep, JabberInvIsEnough, PTL DEF JabberSpec

-----------------------------------------------------------------------------
(* Jabber: rosters.                                                         *)
RosterSpec == RosterInit /\ [][RosterNext]_rosterVars

Rosters == UNION {[D -> SUBSET RosterGroups] : D \in SUBSET Contacts}

Stanzas == [kind : {"item", "remove", "subscribe"}, contact : Contacts, groups : SUBSET RosterGroups]

(* What the server says of a contact, if the stanza is about its entry.    *)
About(stanza, x) == stanza.kind # "subscribe" /\ stanza.contact = x

Describes(stanza, roster, x) ==
  /\ stanza.kind = "item" <=> x \in DOMAIN roster
  /\ x \in DOMAIN roster => stanza.groups = roster[x]

Agree(copy, roster, x) ==
  /\ x \in DOMAIN copy <=> x \in DOMAIN roster
  /\ x \in DOMAIN roster => copy[x] = roster[x]

(* A copy that takes in what waits becomes the roster: the last that waits *)
(* of a contact says how it is there, and without any the copy agrees.     *)
BecomesRoster(copy, queue, roster) ==
  \A x :
    /\ (\A k \in DOMAIN queue : ~About(queue[k], x)) => Agree(copy, roster, x)
    /\ \A k \in DOMAIN queue :
         About(queue[k], x) /\ (\A l \in DOMAIN queue : l > k => ~About(queue[l], x))
           => Describes(queue[k], roster, x)

ServerRecords == [roster : Rosters, seers : SUBSET Contacts, pending : SUBSET Contacts]

SentAnswers == [by : Connections, cmd : {"auth", "deauth"}]

Questions ==
  [to : Bases, from : Contacts, question : {"true", "answered"}, yescommand : {"auth"},
   nocommand : {"deauth"}, said : Seq({"yes", "no"}), sent : Seq(SentAnswers), own : SUBSET Connections]

RosterTypes ==
  /\ status \in [Connections -> {"absent", "available", "reconnecting"}]
  /\ copies \in [Connections -> Rosters]
  /\ servers \in [Bases -> ServerRecords]
  /\ underway \in [Connections -> Seq(Stanzas)]
  /\ questions \in Seq(Questions)

RosterInv ==
  /\ RosterTypes
  /\ \A c \in Connections :
       status[c] = "available" => BecomesRoster(copies[c], underway[c], servers[c.base].roster)
  /\ ~dropped

-----------------------------------------------------------------------------
LEMMA RosterForm ==
  ASSUME NEW r
  PROVE  r \in Rosters <=> DOMAIN r \subseteq Contacts /\ r \in [DOMAIN r -> SUBSET RosterGroups]
BY DEF Rosters

(* The entries of a contact are a roster's again.                          *)
LEMMA RostersStay ==
  ASSUME NEW r \in Rosters, NEW x \in Contacts, NEW groups \in SUBSET RosterGroups
  PROVE  /\ WithItem(r, x, groups) \in Rosters /\ Restrict(r, DOMAIN r \ {x}) \in Rosters
         /\ x \in DOMAIN r => r[x] \in SUBSET RosterGroups
<1>1. DOMAIN r \subseteq Contacts /\ r \in [DOMAIN r -> SUBSET RosterGroups]  BY RosterForm
<1>2. PICK w : w = WithItem(r, x, groups)  OBVIOUS
<1>3. DOMAIN w \subseteq Contacts /\ w \in [DOMAIN w -> SUBSET RosterGroups]
  BY <1>1, <1>2 DEF WithItem
<1>4. PICK v : v = Restrict(r, DOMAIN r \ {x})  OBVIOUS
<1>5. DOMAIN v \subseteq Contacts /\ v \in [DOMAIN v -> SUBSET RosterGroups]
  BY <1>1, <1>4 DEF Restrict
<1>. QED  BY <1>1, <1>2, <1>3, <1>4, <1>5, RosterForm

(* Without anything that waits they are the same.                          *)
LEMMA NothingWaits ==
  ASSUME NEW copy \in Rosters, NEW roster \in Rosters, BecomesRoster(copy, <<>>, roster)
  PROVE  copy = roster
<1>1. \A x : Agree(copy, roster, x)  BY DEF BecomesRoster
<1>2. DOMAIN copy = DOMAIN roster /\ \A x \in DOMAIN roster : copy[x] = roster[x]  BY <1>1 DEF Agree
<1>. QED  BY <1>2, RosterForm

(* A new item, or its removal, is told.                                    *)
LEMMA ChangeIsTold ==
  ASSUME NEW copy, NEW queue \in Seq(Stanzas), NEW roster, NEW new, NEW stanza \in Stanzas,
         BecomesRoster(copy, queue, roster),
         stanza.kind # "subscribe", Describes(stanza, new, stanza.contact),
         \A x : x # stanza.contact => Agree(roster, new, x)
  PROVE  BecomesRoster(copy, Append(queue, stanza), new)
<1>1. PICK n \in Nat : n = Len(queue) /\ DOMAIN queue = 1 .. n  BY LenProperties
<1>2. PICK more : more = Append(queue, stanza)  OBVIOUS
<1>3. /\ DOMAIN more = 1 .. n + 1 /\ more[n + 1] = stanza
      /\ \A k \in 1 .. n : more[k] = queue[k]
  BY <1>1, <1>2, AppendProperties
<1>4. ASSUME NEW x
      PROVE  /\ (\A k \in 1 .. n + 1 : ~About(more[k], x)) => Agree(copy, new, x)
             /\ \A k \in 1 .. n + 1 :
                  About(more[k], x) /\ (\A l \in 1 .. n + 1 : l > k => ~About(more[l], x))
                    => Describes(more[k], new, x)
  <2>1. CASE x = stanza.contact
    <3>1. About(more[n + 1], x) /\ n + 1 \in 1 .. n + 1  BY <1>3, <2>1 DEF About
    <3>2. ASSUME NEW k \in 1 .. n + 1, \A l \in 1 .. n + 1 : l > k => ~About(more[l], x)
          PROVE  k = n + 1
      BY <3>1, <3>2
    <3>. QED  BY <1>3, <2>1, <3>1, <3>2
  <2>2. CASE x # stanza.contact
    <3>1. ~About(more[n + 1], x) /\ Agree(roster, new, x)  BY <1>3, <2>2 DEF About
    <3>2. (\A k \in 1 .. n + 1 : ~About(more[k], x)) => Agree(copy, roster, x)
      <4>1. \A k \in 1 .. n : k \in 1 .. n + 1  OBVIOUS
      <4>. QED  BY <1>1, <1>3, <4>1 DEF BecomesRoster
    <3>3. ASSUME NEW k \in 1 .. n + 1, About(more[k], x), \A l \in 1 .. n + 1 : l > k => ~About(more[l], x)
          PROVE  Describes(more[k], new, x)
      <4>1. k \in 1 .. n  BY <3>1, <3>3
      <4>2. About(queue[k], x) /\ more[k] = queue[k]  BY <1>3, <3>3, <4>1
      <4>3. \A l \in 1 .. n : l > k => ~About(queue[l], x)
        <5>1. \A l \in 1 .. n : l \in 1 .. n + 1  OBVIOUS
        <5>. QED  BY <1>3, <3>3, <5>1
      <4>4. Describes(queue[k], roster, x)  BY <1>1, <4>1, <4>2, <4>3 DEF BecomesRoster
      <4>. QED  BY <3>1, <4>2, <4>4 DEF Describes, Agree
    <3>. QED  BY <3>1, <3>2, <3>3 DEF Agree
  <2>. QED  BY <2>1, <2>2
<1>. QED  BY <1>2, <1>3, <1>4 DEF BecomesRoster

(* A request changes nothing.                                              *)
LEMMA RequestIsNoChange ==
  ASSUME NEW copy, NEW queue \in Seq(Stanzas), NEW roster, NEW stanza \in Stanzas,
         BecomesRoster(copy, queue, roster), stanza.kind = "subscribe"
  PROVE  BecomesRoster(copy, Append(queue, stanza), roster)
<1>1. PICK n \in Nat : n = Len(queue) /\ DOMAIN queue = 1 .. n  BY LenProperties
<1>2. PICK more : more = Append(queue, stanza)  OBVIOUS
<1>3. /\ DOMAIN more = 1 .. n + 1 /\ more[n + 1] = stanza
      /\ \A k \in 1 .. n : more[k] = queue[k]
  BY <1>1, <1>2, AppendProperties
<1>4. ASSUME NEW x
      PROVE  /\ (\A k \in 1 .. n + 1 : ~About(more[k], x)) => Agree(copy, roster, x)
             /\ \A k \in 1 .. n + 1 :
                  About(more[k], x) /\ (\A l \in 1 .. n + 1 : l > k => ~About(more[l], x))
                    => Describes(more[k], roster, x)
  <2>1. ~About(more[n + 1], x)  BY <1>3 DEF About
  <2>2. \A k \in 1 .. n : k \in 1 .. n + 1  OBVIOUS
  <2>3. (\A k \in 1 .. n + 1 : ~About(more[k], x)) => Agree(copy, roster, x)
    BY <1>1, <1>3, <2>2 DEF BecomesRoster
  <2>4. ASSUME NEW k \in 1 .. n + 1, About(more[k], x), \A l \in 1 .. n + 1 : l > k => ~About(more[l], x)
        PROVE  Describes(more[k], roster, x)
    <3>1. k \in 1 .. n  BY <2>1, <2>4
    <3>2. About(queue[k], x) /\ more[k] = queue[k]  BY <1>3, <2>4, <3>1
    <3>3. \A l \in 1 .. n : l > k => ~About(queue[l], x)  BY <1>3, <2>2, <2>4
    <3>. QED  BY <1>1, <3>1, <3>2, <3>3 DEF BecomesRoster
  <2>. QED  BY <2>3, <2>4
<1>. QED  BY <1>2, <1>3, <1>4 DEF BecomesRoster

(* What is read is taken in.                                               *)
LEMMA ReadingTakesIn ==
  ASSUME NEW copy, NEW queue \in Seq(Stanzas), NEW roster, queue # <<>>,
         copy \in Rosters, BecomesRoster(copy, queue, roster)
  PROVE  /\ Head(queue).kind = "subscribe" => BecomesRoster(copy, Tail(queue), roster)
         /\ Head(queue).kind # "subscribe" =>
              /\ BecomesRoster(HandleRoster(copy, Head(queue)), Tail(queue), roster)
              /\ HandleRoster(copy, Head(queue)) \in Rosters
<1>1. PICK n \in Nat : n = Len(queue) /\ DOMAIN queue = 1 .. n  BY LenProperties
<1>2. PICK rest \in Seq(Stanzas), first \in Stanzas : rest = Tail(queue) /\ first = Head(queue)
  BY HeadTailProperties
<1>3. /\ n > 0 /\ first = queue[1] /\ DOMAIN rest = 1 .. n - 1
      /\ \A k \in 1 .. n - 1 : rest[k] = queue[k + 1]
  <2>1. n > 0  BY <1>1, EmptySeq
  <2>2. Len(rest) = n - 1 /\ \A k \in 1 .. Len(rest) : rest[k] = queue[k + 1]
    BY <1>1, <1>2, HeadTailProperties
  <2>. QED  BY <1>2, <2>1, <2>2, LenProperties
<1>4. PICK taken : taken = IF first.kind = "subscribe" THEN copy ELSE HandleRoster(copy, first)
  OBVIOUS
<1>5. taken \in Rosters
  BY <1>2, <1>4, RostersStay DEF HandleRoster, Stanzas
<1>6. \A x : ~About(first, x) => Agree(taken, copy, x)
  BY <1>4 DEF HandleRoster, Restrict, WithItem, About, Agree
<1>7. \A x : About(first, x) /\ Describes(first, roster, x) => Agree(taken, roster, x)
  BY <1>2, <1>4 DEF HandleRoster, Restrict, WithItem, About, Agree, Describes, Stanzas
<1>8. ASSUME NEW x
      PROVE  /\ (\A k \in 1 .. n - 1 : ~About(rest[k], x)) => Agree(taken, roster, x)
             /\ \A k \in 1 .. n - 1 :
                  About(rest[k], x) /\ (\A l \in 1 .. n - 1 : l > k => ~About(rest[l], x))
                    => Describes(rest[k], roster, x)
  <2>1. ASSUME NEW k \in 0 .. n - 1, \A l \in 1 .. n - 1 : l > k => ~About(rest[l], x)
        PROVE  \A l \in 1 .. n : l > k + 1 => ~About(queue[l], x)
    <3>1. ASSUME NEW l \in 1 .. n, l > k + 1 PROVE ~About(queue[l], x)
      <4>1. l - 1 \in 1 .. n - 1 /\ l - 1 > k /\ (l - 1) + 1 = l  BY <3>1
      <4>. QED  BY <1>3, <2>1, <4>1
    <3>. QED  BY <3>1
  <2>2. ASSUME \A k \in 1 .. n - 1 : ~About(rest[k], x)  PROVE Agree(taken, roster, x)
    <3>1. 0 \in 0 .. n - 1 /\ 1 \in 1 .. n /\ 0 + 1 = 1  BY <1>3
    <3>2. \A l \in 1 .. n : l > 1 => ~About(queue[l], x)  BY <2>1, <2>2, <3>1
    <3>3. CASE About(first, x)
      <4>1. Describes(queue[1], roster, x)  BY <1>1, <1>3, <3>1, <3>2, <3>3 DEF BecomesRoster
      <4>. QED  BY <1>3, <1>7, <3>3, <4>1
    <3>4. CASE ~About(first, x)
      <4>1. \A l \in 1 .. n : ~About(queue[l], x)  BY <1>3, <3>2, <3>4
      <4>2. Agree(copy, roster, x)  BY <1>1, <4>1 DEF BecomesRoster
      <4>. QED  BY <1>6, <3>4, <4>2 DEF Agree
    <3>. QED  BY <3>3, <3>4
  <2>3. ASSUME NEW k \in 1 .. n - 1, About(rest[k], x), \A l \in 1 .. n - 1 : l > k => ~About(rest[l], x)
        PROVE  Describes(rest[k], roster, x)
    <3>1. k + 1 \in 1 .. n /\ k \in 0 .. n - 1 /\ rest[k] = queue[k + 1]  BY <1>3
    <3>2. \A l \in 1 .. n : l > k + 1 => ~About(queue[l], x)  BY <2>1, <2>3, <3>1
    <3>. QED  BY <1>1, <2>3, <3>1, <3>2 DEF BecomesRoster
  <2>. QED  BY <2>2, <2>3
<1>9. BecomesRoster(taken, rest, roster)  BY <1>3, <1>8 DEF BecomesRoster
<1>. QED  BY <1>2, <1>4, <1>5, <1>9

-----------------------------------------------------------------------------
(* The server changes what it has of one contact and tells all.            *)
LEMMA ServerTells ==
  ASSUME RosterInv, NEW base \in Bases, NEW stanza \in Stanzas, NEW new \in ServerRecords,
         \/ stanza.kind = "subscribe" /\ new.roster = servers[base].roster
         \/ /\ stanza.kind # "subscribe" /\ Describes(stanza, new.roster, stanza.contact)
            /\ \A x : x # stanza.contact => Agree(servers[base].roster, new.roster, x),
         servers' = [servers EXCEPT ![base] = new], underway' = Pushed(base, stanza),
         UNCHANGED <<status, copies>>, questions' \in Seq(Questions), ~dropped'
  PROVE  RosterInv'
<1>1. RosterTypes /\ ~dropped  BY DEF RosterInv
<1>2. servers' \in [Bases -> ServerRecords]  BY <1>1 DEF RosterTypes
<1>3. \A c \in Connections : underway[c] \in Seq(Stanzas) /\ Append(underway[c], stanza) \in Seq(Stanzas)
  BY <1>1, AppendProperties DEF RosterTypes
<1>4. underway' \in [Connections -> Seq(Stanzas)]  BY <1>3 DEF Pushed
<1>5. RosterTypes'  BY <1>1, <1>2, <1>4 DEF RosterTypes
<1>6. ASSUME NEW c \in Connections, status[c] = "available"
      PROVE  BecomesRoster(copies[c], underway'[c], servers'[c.base].roster)
  <2>1. BecomesRoster(copies[c], underway[c], servers[c.base].roster)  BY <1>6 DEF RosterInv
  <2>2. c.base \in Bases  BY DEF Bases
  <2>3. CASE c.base # base
    <3>1. underway'[c] = underway[c] /\ servers'[c.base] = servers[c.base]
      BY <1>1, <2>2, <2>3 DEF Pushed, RosterTypes
    <3>. QED  BY <2>1, <3>1
  <2>4. CASE c.base = base
    <3>1. underway'[c] = Append(underway[c], stanza) /\ servers'[c.base] = new
      BY <1>1, <1>6, <2>2, <2>4 DEF Pushed, RosterTypes
    <3>2. BecomesRoster(copies[c], Append(underway[c], stanza), new.roster)
      BY <1>3, <2>1, <2>4, ChangeIsTold, RequestIsNoChange
    <3>. QED  BY <3>1, <3>2
  <2>. QED  BY <2>3, <2>4
<1>. QED  BY <1>5, <1>6 DEF RosterInv

LEMMA ServerForm ==
  ASSUME RosterInv, NEW base \in Bases
  PROVE  /\ servers[base] \in ServerRecords /\ servers[base].roster \in Rosters
         /\ servers[base].seers \in SUBSET Contacts /\ servers[base].pending \in SUBSET Contacts
BY DEF RosterInv, RosterTypes, ServerRecords

LEMMA SetItemKeeps ==
  ASSUME RosterInv, NEW base \in Bases, NEW x \in Contacts, NEW groups \in SUBSET RosterGroups,
         NEW seers \in SUBSET Contacts, NEW pending \in SUBSET Contacts,
         servers' = [servers EXCEPT ![base] =
                       [roster |-> WithItem(servers[base].roster, x, groups), seers |-> seers,
                        pending |-> pending]],
         underway' = Pushed(base, Stanza("item", x, groups)),
         UNCHANGED <<status, copies>>, questions' \in Seq(Questions), ~dropped'
  PROVE  RosterInv'
<1>1. PICK old \in Rosters : old = servers[base].roster  BY ServerForm
<1>2. PICK r \in Rosters : r = WithItem(old, x, groups)  BY RostersStay
<1>3. PICK new \in ServerRecords : new = [roster |-> r, seers |-> seers, pending |-> pending]
  BY DEF ServerRecords
<1>4. PICK stanza \in Stanzas : stanza = Stanza("item", x, groups)  BY DEF Stanza, Stanzas
<1>5. /\ DOMAIN r = DOMAIN old \cup {x} /\ r[x] = groups
      /\ \A y \in DOMAIN old : y # x => r[y] = old[y]
  BY <1>2 DEF WithItem
<1>6. stanza.kind = "item" /\ stanza.contact = x /\ stanza.groups = groups  BY <1>4 DEF Stanza
<1>7. Describes(stanza, r, x) /\ \A y : y # x => Agree(old, r, y)  BY <1>5, <1>6 DEF Describes, Agree
<1>8. new.roster = r  BY <1>3
<1>9. servers' = [servers EXCEPT ![base] = new]  BY <1>1, <1>2, <1>3
<1>. QED  BY <1>1, <1>4, <1>6, <1>7, <1>8, <1>9, ServerTells

LEMMA RemoveItemKeeps ==
  ASSUME RosterInv, NEW base \in Bases, NEW x \in Contacts, RemoveItem(base, x),
         UNCHANGED <<status, copies>>, questions' \in Seq(Questions), ~dropped'
  PROVE  RosterInv'
<1>1. PICK old \in Rosters : old = servers[base].roster  BY ServerForm
<1>2. PICK r \in Rosters : r = Restrict(old, DOMAIN old \ {x})  BY RostersStay
<1>3. PICK new \in ServerRecords : new = [servers[base] EXCEPT !.roster = r, !.seers = @ \ {x}]
  BY ServerForm DEF ServerRecords
<1>4. PICK stanza \in Stanzas : stanza = Stanza("remove", x, {})  BY DEF Stanza, Stanzas
<1>5. /\ DOMAIN r = DOMAIN old \ {x} /\ \A y \in DOMAIN old : y # x => r[y] = old[y]
  BY <1>2 DEF Restrict
<1>6. stanza.kind = "remove" /\ stanza.contact = x  BY <1>4 DEF Stanza
<1>7. Describes(stanza, r, x) /\ \A y : y # x => Agree(old, r, y)  BY <1>5, <1>6 DEF Describes, Agree
<1>8. new.roster = r  BY <1>3, ServerForm DEF ServerRecords
<1>9. servers' = [servers EXCEPT ![base] = new] /\ underway' = Pushed(base, stanza)
  <2>1. servers \in [Bases -> ServerRecords] /\ servers[base] \in ServerRecords
    BY DEF RosterInv, RosterTypes
  <2>. QED  BY <1>1, <1>2, <1>3, <1>4, <2>1 DEF RemoveItem, ServerRecords
<1>. QED  BY <1>1, <1>6, <1>7, <1>8, <1>9, ServerTells

(* Commands: those that are connected.                                     *)
LEMMA AccountsAreConnected ==
  ASSUME NEW given, NEW c \in JrosterAccount(given)
  PROVE  c \in Connections /\ status[c] = "available"
<1>1. Names!Jid(given, "").res = ""  BY DEF Names!Jid
<1>2. Names!ResolveConnectedJID(ListedConns, Names!Jid(given, ""), FALSE, NamesWithin) \subseteq ListedConns
  BY <1>1 DEF Names!ResolveConnectedJID, Names!ByBase, Names!Dies
<1>3. DefaultJID \subseteq ListedConns  BY DEF DefaultJID
<1>. QED  BY <1>2, <1>3 DEF JrosterAccount, ListedConns

LEMMA AddKeeps ==
  ASSUME RosterInv, NEW c \in Connections, status[c] = "available", NEW x \in Contacts,
         NEW groups \in SUBSET RosterGroups, NEW purge \in BOOLEAN,
         JrosterAdd(c, x, groups, purge), UNCHANGED <<status, copies>>, questions' \in Seq(Questions)
  PROVE  RosterInv'
<1>1. PICK b \in Bases : b = c.base  BY DEF Bases
<1>2. PICK all : all = AllGroups(c, x, groups, purge)  OBVIOUS
<1>3. copies[c] \in Rosters  BY DEF RosterInv, RosterTypes
<1>4. all \in SUBSET RosterGroups
  BY <1>2, <1>3, RostersStay DEF AllGroups
<1>5. ~purge /\ underway[c] = <<>> => ServerGroups(b, x) \subseteq all
  <2>1. SUFFICES ASSUME ~purge, underway[c] = <<>>  PROVE ServerGroups(b, x) \subseteq all
    OBVIOUS
  <2>2. BecomesRoster(copies[c], <<>>, servers[b].roster)  BY <1>1, <2>1 DEF RosterInv
  <2>3. copies[c] = servers[b].roster  BY <1>3, <2>2, NothingWaits, ServerForm
  <2>. QED  BY <1>2, <2>1, <2>3 DEF AllGroups, ServerGroups
<1>6. ~dropped'
  BY <1>1, <1>2, <1>5 DEF JrosterAdd, RosterInv
<1>7. /\ servers' = [servers EXCEPT ![b].roster = WithItem(@, x, all)]
      /\ underway' = Pushed(b, Stanza("item", x, all))
  BY <1>1, <1>2 DEF JrosterAdd, SetItem
<1>8. PICK seers \in SUBSET Contacts, pending \in SUBSET Contacts :
        seers = servers[b].seers /\ pending = servers[b].pending
  BY ServerForm
<1>9. servers' = [servers EXCEPT ![b] = [roster |-> WithItem(servers[b].roster, x, all), seers |-> seers,
                                         pending |-> pending]]
  <2>1. servers \in [Bases -> ServerRecords] /\ servers[b] \in ServerRecords
    BY DEF RosterInv, RosterTypes
  <2>2. PICK r : r = WithItem(servers[b].roster, x, all)  OBVIOUS
  <2>3. [servers[b] EXCEPT !.roster = r] = [roster |-> r, seers |-> seers, pending |-> pending]
    BY <1>8, <2>1 DEF ServerRecords
  <2>. QED  BY <1>7, <2>1, <2>2, <2>3
<1>. QED  BY <1>4, <1>6, <1>7, <1>8, <1>9, SetItemKeeps

LEMMA SubscribedKeeps ==
  ASSUME RosterInv, NEW b \in Bases, NEW x \in Contacts, TakeSubscribed(b, x),
         UNCHANGED <<status, copies, dropped>>, questions' \in Seq(Questions)
  PROVE  RosterInv'
<1>1. ~dropped' BY DEF RosterInv
<1>2. CASE x \notin servers[b].pending
  <2>1. UNCHANGED <<servers, underway>>  BY <1>2 DEF TakeSubscribed
  <2>. QED  BY <2>1 DEF RosterInv, RosterTypes
<1>3. CASE x \in servers[b].pending
  <2>1. PICK old \in Rosters : old = servers[b].roster  BY ServerForm
  <2>2. PICK groups \in SUBSET RosterGroups : groups = IF x \in DOMAIN old THEN old[x] ELSE {}
    BY <2>1, RostersStay
  <2>3. PICK seers \in SUBSET Contacts, pending \in SUBSET Contacts :
          seers = servers[b].seers \cup {x} /\ pending = servers[b].pending \ {x}
    BY ServerForm
  <2>4. /\ servers' = [servers EXCEPT ![b].seers = @ \cup {x}, ![b].pending = @ \ {x},
                                      ![b].roster = WithItem(@, x, groups)]
        /\ underway' = Pushed(b, Stanza("item", x, groups))
    BY <1>3, <2>1, <2>2 DEF TakeSubscribed
  <2>5. servers' = [servers EXCEPT ![b] = [roster |-> WithItem(servers[b].roster, x, groups),
                                           seers |-> seers, pending |-> pending]]
    <3>1. servers \in [Bases -> ServerRecords] /\ servers[b] \in ServerRecords
      BY DEF RosterInv, RosterTypes
    <3>2. PICK r : r = WithItem(servers[b].roster, x, groups)  OBVIOUS
    <3>3. [servers[b] EXCEPT !.seers = seers, !.pending = pending, !.roster = r]
            = [roster |-> r, seers |-> seers, pending |-> pending]
      <4>1. PICK s, x1, x2, x3 : s = servers[b] /\ s = [roster |-> x1, seers |-> x2, pending |-> x3]
        BY <3>1 DEF ServerRecords
      <4>2. PICK s1 : s1 = [s EXCEPT !.seers = seers]  OBVIOUS
      <4>3. s1 = [roster |-> x1, seers |-> seers, pending |-> x3]  BY <4>1, <4>2
      <4>4. PICK s2 : s2 = [s1 EXCEPT !.pending = pending]  OBVIOUS
      <4>5. s2 = [roster |-> x1, seers |-> seers, pending |-> pending]  BY <4>3, <4>4
      <4>6. [s2 EXCEPT !.roster = r] = [roster |-> r, seers |-> seers, pending |-> pending]  BY <4>5
      <4>. QED  BY <4>1, <4>2, <4>4, <4>6
    <3>4. servers' = [servers EXCEPT ![b] = [servers[b] EXCEPT !.seers = seers, !.pending = pending,
                                                              !.roster = r]]
      BY <2>3, <2>4, <3>1, <3>2 DEF ServerRecords
    <3>. QED  BY <3>2, <3>3, <3>4
  <2>. QED  BY <1>1, <2>2, <2>3, <2>4, <2>5, SetItemKeeps
<1>. QED  BY <1>2, <1>3

(* Nothing is told where the roster is as it was.                          *)
LEMMA SameRosters ==
  ASSUME RosterInv, NEW b \in Bases, NEW new \in ServerRecords, new.roster = servers[b].roster,
         servers' = [servers EXCEPT ![b] = new],
         UNCHANGED <<status, copies, underway, dropped>>, questions' \in Seq(Questions)
  PROVE  RosterInv'
<1>1. RosterTypes  BY DEF RosterInv
<1>2. servers' \in [Bases -> ServerRecords]  BY <1>1 DEF RosterTypes
<1>3. ASSUME NEW c \in Connections  PROVE servers'[c.base].roster = servers[c.base].roster
  BY <1>1 DEF RosterTypes, Bases
<1>. QED  BY <1>1, <1>2, <1>3 DEF RosterInv, RosterTypes

LEMMA JrosterKeeps ==
  ASSUME RosterInv, NEW c \in Connections, status[c] = "available", NEW x \in Contacts,
         NEW groups \in SUBSET RosterGroups, NEW purge \in BOOLEAN, NEW cmd,
         Jroster(cmd, c, x, groups, purge), UNCHANGED <<status, copies>>, questions' \in Seq(Questions)
  PROVE  RosterInv'
<1>1. PICK b \in Bases : b = c.base  BY DEF Bases
<1>2. CASE JrosterAdd(c, x, groups, purge)  BY <1>2, AddKeeps
<1>3. CASE JrosterSub(c, x, groups, purge)
  <2>1. CASE x \in DOMAIN copies[c]
    <3>1. UNCHANGED <<servers, underway, dropped>>  BY <1>3, <2>1 DEF JrosterSub
    <3>. QED  BY <3>1 DEF RosterInv, RosterTypes
  <2>2. CASE x \notin DOMAIN copies[c]
    <3>1. JrosterAdd(c, x, groups, purge)  BY <1>3, <2>2 DEF JrosterSub
    <3>. QED  BY <3>1, AddKeeps
  <2>. QED  BY <2>1, <2>2
<1>4. CASE JrosterRemove(c, x)
  <2>1. RemoveItem(b, x) /\ ~dropped'  BY <1>1, <1>4 DEF JrosterRemove, RosterInv
  <2>. QED  BY <2>1, RemoveItemKeeps
<1>5. CASE JrosterAuth(c, x)
  <2>1. TakeSubscribed(b, x) /\ UNCHANGED dropped  BY <1>1, <1>5 DEF JrosterAuth
  <2>. QED  BY <2>1, SubscribedKeeps
<1>6. CASE JrosterDeauth(c, x)
  <2>1. TakeUnsubscribed(b, x) /\ UNCHANGED dropped  BY <1>1, <1>6 DEF JrosterDeauth
  <2>2. servers \in [Bases -> ServerRecords] /\ servers[b] \in ServerRecords
    BY DEF RosterInv, RosterTypes
  <2>3. PICK new \in ServerRecords :
          new = [servers[b] EXCEPT !.seers = @ \ {x}, !.pending = @ \ {x}]
    BY <2>2 DEF ServerRecords
  <2>4. new.roster = servers[b].roster  BY <2>2, <2>3 DEF ServerRecords
  <2>5. servers' = [servers EXCEPT ![b] = new] /\ UNCHANGED underway
    BY <2>1, <2>2, <2>3 DEF TakeUnsubscribed, ServerRecords
  <2>. QED  BY <2>1, <2>4, <2>5, SameRosters
<1>. QED  BY <1>2, <1>3, <1>4, <1>5, <1>6 DEF Jroster

-----------------------------------------------------------------------------
(* Questions.                                                              *)
AnsweredOnce(q) ==
  /\ q.question = "true" => q.said = <<>> /\ q.sent = <<>> /\ q.own = {}
  /\ Len(q.said) <= 1 /\ Len(q.sent) <= Len(q.said)
  /\ \A c \in q.own :
       q.sent = <<[by |-> c, cmd |-> IF q.said[1] = "yes" THEN "auth" ELSE "deauth"]>>

QuestionsInv == RosterInv /\ \A i \in DOMAIN questions : AnsweredOnce(questions[i])

LEMMA ContactAsksKeeps ==
  ASSUME RosterInv, NEW b \in Bases, NEW x \in Contacts, ContactAsks(b, x)
  PROVE  RosterInv'
<1>1. servers \in [Bases -> ServerRecords] /\ servers[b] \in ServerRecords /\ questions \in Seq(Questions)
  BY DEF RosterInv, RosterTypes
<1>2. PICK new \in ServerRecords : new = [servers[b] EXCEPT !.pending = @ \cup {x}]
  BY <1>1 DEF ServerRecords
<1>3. new.roster = servers[b].roster  BY <1>1, <1>2 DEF ServerRecords
<1>4. PICK stanza \in Stanzas : stanza = Stanza("subscribe", x, {}) /\ stanza.kind = "subscribe"
  <2>1. PICK stanza : stanza = Stanza("subscribe", x, {})  OBVIOUS
  <2>2. stanza = [kind |-> "subscribe", contact |-> x, groups |-> {}]  BY <2>1 DEF Stanza
  <2>. QED  BY <2>1, <2>2 DEF Stanzas
<1>5. servers' = [servers EXCEPT ![b] = new] /\ underway' = Pushed(b, stanza)
  BY <1>1, <1>2, <1>4 DEF ContactAsks, ServerRecords
<1>6. UNCHANGED <<status, copies>> /\ questions' \in Seq(Questions) /\ ~dropped'
  BY <1>1 DEF ContactAsks, RosterInv
<1>. QED  BY <1>3, <1>4, <1>5, <1>6, ServerTells

LEMMA ConnectAccountKeeps ==
  ASSUME RosterInv, NEW c \in Connections, ConnectAccount(c)
  PROVE  RosterInv'
<1>1. PICK b \in Bases : b = c.base  BY DEF Bases
<1>2. RosterTypes /\ ~dropped  BY DEF RosterInv
<1>3. PICK roster \in Rosters, pending \in SUBSET Contacts :
        roster = servers[b].roster /\ pending = servers[b].pending
  BY ServerForm
<1>4. PICK asking \in SetToSeqs(pending) :
        underway' = [underway EXCEPT ![c] = [i \in DOMAIN asking |-> Stanza("subscribe", asking[i], {})]]
  BY <1>1, <1>3 DEF ConnectAccount
<1>5. PICK n \in Nat : n = Cardinality(pending)  BY RosterAssumption, FS_Subset, FS_CardinalityType
<1>6. DOMAIN asking = 1 .. n /\ \A i \in 1 .. n : asking[i] \in Contacts
  BY <1>4, <1>5 DEF SetToSeqs
<1>7. PICK queue \in Seq(Stanzas) :
        /\ queue = [i \in 1 .. n |-> Stanza("subscribe", asking[i], {})]
        /\ DOMAIN queue = 1 .. n /\ \A i \in 1 .. n : queue[i].kind = "subscribe"
  <2>1. PICK queue : queue = [i \in 1 .. n |-> Stanza("subscribe", asking[i], {})]  OBVIOUS
  <2>2. \A i \in 1 .. n : queue[i] \in Stanzas /\ queue[i].kind = "subscribe"
    BY <1>6, <2>1 DEF Stanza, Stanzas
  <2>3. queue \in [1 .. n -> Stanzas]  BY <2>1, <2>2
  <2>4. queue \in Seq(Stanzas)  BY <2>3, SeqDef
  <2>. QED  BY <2>1, <2>2, <2>4
<1>8. underway' = [underway EXCEPT ![c] = queue]  BY <1>4, <1>6, <1>7
<1>9. /\ status' = [status EXCEPT ![c] = "available"] /\ copies' = [copies EXCEPT ![c] = roster]
      /\ UNCHANGED <<servers, questions, dropped>>
  BY <1>1, <1>3 DEF ConnectAccount, FetchedRoster
<1>10. RosterTypes'  BY <1>2, <1>8, <1>9 DEF RosterTypes
<1>11. BecomesRoster(roster, queue, roster)
  BY <1>7 DEF BecomesRoster, Agree, About
<1>12. ASSUME NEW d \in Connections, status'[d] = "available"
       PROVE  BecomesRoster(copies'[d], underway'[d], servers'[d.base].roster)
  <2>1. CASE d = c
    <3>1. copies'[d] = roster /\ underway'[d] = queue /\ servers'[d.base].roster = roster
      BY <1>1, <1>2, <1>3, <1>8, <1>9, <2>1 DEF RosterTypes
    <3>. QED  BY <1>11, <3>1
  <2>2. CASE d # c
    <3>1. /\ copies'[d] = copies[d] /\ underway'[d] = underway[d] /\ status[d] = "available"
          /\ servers' = servers
      BY <1>2, <1>8, <1>9, <1>12, <2>2 DEF RosterTypes
    <3>. QED  BY <3>1 DEF RosterInv
  <2>. QED  BY <2>1, <2>2
<1>. QED  BY <1>2, <1>9, <1>10, <1>12 DEF RosterInv

LEMMA DisconnectAccountKeeps ==
  ASSUME RosterInv, NEW c \in Connections, NEW s \in {"absent", "reconnecting"}, DisconnectAccount(c, s)
  PROVE  RosterInv'
<1>1. RosterTypes /\ ~dropped  BY DEF RosterInv
<1>2. NoRoster \in Rosters
  BY RosterForm DEF NoRoster
<1>3. PICK copy \in Rosters : copies' = [copies EXCEPT ![c] = copy]
  <2>1. CASE s = "absent"  BY <1>2, <2>1 DEF DisconnectAccount
  <2>2. CASE s # "absent"  BY <1>1, <2>2 DEF DisconnectAccount, RosterTypes
  <2>. QED  BY <2>1, <2>2
<1>4. <<>> \in Seq(Stanzas)  OBVIOUS
<1>5. RosterTypes'  BY <1>1, <1>3, <1>4 DEF RosterTypes, DisconnectAccount
<1>6. ASSUME NEW d \in Connections, status'[d] = "available"
      PROVE  BecomesRoster(copies'[d], underway'[d], servers'[d.base].roster)
  <2>1. d # c  BY <1>1, <1>6 DEF RosterTypes, DisconnectAccount
  <2>2. /\ copies'[d] = copies[d] /\ underway'[d] = underway[d] /\ status[d] = "available"
        /\ servers' = servers
    BY <1>1, <1>3, <1>6, <2>1 DEF RosterTypes, DisconnectAccount
  <2>. QED  BY <2>2 DEF RosterInv
<1>. QED  BY <1>1, <1>5, <1>6 DEF RosterInv, DisconnectAccount

LEMMA QuestionForm ==
  ASSUME NEW c \in Connections, NEW x \in Contacts
  PROVE  Question(c.base, x) \in Questions /\ AnsweredOnce(Question(c.base, x))
<1>1. PICK b \in Bases : b = c.base  BY DEF Bases
<1>2. PICK q : q = Question(b, x)  OBVIOUS
<1>3. PICK none : none = <<>>  OBVIOUS
<1>4. q = [to |-> b, from |-> x, question |-> "true", yescommand |-> "auth", nocommand |-> "deauth",
           said |-> none, sent |-> none, own |-> {}]
  BY <1>2, <1>3 DEF Question
<1>5. q \in Questions
  <2>1. none \in Seq({"yes", "no"})  BY <1>3
  <2>2. none \in Seq(SentAnswers)  BY <1>3
  <2>. QED  BY <1>4, <2>1, <2>2 DEF Questions
<1>6. q.said = none /\ q.sent = none /\ q.own = {}  BY <1>4
<1>7. Len(none) = 0  BY <1>3
<1>. QED  BY <1>1, <1>2, <1>3, <1>5, <1>6, <1>7 DEF AnsweredOnce

LEMMA ReadStanzaKeeps ==
  ASSUME QuestionsInv, NEW c \in Connections, ReadStanza(c)
  PROVE  QuestionsInv'
<1>1. RosterInv /\ RosterTypes /\ ~dropped  BY DEF QuestionsInv, RosterInv
<1>2. PICK queue \in Seq(Stanzas) : queue = underway[c] /\ queue # <<>>
  BY <1>1 DEF RosterTypes, ReadStanza
<1>3. PICK rest \in Seq(Stanzas), first \in Stanzas : rest = Tail(queue) /\ first = Head(queue)
  BY <1>2, HeadTailProperties
<1>4. underway' = [underway EXCEPT ![c] = rest] /\ UNCHANGED <<status, servers, steps, dropped>>
  BY <1>1, <1>2, <1>3 DEF ReadStanza, RosterTypes
<1>5. PICK copy \in Rosters : copy = copies[c]  BY <1>1 DEF RosterTypes
<1>6. /\ first.kind = "subscribe" =>
           copies' = copies /\ questions' = Append(questions, Question(c.base, first.contact))
      /\ first.kind # "subscribe" =>
           copies' = [copies EXCEPT ![c] = HandleRoster(copy, first)] /\ questions' = questions
  BY <1>1, <1>2, <1>3, <1>5 DEF ReadStanza, RosterTypes
<1>7. PICK taken : taken = IF first.kind = "subscribe" THEN copy ELSE HandleRoster(copy, first)
  OBVIOUS
<1>8. taken \in Rosters
  <2>1. first.contact \in Contacts /\ first.groups \in SUBSET RosterGroups  BY <1>3 DEF Stanzas
  <2>. QED  BY <1>5, <1>7, <2>1, RostersStay DEF HandleRoster
<1>9. copies' = [copies EXCEPT ![c] = taken]  BY <1>1, <1>5, <1>6, <1>7 DEF RosterTypes
<1>10. /\ questions' \in Seq(Questions)
       /\ \A i \in DOMAIN questions' : AnsweredOnce(questions'[i])
  <2>1. questions \in Seq(Questions) /\ \A i \in DOMAIN questions : AnsweredOnce(questions[i])
    BY <1>1 DEF QuestionsInv, RosterTypes
  <2>2. CASE first.kind = "subscribe"
    <3>1. PICK q \in Questions : q = Question(c.base, first.contact) /\ AnsweredOnce(q)
      BY <1>3, QuestionForm DEF Stanzas
    <3>2. questions' = Append(questions, q)  BY <1>6, <2>2, <3>1
    <3>3. PICK n \in Nat : n = Len(questions) /\ DOMAIN questions = 1 .. n  BY <2>1, LenProperties
    <3>4. /\ questions' \in Seq(Questions) /\ DOMAIN questions' = 1 .. n + 1 /\ questions'[n + 1] = q
          /\ \A i \in 1 .. n : questions'[i] = questions[i]
      BY <2>1, <3>2, <3>3, AppendProperties
    <3>5. ASSUME NEW i \in 1 .. n + 1  PROVE AnsweredOnce(questions'[i])
      <4>1. CASE i = n + 1  BY <3>1, <3>4, <4>1
      <4>2. CASE i # n + 1
        <5>1. i \in 1 .. n  BY <4>2
        <5>. QED  BY <2>1, <3>3, <3>4, <5>1
      <4>. QED  BY <4>1, <4>2
    <3>. QED  BY <3>4, <3>5
  <2>3. CASE first.kind # "subscribe"  BY <1>6, <2>1, <2>3
  <2>. QED  BY <2>2, <2>3
<1>11. RosterTypes'  BY <1>1, <1>4, <1>8, <1>9, <1>10 DEF RosterTypes
<1>12. ASSUME NEW d \in Connections, status'[d] = "available"
       PROVE  BecomesRoster(copies'[d], underway'[d], servers'[d.base].roster)
  <2>1. BecomesRoster(copies[d], underway[d], servers[d.base].roster)
    BY <1>1, <1>4, <1>12 DEF RosterInv
  <2>2. CASE d = c
    <3>1. copies'[d] = taken /\ underway'[d] = rest  BY <1>1, <1>4, <1>9, <2>2 DEF RosterTypes
    <3>2. BecomesRoster(taken, rest, servers[c.base].roster)
      <4>1. BecomesRoster(copy, queue, servers[c.base].roster)  BY <1>2, <1>5, <2>1, <2>2
      <4>. QED  BY <1>2, <1>3, <1>5, <1>7, <4>1, ReadingTakesIn
    <3>. QED  BY <1>4, <2>2, <3>1, <3>2
  <2>3. CASE d # c
    <3>1. copies'[d] = copies[d] /\ underway'[d] = underway[d]  BY <1>1, <1>4, <1>9, <2>3 DEF RosterTypes
    <3>. QED  BY <1>4, <2>1, <3>1
  <2>. QED  BY <2>2, <2>3
<1>. QED  BY <1>1, <1>4, <1>10, <1>11, <1>12 DEF QuestionsInv, RosterInv

LEMMA JrosterCommandKeeps == QuestionsInv /\ JrosterCommand => QuestionsInv'
<1>1. SUFFICES ASSUME QuestionsInv, JrosterCommand PROVE QuestionsInv'  OBVIOUS
<1>2. PICK given \in Bases \cup {""}, x \in Contacts, purge \in BOOLEAN, groups \in SUBSET RosterGroups,
           cmd \in {"add", "sub", "remove", "auth", "deauth"} :
        /\ cmd \notin {"add", "sub"} => groups = {} /\ ~purge
        /\ \E c \in JrosterAccount(given) : Jroster(cmd, c, x, groups, purge)
  BY <1>1, Zenon DEF JrosterCommand
<1>3. PICK c \in JrosterAccount(given) : Jroster(cmd, c, x, groups, purge)  BY <1>2
<1>4. c \in Connections /\ status[c] = "available"  BY <1>3, AccountsAreConnected
<1>5. RosterInv /\ UNCHANGED <<status, copies, questions>> /\ questions' \in Seq(Questions)
  BY <1>1 DEF QuestionsInv, RosterInv, RosterTypes, JrosterCommand
<1>6. RosterInv'  BY <1>2, <1>3, <1>4, <1>5, JrosterKeeps
<1>. QED  BY <1>1, <1>5, <1>6 DEF QuestionsInv

OwnConns(to) == {c \in ListedConns : c.base = to}

(* The account that was asked, connected and once, is the one that         *)
(* answers; and never is it more than one.                                 *)
LEMMA OneAnswers ==
  ASSUME NEW to, NEW went, went = JrosterAccount(to), NEW own, own = OwnConns(to)
  PROVE  /\ IsFiniteSet(went) /\ Cardinality(went) \in {0, 1}
         /\ \A c \in own : to # "" /\ Cardinality(own) = 1 /\ status[c] = "available" => went = {c}
<1>1. IsFiniteSet(ListedConns)  BY RosterAssumption, FS_Subset DEF ListedConns
<1>2. PICK found : found = IF to = "" THEN DefaultJID
                           ELSE Names!ResolveConnectedJID(ListedConns, Names!Jid(to, ""), FALSE, NamesWithin)
  OBVIOUS
<1>3. PICK jid : jid = Names!Jid(to, "")  OBVIOUS
<1>14. jid.res = "" /\ jid.base = to  BY <1>3 DEF Names!Jid
<1>4. PICK similar \in SUBSET ListedConns : similar = {a \in ListedConns : <<to, a.base>> \in NamesWithin}
  OBVIOUS
<1>5. PICK some : some = IF own # {} THEN own ELSE similar  OBVIOUS
<1>6. to # "" => found = IF Cardinality(some) = 1 THEN some ELSE {}
  <2>1. Names!ResolveConnectedJID(ListedConns, jid, FALSE, NamesWithin)
          = Names!ByBase(ListedConns, to, NamesWithin)
    BY <1>14 DEF Names!ResolveConnectedJID
  <2>3. own = {c \in ListedConns : c.base = to}  BY DEF OwnConns
  <2>2. Names!ByBase(ListedConns, to, NamesWithin) = IF Cardinality(some) = 1 THEN some ELSE {}
    <3>. DEFINE exact == {a \in ListedConns : a.base = to}
                alike == {a \in ListedConns : <<to, a.base>> \in NamesWithin}
                chosen == IF exact # {} THEN exact ELSE alike
    <3>1. Names!ByBase(ListedConns, to, NamesWithin)
            = IF Cardinality(chosen) = 1 THEN chosen ELSE {}
      BY Zenon DEF Names!ByBase, Names!Dies, Names!Cardinality, Cardinality, Names!IsFiniteSet, IsFiniteSet
    <3>2. exact = own /\ alike = similar  BY <1>4, <2>3
    <3>3. chosen = some  BY <1>5, <3>2
    <3>. QED  BY <3>1, <3>3
  <2>. QED  BY <1>2, <1>3, <2>1, <2>2
<1>7. some \subseteq ListedConns /\ own \subseteq ListedConns  BY <1>4, <1>5 DEF OwnConns
<1>8. found \in SUBSET ListedConns /\ (found = {} \/ Cardinality(found) = 1)
  <2>1. CASE to = ""  BY <1>2, <2>1 DEF DefaultJID
  <2>2. CASE to # ""  BY <1>6, <1>7, <2>2
  <2>. QED  BY <2>1, <2>2
<1>9. IsFiniteSet(found) /\ (found = {} \/ \E c : found = {c})
  <2>1. IsFiniteSet(found)  BY <1>1, <1>8, FS_Subset
  <2>. QED  BY <1>8, <2>1, FS_Singleton
<1>10. went = {c \in found : status[c] = "available"}  BY <1>2 DEF JrosterAccount
<1>11. went = {} \/ \E c : went = {c}  BY <1>9, <1>10
<1>12. ASSUME NEW c \in own, to # "", Cardinality(own) = 1, status[c] = "available"
       PROVE  went = {c}
  <2>1. some = own /\ found = own  BY <1>5, <1>6, <1>12
  <2>2. found = {c}  BY <1>9, <1>12, <2>1
  <2>. QED  BY <1>10, <1>12, <2>2
<1>13. IsFiniteSet(went) /\ Cardinality(went) \in {0, 1}
  <2>1. CASE went = {}  BY <2>1, FS_EmptySet
  <2>2. ASSUME NEW c, went = {c} PROVE IsFiniteSet(went) /\ Cardinality(went) = 1
    BY <2>2, FS_Singleton
  <2>. QED  BY <1>11, <2>1, <2>2
<1>. QED  BY <1>12, <1>13

LEMMA AnswerQuestionKeeps ==
  ASSUME QuestionsInv, NEW i, NEW word \in {"yes", "no"}, AnswerQuestion(i, word)
  PROVE  QuestionsInv'
<1>. DEFINE q    == questions[i]
            cmd  == IF word = "yes" THEN q.yescommand ELSE q.nocommand
            went == QuestionAccount(q)
            own  == {c \in ListedConns : c.base = q.to}
            sent == [j \in 1 .. Cardinality(went) |-> [by |-> CHOOSE c \in went : TRUE, cmd |-> cmd]]
            mine == {c \in own : Cardinality(own) = 1 /\ status[c] = "available"}
<1>1. /\ i \in DOMAIN questions /\ q.question # "answered"
      /\ IF went = {} THEN UNCHANGED <<servers, underway, dropped>>
         ELSE \E c \in went : Jroster(cmd, c, q.from, {}, FALSE)
      /\ questions' = [questions EXCEPT ![i] =
           SetIsanswered([q EXCEPT !.said = Append(@, word), !.sent = @ \o sent, !.own = mine])]
      /\ UNCHANGED <<status, copies, steps>>
  BY DEF AnswerQuestion
<1>2. /\ RosterInv /\ questions \in Seq(Questions) /\ q \in Questions /\ q.question = "true"
      /\ AnsweredOnce(q)
  <2>1. questions \in Seq(Questions)  BY DEF QuestionsInv, RosterInv, RosterTypes
  <2>2. q \in Questions  BY <1>1, <2>1
  <2>3. q.question = "true"  BY <1>1, <2>2 DEF Questions
  <2>. QED  BY <1>1, <2>1, <2>2, <2>3 DEF QuestionsInv
<1>3. q.said = <<>> /\ q.sent = <<>> /\ q.own = {}  BY <1>2 DEF AnsweredOnce
<1>4. /\ cmd = IF word = "yes" THEN "auth" ELSE "deauth"
      /\ q.from \in Contacts /\ q.to \in Bases
  BY <1>2 DEF Questions
<1>5. cmd \in {"auth", "deauth"}  BY <1>4
<1>6. went = JrosterAccount(q.to)  BY DEF QuestionAccount
<1>7. mine \subseteq Connections  BY DEF ListedConns
<1>8. \A c \in mine : c \in own /\ Cardinality(own) = 1 /\ status[c] = "available"  OBVIOUS
<1>9. q.to # ""  BY <1>4, RosterAssumption DEF Bases
<1>. HIDE DEF q, cmd, own, mine, went, sent
<1>10. /\ IsFiniteSet(went) /\ Cardinality(went) \in {0, 1} /\ went \subseteq Connections
       /\ \A c \in mine : went = {c}
  <2>1. went \subseteq Connections  BY <1>6, AccountsAreConnected
  <2>2. own = {c \in ListedConns : c.base = q.to}  BY DEF own
  <2>3. PICK to : to = q.to  OBVIOUS
  <2>4. PICK w : w = went  OBVIOUS
  <2>5. PICK o : o = own  OBVIOUS
  <2>6. w = JrosterAccount(to)  BY <1>6, <2>3, <2>4
  <2>8. o = OwnConns(to)  BY <2>2, <2>3, <2>5 DEF OwnConns
  <2>7. /\ IsFiniteSet(w) /\ Cardinality(w) \in {0, 1}
        /\ \A c \in o : to # "" /\ Cardinality(o) = 1 /\ status[c] = "available" => w = {c}
    BY <2>6, <2>8, OneAnswers, Zenon
  <2>. QED  BY <1>8, <1>9, <2>1, <2>3, <2>4, <2>5, <2>7
<1>11. /\ sent \in Seq(SentAnswers) /\ Len(sent) <= 1
       /\ \A c \in mine : sent[1] = [by |-> c, cmd |-> cmd] /\ Len(sent) = 1
  <2>1. CASE Cardinality(went) = 0
    <3>1. went = {}  BY <1>10, <2>1, FS_EmptySet
    <3>2. mine = {}  BY <1>10, <3>1
    <3>3. PICK size : size = Cardinality(went) /\ size = 0  BY <2>1
    <3>4. sent = <<>>
      <4>1. 1 .. size = {}  BY <3>3
      <4>. QED  BY <3>3, <4>1 DEF sent
    <3>5. sent \in Seq(SentAnswers) /\ Len(sent) = 0  BY <3>4
    <3>. QED  BY <3>2, <3>5
  <2>2. CASE Cardinality(went) = 1
    <3>1. PICK c : went = {c}  BY <1>10, <2>2, FS_Singleton
    <3>2. (CHOOSE d \in went : TRUE) = c  BY <3>1
    <3>3. PICK o \in SentAnswers : o = [by |-> c, cmd |-> cmd]  BY <1>5, <1>10, <3>1 DEF SentAnswers
    <3>4. sent = [j \in 1 .. 1 |-> o]
      <4>1. PICK size : size = Cardinality(went) /\ size = 1  BY <2>2
      <4>. QED  BY <3>2, <3>3, <4>1 DEF sent
    <3>5. \A d \in mine : d = c  BY <1>10, <3>1
    <3>6. PICK only : only = <<o>>  OBVIOUS
    <3>7. only \in Seq(SentAnswers) /\ Len(only) = 1 /\ only[1] = o  BY <3>3, <3>6
    <3>8. sent = only  BY <3>4, <3>6
    <3>9. \A d \in mine : [by |-> d, cmd |-> cmd] = o  BY <3>3, <3>5
    <3>10. sent \in Seq(SentAnswers)  BY <3>7, <3>8
    <3>13. Len(sent) = 1  BY <3>7, <3>8
    <3>11. Len(sent) = 1 /\ Len(sent) <= 1  BY <3>13
    <3>12. \A d \in mine : sent[1] = [by |-> d, cmd |-> cmd]  BY <3>7, <3>8, <3>9
    <3>. QED  BY <3>10, <3>11, <3>12, Zenon
  <2>. QED  BY <1>10, <2>1, <2>2
<1>12. PICK said : said = <<word>>  OBVIOUS
<1>13. said \in Seq({"yes", "no"}) /\ Len(said) = 1 /\ said[1] = word  BY <1>12
<1>14. PICK r : r = [q EXCEPT !.question = "answered", !.said = said, !.sent = sent, !.own = mine]
  OBVIOUS
<1>15. /\ r \in Questions /\ r.question = "answered" /\ r.said = said /\ r.sent = sent /\ r.own = mine
  <2>1. mine \in SUBSET Connections  BY <1>7
  <2>2. sent \in Seq(SentAnswers)  BY <1>11
  <2>3. said \in Seq({"yes", "no"})  BY <1>13
  <2>4. PICK x1, x2, x3, x4, x5, x6, x7, x8 :
          /\ q = [to |-> x1, from |-> x2, question |-> x3, yescommand |-> x4, nocommand |-> x5,
                  said |-> x6, sent |-> x7, own |-> x8]
          /\ x1 \in Bases /\ x2 \in Contacts /\ x4 = "auth" /\ x5 = "deauth"
    BY <1>2 DEF Questions
  <2>5. r = [to |-> x1, from |-> x2, question |-> "answered", yescommand |-> x4, nocommand |-> x5,
             said |-> said, sent |-> sent, own |-> mine]
    BY <1>14, <2>4
  <2>6. r \in Questions  BY <2>1, <2>2, <2>3, <2>4, <2>5 DEF Questions
  <2>. QED  BY <2>5, <2>6
<1>16. questions' = [questions EXCEPT ![i] = r]
  <2>1. Append(q.said, word) = said  BY <1>3, <1>12
  <2>2. q.sent \o sent = sent  BY <1>3, <1>11
  <2>3. SetIsanswered([q EXCEPT !.said = said, !.sent = sent, !.own = mine]) = r
    BY <1>2, <1>14 DEF SetIsanswered, Questions
  <2>4. [q EXCEPT !.said = Append(@, word), !.sent = @ \o sent, !.own = mine]
          = [q EXCEPT !.said = said, !.sent = sent, !.own = mine]
    BY <2>1, <2>2
  <2>. QED  BY <1>1, <2>3, <2>4
<1>20. AnsweredOnce(r)
  <2>1. Len(r.said) <= 1 /\ Len(r.sent) <= Len(r.said)
    <3>1. Len(said) = 1 /\ Len(sent) <= 1  BY <1>11, <1>13
    <3>. QED  BY <1>15, <3>1
  <2>3. r.question # "true"  BY <1>15
  <2>2. ASSUME NEW c \in r.own
        PROVE  r.sent = <<[by |-> c, cmd |-> IF r.said[1] = "yes" THEN "auth" ELSE "deauth"]>>
    <3>1. c \in mine /\ r.said[1] = word  BY <1>13, <1>15, <2>2
    <3>2. sent[1] = [by |-> c, cmd |-> cmd] /\ Len(sent) = 1 /\ sent \in Seq(SentAnswers)  BY <1>11, <3>1
    <3>3. PICK o : o = [by |-> c, cmd |-> cmd]  OBVIOUS
    <3>4. sent = <<o>>  BY <3>2, <3>3
    <3>5. [by |-> c, cmd |-> IF r.said[1] = "yes" THEN "auth" ELSE "deauth"] = o  BY <1>4, <3>1, <3>3
    <3>. QED  BY <1>15, <3>4, <3>5
  <2>. QED  BY <2>1, <2>2, <2>3 DEF AnsweredOnce
<1>17. /\ questions' \in Seq(Questions)
       /\ \A k \in DOMAIN questions' : AnsweredOnce(questions'[k])
  <2>1. PICK n \in Nat : n = Len(questions) /\ DOMAIN questions = 1 .. n  BY <1>2, LenProperties
  <2>2. /\ questions' \in Seq(Questions) /\ Len(questions') = n
        /\ \A k \in 1 .. n : questions'[k] = IF k = i THEN r ELSE questions[k]
    BY <1>1, <1>2, <1>15, <1>16, <2>1, ExceptSeq
  <2>3. DOMAIN questions' = 1 .. n  BY <2>2, LenProperties
  <2>. QED  BY <1>20, <2>1, <2>2, <2>3 DEF QuestionsInv
<1>18. RosterInv'
  <2>1. CASE went = {}
    <3>1. UNCHANGED <<status, copies, servers, underway, dropped>>  BY <1>1, <2>1
    <3>. QED  BY <1>2, <1>17, <3>1 DEF RosterInv, RosterTypes
  <2>2. CASE went # {}
    <3>1. PICK c \in went : Jroster(cmd, c, q.from, {}, FALSE)  BY <1>1, <2>2
    <3>2. c \in Connections /\ status[c] = "available"  BY <1>6, <3>1, AccountsAreConnected
    <3>. QED  BY <1>1, <1>2, <1>4, <1>17, <3>1, <3>2, JrosterKeeps
  <2>. QED  BY <2>1, <2>2
<1>. QED  BY <1>17, <1>18 DEF QuestionsInv

LEMMA RosterStart == RosterInit => QuestionsInv
<1>1. SUFFICES ASSUME RosterInit PROVE QuestionsInv  OBVIOUS
<1>2. NoRoster \in Rosters  BY RosterForm DEF NoRoster
<1>3. copies \in [Connections -> Rosters]  BY <1>1, <1>2 DEF RosterInit
<1>4. [roster |-> NoRoster, seers |-> {}, pending |-> {}] \in ServerRecords
  BY <1>2 DEF ServerRecords
<1>5. servers \in [Bases -> ServerRecords]  BY <1>1, <1>4 DEF RosterInit
<1>6. underway \in [Connections -> Seq(Stanzas)]
  <2>2. <<>> \in Seq(Stanzas)  OBVIOUS
  <2>1. PICK none \in Seq(Stanzas) : none = <<>>  BY <2>2
  <2>. QED  BY <1>1, <2>1 DEF RosterInit
<1>7. questions \in Seq(Questions) /\ DOMAIN questions = {}  BY <1>1 DEF RosterInit
<1>8. /\ status \in [Connections -> {"absent", "available", "reconnecting"}] /\ ~dropped
      /\ \A c \in Connections : status[c] # "available"
  BY <1>1 DEF RosterInit
<1>. QED  BY <1>3, <1>5, <1>6, <1>7, <1>8 DEF QuestionsInv, RosterInv, RosterTypes

(* Where no question changes.                                              *)
LEMMA SameQuestions ==
  ASSUME QuestionsInv, RosterInv', UNCHANGED questions
  PROVE  QuestionsInv'
BY DEF QuestionsInv

LEMMA RosterStep == QuestionsInv /\ [RosterNext]_rosterVars => QuestionsInv'
<1>1. SUFFICES ASSUME QuestionsInv, [RosterNext]_rosterVars PROVE QuestionsInv'  OBVIOUS
<1>2. RosterInv  BY <1>1 DEF QuestionsInv
<1>3. ASSUME NEW b \in Bases, NEW x \in Contacts, ContactAsks(b, x)  PROVE QuestionsInv'
  BY <1>1, <1>2, <1>3, ContactAsksKeeps, SameQuestions DEF ContactAsks
<1>4. ASSUME NEW c \in Connections, ConnectAccount(c)  PROVE QuestionsInv'
  BY <1>1, <1>2, <1>4, ConnectAccountKeeps, SameQuestions DEF ConnectAccount
<1>5. ASSUME NEW c \in Connections, ReadStanza(c)  PROVE QuestionsInv'
  BY <1>1, <1>5, ReadStanzaKeeps
<1>6. ASSUME NEW c \in Connections, NEW s \in {"absent", "reconnecting"}, DisconnectAccount(c, s)
      PROVE  QuestionsInv'
  BY <1>1, <1>2, <1>6, DisconnectAccountKeeps, SameQuestions DEF DisconnectAccount
<1>7. CASE JrosterCommand  BY <1>1, <1>7, JrosterCommandKeeps
<1>8. ASSUME NEW i \in 1 .. MaxRosterSteps, NEW word \in {"yes", "no"}, AnswerQuestion(i, word)
      PROVE  QuestionsInv'
  BY <1>1, <1>8, AnswerQuestionKeeps
<1>9. CASE UNCHANGED rosterVars
  BY <1>1, <1>9 DEF rosterVars, QuestionsInv, RosterInv, RosterTypes, Pushed
<1>. QED  BY <1>1, <1>3, <1>4, <1>5, <1>6, <1>7, <1>8, <1>9 DEF RosterNext

(* What the client has of an account's roster is what its server has, once *)
(* it has read all that came; groups are kept by the commands; and a       *)
(* question is answered at most once, to the account it was put to         *)
(* (Jabber.pm, Roster.pm).                                                 *)
THEOREM RostersAgree ==
  RosterSpec => [](RostersAreCurrent /\ GroupsAreKept /\ QuestionsAreAnsweredOnce)
<1>1. QuestionsInv => RostersAreCurrent /\ GroupsAreKept /\ QuestionsAreAnsweredOnce
  <2>1. SUFFICES ASSUME QuestionsInv
                 PROVE  RostersAreCurrent /\ GroupsAreKept /\ QuestionsAreAnsweredOnce
    OBVIOUS
  <2>2. RostersAreCurrent
    <3>1. ASSUME NEW c \in Connections, status[c] = "available", underway[c] = <<>>
          PROVE  copies[c] = servers[c.base].roster
      <4>1. BecomesRoster(copies[c], <<>>, servers[c.base].roster)
        BY <2>1, <3>1 DEF QuestionsInv, RosterInv
      <4>2. copies[c] \in Rosters /\ servers[c.base].roster \in Rosters
        <5>1. c.base \in Bases  BY DEF Bases
        <5>. QED  BY <2>1, <5>1, ServerForm DEF QuestionsInv, RosterInv, RosterTypes
      <4>. QED  BY <4>1, <4>2, NothingWaits
    <3>. QED  BY <3>1 DEF RostersAreCurrent
  <2>3. GroupsAreKept  BY <2>1 DEF QuestionsInv, RosterInv, GroupsAreKept
  <2>4. QuestionsAreAnsweredOnce
    <3>1. \A i \in DOMAIN questions : AnsweredOnce(questions[i])  BY <2>1 DEF QuestionsInv
    <3>. QED  BY <3>1 DEF AnsweredOnce, QuestionsAreAnsweredOnce
  <2>. QED  BY <2>2, <2>3, <2>4
<1>. QED  BY <1>1, RosterStart, RosterStep, PTL DEF RosterSpec

-----------------------------------------------------------------------------
(* The machines together: a step of one leaves the others alone.           *)
LEMMA SourcesStart ==
  SourcesInit => /\ FramesInit /\ TweetInit /\ PostInit /\ BuddyInit
                 /\ JabberInit /\ RosterInit /\ SsiInit /\ AimInit /\ LocateInit
BY DEF SourcesInit

LEMMA SourcesTakeTurns ==
  [SourcesNext]_sourceVars => /\ [FramesNext]_frameVars /\ [TweetNext]_tweetVars
                              /\ [PostNext]_postVars /\ [BuddyNext]_buddyVars
                              /\ [JabberNext]_jabberVars /\ [RosterNext]_rosterVars
                              /\ [SsiNext]_ssiVars /\ [AimNext]_aimVars /\ [LocateNext]_locateVars
BY DEF SourcesNext, sourceVars

(* Frames, tweets, posts and pseudo-logins: what arrives is passed on once *)
(* and in order, in the machines side by side.                             *)
THEOREM AllIsShownOnce == SourcesSpec => []ShownOnceAndInOrder
<1>1. SourcesSpec => FramesSpec /\ TweetsSpec /\ PostsSpec /\ BuddySpec
  BY SourcesStart, SourcesTakeTurns, PTL DEF SourcesSpec, FramesSpec, TweetsSpec, PostsSpec, BuddySpec
<1>2. FramesArriveInOrder /\ TweetsAreShownOnce /\ PostsAreShownOnce /\ SilentChecksAreSilent
        => ShownOnceAndInOrder
  BY DEF ShownOnceAndInOrder, FeedsAreShownOnce
<1>. QED
  BY <1>1, <1>2, FramesStayInOrder, TweetsStayInOrder, PostsStayInOrder, SilentChecksStaySilent, PTL

(* Connections and rosters, all of Jabber, in the machines side by side.   *)
THEOREM JabberStaysServed == SourcesSpec => []JabberIsServed
<1>1. SourcesSpec => JabberSpec /\ RosterSpec
  BY SourcesStart, SourcesTakeTurns, PTL DEF SourcesSpec, JabberSpec, RosterSpec
<1>2. JabberIsOrderly /\ RostersAreCurrent /\ GroupsAreKept /\ QuestionsAreAnsweredOnce => JabberIsServed
  BY DEF JabberIsServed
<1>. QED  BY <1>1, <1>2, JabberStaysOrderly, RostersAgree, PTL

(* The session, the list and who is asked about, all of AIM, as long as    *)
(* edits wait for the answers to the last.                                 *)
THEOREM AimStaysServed ==
  ASSUME ~Impatient
  PROVE  SourcesSpec => []AimIsServed
<1>1. SourcesSpec => SsiSafetySpec /\ AimSafetySpec /\ LocateSpec
  BY SourcesStart, SourcesTakeTurns, PTL DEF SourcesSpec, SsiSafetySpec, AimSafetySpec, LocateSpec
<1>2. SessionIsServed /\ CopiesAreExact /\ EachIsAskedInTurn => AimIsServed
  BY DEF AimIsServed
<1>3. SsiSafetySpec => []CopiesAreExact  BY SsiSafe
<1>. QED  BY <1>1, <1>2, <1>3, SessionsAreServed, BuddiesAreAskedInTurn, PTL
=============================================================================
