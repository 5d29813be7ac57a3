--------------------------- MODULE NetworksProofs ---------------------------
(***************************************************************************)
(* What holds of the protocols however many people, channels and           *)
(* subscriptions there are, and however long the client runs: no automatic *)
(* answer is answered (AutoReplies), the subscriptions the user is told of *)
(* and those in the file are kept and a check of the Zephyr buddies makes  *)
(* no noise (ZephyrClient), the lists of names and the reconnections of an *)
(* IRC network are in order (Irc), the AIM buddies are asked about in turn *)
(* (Locate), the frames of a connection leave in order (Frames), and an    *)
(* AIM session is polled and its buddy list is exact (AimSession).         *)
(***************************************************************************)
EXTENDS AutoReplies, ZephyrClient, Irc, AimSession, Locate, Frames, SubsequencesProofs

-----------------------------------------------------------------------------
(* AutoReplies: the answers of those who are away.                         *)
TalkSpec == TalkInit /\ [][TalkNext]_talkVars

(* What is underway: a message that somebody wrote, without the marks of   *)
(* an answer, or an answer to such a one, with them.                       *)
Forms ==
  [via : {"zephyr", "aim"}, from : People, class : {"message", "help", NoText},
   opcode : {NoText, "ping"}, zsig : {NoText, AutoSig}, tlvs : SUBSET {2, 3, 4}, replies : {0, 1}]

Messages == {m \in Forms : IsAuto(m) <=> m.replies = 1}

Queued == {[m |-> m, isauto |-> IsAuto(m)] : m \in Messages}

TalkTypeOK ==
  /\ zaway \in [People -> BOOLEAN] /\ aaway \in [People -> BOOLEAN]
  /\ inflight \in [People -> Seq(Messages)]
  /\ messagequeue \in [People -> Seq(Queued)]

-----------------------------------------------------------------------------
(* Having the mark is a matter of these fields.                            *)
LEMMA Marks ==
  ASSUME NEW m
  PROVE  /\ m.via = "zephyr" => (IsAuto(m) <=> m.zsig = AutoSig \/ m.opcode = "auto")
         /\ m.via = "aim" => (IsAuto(m) <=> 4 \in m.tlvs)
  BY DEF IsAuto, IcbmFlags

(* What is sent over Zephyr is a form, marked by its signature.            *)
LEMMA ZephyrForms ==
  ASSUME NEW p \in People, NEW class \in {"message", "help", NoText},
         NEW opcode \in {NoText, "ping"}, NEW zsig \in {NoText, AutoSig}, NEW replies \in {0, 1}
  PROVE  /\ Zephyr(p, class, opcode, zsig, replies) \in Forms
         /\ IsAuto(Zephyr(p, class, opcode, zsig, replies)) <=> zsig = AutoSig
         /\ Zephyr(p, class, opcode, zsig, replies).replies = replies
<1> DEFINE m == [via |-> "zephyr", from |-> p, class |-> class, opcode |-> opcode, zsig |-> zsig,
                 tlvs |-> {}, replies |-> replies]
<1>1. m \in Forms
  BY DEF Forms
<1>2. m.via = "zephyr" /\ m.zsig = zsig /\ m.opcode = opcode /\ m.replies = replies
  OBVIOUS
<1>3. Zephyr(p, class, opcode, zsig, replies) = m
  BY DEF Zephyr
<1>4. opcode # "auto"
  BY DEF NoText
<1> HIDE DEF m
<1> QED
  BY <1>1, <1>2, <1>3, <1>4, Marks

(* What is sent over AIM is a form, marked by the away flag.               *)
LEMMA SendImForms ==
  ASSUME NEW p \in People, NEW replies \in {0, 1}, NEW flags \in {{}, {"AWAY"}}
  PROVE  /\ SendIm(p, flags, replies) \in Forms
         /\ IsAuto(SendIm(p, flags, replies)) <=> flags = {"AWAY"}
         /\ SendIm(p, flags, replies).replies = replies
<1> DEFINE tlvs == {2} \cup (IF flags = {"AWAY"} THEN {4} ELSE {})
           m == [via |-> "aim", from |-> p, class |-> NoText, opcode |-> NoText, zsig |-> NoText,
                 tlvs |-> tlvs, replies |-> replies]
<1>1. SendIm(p, flags, replies) = m
  BY DEF SendIm
<1>2. tlvs \in SUBSET {2, 3, 4} /\ (4 \in tlvs <=> flags = {"AWAY"})
  OBVIOUS
<1> HIDE DEF tlvs
<1>3. m \in Forms
  BY <1>2 DEF Forms
<1>4. m.via = "aim" /\ m.tlvs = tlvs /\ m.replies = replies
  OBVIOUS
<1> HIDE DEF m
<1> QED
  BY <1>1, <1>2, <1>3, <1>4, Marks

(* What people write bears no mark, over either protocol.                  *)
LEMMA WrittenUnmarked ==
  ASSUME NEW p \in People, NEW class \in {"message", "help"}, NEW opcode \in {NoText, "ping"}
  PROVE  Zephyr(p, class, opcode, NoText, 0) \in Messages /\ SendIm(p, {}, 0) \in Messages
<1>1. NoText # AutoSig
  BY DEF NoText, AutoSig
<1> QED
  BY <1>1, ZephyrForms, SendImForms DEF Messages

(* An answer bears the mark that is looked for.                            *)
LEMMA AnswersMarked ==
  ASSUME NEW p \in People, NEW class \in {"message", "help", NoText}
  PROVE  Zephyr(p, class, NoText, AutoSig, 1) \in Messages /\ SendIm(p, {"AWAY"}, 1) \in Messages
  BY ZephyrForms, SendImForms DEF Messages

(* Only what is not an answer is answered.                                 *)
LEMMA AnswersAreMessages ==
  ASSUME TalkTypeOK, NEW p \in People, NEW q \in Queued
  PROVE  Answers(p, q) \in Seq(Messages) /\ q.m.from \in People
<1>1. /\ q.m \in Messages /\ q.m.from \in People /\ q.m.class \in {"message", "help", NoText}
      /\ q.isauto <=> q.m.replies = 1
      /\ q.m.replies \in {0, 1}
  BY DEF Queued, Messages, Forms
<1> DEFINE im == SendIm(p, {"AWAY"}, q.m.replies + 1)
           notice == Zephyr(p, q.m.class, NoText, AutoSig, q.m.replies + 1)
<1>2. Answers(p, q) = <<>> \/ (~q.isauto /\ (Answers(p, q) = <<im>> \/ Answers(p, q) = <<notice>>))
  BY Zenon DEF Answers
<1>3. ASSUME ~q.isauto
      PROVE  im \in Messages /\ notice \in Messages
  <2>1. q.m.replies + 1 = 1
    BY <1>1, <1>3
  <2> QED
    BY <1>1, <2>1, AnswersMarked
<1> HIDE DEF im, notice
<1>4. \A m \in Messages : <<m>> \in Seq(Messages)
  OBVIOUS
<1>5. <<>> \in Seq(Messages)
  BY EmptySeq
<1>6. Answers(p, q) \in Seq(Messages)
  BY <1>2, <1>3, <1>4, <1>5, Zenon
<1> QED
  BY <1>1, <1>6

(* The queue takes in what was underway with the mark it bears.            *)
LEMMA TakenInIsQueued ==
  ASSUME NEW m \in Messages
  PROVE  [m |-> m, isauto |-> IsAuto(m)] \in Queued
  BY DEF Queued

-----------------------------------------------------------------------------
(* At first nothing is underway.                                           *)
LEMMA InitTalk == TalkInit => TalkTypeOK
  BY EmptySeq DEF TalkInit, TalkTypeOK

(* Somebody writes a message of his own.                                   *)
LEMMA WriteKeeps ==
  ASSUME TalkTypeOK, NEW p \in People, WriteSome(p)
  PROVE  TalkTypeOK'
<1>1. PICK to \in People, m \in Messages : WriteTo(p, to, m)
  BY WrittenUnmarked DEF WriteSome
<1>2. Append(inflight[to], m) \in Seq(Messages)
  BY DEF TalkTypeOK
<1> QED
  BY <1>1, <1>2 DEF WriteTo, TalkTypeOK

(* Somebody goes away, or comes back.                                      *)
LEMMA SwitchKeeps ==
  ASSUME TalkTypeOK, NEW p \in People, NEW how \in {"on", "off", "toggle"},
         ZawayCommand(p, how) \/ AawayCommand(p, how) \/ AwayCommand(p, how)
  PROVE  TalkTypeOK'
<1>1. \A now \in BOOLEAN : Switch(now, how) \in BOOLEAN
  BY DEF Switch
<1> QED
  BY <1>1 DEF ZawayCommand, AawayCommand, AwayCommand, TalkTypeOK

(* A message arrives and is queued.                                        *)
LEMMA TakeInKeeps ==
  ASSUME TalkTypeOK, NEW p \in People, TakeIn(p)
  PROVE  TalkTypeOK'
<1> DEFINE m == Head(inflight[p])
<1>1. inflight[p] \in Seq(Messages) /\ inflight[p] # <<>> /\ messagequeue[p] \in Seq(Queued)
  BY DEF TakeIn, TalkTypeOK
<1>2. m \in Messages /\ Tail(inflight[p]) \in Seq(Messages)
  BY <1>1
<1>3. Append(messagequeue[p], [m |-> m, isauto |-> IsAuto(m)]) \in Seq(Queued)
  BY <1>1, <1>2, TakenInIsQueued, AppendProperties
<1> QED
  BY <1>2, <1>3 DEF TakeIn, TalkTypeOK

(* A queued message is processed, and perhaps answered.                    *)
LEMMA ProcessKeeps ==
  ASSUME TalkTypeOK, NEW p \in People, NEW punted \in BOOLEAN, ProcessTakenIn(p, punted)
  PROVE  TalkTypeOK'
<1> DEFINE q == Head(messagequeue[p])
           sent == IF punted THEN <<>> ELSE Answers(p, q)
<1>1. messagequeue[p] \in Seq(Queued) /\ messagequeue[p] # <<>>
  BY DEF ProcessTakenIn, TalkTypeOK
<1>2. q \in Queued /\ Tail(messagequeue[p]) \in Seq(Queued)
  BY <1>1
<1>3. sent \in Seq(Messages) /\ q.m.from \in People
  BY <1>2, AnswersAreMessages, EmptySeq
<1>4. inflight' = [inflight EXCEPT ![q.m.from] = @ \o sent]
  BY DEF ProcessTakenIn
<1> HIDE DEF q, sent
<1>5. inflight[q.m.from] \o sent \in Seq(Messages)
  BY <1>3, ConcatProperties DEF TalkTypeOK
<1>6. inflight' \in [People -> Seq(Messages)]
  BY <1>3, <1>4, <1>5 DEF TalkTypeOK
<1> QED
  BY <1>2, <1>6 DEF ProcessTakenIn, TalkTypeOK

(* Every step keeps the types, and with them the marks.                    *)
LEMMA TalkStep == TalkTypeOK /\ [TalkNext]_talkVars => TalkTypeOK'
<1> SUFFICES ASSUME TalkTypeOK, [TalkNext]_talkVars
             PROVE  TalkTypeOK'
  OBVIOUS
<1>1. CASE UNCHANGED talkVars
  BY <1>1 DEF talkVars, TalkTypeOK
<1>2. CASE TalkNext
  <2>1. PICK p \in People :
          \/ WriteSome(p)
          \/ \E how \in {"on", "off", "toggle"} :
               ZawayCommand(p, how) \/ AawayCommand(p, how) \/ AwayCommand(p, how)
          \/ TakeIn(p)
          \/ \E punted \in BOOLEAN : ProcessTakenIn(p, punted)
    BY <1>2 DEF TalkNext
  <2> QED
    BY <2>1, WriteKeeps, SwitchKeeps, TakeInKeeps, ProcessKeeps
<1> QED
  BY <1>1, <1>2

(* What is underway and queued is of these kinds, marks included.          *)
THEOREM MarksAreKept == TalkSpec => []TalkTypeOK
  BY InitTalk, TalkStep, PTL DEF TalkSpec

(* No client answers an answer (owl_process_message, owl_zephyr_zaway,     *)
(* owl_function_send_aimawymsg), whatever the number of clients and of     *)
(* messages.                                                               *)
THEOREM NoAnswerIsAnswered == TalkSpec => []AnswersAreNotAnswered
<1>1. TalkTypeOK => AnswersAreNotAnswered
  <2> SUFFICES ASSUME TalkTypeOK, NEW p \in People
               PROVE  /\ \A i \in DOMAIN inflight[p] : inflight[p][i].replies <= 1
                      /\ \A i \in DOMAIN messagequeue[p] :
                           messagequeue[p][i].isauto <=> messagequeue[p][i].m.replies > 0
    BY DEF AnswersAreNotAnswered
  <2>1. ASSUME NEW i \in DOMAIN inflight[p]
        PROVE  inflight[p][i].replies <= 1
    <3>1. inflight[p][i] \in Messages
      BY ElementOfSeq, LenProperties DEF TalkTypeOK
    <3> QED
      BY <3>1 DEF Messages, Forms
  <2>2. ASSUME NEW i \in DOMAIN messagequeue[p]
        PROVE  messagequeue[p][i].isauto <=> messagequeue[p][i].m.replies > 0
    <3>1. messagequeue[p][i] \in Queued
      BY ElementOfSeq, LenProperties DEF TalkTypeOK
    <3> QED
      BY <3>1 DEF Queued, Messages, Forms
  <2> QED
    BY <2>1, <2>2
<1> QED
  BY <1>1, MarksAreKept, PTL

-----------------------------------------------------------------------------
(* ZephyrClient: the subscriptions.                                        *)
SubsSpec == SubsInit /\ [][SubsNext]_subsVars

AllSubs == Subs \cup DefaultSubs \cup {PersonalSub} \cup LoginSubs

(* What lists of subscriptions have together.                              *)
UnionOf(lists) == UNION ToSet(lists)

(* Until Zephyr is ready, the user has been told of what is deferred only, *)
(* which is what will be asked for.                                        *)
SubsInv ==
  /\ deferred \in Seq(SUBSET AllSubs) /\ subsfile \in Seq(SubsLines)
  /\ zephyr # "ready" => told \subseteq UnionOf(deferred)
  /\ SubscriptionsAreKept

(* Requests none of which is refused are all accepted.                     *)
LEMMA AllAccepted ==
  ASSUME NEW requests \in Seq(SUBSET AllSubs)
  PROVE  AcceptedOf(requests, 0) = UnionOf(requests)
<1>1. 0 \notin DOMAIN requests  BY LenProperties
<1>2. {requests[i] : i \in DOMAIN requests \ {0}} = ToSet(requests)  BY <1>1 DEF ToSet
<1>. QED  BY <1>2 DEF AcceptedOf, UnionOf

(* What a file is read for depends on its lines, not on their order; a     *)
(* line that is appended or removed changes it by its subscription.        *)
LEMMA LoadedOf ==
  ASSUME NEW file \in Seq(SubsLines), NEW s \in Subs
  PROVE  /\ Loaded(file) \subseteq Subs
         /\ Loaded(Append(file, SubsLine("sub", s))) = Loaded(file) \cup {s}
         /\ Loaded(Without(file, {SubsLine("sub", s)})) = Loaded(file) \ {s}
<1>. DEFINE line == SubsLine("sub", s)
<1>1. line \in SubsLines /\ line.kind = "sub" /\ line.sub = s  BY DEF SubsLine, SubsLines
<1>2. ToSet(file) \subseteq SubsLines  BY OnlyAtPositions
<1>3. ToSet(Append(file, line)) = ToSet(file) \cup {line}  BY <1>1, ElementsOfAppend
<1>4. ToSet(Without(file, {line})) = ToSet(file) \ {line}  BY WithoutElements
<1>5. \A l \in SubsLines : l.kind = "sub" /\ l.sub = s => l = line
  BY DEF SubsLine, SubsLines
<1>6. \A l \in SubsLines : l.sub \in Subs  BY DEF SubsLines
<1>. HIDE DEF line
<1>7. Loaded(file) \subseteq Subs  BY <1>2, <1>6 DEF Loaded
<1>8. Loaded(Append(file, line)) = Loaded(file) \cup {s}  BY <1>1, <1>3 DEF Loaded
<1>9. Loaded(Without(file, {line})) = Loaded(file) \ {s}
  BY <1>1, <1>2, <1>4, <1>5 DEF Loaded
<1>. QED  BY <1>7, <1>8, <1>9 DEF line

(* Lists of subscriptions, one after the other.                            *)
LEMMA UnionOfConcat ==
  ASSUME NEW a \in Seq(SUBSET AllSubs), NEW b \in Seq(SUBSET AllSubs)
  PROVE  /\ a \o b \in Seq(SUBSET AllSubs)
         /\ UnionOf(a \o b) = UnionOf(a) \cup UnionOf(b)
<1>1. PICK S : S = SUBSET AllSubs  OBVIOUS
<1>2. a \in Seq(S) /\ b \in Seq(S)  BY <1>1
<1>3. a \o b \in Seq(S) /\ ToSet(a \o b) = ToSet(a) \cup ToSet(b)  BY <1>2, ElementsOfConcat
<1>4. \A x : x \in UnionOf(a \o b) <=> x \in UnionOf(a) \/ x \in UnionOf(b)
  BY <1>3, Zenon DEF UnionOf
<1>. QED  BY <1>1, <1>3, <1>4

(* The answer of the host manager: what was deferred is among what is      *)
(* asked for.                                                              *)
LEMMA AnsweredKeeps ==
  ASSUME SubsInv, Answered
  PROVE  SubsInv'
<1>1. PICK requests : requests = InitialRequests \o deferred  OBVIOUS
<1>2. InitialRequests \in Seq(SUBSET AllSubs)
  <2>1. Loaded(subsfile) \subseteq AllSubs
    <3>1. \A l \in SubsLines : l.sub \in Subs  BY DEF SubsLines
    <3>2. ToSet(subsfile) \subseteq SubsLines  BY OnlyAtPositions DEF SubsInv
    <3>. QED  BY <3>1, <3>2 DEF Loaded, AllSubs
  <2>2. PICK S : S = SUBSET AllSubs  OBVIOUS
  <2>3. DefaultSubs \in S /\ {PersonalSub} \in S /\ Loaded(subsfile) \in S /\ LoginSubs \in S
    BY <2>1, <2>2 DEF AllSubs
  <2>4. <<DefaultSubs, {PersonalSub}, Loaded(subsfile), LoginSubs>> \in Seq(S) /\ <<>> \in Seq(S)
    BY <2>3
  <2>. QED  BY <2>2, <2>4 DEF InitialRequests
<1>3. /\ requests \in Seq(SUBSET AllSubs)
      /\ UnionOf(deferred) \subseteq UnionOf(requests)
  <2>1. deferred \in Seq(SUBSET AllSubs)  BY DEF SubsInv
  <2>2. requests \in Seq(SUBSET AllSubs)
    BY <1>1, <1>2, <2>1, UnionOfConcat
  <2>3. UnionOf(requests) = UnionOf(InitialRequests) \cup UnionOf(deferred)
    BY <1>1, <1>2, <2>1, UnionOfConcat
  <2>. QED  BY <2>2, <2>3
<1>4. told \subseteq UnionOf(requests)  BY <1>3 DEF SubsInv, Answered
<1>5. PICK refused \in 0 .. Len(requests) :
        subs' = AcceptedOf(requests, refused) /\ Tell(requests, refused)
  BY <1>1 DEF Answered
<1>6. subs' = told'
  BY <1>3, <1>4, <1>5, AllAccepted DEF Tell, UnionOf
<1>7. deferred' = <<>> /\ zephyr' = "ready" /\ UNCHANGED <<subsfile, kept>>  BY DEF Answered
<1>. QED  BY <1>6, <1>7, EmptySeq DEF SubsInv, SubscriptionsAreKept

(* Requests, at once or deferred.                                          *)
LEMMA RequestKeeps ==
  ASSUME SubsInv, NEW lists \in Seq(SUBSET AllSubs), Request(lists),
         UNCHANGED <<zephyr, subsfile, kept>>
  PROVE  SubsInv'
<1>1. CASE zephyr = "ready"
  <2>1. PICK refused \in 0 .. Len(lists) :
          /\ subs' = subs \cup AcceptedOf(lists, refused)
          /\ Tell(lists, refused) /\ UNCHANGED deferred
    BY <1>1 DEF Request
  <2>2. subs' = told'
    BY <1>1, <2>1, AllAccepted DEF Tell, UnionOf, SubsInv, SubscriptionsAreKept
  <2>. QED  BY <1>1, <2>1, <2>2 DEF SubsInv, SubscriptionsAreKept
<1>2. CASE zephyr # "ready"
  <2>1. deferred' = deferred \o lists /\ told' = told \cup UnionOf(lists)
    BY <1>2 DEF Request, UnionOf
  <2>2. deferred \in Seq(SUBSET AllSubs)  BY DEF SubsInv
  <2>3. deferred' \in Seq(SUBSET AllSubs)  BY <2>1, <2>2, UnionOfConcat
  <2>4. UnionOf(deferred') = UnionOf(deferred) \cup UnionOf(lists)
    BY <2>1, <2>2, UnionOfConcat
  <2>5. told \subseteq UnionOf(deferred)  BY <1>2 DEF SubsInv
  <2>6. told' \subseteq UnionOf(deferred')  BY <2>1, <2>4, <2>5
  <2>. QED  BY <1>2, <2>3, <2>6 DEF SubsInv, SubscriptionsAreKept, Loaded
<1>. QED  BY <1>1, <1>2

(* The file, changed by a line.                                            *)
LEMMA FileKeeps ==
  ASSUME SubsInv, NEW s \in Subs,
         AddSub(s) \/ DelSub(s) \/ UNCHANGED <<subsfile, kept>>
  PROVE  subsfile' \in Seq(SubsLines) /\ Loaded(subsfile') = kept'
<1>1. subsfile \in Seq(SubsLines) /\ Loaded(subsfile) = kept
  BY DEF SubsInv, SubscriptionsAreKept
<1>2. SubsLine("sub", s) \in SubsLines  BY DEF SubsLine, SubsLines
<1>3. CASE AddSub(s)
  <2>1. CASE subsfile' = Append(subsfile, SubsLine("sub", s)) /\ kept' = kept \cup {s}
    <3>1. Append(subsfile, SubsLine("sub", s)) \in Seq(SubsLines)
      BY <1>1, <1>2, AppendProperties
    <3>2. Loaded(Append(subsfile, SubsLine("sub", s))) = kept \cup {s}  BY <1>1, LoadedOf
    <3>. QED  BY <2>1, <3>1, <3>2
  <2>. QED  BY <1>1, <1>3, <2>1 DEF AddSub
<1>4. CASE DelSub(s)
  <2>1. CASE subsfile' = Without(subsfile, {SubsLine("sub", s)}) /\ kept' = kept \ {s}
    <3>1. Without(subsfile, {SubsLine("sub", s)}) \in Seq(SubsLines)  BY <1>1, WithoutElements
    <3>2. Loaded(Without(subsfile, {SubsLine("sub", s)})) = kept \ {s}  BY <1>1, LoadedOf
    <3>. QED  BY <2>1, <3>1, <3>2
  <2>. QED  BY <1>1, <1>4, <2>1 DEF DelSub
<1>. QED  BY <1>1, <1>3, <1>4

(* Every step keeps the subscriptions.                                     *)
LEMMA SubsStep == SubsInv /\ [SubsNext]_subsVars => SubsInv'
<1>. SUFFICES ASSUME SubsInv, [SubsNext]_subsVars PROVE SubsInv'  OBVIOUS
<1>1. CASE UNCHANGED subsVars
  BY <1>1 DEF SubsInv, SubscriptionsAreKept, subsVars, Loaded
<1>2. CASE Answered  BY <1>2, AnsweredKeeps
<1>3. CASE AnsweredBadly
  BY <1>3 DEF AnsweredBadly, SubsInv, SubscriptionsAreKept, Loaded
<1>4. CASE LoadSubs
  <2>1. PICK lists :
          /\ lists = <<Loaded(subsfile)>> \o (IF zephyr = "ready" THEN <<DefaultSubs>> ELSE <<>>)
                       \o << {PersonalSub} >>
          /\ Request(lists)
    BY <1>4 DEF LoadSubs
  <2>2. Loaded(subsfile) \subseteq AllSubs
    <3>1. \A l \in SubsLines : l.sub \in Subs  BY DEF SubsLines
    <3>2. ToSet(subsfile) \subseteq SubsLines  BY OnlyAtPositions DEF SubsInv
    <3>. QED  BY <3>1, <3>2 DEF Loaded, AllSubs
  <2>3. lists \in Seq(SUBSET AllSubs)
    <3>1. PICK S : S = SUBSET AllSubs  OBVIOUS
    <3>2. DefaultSubs \in S /\ {PersonalSub} \in S /\ Loaded(subsfile) \in S
      BY <2>2, <3>1 DEF AllSubs
    <3>3. PICK first : first = <<Loaded(subsfile)>>  OBVIOUS
    <3>4. PICK second : second = IF zephyr = "ready" THEN <<DefaultSubs>> ELSE <<>>  OBVIOUS
    <3>5. PICK third : third = << {PersonalSub} >>  OBVIOUS
    <3>6. first \in Seq(S) /\ second \in Seq(S) /\ third \in Seq(S)
      BY <3>2, <3>3, <3>4, <3>5
    <3>7. lists = first \o second \o third  BY <2>1, <3>3, <3>4, <3>5
    <3>. QED  BY <3>1, <3>6, <3>7, ConcatProperties
  <2>. QED  BY <1>4, <2>1, <2>3, RequestKeeps DEF LoadSubs, SubsCommand
<1>5. CASE LoadLoginSubs
  <2>1. <<LoginSubs>> \in Seq(SUBSET AllSubs)  BY DEF AllSubs
  <2>. QED  BY <1>5, <2>1, RequestKeeps DEF LoadLoginSubs, SubsCommand
<1>6. CASE UnsubAll
  BY <1>6 DEF UnsubAll, SubsCommand, SubsInv, SubscriptionsAreKept, Loaded
<1>7. ASSUME NEW s \in Subs, NEW temp \in BOOLEAN, Subscribe(s, temp) PROVE SubsInv'
  <2>1. subsfile' \in Seq(SubsLines) /\ Loaded(subsfile') = kept'
    BY <1>7, FileKeeps DEF Subscribe
  <2>. QED  BY <1>7, <2>1 DEF Subscribe, SubsCommand, SubsInv, SubscriptionsAreKept
<1>8. ASSUME NEW s \in Subs, NEW temp \in BOOLEAN, Unsubscribe(s, temp) PROVE SubsInv'
  <2>1. subsfile' \in Seq(SubsLines) /\ Loaded(subsfile') = kept'
    BY <1>8, FileKeeps DEF Unsubscribe
  <2>. QED  BY <1>8, <2>1 DEF Unsubscribe, SubsCommand, SubsInv, SubscriptionsAreKept
<1>9. CASE NextSession
  BY <1>9, EmptySeq DEF NextSession, SubsInv, SubscriptionsAreKept, Loaded
<1>. QED  BY <1>1, <1>2, <1>3, <1>4, <1>5, <1>6, <1>7, <1>8, <1>9 DEF SubsNext

(* What the user has been told is subscribed to is so on the server, and   *)
(* the file has what was put in it or left there (zephyr.c), whatever is   *)
(* loaded before Zephyr is ready, refused or fails.                        *)
THEOREM SubscriptionsKept == SubsSpec => []SubscriptionsAreKept
<1>1. SubsInit => SubsInv
  BY SubsFilesAssumption, EmptySeq DEF SubsInit, SubsInv, SubscriptionsAreKept
<1>2. SubsInv => SubscriptionsAreKept  BY DEF SubsInv
<1>. QED  BY <1>1, <1>2, SubsStep, PTL DEF SubsSpec

-----------------------------------------------------------------------------
(* Irc: reconnections, and lists of names.                                 *)
IrcSpec == IrcInit /\ [][IrcNext]_ircVars

Numerics == [num : {353, 366}, of : Channels]
Nets ==
  [backoff : Nat, did_quit : {FALSE}, autoconnect_channels : SUBSET Channels,
   channel_list : SUBSET Channels, asked : BOOLEAN, names_tmp : Seq(Channels)]

(* The object is there while a connection or a timer is, and a timer that  *)
(* runs beside a registered connection was started for it.                 *)
NetInv ==
  /\ ircnet = NoNet \/ ircnet \in Nets
  /\ irclink \in {"none", "connecting", "socket", "registered"}
  /\ ircnet = NoNet => irclink = "none" /\ irctimer = "none"
  /\ irctimer = "pending" /\ irclink = "registered" => ircseen.lapsed
  /\ channel_list \subseteq Channels

(* The numerics of a channel come together, and end with 366.              *)
Grouped(nums) ==
  /\ nums # <<>> => nums[Len(nums)].num = 366
  /\ \A i \in 1 .. Len(nums) - 1 : nums[i].num = 353 => nums[i + 1].of = nums[i].of

(* The names taken so far are of the channel whose numerics come next.     *)
AnswersInv ==
  /\ answers \in Seq(Numerics) /\ Grouped(answers)
  /\ irclink # "registered" => answers = <<>>
  /\ ircnet \in Nets /\ ircnet.names_tmp # <<>> /\ ~ircseen.torn =>
       /\ ircnet.asked /\ answers # <<>>
       /\ \A i \in DOMAIN ircnet.names_tmp : ircnet.names_tmp[i] = Head(answers).of
  /\ ~ircseen.torn =>
       \A i \in DOMAIN ircseen.shown.names : ircseen.shown.names[i] = ircseen.shown.title

SeenTypes ==
  /\ DOMAIN ircseen = {"wanted", "silent", "lapsed", "losses", "orders", "torn", "shown"}
  /\ ircseen.torn \in BOOLEAN

IrcInv == NetInv /\ AnswersInv /\ SeenTypes

(* The numerics about channels that are joined or asked for.               *)
LEMMA NamesAreGrouped ==
  ASSUME NEW order \in Seq(Channels)
  PROVE  NamesOf(order) \in Seq(Numerics) /\ Grouped(NamesOf(order))
<1>1. PICK n \in Nat : n = Len(order)  BY LenProperties
<1>2. PICK nums : nums = NamesOf(order)  OBVIOUS
<1>3. \A i \in 1 .. 3 * n : (i + 2) \div 3 \in 1 .. n  OBVIOUS
<1>4. \A i \in 1 .. n : order[i] \in Channels  BY <1>1, ElementOfSeq
<1>5. nums = [i \in 1 .. 3 * n |->
                [num |-> IF i % 3 = 0 THEN 366 ELSE 353, of |-> order[(i + 2) \div 3]]]
  BY <1>1, <1>2 DEF NamesOf
<1>6. 3 * n \in Nat  OBVIOUS
<1>7. \A i \in 1 .. 3 * n :
        /\ nums[i] \in Numerics
        /\ nums[i].num = IF i % 3 = 0 THEN 366 ELSE 353
        /\ nums[i].of = order[(i + 2) \div 3]
  BY <1>3, <1>4, <1>5 DEF Numerics
<1>8. nums \in Seq(Numerics) /\ Len(nums) = 3 * n
  <2>1. PICK k \in Nat : k = 3 * n  BY <1>6
  <2>2. DOMAIN nums = 1 .. k /\ nums \in [1 .. k -> Numerics]  BY <1>5, <1>7, <2>1
  <2>3. nums \in Seq(Numerics)  BY <2>2, SeqDef
  <2>. QED  BY <2>1, <2>2, <2>3, LenProperties
<1>9. nums # <<>> => nums[Len(nums)].num = 366
  <2>1. SUFFICES ASSUME nums # <<>> PROVE nums[3 * n].num = 366  BY <1>8
  <2>2. 3 * n # 0  BY <1>8, <2>1, EmptySeq
  <2>. QED  BY <1>7, <2>2
<1>10. ASSUME NEW i \in 1 .. 3 * n - 1, nums[i].num = 353
       PROVE  nums[i + 1].of = nums[i].of
  <2>1. i % 3 # 0  BY <1>7, <1>10
  <2>2. (i + 1 + 2) \div 3 = (i + 2) \div 3  BY <2>1
  <2>3. i \in 1 .. 3 * n /\ i + 1 \in 1 .. 3 * n  OBVIOUS
  <2>. QED  BY <1>7, <2>2, <2>3
<1>. QED  BY <1>2, <1>8, <1>9, <1>10 DEF Grouped

(* More of them.                                                           *)
LEMMA GroupedConcat ==
  ASSUME NEW a \in Seq(Numerics), NEW b \in Seq(Numerics), Grouped(a), Grouped(b)
  PROVE  /\ a \o b \in Seq(Numerics) /\ Grouped(a \o b)
         /\ a # <<>> => a \o b # <<>> /\ Head(a \o b) = Head(a)
<1>1. PICK m \in Nat, n \in Nat : m = Len(a) /\ n = Len(b)  BY LenProperties
<1>2. PICK c : c = a \o b  OBVIOUS
<1>3. /\ c \in Seq(Numerics) /\ Len(c) = m + n
      /\ \A i \in 1 .. m + n : c[i] = IF i <= m THEN a[i] ELSE b[i - m]
  BY <1>1, <1>2, ConcatProperties
<1>4. ASSUME c # <<>> PROVE c[m + n].num = 366
  <2>1. CASE n = 0
    <3>1. m # 0  BY <1>3, <1>4, <2>1, EmptySeq
    <3>2. a # <<>> /\ c[m + n] = a[m]  BY <1>1, <1>3, <2>1, <3>1, EmptySeq
    <3>. QED  BY <1>1, <3>2 DEF Grouped
  <2>2. CASE n # 0
    <3>1. b # <<>> /\ c[m + n] = b[n]  BY <1>1, <1>3, <2>2, EmptySeq
    <3>. QED  BY <1>1, <3>1 DEF Grouped
  <2>. QED  BY <2>1, <2>2
<1>5. ASSUME NEW i \in 1 .. m + n - 1, c[i].num = 353
      PROVE  c[i + 1].of = c[i].of
  <2>1. CASE i < m
    <3>1. c[i] = a[i] /\ c[i + 1] = a[i + 1] /\ i \in 1 .. m - 1  BY <1>3, <2>1
    <3>. QED  BY <1>1, <1>5, <3>1 DEF Grouped
  <2>2. CASE i = m
    <3>1. c[i] = a[m] /\ a # <<>>  BY <1>1, <1>3, <2>2, EmptySeq
    <3>. QED  BY <1>1, <1>5, <3>1 DEF Grouped
  <2>3. CASE i > m
    <3>1. i - m \in 1 .. n - 1 /\ i + 1 - m = i - m + 1 /\ i + 1 \in m + 1 .. m + n  BY <2>3
    <3>2. c[i] = b[i - m] /\ c[i + 1] = b[i + 1 - m]
      <4>1. i \in 1 .. m + n /\ ~(i <= m) /\ i + 1 \in 1 .. m + n /\ ~(i + 1 <= m)  BY <2>3
      <4>. QED  BY <1>3, <4>1
    <3>. QED  BY <1>1, <1>5, <3>1, <3>2 DEF Grouped
  <2>. QED  BY <2>1, <2>2, <2>3
<1>6. ASSUME a # <<>> PROVE c # <<>> /\ Head(c) = Head(a)
  <2>1. m # 0  BY <1>1, <1>6, EmptySeq
  <2>2. c # <<>> /\ c[1] = a[1]  BY <1>3, <2>1, EmptySeq
  <2>. QED  BY <1>3, <1>6, <2>2, HeadTailProperties
<1>7. Grouped(c)  BY <1>3, <1>4, <1>5 DEF Grouped
<1>. QED  BY <1>2, <1>3, <1>6, <1>7

(* And when the first has come.                                            *)
LEMMA GroupedTail ==
  ASSUME NEW a \in Seq(Numerics), a # <<>>, Grouped(a)
  PROVE  /\ Tail(a) \in Seq(Numerics) /\ Grouped(Tail(a)) /\ Head(a) \in Numerics
         /\ Head(a).num = 353 => Tail(a) # <<>> /\ Head(Tail(a)).of = Head(a).of
<1>1. PICK n \in Nat : n = Len(a) /\ n # 0  BY LenProperties, EmptySeq
<1>2. PICK t : t = Tail(a)  OBVIOUS
<1>3. /\ t \in Seq(Numerics) /\ Len(t) = n - 1 /\ Head(a) = a[1] /\ Head(a) \in Numerics
      /\ \A i \in 1 .. n - 1 : t[i] = a[i + 1]
  BY <1>1, <1>2, HeadTailProperties, ElementOfSeq
<1>4. a[n].num = 366  BY <1>1 DEF Grouped
<1>5. ASSUME t # <<>> PROVE t[n - 1].num = 366
  <2>1. n - 1 # 0  BY <1>3, <1>5, EmptySeq
  <2>2. t[n - 1] = a[n]  BY <1>3, <2>1
  <2>. QED  BY <1>4, <2>2
<1>6. ASSUME NEW i \in 1 .. (n - 1) - 1, t[i].num = 353
      PROVE  t[i + 1].of = t[i].of
  <2>1. t[i] = a[i + 1] /\ t[i + 1] = a[i + 2] /\ i + 1 \in 1 .. n - 1  BY <1>3
  <2>. QED  BY <1>1, <1>6, <2>1 DEF Grouped
<1>7. ASSUME a[1].num = 353 PROVE t # <<>> /\ Head(t).of = a[1].of
  <2>1. n # 1  BY <1>4, <1>7
  <2>2. t # <<>> /\ t[1] = a[2] /\ 1 \in 1 .. n - 1  BY <1>1, <1>3, <2>1, EmptySeq
  <2>3. a[2].of = a[1].of  BY <1>1, <1>7, <2>2 DEF Grouped
  <2>. QED  BY <1>3, <2>2, <2>3, HeadTailProperties
<1>. QED  BY <1>2, <1>3, <1>5, <1>6, <1>7 DEF Grouped

-----------------------------------------------------------------------------
(* The interval of the reconnection timer stays a number.                  *)
LEMMA LongerIsNumber ==
  ASSUME NEW interval \in Nat
  PROVE  Longer(interval) \in Nat
BY DEF Longer

(* NoNet has no fields but one.                                            *)
LEMMA NoNetIsNone == NoNet \notin Nets
<1>1. DOMAIN NoNet = {"backoff"}  BY DEF NoNet
<1>2. ASSUME NoNet \in Nets PROVE "asked" \in DOMAIN NoNet  BY <1>2 DEF Nets
<1>. QED  BY <1>1, <1>2

(* A connection ends: the timer is set, and nothing else of it changes.    *)
LEMMA Disconnected ==
  ASSUME NEW net \in Nets, OnDisconnect(net)
  PROVE  /\ ircnet' \in Nets /\ ircnet'.names_tmp = net.names_tmp /\ ircnet'.asked = net.asked
         /\ irctimer' = "pending"
<1>1. net.backoff \in Nat /\ net.did_quit = FALSE  BY DEF Nets
<1>2. ircnet' = [net EXCEPT !.backoff = Longer(net.backoff)] /\ irctimer' = "pending"
  BY <1>1 DEF OnDisconnect
<1>3. Longer(net.backoff) \in Nat  BY <1>1, LongerIsNumber
<1>. QED  BY <1>2, <1>3 DEF Nets

(* Nothing but the object has changed, and it only in what the lists of    *)
(* names do not depend on.                                                 *)
LEMMA ListsAreKept ==
  ASSUME IrcInv, ircnet' \in Nets => /\ ircnet \in Nets
                                     /\ ircnet'.names_tmp = ircnet.names_tmp
                                     /\ ircnet'.asked = ircnet.asked,
         ircseen'.torn \in BOOLEAN, ~ircseen'.torn => ~ircseen.torn, ircseen'.shown = ircseen.shown,
         UNCHANGED answers, irclink' = irclink \/ answers = <<>>
  PROVE  AnswersInv'
BY DEF IrcInv, AnswersInv, Grouped

(* The connection has gone, and with it what was to come of a list.        *)
LEMMA ListsAreTorn ==
  ASSUME IrcInv, answers' = <<>>, ircseen'.torn \in BOOLEAN, ~ircseen'.torn => ~ircseen.torn,
         ircseen'.shown = ircseen.shown,
         ircnet' \in Nets /\ ~ircseen'.torn => ircnet'.names_tmp = <<>>
  PROVE  AnswersInv'
BY EmptySeq DEF IrcInv, AnswersInv, Grouped

(* The commands that open and close the connection.                        *)
LEMMA ConnectKeeps ==
  ASSUME IrcInv, IrcConnect
  PROVE  IrcInv'
<1>1. /\ ircnet' = NewNet /\ irclink' = "connecting" /\ irctimer' = "none"
      /\ channel_list' = {} /\ answers' = <<>>
      /\ ircseen' = [Seen0 EXCEPT !.orders = ircseen.orders + 1, !.losses = ircseen.losses]
  BY DEF IrcConnect, Unlink
<1>2. NewNet \in Nets /\ NewNet.names_tmp = <<>>  BY EmptySeq DEF NewNet, Nets
<1>3. NetInv'  BY <1>1, <1>2, NoNetIsNone DEF NetInv
<1>4. SeenTypes' /\ ircseen'.shown.names = <<>>  BY <1>1 DEF SeenTypes, Seen0
<1>5. AnswersInv'  BY <1>1, <1>2, <1>4, EmptySeq DEF AnswersInv, Grouped
<1>. QED  BY <1>3, <1>4, <1>5 DEF IrcInv

(* A connection that is lost starts a timer only when it stays listed.     *)
LEMMA DisconnectKeeps ==
  ASSUME IrcInv, IrcDisconnect
  PROVE  IrcInv'
<1>1. /\ irclink' = "none" /\ channel_list' = {} /\ answers' = <<>> /\ ircseen' = ircseen
  BY DEF IrcDisconnect, Unlink
<1>2. ircnet' = NoNet /\ irctimer' = "none"
  <2>1. CASE irclink \in {"socket", "registered"}
            /\ OnDisconnect([ircnet EXCEPT !.did_quit = TRUE])
    <3>1. ircnet \in Nets  BY <2>1 DEF IrcInv, NetInv
    <3>2. [ircnet EXCEPT !.did_quit = TRUE].did_quit = TRUE  BY <3>1 DEF Nets
    <3>. QED  BY <2>1, <3>2 DEF OnDisconnect
  <2>. QED  BY <2>1 DEF IrcDisconnect
<1>3. NetInv'  BY <1>1, <1>2 DEF NetInv
<1>4. SeenTypes'  BY <1>1 DEF SeenTypes, IrcInv
<1>5. AnswersInv'  BY <1>1, <1>2, <1>4, NoNetIsNone, ListsAreTorn DEF SeenTypes
<1>. QED  BY <1>3, <1>4, <1>5 DEF IrcInv

(* An attempt to connect goes on or fails, and the server falls silent.    *)
LEMMA AttemptKeeps ==
  ASSUME IrcInv, IrcTcpUp \/ IrcConnfail \/ IrcSilent
  PROVE  IrcInv'
<1>1. /\ UNCHANGED <<ircnet, irctimer>> /\ irclink # "none" /\ ircseen'.lapsed = ircseen.lapsed
      /\ ircseen'.torn = ircseen.torn /\ ircseen'.shown = ircseen.shown /\ SeenTypes'
  BY DEF IrcTcpUp, IrcConnfail, IrcSilent, IrcInv, SeenTypes
<1>2. ircnet \in Nets  BY <1>1 DEF IrcInv, NetInv
<1>3. /\ irclink' \in {"none", "connecting", "socket", "registered"}
      /\ irclink' = "registered" => irclink = "registered"
      /\ channel_list' \subseteq Channels
  BY DEF IrcTcpUp, IrcConnfail, IrcSilent, IrcInv, NetInv, Unlink
<1>4. NetInv'  BY <1>1, <1>2, <1>3, NoNetIsNone DEF NetInv, IrcInv
<1>5. UNCHANGED answers /\ (irclink' = irclink \/ answers = <<>>)
  BY DEF IrcTcpUp, IrcConnfail, IrcSilent, Unlink, IrcInv, AnswersInv
<1>6. AnswersInv'
  BY <1>1, <1>2, <1>5, ListsAreKept DEF IrcInv, SeenTypes
<1>. QED  BY <1>1, <1>4, <1>6 DEF IrcInv

(* Channels that are joined send their names.                              *)
LEMMA JoinedAreGrouped ==
  ASSUME IrcInv, NEW new \in SUBSET Channels, Joining(new)
  PROVE  /\ channel_list' \subseteq Channels
         /\ \E order \in Seq(Channels) : answers' = answers \o NamesOf(order)
<1>1. PICK order \in [1 .. Cardinality(new) -> new] :
        ToSet(order) = new /\ answers' = answers \o NamesOf(order)
  BY DEF Joining
<1>2. order \in Seq(Channels)
  <2>1. IsFiniteSet(new)  BY ChannelsAssumption, FS_Subset
  <2>2. PICK n \in Nat : n = Cardinality(new)  BY <2>1, FS_CardinalityType
  <2>3. order \in [1 .. n -> Channels]  BY <1>1, <2>2
  <2>. QED  BY <2>3, SeqDef
<1>3. channel_list' \subseteq Channels  BY DEF Joining, IrcInv, NetInv
<1>. QED  BY <1>1, <1>2, <1>3

(* More lists of names come after those that are underway.                 *)
LEMMA MoreAnswers ==
  ASSUME IrcInv, NEW order \in Seq(Channels), answers' = answers \o NamesOf(order),
         irclink' = "registered", ircseen'.torn = ircseen.torn, ircseen'.shown = ircseen.shown,
         ircnet' \in Nets,
         ircnet'.names_tmp = <<>> \/ (/\ ircnet'.names_tmp = ircnet.names_tmp
                                     /\ ircnet'.asked = ircnet.asked /\ ircnet \in Nets)
  PROVE  AnswersInv'
<1>1. answers \in Seq(Numerics) /\ Grouped(answers)  BY DEF IrcInv, AnswersInv
<1>2. NamesOf(order) \in Seq(Numerics) /\ Grouped(NamesOf(order))  BY NamesAreGrouped
<1>3. /\ answers' \in Seq(Numerics) /\ Grouped(answers \o NamesOf(order))
      /\ answers # <<>> => answers' # <<>> /\ Head(answers') = Head(answers)
  BY <1>1, <1>2, GroupedConcat
<1>4. Grouped(answers')  BY <1>3
<1>5. ~ircseen'.torn =>
       \A i \in DOMAIN ircseen'.shown.names : ircseen'.shown.names[i] = ircseen'.shown.title
  BY DEF IrcInv, AnswersInv
<1>6. ircnet'.names_tmp # <<>> /\ ~ircseen'.torn =>
       /\ ircnet'.asked /\ answers' # <<>>
       /\ \A i \in DOMAIN ircnet'.names_tmp : ircnet'.names_tmp[i] = Head(answers').of
  BY <1>3 DEF IrcInv, AnswersInv
<1>. QED  BY <1>3, <1>4, <1>5, <1>6 DEF AnswersInv

(* The commands about channels.                                            *)
LEMMA OrdersKeep ==
  ASSUME IrcInv, NEW c \in Channels, IrcJoin(c) \/ IrcPart(c) \/ IrcNames(c)
  PROVE  IrcInv'
<1>1. /\ irclink = "registered" /\ irclink' = irclink /\ irctimer' = irctimer
      /\ ircseen'.lapsed = ircseen.lapsed
      /\ ircseen'.torn = ircseen.torn /\ ircseen'.shown = ircseen.shown /\ SeenTypes'
  BY DEF IrcJoin, IrcPart, IrcNames, Orders, IrcInv, SeenTypes
<1>2. ircnet \in Nets  BY <1>1 DEF IrcInv, NetInv
<1>3. CASE IrcJoin(c)
  <2>1. ircnet' = ircnet /\ Joining({c})  BY <1>3 DEF IrcJoin
  <2>2. PICK order \in Seq(Channels) : answers' = answers \o NamesOf(order)
    BY <2>1, JoinedAreGrouped
  <2>3. NetInv'  BY <1>1, <1>2, <2>1, JoinedAreGrouped DEF NetInv, IrcInv
  <2>4. AnswersInv'  BY <1>1, <1>2, <2>1, <2>2, MoreAnswers
  <2>. QED  BY <1>1, <2>3, <2>4 DEF IrcInv
<1>4. CASE IrcPart(c)
  <2>1. /\ ircnet' = ircnet /\ answers' = answers /\ channel_list' = channel_list \ {c}
    BY <1>4 DEF IrcPart
  <2>2. NetInv'  BY <1>1, <1>2, <2>1 DEF NetInv, IrcInv
  <2>3. AnswersInv'  BY <1>1, <1>2, <2>1, ListsAreKept DEF IrcInv, SeenTypes
  <2>. QED  BY <1>1, <2>2, <2>3 DEF IrcInv
<1>5. CASE IrcNames(c)
  <2>1. /\ ircnet' = [ircnet EXCEPT !.asked = TRUE, !.names_tmp = <<>>]
        /\ answers' = answers \o NamesOf(<<c>>) /\ channel_list' = channel_list
    BY <1>5 DEF IrcNames
  <2>2. ircnet' \in Nets /\ ircnet'.names_tmp = <<>>  BY <1>2, <2>1, EmptySeq DEF Nets
  <2>3. NetInv'  BY <1>1, <1>2, <2>1, <2>2, NoNetIsNone DEF NetInv, IrcInv
  <2>4. <<c>> \in Seq(Channels)  OBVIOUS
  <2>5. AnswersInv'  BY <1>1, <1>2, <2>1, <2>2, <2>4, MoreAnswers
  <2>. QED  BY <1>1, <2>3, <2>5 DEF IrcInv
<1>. QED  BY <1>3, <1>4, <1>5

(* The server lets the user in.                                            *)
LEMMA ConnectedKeeps ==
  ASSUME IrcInv, IrcConnected
  PROVE  IrcInv'
<1>1. /\ irclink = "socket" /\ irclink' = "registered" /\ irctimer' = "none"
      /\ ircseen' = [ircseen EXCEPT !.lapsed = FALSE] /\ Joining(ircnet.autoconnect_channels)
      /\ ircnet' = [ircnet EXCEPT !.autoconnect_channels = {}, !.backoff = 0]
  BY DEF IrcConnected
<1>2. ircnet \in Nets  BY <1>1 DEF IrcInv, NetInv
<1>3. /\ ircnet' \in Nets /\ ircnet'.names_tmp = ircnet.names_tmp /\ ircnet'.asked = ircnet.asked
      /\ ircnet.autoconnect_channels \in SUBSET Channels
  BY <1>1, <1>2 DEF Nets
<1>4. PICK order \in Seq(Channels) :
        channel_list' \subseteq Channels /\ answers' = answers \o NamesOf(order)
  BY <1>1, <1>3, JoinedAreGrouped
<1>5. NetInv'  BY <1>1, <1>3, <1>4, NoNetIsNone DEF NetInv
<1>6. SeenTypes' /\ ircseen'.torn = ircseen.torn /\ ircseen'.shown = ircseen.shown
  BY <1>1 DEF IrcInv, SeenTypes
<1>7. AnswersInv'  BY <1>1, <1>2, <1>3, <1>4, <1>6, MoreAnswers
<1>. QED  BY <1>5, <1>6, <1>7 DEF IrcInv

(* The connection is lost, found dead by a ping, or dropped by the timer.  *)
LEMMA LossKeeps ==
  ASSUME IrcInv, IrcLost \/ Reconnect
  PROVE  IrcInv'
<1>1. /\ ircnet \in Nets /\ answers' = <<>> /\ channel_list' = {}
      /\ ircseen'.torn = Torn /\ ircseen'.shown = ircseen.shown /\ SeenTypes'
  BY DEF IrcLost, Reconnect, Unlink, IrcInv, NetInv, SeenTypes, Torn
<1>2. /\ irclink' \in {"none", "connecting"} /\ ircnet' \in Nets
      /\ ircnet'.names_tmp = ircnet.names_tmp
  <2>1. CASE IrcLost  BY <1>1, <2>1, Disconnected DEF IrcLost, Unlink
  <2>2. CASE Reconnect
    <3>1. PICK net : net = [ircnet EXCEPT !.autoconnect_channels = ircnet.channel_list]
      OBVIOUS
    <3>2. net \in Nets /\ net.names_tmp = ircnet.names_tmp  BY <1>1, <3>1 DEF Nets
    <3>3. \/ OnDisconnect(net)
          \/ ircnet' = net /\ irctimer' = "spent"
      BY <2>2, <3>1 DEF Reconnect
    <3>. QED  BY <2>2, <3>2, <3>3, Disconnected DEF Reconnect, Unlink
  <2>. QED  BY <2>1, <2>2
<1>3. NetInv'  BY <1>1, <1>2, NoNetIsNone DEF NetInv
<1>4. AnswersInv'
  <2>1. Torn \in BOOLEAN /\ (~Torn => ~ircseen.torn /\ ircnet.names_tmp = <<>>)
    BY DEF Torn, IrcInv, SeenTypes
  <2>. QED  BY <1>1, <1>2, <2>1, ListsAreTorn
<1>. QED  BY <1>1, <1>3, <1>4 DEF IrcInv

(* The timer is started beside a connection that stays silent.             *)
LEMMA PingTimeoutKeeps ==
  ASSUME IrcInv, PingTimeout
  PROVE  IrcInv'
<1>1. /\ irclink = "registered" /\ UNCHANGED <<irclink, channel_list, answers>>
      /\ ircnet' = [ircnet EXCEPT !.backoff = Longer(Longer(ircnet.backoff))]
      /\ ircseen' = [ircseen EXCEPT !.lapsed = TRUE]
  BY DEF PingTimeout
<1>2. ircnet \in Nets /\ ircnet.backoff \in Nat  BY <1>1 DEF IrcInv, NetInv, Nets
<1>3. Longer(Longer(ircnet.backoff)) \in Nat  BY <1>2, LongerIsNumber
<1>4. /\ ircnet' \in Nets
      /\ ircnet'.names_tmp = ircnet.names_tmp /\ ircnet'.asked = ircnet.asked
  BY <1>1, <1>2, <1>3 DEF Nets
<1>5. /\ SeenTypes' /\ ircseen'.lapsed
      /\ ircseen'.torn = ircseen.torn /\ ircseen'.shown = ircseen.shown
  BY <1>1 DEF IrcInv, SeenTypes
<1>6. NetInv'  BY <1>1, <1>4, <1>5, NoNetIsNone DEF NetInv, IrcInv
<1>7. AnswersInv'  BY <1>1, <1>2, <1>4, <1>5, ListsAreKept DEF IrcInv, SeenTypes
<1>. QED  BY <1>5, <1>6, <1>7 DEF IrcInv

(* A numeric arrives: a name of the list, or its end.                      *)
LEMMA NumericsKeep ==
  ASSUME IrcInv, NamReply \/ EndOfNames
  PROVE  IrcInv'
<1>1. /\ irclink = "registered" /\ answers # <<>> /\ answers' = Tail(answers)
      /\ UNCHANGED <<irclink, channel_list, irctimer>> /\ ircseen'.lapsed = ircseen.lapsed
  BY DEF NamReply, EndOfNames, IrcAnswered, IrcInv, SeenTypes
<1>2. ircnet \in Nets  BY <1>1 DEF IrcInv, NetInv
<1>3. PICK head : head = Head(answers)  OBVIOUS
<1>4. answers \in Seq(Numerics) /\ Grouped(answers)  BY DEF IrcInv, AnswersInv
<1>5. /\ answers' \in Seq(Numerics) /\ Grouped(Tail(answers)) /\ head \in Numerics
      /\ head.num = 353 => answers' # <<>> /\ Head(answers').of = head.of
  BY <1>1, <1>3, <1>4, GroupedTail
<1>6. Grouped(answers')  BY <1>1, <1>5
<1>7. head.of \in Channels  BY <1>5 DEF Numerics
<1>8. ircnet.names_tmp # <<>> /\ ~ircseen.torn =>
        ircnet.asked /\ \A i \in DOMAIN ircnet.names_tmp : ircnet.names_tmp[i] = head.of
  BY <1>2, <1>3 DEF IrcInv, AnswersInv
<1>9. CASE NamReply
  <2>1. head.num = 353 /\ ircseen' = ircseen  BY <1>3, <1>9 DEF NamReply
  <2>2. ~ircseen'.torn =>
       \A i \in DOMAIN ircseen'.shown.names : ircseen'.shown.names[i] = ircseen'.shown.title
    BY <2>1 DEF IrcInv, AnswersInv
  <2>3. /\ ircnet' \in Nets
        /\ ircnet'.names_tmp # <<>> /\ ~ircseen'.torn =>
             /\ ircnet'.asked
             /\ \A i \in DOMAIN ircnet'.names_tmp : ircnet'.names_tmp[i] = head.of
    <3>1. CASE ~ircnet.asked
      <4>1. ircnet' = ircnet  BY <1>9, <3>1 DEF NamReply
      <4>. QED  BY <1>2, <1>8, <2>1, <4>1
    <3>2. CASE ircnet.asked
      <4>1. ircnet' = [ircnet EXCEPT !.names_tmp = Append(ircnet.names_tmp, head.of)]
        BY <1>3, <1>9, <3>2 DEF NamReply
      <4>2. PICK names \in Seq(Channels) : names = ircnet.names_tmp  BY <1>2 DEF Nets
      <4>3. PICK n \in Nat : n = Len(names)  BY LenProperties
      <4>4. PICK more : more = Append(names, head.of)  OBVIOUS
      <4>5. /\ more \in Seq(Channels) /\ DOMAIN more = 1 .. n + 1 /\ more[n + 1] = head.of
            /\ \A i \in 1 .. n : more[i] = names[i]
        BY <1>7, <4>3, <4>4, AppendProperties, LenProperties
      <4>6. /\ ircnet' \in Nets
            /\ ircnet'.names_tmp = more /\ ircnet'.asked
        BY <1>2, <3>2, <4>1, <4>2, <4>4, <4>5 DEF Nets
      <4>7. ASSUME ~ircseen'.torn, NEW i \in 1 .. n + 1 PROVE more[i] = head.of
        <5>1. CASE i = n + 1  BY <4>5, <5>1
        <5>2. CASE i \in 1 .. n
          <6>1. i \in DOMAIN names /\ names # <<>>  BY <4>3, <5>2, LenProperties, EmptySeq
          <6>. QED  BY <1>8, <2>1, <4>2, <4>5, <4>7, <5>2, <6>1
        <5>. QED  BY <5>1, <5>2
      <4>. QED  BY <4>5, <4>6, <4>7
    <3>. QED  BY <3>1, <3>2
  <2>4. NetInv'  BY <1>1, <1>2, <2>3, NoNetIsNone DEF NetInv, IrcInv
  <2>5. AnswersInv'  BY <1>1, <1>5, <1>6, <2>1, <2>2, <2>3 DEF AnswersInv
  <2>. QED  BY <2>1, <2>4, <2>5 DEF IrcInv, SeenTypes
<1>10. CASE EndOfNames
  <2>1. CASE ~ircnet.asked
    <3>1. ircnet' = ircnet /\ ircseen' = ircseen  BY <1>10, <2>1 DEF EndOfNames
    <3>2. ircnet.names_tmp = <<>> \/ ircseen.torn  BY <1>8, <2>1 DEF IrcInv, SeenTypes
    <3>3. NetInv'  BY <1>1, <1>2, <3>1 DEF NetInv, IrcInv
    <3>4. AnswersInv'  BY <1>1, <1>5, <1>6, <3>1, <3>2 DEF AnswersInv, IrcInv
    <3>. QED  BY <3>1, <3>3, <3>4 DEF IrcInv, SeenTypes
  <2>2. CASE ircnet.asked
    <3>1. /\ ircseen' = [ircseen EXCEPT !.shown = [title |-> head.of, names |-> ircnet.names_tmp]]
          /\ ircnet' = [ircnet EXCEPT !.asked = FALSE, !.names_tmp = <<>>]
      BY <1>3, <1>10, <2>2 DEF EndOfNames
    <3>2. /\ ircnet' \in Nets /\ ircnet'.names_tmp = <<>>
      BY <1>2, <3>1, EmptySeq DEF Nets
    <3>3. /\ ircseen'.torn = ircseen.torn /\ SeenTypes'
          /\ ircseen'.shown.title = head.of /\ ircseen'.shown.names = ircnet.names_tmp
      BY <3>1 DEF IrcInv, SeenTypes
    <3>4. ASSUME ~ircseen'.torn, NEW i \in DOMAIN ircseen'.shown.names
          PROVE  ircseen'.shown.names[i] = ircseen'.shown.title
      <4>1. i \in DOMAIN ircnet.names_tmp /\ ircnet.names_tmp # <<>>
        BY <1>2, <3>3, <3>4, EmptySeq DEF Nets
      <4>. QED  BY <1>8, <3>3, <3>4, <4>1
    <3>5. NetInv'  BY <1>1, <1>2, <3>2, NoNetIsNone DEF NetInv, IrcInv
    <3>6. AnswersInv'  BY <1>1, <1>5, <1>6, <3>2, <3>4 DEF AnswersInv
    <3>. QED  BY <3>3, <3>5, <3>6 DEF IrcInv
  <2>. QED  BY <2>1, <2>2
<1>. QED  BY <1>9, <1>10

(* A timer that reconnects has something to reconnect, and runs beside a   *)
(* registered connection only after a ping of that connection went         *)
(* unanswered; and a list of names that is shown is of the channel in its  *)
(* title (IRC.pm, IRC/Connection.pm).  On a network of any number of       *)
(* channels, over any number of losses and commands.                       *)
THEOREM IrcStaysOrderly == IrcSpec => []IrcIsOrderly
<1>1. IrcInit => IrcInv
  <2>. SUFFICES ASSUME IrcInit PROVE IrcInv  OBVIOUS
  <2>1. NetInv  BY DEF IrcInit, NetInv
  <2>2. SeenTypes /\ ircseen.shown.names = <<>>  BY DEF IrcInit, SeenTypes, Seen0
  <2>3. AnswersInv  BY <2>2, NoNetIsNone, EmptySeq DEF IrcInit, AnswersInv, Grouped
  <2>. QED  BY <2>1, <2>2, <2>3 DEF IrcInv
<1>2. IrcInv /\ [IrcNext]_ircVars => IrcInv'
  <2>. SUFFICES ASSUME IrcInv, [IrcNext]_ircVars PROVE IrcInv'  OBVIOUS
  <2>1. CASE UNCHANGED ircVars
    BY <2>1 DEF ircVars, IrcInv, NetInv, AnswersInv, SeenTypes, Grouped
  <2>2. CASE IrcNext
    BY <2>2, ConnectKeeps, AttemptKeeps, ConnectedKeeps, LossKeeps, PingTimeoutKeeps,
       DisconnectKeeps, NumericsKeep, OrdersKeep DEF IrcNext
  <2>. QED  BY <2>1, <2>2
<1>3. IrcInv => IrcIsOrderly
  BY DEF IrcInv, NetInv, AnswersInv, IrcIsOrderly, IrcListed
<1>. QED  BY <1>1, <1>2, <1>3, PTL DEF IrcSpec

-----------------------------------------------------------------------------
(* Locate: the buddies who are asked about.                                *)
Snacs == [id : Nat, sn : Located]

LocateTypes ==
  /\ torequest \in Seq(Located) /\ requested \in SUBSET Located
  /\ snacid \in Nat \ {0} /\ snacs \in SUBSET Snacs
  /\ waiting \in BOOLEAN /\ unanswered \in BOOLEAN

(* What s asks is the one thing underway, as a request or as its answer,   *)
(* and if s is still cached, it is what is found there under its id.       *)
BeingAsked(s) ==
  /\ s.id < snacid /\ requested = {s.sn}
  /\ waiting /\ ~unanswered
  /\ \A cached \in snacs : cached.id = s.id => cached = s
  /\ \/ asked = {s} /\ responses = <<>>
     \/ asked = {} /\ \E kind \in {"userinfo", "error"} : responses = <<Reply(kind, s)>>

LocateInv ==
  /\ LocateTypes
  /\ \A snac \in snacs : snac.id < snacid
  /\ \/ \E s \in Snacs : BeingAsked(s)
     \/ asked = {} /\ responses = <<>> /\ waiting = unanswered
  /\ \A a, b \in requested : a = b
  /\ waiting <=> requested # {}
  /\ torequest # <<>> => waiting
  /\ ~explicit
  /\ due \subseteq ToSet(torequest) \cup requested

(* When nothing is underway, the next one is asked about, if there is one. *)
LEMMA NextIsAsked ==
  ASSUME LocateTypes, asked = {}, responses' = <<>>, ~explicit', unanswered' = FALSE,
         NEW queue \in Seq(Located), NEW cached \in SUBSET Snacs,
         \A snac \in cached : snac.id < snacid,
         due' \subseteq ToSet(queue),
         DoRequest(queue, {}, FALSE, cached)
  PROVE  LocateInv'
<1>1. CASE queue = <<>>
  <2>1. /\ waiting' = FALSE /\ torequest' = queue /\ requested' = {}
        /\ snacs' = cached /\ snacid' = snacid /\ asked' = asked
    BY <1>1 DEF DoRequest
  <2>. QED  BY <1>1, <2>1 DEF LocateInv, LocateTypes
<1>2. CASE queue # <<>>
  <2>. PICK s : s = Snac(snacid, Head(queue))  OBVIOUS
  <2>1. /\ waiting' = TRUE /\ torequest' = Tail(queue) /\ requested' = {Head(queue)}
        /\ snacs' = cached \cup {s} /\ asked' = asked \cup {s} /\ snacid' = snacid + 1
    BY <1>2 DEF DoRequest, GetInfoShort
  <2>2. Head(queue) \in Located /\ Tail(queue) \in Seq(Located)
    BY <1>2, HeadTailProperties
  <2>3. s \in Snacs /\ s.id = snacid /\ s.sn = Head(queue)
    BY <2>2 DEF Snacs, Snac, LocateTypes
  <2>4. ToSet(queue) = {Head(queue)} \cup ToSet(Tail(queue))
    BY <1>2, ElementsOfTail
  <2>5. LocateTypes'
    <3>1. snacid \in Nat \ {0} /\ unanswered' \in BOOLEAN  BY DEF LocateTypes
    <3>2. snacid + 1 \in Nat \ {0}  BY <3>1
    <3>. QED  BY <2>1, <2>2, <2>3, <3>1, <3>2 DEF LocateTypes
  <2>6. \A snac \in snacs' : snac.id < snacid'
    <3>1. \A snac \in snacs' : snac \in Snacs /\ (snac \in cached \/ snac = s)
      BY <2>1, <2>3
    <3>2. \A snac \in Snacs : snac.id \in Nat  BY DEF Snacs
    <3>. QED  BY <2>1, <2>3, <3>1, <3>2 DEF LocateTypes
  <2>7. BeingAsked(s)'
    <3>1. \A c \in snacs' : c.id = s.id => c = s
      <4>1. \A c \in Snacs : c.id \in Nat  BY DEF Snacs
      <4>. QED  BY <2>1, <2>3, <4>1 DEF LocateTypes
    <3>2. asked' = {s} /\ responses' = <<>>  BY <2>1
    <3>3. s.id < snacid'  BY <2>1, <2>3 DEF LocateTypes
    <3>. QED  BY <2>1, <2>3, <3>1, <3>2, <3>3 DEF BeingAsked
  <2>8. due' \subseteq ToSet(torequest') \cup requested'  BY <2>1, <2>4
  <2>. QED  BY <2>1, <2>3, <2>5, <2>6, <2>7, <2>8 DEF LocateInv
<1>. QED  BY <1>1, <1>2

(* A buddy comes online.                                                   *)
LEMMA ArrivalKeeps ==
  ASSUME LocateInv, NEW sn \in Located, BuddyChange(sn)
  PROVE  LocateInv'
<1>1. /\ responses' = responses /\ explicit' = explicit /\ unanswered' = unanswered
      /\ due' = due \cup {sn} /\ RequestUserinfo(sn)
  BY DEF BuddyChange
<1>2. CASE sn \in ToSet(torequest)
  <2>1. /\ torequest' = torequest /\ requested' = requested /\ waiting' = waiting
        /\ snacid' = snacid /\ snacs' = snacs /\ asked' = asked
    BY <1>1, <1>2 DEF RequestUserinfo
  <2>2. \A s \in Snacs : BeingAsked(s) => BeingAsked(s)'
    BY <1>1, <2>1 DEF BeingAsked
  <2>. QED  BY <1>1, <1>2, <2>1, <2>2 DEF LocateInv, LocateTypes
<1>3. CASE sn \notin ToSet(torequest)
  <2>. DEFINE queue == <<sn>> \o torequest
  <2>1. DoRequest(queue, requested, waiting, snacs)  BY <1>1, <1>3 DEF RequestUserinfo
  <2>2. queue \in Seq(Located) /\ queue # <<>> /\ ToSet(queue) = {sn} \cup ToSet(torequest)
    <3>1. torequest \in Seq(Located) /\ <<sn>> \in Seq(Located)  BY DEF LocateInv, LocateTypes
    <3>2. queue \in Seq(Located) /\ Len(queue) = 1 + Len(torequest)  BY <3>1
    <3>3. ToSet(<<sn>>) = {sn}  BY DEF ToSet
    <3>4. ToSet(queue) = ToSet(<<sn>>) \cup ToSet(torequest)
      <4>1. PICK one : one = <<sn>>  OBVIOUS
      <4>2. ToSet(one \o torequest) = ToSet(one) \cup ToSet(torequest)  BY <3>1, <4>1, ElementsOfConcat
      <4>. QED  BY <4>1, <4>2
    <3>. QED  BY <3>1, <3>2, <3>3, <3>4
  <2>. HIDE DEF queue
  <2>3. CASE waiting
    <3>1. /\ torequest' = queue /\ requested' = requested /\ waiting' = waiting
          /\ snacid' = snacid /\ snacs' = snacs /\ asked' = asked
      BY <2>1, <2>3 DEF DoRequest
    <3>2. \A s \in Snacs : BeingAsked(s) => BeingAsked(s)'
      BY <1>1, <3>1 DEF BeingAsked
    <3>. QED  BY <1>1, <2>2, <2>3, <3>1, <3>2 DEF LocateInv, LocateTypes
  <2>4. CASE ~waiting
    <3>1. /\ asked = {} /\ responses = <<>> /\ unanswered = FALSE
          /\ requested = {} /\ torequest = <<>> /\ waiting = FALSE
      BY <2>4 DEF LocateInv, LocateTypes, BeingAsked
    <3>2. due \subseteq ToSet(torequest)  BY <3>1 DEF LocateInv
    <3>. QED  BY <1>1, <2>1, <2>2, <3>1, <3>2, NextIsAsked DEF LocateInv, LocateTypes
  <2>. QED  BY <2>3, <2>4
<1>. QED  BY <1>2, <1>3

(* An answer to what is underway frees the way for the next one.           *)
LEMMA AnswerKeeps ==
  ASSUME LocateInv, NEW s \in Snacs, BeingAsked(s), asked = {}, responses' = <<>>,
         unanswered' = unanswered,
         NEW cached \in SUBSET snacs, GotUserinfo(s.sn, cached)
  PROVE  LocateInv'
<1>1. requested = {s.sn} /\ unanswered = FALSE  BY DEF BeingAsked, LocateInv, LocateTypes
<1>2. /\ DoRequest(torequest, {}, FALSE, cached)
      /\ ~explicit' /\ due' = due \ {s.sn}
  BY <1>1 DEF GotUserinfo, LocateInv
<1>3. /\ torequest \in Seq(Located) /\ cached \in SUBSET Snacs
      /\ \A snac \in cached : snac.id < snacid
      /\ due' \subseteq ToSet(torequest)
  BY <1>1, <1>2 DEF LocateInv, LocateTypes
<1>. QED  BY <1>1, <1>2, <1>3, NextIsAsked DEF LocateInv

(* What is on the way is the answer to what is underway.                   *)
LEMMA AnswersAreUnderway ==
  ASSUME LocateInv, responses # <<>>
  PROVE  \E s \in Snacs, kind \in {"userinfo", "error"} :
           /\ BeingAsked(s) /\ asked = {} /\ responses = <<Reply(kind, s)>>
           /\ Head(responses) = Reply(kind, s) /\ Tail(responses) = <<>>
<1>1. PICK s \in Snacs : BeingAsked(s)  BY DEF LocateInv
<1>2. PICK kind \in {"userinfo", "error"} : asked = {} /\ responses = <<Reply(kind, s)>>
  BY <1>1 DEF BeingAsked
<1>3. Head(responses) = Reply(kind, s) /\ Tail(responses) = <<>>  BY <1>2
<1>. QED  BY <1>1, <1>2, <1>3

(* Information is read.                                                    *)
LEMMA UserinfoKeeps == LocateInv /\ ReadUserinfo => LocateInv'
<1>. SUFFICES ASSUME LocateInv, ReadUserinfo PROVE LocateInv'  OBVIOUS
<1>1. PICK s \in Snacs, kind \in {"userinfo", "error"} :
        /\ BeingAsked(s) /\ asked = {}
        /\ Head(responses) = Reply(kind, s) /\ Tail(responses) = <<>>
  BY AnswersAreUnderway DEF ReadUserinfo
<1>2. Head(responses).sn = s.sn  BY <1>1 DEF Reply
<1>3. responses' = <<>> /\ unanswered' = unanswered /\ GotUserinfo(s.sn, snacs)
  BY <1>1, <1>2 DEF ReadUserinfo
<1>. QED  BY <1>1, <1>3, AnswerKeeps

(* An error is read, and understood or not.                                *)
LEMMA ErrorKeeps == LocateInv /\ ReadError => LocateInv'
<1>. SUFFICES ASSUME LocateInv, ReadError PROVE LocateInv'  OBVIOUS
<1>1. PICK s \in Snacs, kind \in {"userinfo", "error"} :
        /\ BeingAsked(s) /\ asked = {}
        /\ Head(responses) = Reply(kind, s) /\ Tail(responses) = <<>>
  BY AnswersAreUnderway DEF ReadError
<1>2. Head(responses).id = s.id /\ responses' = <<>>  BY <1>1 DEF Reply, ReadError
<1>3. ASSUME NEW snac \in snacs, snac.id = s.id, GotUserinfo(snac.sn, snacs \ {snac}),
             unanswered' = unanswered
      PROVE  LocateInv'
  <2>1. snac = s  BY <1>1, <1>3 DEF BeingAsked
  <2>. QED  BY <1>1, <1>2, <1>3, <2>1, AnswerKeeps
<1>4. ASSUME unanswered' = TRUE,
             UNCHANGED <<torequest, requested, waiting, snacid, snacs, asked, due, explicit>>
      PROVE  LocateInv'
  BY <1>1, <1>2, <1>4 DEF LocateInv, LocateTypes, BeingAsked
<1>. QED  BY <1>2, <1>3, <1>4 DEF ReadError

(* The cache is cleaned, the server answers or does not.                   *)
LEMMA ServerKeeps ==
  LocateInv /\ (CleanSnacs \/ ServerReplies \/ ServerIsSilent) => LocateInv'
<1>1. ASSUME LocateInv, CleanSnacs PROVE LocateInv'
  <2>1. /\ snacs' \in SUBSET snacs
        /\ UNCHANGED <<torequest, requested, waiting, snacid, asked, responses, due, explicit, unanswered>>
    BY <1>1 DEF CleanSnacs
  <2>2. \A s \in Snacs : BeingAsked(s) => BeingAsked(s)'  BY <2>1 DEF BeingAsked
  <2>. QED  BY <1>1, <2>1, <2>2 DEF LocateInv, LocateTypes
<1>2. ASSUME LocateInv, NEW snac \in asked
      PROVE  snac \in Snacs /\ BeingAsked(snac) /\ asked = {snac} /\ responses = <<>>
  <2>1. PICK s \in Snacs : BeingAsked(s)  BY <1>2 DEF LocateInv
  <2>. QED  BY <1>2, <2>1 DEF BeingAsked
<1>3. ASSUME LocateInv, ServerReplies PROVE LocateInv'
  <2>1. PICK snac \in asked, kind \in {"userinfo", "error"} :
          asked' = asked \ {snac} /\ responses' = Append(responses, Reply(kind, snac))
    BY <1>3 DEF ServerReplies
  <2>2. UNCHANGED <<torequest, requested, waiting, snacid, snacs, due, explicit, unanswered>>
    BY <1>3 DEF ServerReplies
  <2>3. snac \in Snacs /\ BeingAsked(snac) /\ asked = {snac} /\ responses = <<>>
    BY <1>2, <1>3
  <2>4. asked' = {} /\ responses' = <<Reply(kind, snac)>>
    <3>1. Append(<<>>, Reply(kind, snac)) = <<Reply(kind, snac)>>  OBVIOUS
    <3>. QED  BY <2>1, <2>3, <3>1
  <2>5. BeingAsked(snac)'  BY <2>2, <2>3, <2>4 DEF BeingAsked
  <2>. QED  BY <1>3, <2>2, <2>3, <2>5 DEF LocateInv, LocateTypes
<1>4. ASSUME LocateInv, ServerIsSilent PROVE LocateInv'
  <2>1. PICK snac \in asked : asked' = asked \ {snac}  BY <1>4 DEF ServerIsSilent
  <2>2. /\ unanswered' = TRUE
        /\ UNCHANGED <<torequest, requested, waiting, snacid, snacs, responses, due, explicit>>
    BY <1>4 DEF ServerIsSilent
  <2>3. BeingAsked(snac) /\ asked = {snac} /\ responses = <<>>  BY <1>2, <1>4
  <2>. QED  BY <1>4, <2>1, <2>2, <2>3 DEF LocateInv, LocateTypes, BeingAsked
<1>. QED  BY <1>1, <1>3, <1>4

(* Whoever comes online is asked about in turn, one at a time, and nothing *)
(* else is taken for an answer (locate.c), for any number of buddies.      *)
THEOREM BuddiesAreAskedInTurn == LocateSpec => []EachIsAskedInTurn
<1>1. LocateInit => LocateInv
  <2>1. <<>> \in Seq(Located) /\ 1 \in Nat \ {0}  OBVIOUS
  <2>2. LocateInit => LocateTypes  BY <2>1, Zenon DEF LocateInit, LocateTypes
  <2>. QED  BY <2>2 DEF LocateInit, LocateInv
<1>2. LocateInv /\ [LocateNext]_locateVars => LocateInv'
  <2>. SUFFICES ASSUME LocateInv, [LocateNext]_locateVars PROVE LocateInv'  OBVIOUS
  <2>1. CASE UNCHANGED locateVars
    <3>1. \A s \in Snacs : BeingAsked(s) => BeingAsked(s)'  BY <2>1 DEF locateVars, BeingAsked
    <3>. QED  BY <2>1, <3>1 DEF locateVars, LocateInv, LocateTypes
  <2>2. CASE SessionEnds
    <3>1. <<>> \in Seq(Located) /\ 1 \in Nat \ {0}  OBVIOUS
    <3>2. LocateTypes'  BY <2>2, <3>1, Zenon DEF SessionEnds, LocateTypes
    <3>. QED  BY <2>2, <3>2 DEF SessionEnds, LocateInv
  <2>. QED
    BY <2>1, <2>2, ArrivalKeeps, UserinfoKeeps, ErrorKeeps, ServerKeeps DEF LocateNext
<1>3. LocateInv => EachIsAskedInTurn
  BY DEF LocateInv, LocateTypes, EachIsAskedInTurn, BeingAsked
<1>. QED  BY <1>1, <1>2, <1>3, PTL DEF LocateSpec

-----------------------------------------------------------------------------
(* AimSession: the connections of a session and the buddies that its       *)
(* server has told of.                                                     *)
ServerFrames ==
  [kind : {"ok", "fail", "redirect", "negotiate", "migrate"}, name : {""}]
    \cup [kind : {"oncoming", "offgoing"}, name : Screennames]

AimConnections ==
  [type : {"auth", "bos", "chat"}, state : States, wire : Seq(ServerFrames),
   closed : BOOLEAN, online : SUBSET Screennames, moved : BOOLEAN]

(* Each server says what its kind of server says.                          *)
SpeaksAs(conn) ==
  \A k \in DOMAIN conn.wire :
    /\ conn.type = "auth" => conn.wire[k].kind \in {"ok", "fail"}
    /\ conn.type = "bos"  => conn.wire[k].kind \notin {"ok", "fail"}
    /\ conn.type # "chat"

(* What is still to be read about a buddy, which ends with how it is.      *)
Told(conn, name) ==
  {k \in DOMAIN conn.wire : /\ conn.wire[k].kind \in {"oncoming", "offgoing"}
                            /\ conn.wire[k].name = name}

(* What is to be read of each buddy leads to how it is; of whom there is   *)
(* nothing to be read is listed as it is.                                  *)
LeadsToOnline(conn, buddies) ==
  \A name \in Screennames :
    /\ Told(conn, name) = {} =>
         /\ name \in conn.online => name \in buddies
         /\ ~conn.moved /\ name \in buddies => name \in conn.online
    /\ \A k \in Told(conn, name) :
         (\A l \in Told(conn, name) : l <= k) =>
           (conn.wire[k].kind = "oncoming" <=> name \in conn.online)

(* A session logs in on the only connection that it has, with no buddies,  *)
(* and has one BOS server at most.                                         *)
SessionOf(list, buddies) ==
  /\ list \in Seq(AimConnections) /\ buddies \subseteq Screennames
  /\ \A i \in DOMAIN list :
       /\ SpeaksAs(list[i])
       /\ list[i].type = "auth" => Len(list) = 1 /\ buddies = {}
       /\ list[i].type = "bos"  => LeadsToOnline(list[i], buddies)
  /\ \A i, j \in DOMAIN list : list[i].type = "bos" /\ list[j].type = "bos" => i = j

AimInv == SessionOf(connlist, buddylist) /\ ServedWhileConnected

(* What is left when one element is taken out.                             *)
LEMMA RemovedAt ==
  ASSUME NEW S, NEW s \in Seq(S), NEW i \in DOMAIN s
  PROVE  /\ RemoveAt(s, i) \in Seq(S) /\ Len(RemoveAt(s, i)) = Len(s) - 1
         /\ \A k \in DOMAIN RemoveAt(s, i) :
              \E j \in DOMAIN s : j = (IF k < i THEN k ELSE k + 1) /\ RemoveAt(s, i)[k] = s[j]
<1>1. PICK n \in Nat : n = Len(s) /\ DOMAIN s = 1 .. n /\ i \in 1 .. n
  BY LenProperties
<1>2. PICK a : a = SubSeq(s, 1, i - 1)  OBVIOUS
<1>3. PICK b : b = SubSeq(s, i + 1, n)  OBVIOUS
<1>4. PICK r : r = RemoveAt(s, i)  OBVIOUS
<1>5. r = a \o b  BY <1>1, <1>2, <1>3, <1>4 DEF RemoveAt
<1>6. /\ a \in Seq(S) /\ Len(a) = i - 1 /\ \A k \in 1 .. i - 1 : a[k] = s[k]
  BY <1>1, <1>2, SubSeqProperties
<1>7. /\ b \in Seq(S) /\ Len(b) = n - i /\ \A k \in 1 .. n - i : b[k] = s[i + k]
  BY <1>1, <1>3, SubSeqProperties
<1>8. /\ r \in Seq(S) /\ Len(r) = n - 1
      /\ \A k \in 1 .. n - 1 : r[k] = IF k <= i - 1 THEN a[k] ELSE b[k - (i - 1)]
  <2>1. /\ r \in Seq(S) /\ Len(r) = Len(a) + Len(b)
        /\ \A k \in 1 .. Len(a) + Len(b) : r[k] = IF k <= Len(a) THEN a[k] ELSE b[k - Len(a)]
    BY <1>5, <1>6, <1>7, ConcatProperties
  <2>2. Len(a) + Len(b) = n - 1
    <3>1. Len(a) = i - 1 /\ Len(b) = n - i  BY <1>6, <1>7
    <3>2. (i - 1) + (n - i) = n - 1  BY <1>1
    <3>. QED  BY <3>1, <3>2
  <2>. QED  BY <1>6, <2>1, <2>2
<1>9. DOMAIN r = 1 .. n - 1  BY <1>8, LenProperties
<1>10. ASSUME NEW k \in 1 .. n - 1
       PROVE  r[k] = s[IF k < i THEN k ELSE k + 1] /\ (IF k < i THEN k ELSE k + 1) \in 1 .. n
  <2>1. CASE k < i  BY <1>1, <1>6, <1>8, <2>1
  <2>2. CASE ~(k < i)
    <3>1. k - (i - 1) \in 1 .. n - i /\ i + (k - (i - 1)) = k + 1  BY <1>1, <2>2
    <3>2. b[k - (i - 1)] = s[k + 1]  BY <1>7, <3>1
    <3>. QED  BY <1>1, <1>8, <2>2, <3>2
  <2>. QED  BY <2>1, <2>2
<1>. QED  BY <1>1, <1>4, <1>8, <1>9, <1>10

(* A connection is killed.                                                 *)
LEMMA KilledKeeps ==
  ASSUME NEW list, NEW buddies, SessionOf(list, buddies), NEW i \in DOMAIN list
  PROVE  /\ SessionOf(RemoveAt(list, i), buddies)
         /\ list[i].type = "bos" \/ list[i].type = "auth" =>
              \A k \in DOMAIN RemoveAt(list, i) : RemoveAt(list, i)[k].type = "chat"
         /\ list[i].type = "auth" => RemoveAt(list, i) = <<>>
<1>1. list \in Seq(AimConnections) /\ buddies \subseteq Screennames  BY DEF SessionOf
<1>2. PICK r : r = RemoveAt(list, i)  OBVIOUS
<1>3. /\ r \in Seq(AimConnections) /\ Len(r) = Len(list) - 1 /\ Len(list) \in Nat
      /\ DOMAIN r = 1 .. Len(r) /\ DOMAIN list = 1 .. Len(list)
      /\ \A k \in DOMAIN r :
           \E j \in DOMAIN list : j = (IF k < i THEN k ELSE k + 1) /\ r[k] = list[j]
  BY <1>1, <1>2, RemovedAt, LenProperties
<1>4. ASSUME NEW k \in DOMAIN r  PROVE r[k].type # "auth"
  <2>1. PICK j \in DOMAIN list : r[k] = list[j]  BY <1>3
  <2>2. list[j].type = "auth" => Len(list) = 1  BY DEF SessionOf
  <2>. QED  BY <1>3, <2>1, <2>2
<1>5. ASSUME NEW k \in DOMAIN r
      PROVE  SpeaksAs(r[k]) /\ (r[k].type = "bos" => LeadsToOnline(r[k], buddies))
  <2>1. PICK j \in DOMAIN list : r[k] = list[j]  BY <1>3
  <2>. QED  BY <2>1 DEF SessionOf
<1>6. ASSUME NEW k \in DOMAIN r, NEW l \in DOMAIN r, r[k].type = "bos", r[l].type = "bos"
      PROVE  k = l
  <2>1. PICK j \in DOMAIN list : j = (IF k < i THEN k ELSE k + 1) /\ r[k] = list[j]  BY <1>3
  <2>2. PICK h \in DOMAIN list : h = (IF l < i THEN l ELSE l + 1) /\ r[l] = list[h]  BY <1>3
  <2>3. j = h  BY <1>6, <2>1, <2>2 DEF SessionOf
  <2>. QED  BY <1>3, <2>1, <2>2, <2>3
<1>7. SessionOf(r, buddies)
  BY <1>1, <1>3, <1>4, <1>5, <1>6 DEF SessionOf
<1>8. ASSUME NEW k \in DOMAIN r, list[i].type = "bos"  PROVE r[k].type # "bos"
  <2>1. PICK j \in DOMAIN list : j = (IF k < i THEN k ELSE k + 1) /\ r[k] = list[j]  BY <1>3
  <2>2. j # i  BY <1>3, <2>1
  <2>3. list[j].type = "bos" => j = i  BY <1>8 DEF SessionOf
  <2>. QED  BY <2>1, <2>2, <2>3
<1>9. list[i].type = "auth" => r = <<>>
  <2>1. list[i].type = "auth" => Len(list) = 1  BY DEF SessionOf
  <2>2. Len(list) = 1 => Len(r) = 0  BY <1>3
  <2>. QED  BY <1>3, <2>1, <2>2, EmptySeq
<1>10. \A k \in DOMAIN r : r[k].type \in {"auth", "bos", "chat"}
  <2>1. \A k \in DOMAIN r : r[k] \in AimConnections  BY <1>3, ElementOfSeq
  <2>. QED  BY <2>1 DEF AimConnections
<1>. QED  BY <1>2, <1>3, <1>4, <1>7, <1>8, <1>9, <1>10

(* A connection goes on, or one is added to those of other kinds.          *)
LEMMA ReplacedKeeps ==
  ASSUME NEW list, NEW buddies, SessionOf(list, buddies), NEW i \in DOMAIN list,
         NEW c \in AimConnections, SpeaksAs(c), c.type = list[i].type,
         NEW new \in SUBSET Screennames, c.type # "bos" => new = buddies,
         c.type = "bos" => LeadsToOnline(c, new)
  PROVE  SessionOf([list EXCEPT ![i] = c], new)
<1>1. PICK r : r = [list EXCEPT ![i] = c]  OBVIOUS
<1>2. list \in Seq(AimConnections) /\ i \in 1 .. Len(list)  BY LenProperties DEF SessionOf
<1>3. /\ r \in Seq(AimConnections) /\ Len(r) = Len(list) /\ DOMAIN r = DOMAIN list
      /\ \A k \in DOMAIN list : r[k] = IF k = i THEN c ELSE list[k]
  <2>1. r \in Seq(AimConnections) /\ Len(r) = Len(list)  BY <1>1, <1>2, ExceptSeq
  <2>. QED  BY <1>1, <2>1
<1>4. \A k \in DOMAIN list : r[k].type = list[k].type  BY <1>3
<1>5. \A j, k \in DOMAIN list : list[j].type = "bos" /\ list[k].type = "bos" => j = k
  BY DEF SessionOf
<1>6. ASSUME NEW k \in DOMAIN list, k # i
      PROVE  /\ SpeaksAs(list[k])
             /\ list[k].type = "auth" => Len(list) = 1 /\ new = {}
             /\ list[k].type = "bos" => LeadsToOnline(list[k], new)
  <2>1. list[k].type = "auth" => Len(list) = 1  BY DEF SessionOf
  <2>2. list[k].type # "auth"  BY <1>2, <1>6, <2>1, LenProperties
  <2>3. list[k].type = "bos" => c.type # "bos"  BY <1>5, <1>6
  <2>. QED  BY <2>2, <2>3 DEF SessionOf
<1>7. c.type = "auth" => Len(list) = 1 /\ new = {}  BY DEF SessionOf
<1>8. \A k \in DOMAIN r : /\ SpeaksAs(r[k])
                          /\ r[k].type = "auth" => Len(r) = 1 /\ new = {}
                          /\ r[k].type = "bos"  => LeadsToOnline(r[k], new)
  BY <1>3, <1>6, <1>7
<1>. QED  BY <1>1, <1>3, <1>4, <1>5, <1>8 DEF SessionOf

LEMMA AddedKeeps ==
  ASSUME NEW list, NEW buddies, SessionOf(list, buddies),
         NEW c \in AimConnections, c.type # "auth", SpeaksAs(c),
         c.type = "bos" => LeadsToOnline(c, buddies),
         \A k \in DOMAIN list : list[k].type # "auth" /\ (c.type = "bos" => list[k].type # "bos")
  PROVE  SessionOf(<<c>> \o list, buddies)
<1>1. PICK r : r = <<c>> \o list  OBVIOUS
<1>2. PICK n \in Nat : n = Len(list) /\ list \in Seq(AimConnections) /\ DOMAIN list = 1 .. n
  BY LenProperties DEF SessionOf
<1>3. /\ r \in Seq(AimConnections) /\ Len(r) = n + 1
      /\ \A k \in 1 .. n + 1 : r[k] = IF k <= 1 THEN c ELSE list[k - 1]
  <2>1. <<c>> \in Seq(AimConnections) /\ Len(<<c>>) = 1 /\ <<c>>[1] = c  OBVIOUS
  <2>. QED  BY <1>1, <1>2, <2>1, ConcatProperties
<1>4. DOMAIN r = 1 .. n + 1  BY <1>3, LenProperties
<1>5. r[1] = c /\ \A k \in 2 .. n + 1 : k - 1 \in DOMAIN list /\ r[k] = list[k - 1]
  BY <1>2, <1>3
<1>6. ASSUME NEW k \in 1 .. n + 1
      PROVE  /\ SpeaksAs(r[k]) /\ r[k].type # "auth"
             /\ r[k].type = "bos" => LeadsToOnline(r[k], buddies)
  <2>1. CASE k = 1  BY <1>5, <2>1
  <2>2. CASE k \in 2 .. n + 1  BY <1>5, <2>2 DEF SessionOf
  <2>. QED  BY <2>1, <2>2
<1>7. ASSUME NEW k \in 1 .. n + 1, NEW l \in 1 .. n + 1, r[k].type = "bos", r[l].type = "bos"
      PROVE  k = l
  <2>1. CASE c.type = "bos"  BY <1>5, <1>7, <2>1
  <2>2. CASE c.type # "bos"
    <3>1. k \in 2 .. n + 1 /\ l \in 2 .. n + 1  BY <1>5, <1>7, <2>2
    <3>2. k - 1 = l - 1  BY <1>5, <1>7, <3>1 DEF SessionOf
    <3>. QED  BY <3>2
  <2>. QED  BY <2>1, <2>2
<1>8. buddies \subseteq Screennames  BY DEF SessionOf
<1>. QED  BY <1>1, <1>3, <1>4, <1>6, <1>7, <1>8 DEF SessionOf

(* Nothing has been said over a new connection.                            *)
LEMMA NothingSaid ==
  ASSUME NEW c, c.wire = <<>>, c.online = {}
  PROVE  SpeaksAs(c) /\ \A buddies : c.moved \/ buddies = {} => LeadsToOnline(c, buddies)
<1>1. SpeaksAs(c)  BY DEF SpeaksAs
<1>2. \A name : Told(c, name) = {}  BY DEF Told
<1>. QED  BY <1>1, <1>2 DEF LeadsToOnline

LEMMA NewConnections ==
  ASSUME NEW type \in {"auth", "bos", "chat"}, NEW state \in States
  PROVE  /\ Conn(type, state) \in AimConnections /\ Conn(type, state).type = type
         /\ SpeaksAs(Conn(type, state)) /\ LeadsToOnline(Conn(type, state), {})
         /\ [Conn(type, state) EXCEPT !.moved = TRUE] \in AimConnections
         /\ [Conn(type, state) EXCEPT !.moved = TRUE].type = type
         /\ SpeaksAs([Conn(type, state) EXCEPT !.moved = TRUE])
         /\ \A buddies : LeadsToOnline([Conn(type, state) EXCEPT !.moved = TRUE], buddies)
<1>1. PICK no \in BOOLEAN : no = FALSE  OBVIOUS
<1>2. <<>> \in Seq(ServerFrames)  OBVIOUS
<1>3. PICK w \in Seq(ServerFrames) : w = <<>>  BY <1>2
<1>4. PICK c : c = [type |-> type, state |-> state, wire |-> w, closed |-> no,
                    online |-> {}, moved |-> no]
  OBVIOUS
<1>5. Conn(type, state) = c  BY <1>1, <1>3, <1>4 DEF Conn
<1>6. c \in AimConnections /\ c.type = type /\ c.wire = <<>> /\ c.online = {}
  <2>1. c \in AimConnections  BY <1>4 DEF AimConnections
  <2>. QED  BY <1>3, <1>4, <2>1
<1>7. SpeaksAs(c) /\ LeadsToOnline(c, {})  BY <1>6, NothingSaid
<1>8. PICK d : d = [c EXCEPT !.moved = TRUE]  OBVIOUS
<1>9. d \in AimConnections /\ d.type = type /\ d.wire = <<>> /\ d.online = {} /\ d.moved
  BY <1>6, <1>8 DEF AimConnections
<1>10. SpeaksAs(d) /\ \A buddies : LeadsToOnline(d, buddies)  BY <1>9, NothingSaid
<1>. QED  BY <1>5, <1>6, <1>7, <1>8, <1>9, <1>10

(* What a server may say next, when its buddies then are who.              *)
MaySay(c, f, who) ==
  /\ f \in ServerFrames /\ who \in SUBSET Screennames /\ c.type # "chat"
  /\ c.type = "auth" => f.kind \in {"ok", "fail"}
  /\ c.type = "bos" => f.kind \notin {"ok", "fail"}
  /\ \A name \in Screennames :
       IF f.kind \in {"oncoming", "offgoing"} /\ f.name = name
       THEN f.kind = "oncoming" <=> name \in who
       ELSE name \in who <=> name \in c.online

Said(c, f, who) == [c EXCEPT !.wire = Append(@, f), !.online = who]

LEMMA WhatIsSaid ==
  /\ \A kind \in {"ok", "fail", "redirect", "negotiate", "migrate"} :
       Frame(kind) \in ServerFrames /\ Frame(kind).kind = kind
  /\ \A kind \in {"oncoming", "offgoing"}, name \in Screennames :
       /\ Presence(kind, name) \in ServerFrames
       /\ Presence(kind, name).kind = kind /\ Presence(kind, name).name = name
<1>1. ASSUME NEW kind \in {"ok", "fail", "redirect", "negotiate", "migrate"}
      PROVE  Frame(kind) \in ServerFrames /\ Frame(kind).kind = kind
  <2>1. Frame(kind) \in [kind : {"ok", "fail", "redirect", "negotiate", "migrate"}, name : {""}]
    BY DEF Frame
  <2>2. Frame(kind).kind = kind  BY DEF Frame
  <2>. QED  BY <2>1, <2>2, Zenon DEF ServerFrames
<1>2. ASSUME NEW kind \in {"oncoming", "offgoing"}, NEW name \in Screennames
      PROVE  /\ Presence(kind, name) \in ServerFrames
             /\ Presence(kind, name).kind = kind /\ Presence(kind, name).name = name
  <2>1. Presence(kind, name) \in [kind : {"oncoming", "offgoing"}, name : Screennames]
    BY DEF Presence
  <2>2. Presence(kind, name).kind = kind /\ Presence(kind, name).name = name  BY DEF Presence
  <2>. QED  BY <2>1, <2>2, Zenon DEF ServerFrames
<1>. QED  BY <1>1, <1>2

(* The server says one thing more.                                         *)
LEMMA SentKeeps ==
  ASSUME NEW c \in AimConnections, SpeaksAs(c), NEW f, NEW who, MaySay(c, f, who),
         NEW d, d = Said(c, f, who)
  PROVE  /\ d \in AimConnections /\ d.type = c.type /\ SpeaksAs(d)
         /\ \A buddies : LeadsToOnline(c, buddies) => LeadsToOnline(d, buddies)
<1>0. /\ f \in ServerFrames /\ who \in SUBSET Screennames /\ c.type # "chat"
      /\ c.type = "auth" => f.kind \in {"ok", "fail"}
      /\ c.type = "bos" => f.kind \notin {"ok", "fail"}
  BY DEF MaySay
<1>1. PICK n \in Nat : n = Len(c.wire) /\ c.wire \in Seq(ServerFrames) /\ DOMAIN c.wire = 1 .. n
  BY LenProperties DEF AimConnections
<1>2. PICK w : w = Append(c.wire, f)  OBVIOUS
<1>3. /\ w \in Seq(ServerFrames) /\ DOMAIN w = 1 .. n + 1 /\ w[n + 1] = f
      /\ \A k \in 1 .. n : w[k] = c.wire[k]
  BY <1>0, <1>1, <1>2, AppendProperties, LenProperties
<1>4. d.wire = w /\ d.online = who /\ d.type = c.type /\ d.moved = c.moved /\ d \in AimConnections
  BY <1>0, <1>2, <1>3 DEF AimConnections, Said
<1>5. SpeaksAs(d)
  <2>1. \A k \in 1 .. n + 1 : k \in 1 .. n \/ k = n + 1  OBVIOUS
  <2>. QED  BY <1>0, <1>1, <1>3, <1>4, <2>1 DEF SpeaksAs
<1>6. ASSUME NEW buddies, LeadsToOnline(c, buddies)  PROVE LeadsToOnline(d, buddies)
  <2>1. SUFFICES ASSUME NEW name \in Screennames
                 PROVE  /\ Told(d, name) = {} =>
                             /\ name \in d.online => name \in buddies
                             /\ ~d.moved /\ name \in buddies => name \in d.online
                        /\ \A k \in Told(d, name) :
                             (\A l \in Told(d, name) : l <= k) =>
                               (d.wire[k].kind = "oncoming" <=> name \in d.online)
    BY DEF LeadsToOnline
  <2>2. CASE f.kind \in {"oncoming", "offgoing"} /\ f.name = name
    <3>1. n + 1 \in Told(d, name) /\ Told(d, name) \subseteq 1 .. n + 1
      BY <1>3, <1>4, <2>2 DEF Told
    <3>2. \A k \in Told(d, name) : (\A l \in Told(d, name) : l <= k) => k = n + 1
      BY <3>1
    <3>3. f.kind = "oncoming" <=> name \in who  BY <2>2 DEF MaySay
    <3>. QED  BY <1>3, <1>4, <2>2, <3>1, <3>2, <3>3
  <2>3. CASE ~(f.kind \in {"oncoming", "offgoing"} /\ f.name = name)
    <3>1. Told(d, name) = Told(c, name)
      <4>1. ASSUME NEW k \in Told(d, name)  PROVE k \in Told(c, name)
        BY <1>1, <1>3, <1>4, <2>3 DEF Told
      <4>2. ASSUME NEW k \in Told(c, name)  PROVE k \in Told(d, name)
        BY <1>1, <1>3, <1>4 DEF Told
      <4>. QED  BY <4>1, <4>2
    <3>2. \A k \in Told(c, name) : d.wire[k] = c.wire[k]  BY <1>1, <1>3, <1>4 DEF Told
    <3>3. name \in d.online <=> name \in c.online  BY <1>4, <2>3 DEF MaySay
    <3>. QED  BY <1>4, <1>6, <3>1, <3>2, <3>3 DEF LeadsToOnline
  <2>. QED  BY <2>2, <2>3
<1>. QED  BY <1>4, <1>5, <1>6

(* One thing that the server said is read, and the buddies follow it.      *)
LEMMA ReadKeeps ==
  ASSUME NEW c \in AimConnections, SpeaksAs(c), c.wire # <<>>,
         NEW d, d = [c EXCEPT !.wire = Tail(@)],
         NEW buddies, NEW new, LeadsToOnline(c, buddies),
         \A name \in Screennames :
           IF Head(c.wire).kind \in {"oncoming", "offgoing"} /\ Head(c.wire).name = name
           THEN name \in new <=> Head(c.wire).kind = "oncoming"
           ELSE name \in new <=> name \in buddies
  PROVE  d \in AimConnections /\ d.type = c.type /\ SpeaksAs(d) /\ LeadsToOnline(d, new)
<1>1. PICK n \in Nat : n = Len(c.wire) /\ c.wire \in Seq(ServerFrames) /\ DOMAIN c.wire = 1 .. n
  BY LenProperties DEF AimConnections
<1>2. PICK w : w = Tail(c.wire)  OBVIOUS
<1>3. /\ w \in Seq(ServerFrames) /\ n > 0 /\ DOMAIN w = 1 .. n - 1 /\ Head(c.wire) = c.wire[1]
      /\ \A k \in 1 .. n - 1 : w[k] = c.wire[k + 1]
  BY <1>1, <1>2, HeadTailProperties, LenProperties, EmptySeq
<1>4. /\ d.wire = w /\ d.online = c.online /\ d.type = c.type /\ d.moved = c.moved
      /\ d \in AimConnections
  BY <1>2, <1>3 DEF AimConnections
<1>5. SpeaksAs(d)
  <2>1. \A k \in 1 .. n - 1 : k + 1 \in 1 .. n  OBVIOUS
  <2>. QED  BY <1>1, <1>3, <1>4, <2>1 DEF SpeaksAs
<1>6. ASSUME NEW name \in Screennames
      PROVE  /\ Told(d, name) = {} =>
                  /\ name \in d.online => name \in new
                  /\ ~d.moved /\ name \in new => name \in d.online
             /\ \A k \in Told(d, name) :
                  (\A l \in Told(d, name) : l <= k) =>
                    (d.wire[k].kind = "oncoming" <=> name \in d.online)
  <2>1. \A k \in Told(d, name) : k \in 1 .. n - 1 /\ k + 1 \in Told(c, name)
    BY <1>1, <1>3, <1>4 DEF Told
  <2>2. \A k \in Told(c, name) : k \in 1 .. n /\ (k = 1 \/ k - 1 \in Told(d, name))
    BY <1>1, <1>3, <1>4 DEF Told
  <2>3. ASSUME NEW k \in Told(d, name), \A l \in Told(d, name) : l <= k
        PROVE  d.wire[k].kind = "oncoming" <=> name \in d.online
    <3>1. ASSUME NEW l \in Told(c, name)  PROVE l <= k + 1
      <4>1. l \in 1 .. n /\ (l = 1 \/ l - 1 \in Told(d, name))  BY <2>2
      <4>2. k \in 1 .. n - 1  BY <2>1, <2>3
      <4>3. l = 1 \/ l - 1 <= k  BY <2>3, <4>1
      <4>. QED  BY <4>1, <4>2, <4>3
    <3>2. c.wire[k + 1].kind = "oncoming" <=> name \in c.online
      BY <2>1, <3>1 DEF LeadsToOnline
    <3>. QED  BY <1>3, <1>4, <2>1, <3>2
  <2>4. ASSUME Told(d, name) = {}
        PROVE  /\ name \in d.online => name \in new
               /\ ~d.moved /\ name \in new => name \in d.online
    <3>1. Told(c, name) \subseteq {1}  BY <2>2, <2>4
    <3>2. 1 \in Told(c, name) <=>
            Head(c.wire).kind \in {"oncoming", "offgoing"} /\ Head(c.wire).name = name
      BY <1>1, <1>3 DEF Told
    <3>3. CASE 1 \in Told(c, name)
      <4>1. c.wire[1].kind = "oncoming" <=> name \in c.online
        BY <3>1, <3>3 DEF LeadsToOnline
      <4>. QED  BY <1>3, <1>4, <3>2, <3>3, <4>1
    <3>4. CASE Told(c, name) = {}
      BY <1>4, <3>2, <3>4 DEF LeadsToOnline
    <3>. QED  BY <3>1, <3>3, <3>4
  <2>. QED  BY <2>3, <2>4
<1>7. LeadsToOnline(d, new)  BY <1>6 DEF LeadsToOnline
<1>. QED  BY <1>4, <1>5, <1>7

-----------------------------------------------------------------------------
(* The connection that the loop comes to has something said, by a server   *)
(* of its kind.                                                            *)
LEMMA WhoSpeaks ==
  ASSUME AimInv, NEW i \in DOMAIN connlist, NEW kind, Gets(i, kind)
  PROVE  /\ connlist[i] \in AimConnections /\ connlist[i].wire # <<>>
         /\ Head(connlist[i].wire) \in ServerFrames /\ Head(connlist[i].wire).kind = kind
         /\ kind \in {"ok", "fail"} => connlist[i].type = "auth"
         /\ kind \notin {"ok", "fail"} => connlist[i].type = "bos"
         /\ polled
<1>1. connlist[i] \in AimConnections /\ SpeaksAs(connlist[i])
  BY ElementOfSeq, LenProperties DEF AimInv, SessionOf
<1>2. PICK w \in Seq(ServerFrames) : w = connlist[i].wire /\ w # <<>> /\ Head(w).kind = kind
  BY <1>1 DEF Gets, AimConnections
<1>3. 1 \in DOMAIN w /\ Head(w) = w[1] /\ Head(w) \in ServerFrames
  BY <1>2, HeadTailProperties, LenProperties, EmptySeq
<1>4. connlist[i].type \in {"auth", "bos", "chat"}  BY <1>1 DEF AimConnections
<1>5. polled  BY DEF Gets, Dispatch, Dispatched
<1>. QED  BY <1>1, <1>2, <1>3, <1>4, <1>5 DEF SpeaksAs

LEMMA NoConnections ==
  ASSUME NEW buddies \in SUBSET Screennames
  PROVE  SessionOf(<<>>, buddies)
<1>1. <<>> \in Seq(AimConnections) /\ DOMAIN <<>> = {}  OBVIOUS
<1>. QED  BY <1>1 DEF SessionOf

LEMMA AimBegins == AimInit => AimInv
BY NoConnections DEF AimInit, AimInv, ServedWhileConnected

(* The user logs in and out, or a session is lost.                         *)
LEMMA CommandsKeep ==
  ASSUME AimInv, (\E state \in States : AimLogin(state)) \/ AimLogout
                   \/ \E i \in DOMAIN connlist : Lost(i)
  PROVE  AimInv'
<1>1. CASE \E state \in States : AimLogin(state)
  <2>1. PICK state \in States : AimLogin(state)  BY <1>1
  <2>2. PICK c \in AimConnections :
          c = Conn("auth", state) /\ c.type = "auth" /\ SpeaksAs(c)
    BY NewConnections
  <2>3. connlist' = <<c>> /\ buddylist' = {} /\ polled'  BY <2>1, <2>2 DEF AimLogin
  <2>4. /\ <<c>> \in Seq(AimConnections) /\ Len(<<c>>) = 1 /\ DOMAIN <<c>> = {1}
        /\ <<c>>[1] = c
    OBVIOUS
  <2>5. SessionOf(<<c>>, {})  BY <2>2, <2>4 DEF SessionOf
  <2>. QED  BY <2>3, <2>5 DEF AimInv, ServedWhileConnected
<1>2. CASE AimLogout
  <2>1. connlist' = <<>> /\ buddylist' = {} /\ ~loggedin'  BY <1>2 DEF AimLogout, Stop
  <2>. QED  BY <2>1, NoConnections DEF AimInv, ServedWhileConnected
<1>3. CASE \E i \in DOMAIN connlist : Lost(i)
  <2>1. connlist' = <<>> /\ buddylist' = buddylist /\ ~loggedin'
    BY <1>3 DEF Lost, LoggedOut, Stop
  <2>2. buddylist \in SUBSET Screennames  BY DEF AimInv, SessionOf
  <2>. QED  BY <2>1, <2>2, NoConnections DEF AimInv, ServedWhileConnected
<1>. QED  BY <1>1, <1>2, <1>3

(* A server says something, with what it has told of its buddies.          *)
Says(i, f, who) ==
  MaySay(connlist[i], f, who) /\ connlist' = [connlist EXCEPT ![i] = Said(connlist[i], f, who)]

(* The BOS server tells of one buddy more who comes or goes.               *)
Tells(i, name, kind, who) ==
  LET present == connlist[i].online
  IN  /\ kind = IF name \in present THEN "offgoing" ELSE "oncoming"
      /\ who = IF kind = "oncoming" THEN present \cup {name} ELSE present \ {name}
      /\ connlist' = [connlist EXCEPT ![i].wire = Append(@, Presence(kind, name)),
                                      ![i].online = who]

LEMMA WhatServersSay ==
  ASSUME AimInv, NEW i \in DOMAIN connlist, ServerSends(i)
  PROVE  \E f, who : Says(i, f, who)
<1>1. PICK c \in AimConnections : c = connlist[i]
  BY ElementOfSeq, LenProperties DEF AimInv, SessionOf
<1>2. c.online \in SUBSET Screennames /\ c.wire \in Seq(ServerFrames)  BY DEF AimConnections
<1>3. ASSUME NEW kind \in {"ok", "fail", "redirect", "negotiate", "migrate"},
             c.type = "auth" => kind \in {"ok", "fail"},
             c.type = "bos" => kind \notin {"ok", "fail"}, c.type # "chat",
             Sends(i, Frame(kind))
      PROVE  \E f, who : Says(i, f, who)
  <2>1. MaySay(c, Frame(kind), c.online)  BY <1>2, <1>3, WhatIsSaid DEF MaySay
  <2>2. connlist' = [connlist EXCEPT ![i] = Said(c, Frame(kind), c.online)]
    BY <1>1, <1>3 DEF Sends, Said, AimConnections
  <2>. QED  BY <1>1, <2>1, <2>2 DEF Says
<1>4. ASSUME c.type = "bos", NEW name \in Screennames, NEW kind, NEW who,
             Tells(i, name, kind, who)
      PROVE  \E f, w : Says(i, f, w)
  <2>0. /\ kind = IF name \in c.online THEN "offgoing" ELSE "oncoming"
        /\ who = IF kind = "oncoming" THEN c.online \cup {name} ELSE c.online \ {name}
        /\ connlist' = [connlist EXCEPT ![i].wire = Append(@, Presence(kind, name)),
                                        ![i].online = who]
    BY <1>1, <1>4 DEF Tells
  <2>1. kind \in {"oncoming", "offgoing"} /\ who \in SUBSET Screennames  BY <1>2, <2>0
  <2>2. MaySay(c, Presence(kind, name), who)  BY <1>2, <1>4, <2>0, <2>1, WhatIsSaid DEF MaySay
  <2>3. connlist' = [connlist EXCEPT ![i] = Said(c, Presence(kind, name), who)]
    BY <1>1, <2>0 DEF Said
  <2>. QED  BY <1>1, <2>2, <2>3 DEF Says
<1>5. CASE c.type = "auth" /\ \E kind \in {"ok", "fail"} : Sends(i, Frame(kind))
  <2>1. PICK kind \in {"ok", "fail"} : Sends(i, Frame(kind))  BY <1>5
  <2>. QED  BY <1>3, <1>5, <2>1
<1>6. CASE c.type = "bos" /\ \E kind \in {"redirect", "negotiate", "migrate"} :
                               Sends(i, Frame(kind))
  <2>1. PICK kind \in {"redirect", "negotiate", "migrate"} : Sends(i, Frame(kind))  BY <1>6
  <2>. QED  BY <1>3, <1>6, <2>1
<1>7. CASE c.type = "bos" /\ \E name \in Screennames :
             LET kind == IF name \in c.online THEN "offgoing" ELSE "oncoming"
                 who  == IF kind = "oncoming" THEN c.online \cup {name} ELSE c.online \ {name}
             IN  connlist' = [connlist EXCEPT ![i].wire = Append(@, Presence(kind, name)),
                                              ![i].online = who]
  <2>1. \E name \in Screennames :
          LET kind == IF name \in c.online THEN "offgoing" ELSE "oncoming"
              who  == IF kind = "oncoming" THEN c.online \cup {name} ELSE c.online \ {name}
          IN  Tells(i, name, kind, who)
    BY <1>1, <1>7 DEF Tells
  <2>2. PICK name \in Screennames : \E kind, who : Tells(i, name, kind, who)
    BY <2>1
  <2>3. PICK kind, who : Tells(i, name, kind, who)  BY <2>2
  <2>. QED  BY <1>4, <1>7, <2>3
<1>. QED  BY <1>1, <1>5, <1>6, <1>7 DEF ServerSends

LEMMA ServerSendsKeeps ==
  ASSUME AimInv, NEW i \in DOMAIN connlist, ServerSends(i)
  PROVE  AimInv'
<1>1. PICK c \in AimConnections : c = connlist[i] /\ SpeaksAs(c)
  BY ElementOfSeq, LenProperties DEF AimInv, SessionOf
<1>2. buddylist' = buddylist /\ loggedin' = loggedin /\ polled' = polled
  BY DEF ServerSends
<1>3. PICK f, who : Says(i, f, who)  BY WhatServersSay
<1>4. MaySay(c, f, who)  BY <1>1, <1>3 DEF Says
<1>5. PICK d : d = Said(c, f, who)  OBVIOUS
<1>6. /\ d \in AimConnections /\ d.type = c.type /\ SpeaksAs(d)
      /\ LeadsToOnline(c, buddylist) => LeadsToOnline(d, buddylist)
  BY <1>1, <1>4, <1>5, SentKeeps
<1>7. connlist' = [connlist EXCEPT ![i] = d]  BY <1>1, <1>3, <1>5 DEF Says
<1>8. SessionOf(connlist', buddylist)
  <2>1. SessionOf(connlist, buddylist) /\ buddylist \in SUBSET Screennames
    BY DEF AimInv, SessionOf
  <2>2. c.type = "bos" => LeadsToOnline(d, buddylist)
    BY <1>1, <1>6, <2>1 DEF SessionOf
  <2>. QED  BY <1>1, <1>6, <1>7, <2>1, <2>2, ReplacedKeeps
<1>9. connlist # <<>>  OBVIOUS
<1>. QED  BY <1>2, <1>8, <1>9 DEF AimInv, ServedWhileConnected

(* What was said over a connection counts for how it is read, not whether  *)
(* it is open.                                                             *)
LEMMA SaidAlike ==
  ASSUME NEW c, NEW d, d.wire = c.wire, d.type = c.type, d.online = c.online, d.moved = c.moved
  PROVE  /\ SpeaksAs(c) => SpeaksAs(d)
         /\ \A buddies : LeadsToOnline(c, buddies) => LeadsToOnline(d, buddies)
<1>1. \A name : Told(d, name) = Told(c, name)  BY DEF Told
<1>2. SpeaksAs(c) => SpeaksAs(d)  BY DEF SpeaksAs
<1>3. ASSUME NEW buddies, LeadsToOnline(c, buddies)  PROVE LeadsToOnline(d, buddies)
  BY <1>1, <1>3 DEF LeadsToOnline
<1>. QED  BY <1>2, <1>3

(* A connection is made, or the server hangs up.                           *)
LEMMA OpenedAndClosed ==
  ASSUME AimInv, NEW i \in DOMAIN connlist, ServerCloses(i) \/ Connected(i)
  PROVE  AimInv'
<1>1. PICK c \in AimConnections : c = connlist[i] /\ SpeaksAs(c)
  BY ElementOfSeq, LenProperties DEF AimInv, SessionOf
<1>2. buddylist' = buddylist /\ loggedin' = loggedin /\ polled' = polled
  BY DEF ServerCloses, Connected
<1>3. PICK yes \in BOOLEAN : yes = TRUE  OBVIOUS
<1>4. PICK open \in States : open = "open"  BY DEF States
<1>5. PICK d : connlist' = [connlist EXCEPT ![i] = d]
               /\ (d = [c EXCEPT !.closed = yes] \/ d = [c EXCEPT !.state = open])
  BY <1>1, <1>3, <1>4 DEF ServerCloses, Connected
<1>6. /\ d \in AimConnections /\ d.wire = c.wire /\ d.type = c.type /\ d.online = c.online
      /\ d.moved = c.moved
  BY <1>5 DEF AimConnections
<1>7. SpeaksAs(d) /\ (LeadsToOnline(c, buddylist) => LeadsToOnline(d, buddylist))
  BY <1>1, <1>6, SaidAlike
<1>8. SessionOf(connlist', buddylist)
  <2>1. SessionOf(connlist, buddylist) /\ buddylist \in SUBSET Screennames
    BY DEF AimInv, SessionOf
  <2>2. c.type = "bos" => LeadsToOnline(d, buddylist)
    BY <1>1, <1>7, <2>1 DEF SessionOf
  <2>. QED  BY <1>1, <1>5, <1>6, <1>7, <2>1, <2>2, ReplacedKeeps
<1>9. connlist # <<>>  OBVIOUS
<1>. QED  BY <1>2, <1>8, <1>9 DEF AimInv, ServedWhileConnected

(* A connection ends, and with the login that it served another begins.    *)
LEMMA SessionMovesOn ==
  ASSUME AimInv, NEW i \in DOMAIN connlist,
         AuthFailed(i) \/ ConnErr(i) \/ \E state \in States : AuthOk(i, state) \/ Migrate(i, state)
  PROVE  AimInv'
<1>1. SessionOf(connlist, buddylist) /\ buddylist \in SUBSET Screennames
  BY DEF AimInv, SessionOf
<1>2. /\ SessionOf(Killed(i), buddylist)
      /\ connlist[i].type = "bos" \/ connlist[i].type = "auth" =>
           \A k \in DOMAIN Killed(i) : Killed(i)[k].type = "chat"
      /\ connlist[i].type = "auth" => Killed(i) = <<>> /\ buddylist = {}
  <2>1. connlist[i].type = "auth" => buddylist = {}  BY <1>1 DEF SessionOf
  <2>. QED  BY <1>1, <2>1, KilledKeeps DEF Killed
<1>3. CASE AuthFailed(i)
  <2>1. connlist[i].type = "auth"  BY <1>3, WhoSpeaks DEF AuthFailed
  <2>2. connlist' = Killed(i) /\ buddylist' = buddylist /\ ~loggedin'
    BY <1>3 DEF AuthFailed, Stop
  <2>. QED  BY <1>2, <2>1, <2>2 DEF AimInv, ServedWhileConnected
<1>4. CASE ConnErr(i)
  <2>1. polled  BY <1>4, WhoSpeaks DEF ConnErr
  <2>2. connlist' = Killed(i) /\ buddylist' = buddylist /\ polled' = polled
    BY <1>4 DEF ConnErr
  <2>. QED  BY <1>2, <2>1, <2>2 DEF AimInv, ServedWhileConnected
<1>5. ASSUME NEW state \in States, AuthOk(i, state)  PROVE AimInv'
  <2>1. connlist[i].type = "auth" /\ polled  BY <1>5, WhoSpeaks DEF AuthOk
  <2>2. buddylist' = buddylist /\ polled' = polled  BY <1>5 DEF AuthOk
  <2>3. CASE state = "dead"
    <3>1. connlist' = Killed(i)  BY <1>5, <2>3 DEF AuthOk
    <3>. QED  BY <1>2, <2>1, <2>2, <3>1 DEF AimInv, ServedWhileConnected
  <2>4. CASE state # "dead"
    <3>1. PICK c \in AimConnections :
            c = Conn("bos", state) /\ c.type = "bos" /\ SpeaksAs(c) /\ LeadsToOnline(c, {})
      BY NewConnections
    <3>2. connlist' = <<c>> \o Killed(i)  BY <1>5, <2>4, <3>1 DEF AuthOk
    <3>3. SessionOf(<<c>> \o Killed(i), buddylist)
      BY <1>2, <2>1, <3>1, AddedKeeps
    <3>. QED  BY <2>1, <2>2, <3>2, <3>3 DEF AimInv, ServedWhileConnected
  <2>. QED  BY <2>3, <2>4
<1>6. ASSUME NEW state \in States, Migrate(i, state)  PROVE AimInv'
  <2>1. connlist[i].type = "bos" /\ polled  BY <1>6, WhoSpeaks DEF Migrate
  <2>2. buddylist' = buddylist /\ polled' = polled  BY <1>6 DEF Migrate
  <2>3. CASE state = "dead"
    <3>1. Killed(i) \in Seq(AimConnections)  BY <1>2 DEF SessionOf
    <3>2. <<>> \o Killed(i) = Killed(i)  BY <3>1
    <3>3. connlist' = Killed(i)  BY <1>6, <2>3, <3>2 DEF Migrate
    <3>. QED  BY <1>2, <2>1, <2>2, <3>3 DEF AimInv, ServedWhileConnected
  <2>4. CASE state # "dead"
    <3>1. PICK c \in AimConnections :
            /\ c = [Conn("bos", state) EXCEPT !.moved = TRUE] /\ c.type = "bos"
            /\ SpeaksAs(c) /\ LeadsToOnline(c, buddylist)
      BY NewConnections
    <3>2. connlist' = <<c>> \o Killed(i)  BY <1>6, <2>4, <3>1 DEF Migrate
    <3>3. SessionOf(<<c>> \o Killed(i), buddylist)
      BY <1>2, <2>1, <3>1, AddedKeeps
    <3>. QED  BY <2>1, <2>2, <3>2, <3>3 DEF AimInv, ServedWhileConnected
  <2>. QED  BY <2>3, <2>4
<1>. QED  BY <1>3, <1>4, <1>5, <1>6

(* A frame of the BOS server is read, and the buddies follow it.           *)
LEMMA SessionReads ==
  ASSUME AimInv, NEW i \in DOMAIN connlist,
         Oncoming(i) \/ Offgoing(i) \/ \E state \in States : Redirect(i, state)
  PROVE  AimInv'
<1>1. SessionOf(connlist, buddylist) /\ buddylist \in SUBSET Screennames
  BY DEF AimInv, SessionOf
<1>2. PICK kind : Gets(i, kind) /\ kind \in {"oncoming", "offgoing", "redirect"}
  <2>1. Oncoming(i) => Gets(i, "oncoming")  BY DEF Oncoming
  <2>2. Offgoing(i) => Gets(i, "offgoing")  BY DEF Offgoing
  <2>3. (\E state \in States : Redirect(i, state)) => Gets(i, "redirect")  BY DEF Redirect
  <2>. QED  BY <2>1, <2>2, <2>3 DEF Gets
<1>3. PICK c \in AimConnections, f \in ServerFrames :
        /\ c = connlist[i] /\ c.type = "bos" /\ SpeaksAs(c) /\ c.wire # <<>>
        /\ f = Head(c.wire) /\ f.kind = kind
  <2>1. SpeaksAs(connlist[i])  BY <1>1 DEF SessionOf
  <2>. QED  BY <1>2, <2>1, WhoSpeaks
<1>4. polled /\ polled' = polled
  BY <1>2, WhoSpeaks DEF Oncoming, Offgoing, Redirect
<1>5. PICK d : d = [c EXCEPT !.wire = Tail(@)]  OBVIOUS
<1>6. Read(i) = [connlist EXCEPT ![i] = d]  BY <1>3, <1>5 DEF Read
<1>7. LeadsToOnline(c, buddylist)  BY <1>1, <1>3 DEF SessionOf
<1>8. ASSUME NEW new \in SUBSET Screennames,
             \A name \in Screennames :
               IF f.kind \in {"oncoming", "offgoing"} /\ f.name = name
               THEN name \in new <=> f.kind = "oncoming"
               ELSE name \in new <=> name \in buddylist
      PROVE  /\ SessionOf(Read(i), new)
             /\ \A k \in DOMAIN Read(i) : Read(i)[k].type # "auth"
  <2>1. d \in AimConnections /\ d.type = c.type /\ SpeaksAs(d) /\ LeadsToOnline(d, new)
    <3>1. \A name \in Screennames :
            IF Head(c.wire).kind \in {"oncoming", "offgoing"} /\ Head(c.wire).name = name
            THEN name \in new <=> Head(c.wire).kind = "oncoming"
            ELSE name \in new <=> name \in buddylist
      BY <1>3, <1>8
    <3>2. SpeaksAs(c) /\ c.wire # <<>>  BY <1>3
    <3>. QED  BY <1>5, <1>7, <3>1, <3>2, ReadKeeps
  <2>2. SessionOf([connlist EXCEPT ![i] = d], new)
    BY <1>1, <1>3, <2>1, ReplacedKeeps
  <2>3. ASSUME NEW k \in DOMAIN Read(i)  PROVE Read(i)[k].type # "auth"
    <3>1. DOMAIN connlist = 1 .. Len(connlist)  BY <1>1, LenProperties DEF SessionOf
    <3>2. k \in DOMAIN connlist /\ Read(i)[k].type = connlist[k].type
      BY <1>3, <1>6, <2>1
    <3>3. connlist[k].type = "auth" => k = i  BY <1>1, <3>1, <3>2 DEF SessionOf
    <3>. QED  BY <1>3, <3>2, <3>3
  <2>. QED  BY <1>6, <2>2, <2>3
<1>9. CASE Oncoming(i)
  <2>1. f.kind = "oncoming"  BY <1>3, <1>9 DEF Oncoming, Gets
  <2>2. buddylist' = buddylist \cup {f.name} /\ connlist' = Read(i)
    BY <1>3, <1>9 DEF Oncoming
  <2>3. f.name \in Screennames  BY <1>3, <2>1 DEF ServerFrames
  <2>4. SessionOf(Read(i), buddylist \cup {f.name})  BY <1>1, <1>8, <2>1, <2>3
  <2>. QED  BY <1>4, <2>2, <2>4 DEF AimInv, ServedWhileConnected
<1>10. CASE Offgoing(i)
  <2>1. f.kind = "offgoing"  BY <1>3, <1>10 DEF Offgoing, Gets
  <2>2. buddylist' = buddylist \ {f.name} /\ connlist' = Read(i)
    BY <1>3, <1>10 DEF Offgoing
  <2>3. f.name \in Screennames  BY <1>3, <2>1 DEF ServerFrames
  <2>4. SessionOf(Read(i), buddylist \ {f.name})  BY <1>1, <1>8, <2>1, <2>3
  <2>. QED  BY <1>4, <2>2, <2>4 DEF AimInv, ServedWhileConnected
<1>11. CASE \E state \in States : Redirect(i, state)
  <2>1. PICK state \in States : Redirect(i, state)  BY <1>11
  <2>2. f.kind = "redirect"  BY <1>3, <2>1, WhoSpeaks DEF Redirect
  <2>3. /\ SessionOf(Read(i), buddylist)
        /\ \A k \in DOMAIN Read(i) : Read(i)[k].type # "auth"
    BY <1>1, <1>8, <2>2
  <2>4. PICK h \in AimConnections : h = Conn("chat", state) /\ h.type = "chat" /\ SpeaksAs(h)
    BY NewConnections
  <2>5. SessionOf(<<h>> \o Read(i), buddylist)  BY <2>3, <2>4, AddedKeeps
  <2>6. connlist' = <<h>> \o Read(i) /\ buddylist' = buddylist  BY <2>1, <2>4 DEF Redirect
  <2>. QED  BY <1>4, <2>5, <2>6 DEF AimInv, ServedWhileConnected
<1>. QED  BY <1>9, <1>10, <1>11

LEMMA AimStep == AimInv /\ [AimNext]_aimVars => AimInv'
<1>1. SUFFICES ASSUME AimInv, [AimNext]_aimVars  PROVE AimInv'
  OBVIOUS
<1>2. CASE UNCHANGED aimVars
  BY <1>1, <1>2 DEF AimInv, aimVars, ServedWhileConnected
<1>3. CASE IgnoreTimer
  BY <1>1, <1>3 DEF AimInv, IgnoreTimer, ServedWhileConnected
<1>4. CASE (\E state \in States : AimLogin(state)) \/ AimLogout
  BY <1>1, <1>4, CommandsKeep
<1>5. ASSUME NEW i \in DOMAIN connlist, ServerSends(i) \/ ServerCloses(i) \/ Process(i)
      PROVE  AimInv'
  <2>1. CASE ServerSends(i)  BY <1>1, <2>1, ServerSendsKeeps
  <2>2. CASE ServerCloses(i)  BY <1>1, <2>2, OpenedAndClosed
  <2>3. CASE Process(i)
    BY <1>1, <2>3, OpenedAndClosed, CommandsKeep, SessionMovesOn, SessionReads DEF Process
  <2>. QED  BY <1>5, <2>1, <2>2, <2>3
<1>. QED  BY <1>1, <1>2, <1>3, <1>4, <1>5 DEF AimNext

LEMMA AimInvServes == AimInv => SessionIsServed
<1>1. SUFFICES ASSUME AimInv  PROVE BuddyListIsExact
  BY DEF AimInv, SessionIsServed
<1>2. ASSUME NEW i \in DOMAIN connlist, connlist[i].type = "bos", connlist[i].wire = <<>>
      PROVE  /\ connlist[i].online \subseteq buddylist
             /\ ~connlist[i].moved => buddylist = connlist[i].online
  <2>1. PICK c \in AimConnections : c = connlist[i]
    BY <1>1, ElementOfSeq, LenProperties DEF AimInv, SessionOf
  <2>2. c.online \subseteq Screennames /\ buddylist \subseteq Screennames
    BY <1>1 DEF AimInv, SessionOf, AimConnections
  <2>3. LeadsToOnline(c, buddylist)  BY <1>1, <1>2, <2>1 DEF AimInv, SessionOf
  <2>4. \A name : Told(c, name) = {}  BY <1>2, <2>1 DEF Told
  <2>5. \A name \in Screennames : /\ name \in c.online => name \in buddylist
                                  /\ ~c.moved /\ name \in buddylist => name \in c.online
    BY <2>3, <2>4 DEF LeadsToOnline
  <2>. QED  BY <2>1, <2>2, <2>5
<1>. QED  BY <1>2 DEF BuddyListIsExact

(* AimSpec less its fairness.                                              *)
AimSafetySpec == AimInit /\ [][AimNext]_aimVars

(* Whatever the servers say and however the connections fare, no session   *)
(* of AIM is left without the source that reads it, and once it has read   *)
(* what the BOS server sent the buddy list is exact (aim.c).               *)
THEOREM SessionsAreServed == AimSafetySpec => []SessionIsServed
<1>. QED  BY AimBegins, AimStep, AimInvServes, PTL DEF AimSafetySpec

-----------------------------------------------------------------------------
(* Frames: over every connection the frames arrive as they are numbered.    *)
FramesSpec == FramesInit /\ [][FramesNext]_frameVars

SeqNums == 0 .. SeqNumbers - 1

LineRecords ==
  [state : {"none", "connecting", "open", "dead", "broken"}, seqnum : SeqNums, given : Nat,
   arrived : Seq(SeqNums)]

FrameRecords == [conn : FrameConns, seqnum : SeqNums, handled : BOOLEAN]

(* The numbers of the frames that a connection was given.                  *)
Given(n) == [i \in 1 .. n |-> i % SeqNumbers]

FramesInv ==
  /\ lines \in [FrameConns -> LineRecords] /\ queue_outgoing \in Seq(FrameRecords)
  /\ \A c \in FrameConns :
       lines[c].seqnum = lines[c].given % SeqNumbers /\ InOrder(lines[c], Unsent(c))

LEMMA NextNumber ==
  ASSUME NEW n \in Nat
  PROVE  ((n % SeqNumbers) + 1) % SeqNumbers = (n + 1) % SeqNumbers /\ n % SeqNumbers \in SeqNums
<1>1. PICK s \in Nat : s = SeqNumbers /\ s > 0  BY SeqNumbersAssumption
<1>2. PICK r \in Int, q \in Int : r = n % s /\ q = n \div s  BY <1>1
<1>3. n = s * q + r /\ r \in 0 .. s - 1  BY <1>1, <1>2
<1>4. CASE r + 1 < s
  <2>1. (r + 1) % s = r + 1  BY <1>1, <1>3, <1>4
  <2>2. n + 1 = s * q + (r + 1)  BY <1>3
  <2>3. (n + 1) % s = r + 1  BY <1>1, <1>3, <1>4, <2>2
  <2>. QED  BY <1>1, <1>2, <1>3, <2>1, <2>3 DEF SeqNums
<1>5. CASE r + 1 = s
  <2>1. (r + 1) % s = 0  BY <1>1, <1>3, <1>5
  <2>2. n + 1 = s * (q + 1)  BY <1>1, <1>3, <1>5
  <2>3. (n + 1) % s = 0  BY <1>1, <1>3, <2>2
  <2>. QED  BY <1>1, <1>2, <1>3, <2>1, <2>3 DEF SeqNums
<1>. QED  BY <1>1, <1>3, <1>4, <1>5

LEMMA GivenGrows ==
  ASSUME NEW n \in Nat
  PROVE  /\ Given(n) \in Seq(SeqNums) /\ Len(Given(n)) = n
         /\ Given(n + 1) = Append(Given(n), (n + 1) % SeqNumbers)
<1>1. \A i \in Nat : i % SeqNumbers \in SeqNums  BY NextNumber
<1>2. PICK g : g = Given(n)  OBVIOUS
<1>3. PICK h : h = Given(n + 1)  OBVIOUS
<1>4. g \in Seq(SeqNums) /\ Len(g) = n /\ h \in Seq(SeqNums) /\ Len(h) = n + 1
  BY <1>1, <1>2, <1>3, SeqDef, LenProperties DEF Given
<1>5. PICK e \in SeqNums : e = (n + 1) % SeqNumbers  BY <1>1
<1>6. PICK a : a = Append(g, e)  OBVIOUS
<1>7. /\ a \in Seq(SeqNums) /\ Len(a) = n + 1 /\ \A i \in 1 .. n : a[i] = g[i] /\ a[n + 1] = e
  BY <1>4, <1>6, AppendProperties
<1>8. \A i \in 1 .. n + 1 : a[i] = h[i]
  <2>1. \A i \in 1 .. n : a[i] = h[i]  BY <1>2, <1>3, <1>7 DEF Given
  <2>2. a[n + 1] = h[n + 1]  BY <1>3, <1>4, <1>5, <1>6, AppendProperties DEF Given
  <2>. QED  BY <2>1, <2>2
<1>9. a = h  BY <1>4, <1>7, <1>8, SeqEqual
<1>. QED  BY <1>2, <1>3, <1>4, <1>5, <1>6, <1>9

(* The frames of a connection that are still to be sent.                   *)
LEMMA UnsentIsOf ==
  ASSUME NEW c \in FrameConns, NEW q \in Seq(FrameRecords)
  PROVE  /\ Only(q, FramesOf(c)) \in Seq(FrameRecords)
         /\ \A f \in FrameRecords : f \in FramesOf(c) <=> f.conn = c /\ ~f.handled
<1>1. Only(q, FramesOf(c)) \in Seq(FrameRecords)  BY OnlyElements
<1>2. ASSUME NEW f \in FrameRecords  PROVE f \in FramesOf(c) <=> f.conn = c /\ ~f.handled
  BY DEF FrameRecords, FramesOf, SeqNums
<1>. QED  BY <1>1, <1>2


(* What is sent of a connection goes by the frames of its own.             *)
LEMMA NumbersOfAppend ==
  ASSUME NEW q \in Seq(FrameRecords), NEW f \in FrameRecords
  PROVE  Numbers(Append(q, f)) = Append(Numbers(q), f.seqnum) /\ Numbers(q) \in Seq(SeqNums)
<1>1. PICK n \in Nat : n = Len(q) /\ DOMAIN q = 1 .. n  BY LenProperties
<1>2. \A g \in FrameRecords : g.seqnum \in SeqNums  BY DEF FrameRecords
<1>3. PICK m : m = Numbers(q)  OBVIOUS
<1>4. m \in Seq(SeqNums) /\ Len(m) = n
  <2>1. \A i \in 1 .. n : q[i].seqnum \in SeqNums  BY <1>1, <1>2, ElementOfSeq
  <2>2. m = [i \in 1 .. n |-> q[i].seqnum]  BY <1>1, <1>3 DEF Numbers
  <2>. QED  BY <1>1, <2>1, <2>2, SeqDef, LenProperties
<1>5. PICK a : a = Append(q, f)  OBVIOUS
<1>6. /\ DOMAIN a = 1 .. n + 1 /\ a[n + 1] = f /\ \A i \in 1 .. n : a[i] = q[i]
  BY <1>1, <1>5, AppendProperties, LenProperties
<1>7. PICK b : b = Append(m, f.seqnum)  OBVIOUS
<1>8. /\ DOMAIN b = 1 .. n + 1 /\ b[n + 1] = f.seqnum /\ \A i \in 1 .. n : b[i] = m[i]
      /\ b \in Seq(SeqNums)
  BY <1>2, <1>4, <1>7, AppendProperties, LenProperties
<1>9. Numbers(a) = [i \in 1 .. n + 1 |-> a[i].seqnum]  BY <1>6 DEF Numbers
<1>10. b = [i \in 1 .. n + 1 |-> b[i]]  BY <1>8, <1>2, <1>4, <1>7, AppendProperties, SeqDef
<1>11. \A i \in 1 .. n + 1 : b[i] = a[i].seqnum
  BY <1>1, <1>3, <1>6, <1>8 DEF Numbers
<1>. QED  BY <1>3, <1>4, <1>5, <1>7, <1>9, <1>10, <1>11

LEMMA NoNumbers == Numbers(<<>>) = <<>>
BY DEF Numbers

LEMMA LongerPrefix ==
  ASSUME NEW S, NEW s \in Seq(S), NEW t \in Seq(S), NEW e \in S
  PROVE  /\ IsPrefix(s, s) /\ IsPrefix(<<>>, t)
         /\ IsPrefix(s, t) => IsPrefix(s, Append(t, e))
<1>0. Len(s) \in Nat /\ Len(t) \in Nat  OBVIOUS
<1>1. PICK m \in Nat, n \in Nat : m = Len(s) /\ n = Len(t)  BY <1>0
<1>2. IsPrefix(s, s)  BY <1>1 DEF IsPrefix
<1>3. IsPrefix(<<>>, t)
  <2>1. SubSeq(t, 1, 0) = <<>> /\ SubSeq(<<>>, 1, 0) = <<>> /\ Len(<<>>) = 0
    OBVIOUS
  <2>. QED  BY <1>1, <2>1 DEF IsPrefix
<1>4. ASSUME IsPrefix(s, t)  PROVE IsPrefix(s, Append(t, e))
  <2>1. m <= n /\ SubSeq(s, 1, m) = SubSeq(t, 1, m)  BY <1>1, <1>4 DEF IsPrefix
  <2>2. PICK a : a = Append(t, e)  OBVIOUS
  <2>3. Len(a) = n + 1 /\ \A i \in 1 .. n : a[i] = t[i]  BY <1>1, <2>2, AppendProperties
  <2>4. SubSeq(a, 1, m) = SubSeq(t, 1, m)  BY <1>1, <2>1, <2>3
  <2>. QED  BY <1>1, <2>1, <2>2, <2>3, <2>4 DEF IsPrefix
<1>. QED  BY <1>2, <1>3, <1>4


LEMMA NewLines ==
  ASSUME NEW state \in {"none", "connecting", "open", "dead"}
  PROVE  /\ NewLine(state) \in LineRecords
         /\ NewLine(state).seqnum = NewLine(state).given % SeqNumbers
         /\ InOrder(NewLine(state), <<>>)
<1>1. PICK line : line = NewLine(state)  OBVIOUS
<1>2. /\ line.state = state /\ line.seqnum = 0 /\ line.given = 0 /\ line.arrived = <<>>
  BY <1>1 DEF NewLine
<1>3. PICK s \in Nat : s = SeqNumbers /\ s > 0  BY SeqNumbersAssumption
<1>4. 0 % SeqNumbers = 0 /\ 0 \in SeqNums  BY <1>3 DEF SeqNums
<1>5. line \in LineRecords  BY <1>1, <1>4 DEF NewLine, LineRecords
<1>6. Given(0) = <<>>  BY DEF Given
<1>7. InOrder(line, <<>>)
  <2>0. <<>> \in Seq({0}) /\ 0 \in {0}  OBVIOUS
  <2>1. IsPrefix(<<>>, <<>>)  BY <2>0, LongerPrefix
  <2>. QED  BY <1>2, <1>6, <2>1 DEF InOrder, Given
<1>. QED  BY <1>1, <1>2, <1>4, <1>5, <1>7

(* A line that is given one frame more.                                    *)
More(line, next) == [line EXCEPT !.seqnum = next, !.given = @ + 1]

LEMMA OneMore ==
  ASSUME NEW line \in LineRecords, line.seqnum = line.given % SeqNumbers,
         NEW next, next = (line.seqnum + 1) % SeqNumbers,
         NEW more, more = More(line, next),
         NEW unsent, InOrder(line, unsent)
  PROVE  /\ next \in SeqNums /\ more.state = line.state
         /\ line.state = "connecting" =>
              /\ InOrder(more, Append(unsent, next))
              /\ more \in LineRecords /\ more.seqnum = more.given % SeqNumbers
         /\ line.state # "connecting" =>
              /\ InOrder(SendFrames(more, <<next>>), unsent)
              /\ SendFrames(more, <<next>>) \in LineRecords
              /\ SendFrames(more, <<next>>).seqnum = SendFrames(more, <<next>>).given % SeqNumbers
<1>1. PICK n \in Nat : n = line.given  BY DEF LineRecords
<1>2. next = (n + 1) % SeqNumbers /\ next \in SeqNums  BY <1>1, NextNumber
<1>3. /\ more.state = line.state /\ more.seqnum = next /\ more.given = n + 1
      /\ more.arrived = line.arrived /\ more \in LineRecords
  <2>1. n + 1 \in Nat /\ next \in SeqNums  BY <1>2
  <2>2. more = [line EXCEPT !.seqnum = next, !.given = n + 1]  BY <1>1 DEF More
  <2>. QED  BY <2>1, <2>2 DEF LineRecords
<1>4. PICK g \in Seq(SeqNums) : g = Given(n)  BY GivenGrows
<1>5. Given(n + 1) = Append(g, next)  BY <1>2, <1>4, GivenGrows
<1>6. line.arrived \in Seq(SeqNums)  BY DEF LineRecords
<1>7. CASE line.state = "connecting"
  <2>1. line.arrived = <<>> /\ unsent = g  BY <1>1, <1>4, <1>7 DEF InOrder, Given
  <2>2. InOrder(more, Append(unsent, next))
    BY <1>3, <1>5, <1>7, <2>1 DEF InOrder, Given
  <2>. QED  BY <1>2, <1>3, <1>7, <2>2
<1>8. CASE line.state = "open"
  <2>1. line.arrived = g /\ unsent = <<>>  BY <1>1, <1>4, <1>8 DEF InOrder, Given
  <2>2. PICK sent : sent = SendFrames(more, <<next>>)  OBVIOUS
  <2>3. sent = [more EXCEPT !.arrived = g \o <<next>>]
    BY <1>3, <1>8, <2>1, <2>2 DEF SendFrames
  <2>4. g \o <<next>> = Append(g, next) /\ Append(g, next) \in Seq(SeqNums)
    BY <1>2, <1>4, AppendIsConcat, AppendProperties
  <2>5. /\ sent.state = "open" /\ sent.given = n + 1 /\ sent.arrived = Append(g, next)
        /\ sent.seqnum = next /\ sent \in LineRecords
    BY <1>3, <1>8, <2>3, <2>4 DEF LineRecords
  <2>6. InOrder(sent, unsent)  BY <1>5, <2>1, <2>5 DEF InOrder, Given
  <2>. QED  BY <1>2, <1>3, <1>8, <2>2, <2>5, <2>6
<1>9. CASE line.state \notin {"open", "connecting"}
  <2>1. IsPrefix(line.arrived, g) /\ unsent = <<>>  BY <1>1, <1>4, <1>9 DEF InOrder, Given
  <2>2. SendFrames(more, <<next>>) = more  BY <1>3, <1>9 DEF SendFrames
  <2>3. IsPrefix(line.arrived, Append(g, next))  BY <1>2, <1>4, <1>6, <2>1, LongerPrefix
  <2>4. InOrder(more, unsent)  BY <1>3, <1>5, <1>9, <2>1, <2>3 DEF InOrder, Given
  <2>. QED  BY <1>2, <1>3, <1>9, <2>2, <2>4
<1>. QED  BY <1>7, <1>8, <1>9


(* Frames of another connection make no difference.                        *)
LEMMA OthersAreApart ==
  ASSUME NEW c \in FrameConns, NEW d \in FrameConns, c # d
  PROVE  FramesOf(c) \cap FramesOf(d) = {}
BY DEF FramesOf

(* Flushing sends what waits, but for the connections that are being made. *)
LEMMA FlushKeepsOrder ==
  ASSUME FramesInv, NEW of \in [FrameConns -> LineRecords], FlushQueue(of),
         \A c \in FrameConns :
           /\ of[c].seqnum = of[c].given % SeqNumbers
           /\ of[c].state = "connecting" => InOrder(of[c], Unsent(c))
           /\ of[c].state # "connecting" => InOrder(SendFrames(of[c], Unsent(c)), <<>>)
  PROVE  FramesInv'
<1>. DEFINE made  == {c \in FrameConns : of[c].state # "connecting"}
            stays == UNION {FramesOf(c) : c \in FrameConns \ made}
<1>1. queue_outgoing' = Only(queue_outgoing, stays)  BY DEF FlushQueue
<1>2. queue_outgoing \in Seq(FrameRecords)  BY DEF FramesInv
<1>3. queue_outgoing' \in Seq(FrameRecords)  BY <1>1, <1>2, OnlyElements
<1>4. ASSUME NEW c \in FrameConns
      PROVE  /\ lines'[c] = (IF c \in made THEN SendFrames(of[c], Unsent(c)) ELSE of[c])
             /\ lines'[c] \in LineRecords /\ lines'[c].seqnum = lines'[c].given % SeqNumbers
  <2>1. lines'[c] = IF c \in made THEN SendFrames(of[c], Unsent(c)) ELSE of[c]
    BY DEF FlushQueue
  <2>2. of[c] \in LineRecords /\ Unsent(c) \in Seq(SeqNums)
    <3>1. Only(queue_outgoing, FramesOf(c)) \in Seq(FrameRecords)  BY <1>2, UnsentIsOf
    <3>2. PICK f \in FrameRecords : TRUE
      <4>1. [conn |-> c, seqnum |-> 0, handled |-> FALSE] \in FrameRecords
        BY SeqNumbersAssumption DEF FrameRecords, SeqNums
      <4>. QED  BY <4>1
    <3>. QED  BY <3>1, <3>2, NumbersOfAppend DEF Unsent
  <2>3. of[c].arrived \in Seq(SeqNums)  BY <2>2 DEF LineRecords
  <2>4. of[c].arrived \o Unsent(c) \in Seq(SeqNums)  BY <2>2, <2>3, ConcatProperties
  <2>5. PICK sent : sent = SendFrames(of[c], Unsent(c))  OBVIOUS
  <2>6. sent \in LineRecords /\ sent.seqnum = of[c].seqnum /\ sent.given = of[c].given
    BY <2>2, <2>4, <2>5 DEF SendFrames, LineRecords
  <2>. QED  BY <2>1, <2>2, <2>5, <2>6
<1>5. lines' \in [FrameConns -> LineRecords]
  <2>1. lines' = [c \in FrameConns |-> IF c \in made THEN SendFrames(of[c], Unsent(c)) ELSE of[c]]
    BY DEF FlushQueue
  <2>. QED  BY <1>4, <2>1
<1>6. ASSUME NEW c \in FrameConns  PROVE InOrder(lines'[c], Unsent(c)')
  <2>1. Unsent(c)' = Numbers(Only(queue_outgoing, stays \cap FramesOf(c)))
    BY <1>1, <1>2, OnlyTwice DEF Unsent
  <2>2. CASE c \in made
    <3>1. stays \cap FramesOf(c) = {}  BY <2>2, OthersAreApart
    <3>2. Only(queue_outgoing, {}) = <<>>  BY <1>2, OnlyOfNone
    <3>3. Unsent(c)' = <<>>  BY <2>1, <3>1, <3>2, NoNumbers
    <3>. QED  BY <1>4, <2>2, <3>3
  <2>3. CASE c \notin made
    <3>1. stays \cap FramesOf(c) = FramesOf(c)  BY <2>3
    <3>2. Unsent(c)' = Unsent(c)  BY <2>1, <3>1 DEF Unsent
    <3>. QED  BY <1>4, <2>3, <3>2
  <2>. QED  BY <2>2, <2>3
<1>. QED  BY <1>3, <1>4, <1>5, <1>6 DEF FramesInv

LEMMA FramesStart == FramesInit => FramesInv
<1>. SUFFICES ASSUME FramesInit PROVE FramesInv
  OBVIOUS
<1>1. queue_outgoing = <<>> /\ lines = [c \in FrameConns |-> NewLine("none")]
  BY DEF FramesInit
<1>2. ASSUME NEW c \in FrameConns  PROVE Unsent(c) = <<>>
  <2>1. <<>> \in Seq(FrameRecords) /\ ToSet(<<>>) = {}  BY DEF ToSet
  <2>2. ToSet(<<>>) \cap FramesOf(c) = {}  BY <2>1
  <2>3. Only(<<>>, FramesOf(c)) = <<>>  BY <2>1, <2>2, OnlyOfNone
  <2>. QED  BY <1>1, <2>3, NoNumbers DEF Unsent
<1>. QED  BY <1>1, <1>2, NewLines DEF FramesInv

LEMMA EnqueueKeepsOrder ==
  ASSUME FramesInv, NEW c \in FrameConns, Enqueue(c)
  PROVE  FramesInv'
<1>1. PICK line \in LineRecords : line = lines[c]  BY DEF FramesInv
<1>2. PICK next : next = NextSeqnum(c) /\ next = (line.seqnum + 1) % SeqNumbers
  BY <1>1 DEF NextSeqnum
<1>3. PICK more : more = More(line, next)  OBVIOUS
<1>4. line.seqnum = line.given % SeqNumbers /\ InOrder(line, Unsent(c))
  BY <1>1 DEF FramesInv
<1>5. /\ next \in SeqNums /\ more.state = line.state
      /\ line.state = "connecting" =>
           /\ InOrder(more, Append(Unsent(c), next))
           /\ more \in LineRecords /\ more.seqnum = more.given % SeqNumbers
      /\ line.state # "connecting" =>
           /\ InOrder(SendFrames(more, <<next>>), Unsent(c))
           /\ SendFrames(more, <<next>>) \in LineRecords
           /\ SendFrames(more, <<next>>).seqnum = SendFrames(more, <<next>>).given % SeqNumbers
  <2>1. PICK unsent : unsent = Unsent(c)  OBVIOUS
  <2>2. next = (line.seqnum + 1) % SeqNumbers /\ InOrder(line, unsent)  BY <1>2, <1>4, <2>1
  <2>3. line.seqnum = line.given % SeqNumbers  BY <1>4
  <2>4. /\ next \in SeqNums /\ more.state = line.state
        /\ line.state = "connecting" =>
             /\ InOrder(more, Append(unsent, next))
             /\ more \in LineRecords /\ more.seqnum = more.given % SeqNumbers
        /\ line.state # "connecting" =>
             /\ InOrder(SendFrames(more, <<next>>), unsent)
             /\ SendFrames(more, <<next>>) \in LineRecords
             /\ SendFrames(more, <<next>>).seqnum = SendFrames(more, <<next>>).given % SeqNumbers
    BY <1>3, <2>2, <2>3, OneMore
  <2>. QED  BY <2>1, <2>4
<1>6. lines \in [FrameConns -> LineRecords] /\ queue_outgoing \in Seq(FrameRecords)
  BY DEF FramesInv
<1>7. Numbered(c) = [lines EXCEPT ![c] = more]
  <2>1. Numbered(c) = [lines EXCEPT ![c].seqnum = next, ![c].given = @ + 1]  BY <1>2 DEF Numbered
  <2>. QED  BY <1>1, <1>3, <1>6, <2>1 DEF More
<1>8. CASE line.state = "connecting"
  <2>1. PICK f \in FrameRecords : f = [conn |-> c, seqnum |-> next, handled |-> FALSE]
    BY <1>5 DEF FrameRecords
  <2>2. lines' = [lines EXCEPT ![c] = more] /\ queue_outgoing' = Append(queue_outgoing, f)
    BY <1>1, <1>2, <1>7, <1>8, <2>1 DEF Enqueue, InProgress
  <2>3. queue_outgoing' \in Seq(FrameRecords)  BY <1>6, <2>2, AppendProperties
  <2>4. \A d \in FrameConns : f \in FramesOf(d) <=> d = c
    <3>1. \A d \in FrameConns : f \in FramesOf(d) <=> f.conn = d /\ ~f.handled  BY <1>6, UnsentIsOf
    <3>2. f.conn = c /\ f.handled = FALSE  BY <2>1
    <3>. QED  BY <3>1, <3>2
  <2>5. Unsent(c)' = Append(Unsent(c), next)
    <3>1. Only(queue_outgoing', FramesOf(c)) = Append(Only(queue_outgoing, FramesOf(c)), f)
      BY <1>6, <2>2, <2>4, OnlyOfAppend
    <3>2. Only(queue_outgoing, FramesOf(c)) \in Seq(FrameRecords)  BY <1>6, UnsentIsOf
    <3>3. f.seqnum = next  BY <2>1
    <3>. QED  BY <3>1, <3>2, <3>3, NumbersOfAppend DEF Unsent
  <2>6. ASSUME NEW d \in FrameConns, d # c  PROVE Unsent(d)' = Unsent(d)
    <3>1. Only(queue_outgoing', FramesOf(d)) = Only(queue_outgoing, FramesOf(d))
      BY <1>6, <2>2, <2>4, <2>6, OnlyOfAppend
    <3>. QED  BY <3>1 DEF Unsent
  <2>7. ASSUME NEW d \in FrameConns
        PROVE  lines'[d] = (IF d = c THEN more ELSE lines[d])
    BY <1>6, <2>2
  <2>8. lines' \in [FrameConns -> LineRecords]  BY <1>5, <1>6, <1>8, <2>2
  <2>. QED  BY <1>5, <1>8, <2>3, <2>5, <2>6, <2>7, <2>8 DEF FramesInv
<1>9. CASE line.state # "connecting"
  <2>1. lines' = [lines EXCEPT ![c] = SendFrames(more, <<next>>)]
        /\ queue_outgoing' = queue_outgoing
    BY <1>1, <1>2, <1>6, <1>7, <1>9 DEF Enqueue, InProgress
  <2>2. \A d \in FrameConns : Unsent(d)' = Unsent(d)  BY <2>1 DEF Unsent
  <2>3. PICK sent : sent = SendFrames(more, <<next>>)  OBVIOUS
  <2>4. \A d \in FrameConns : lines'[d] = IF d = c THEN sent ELSE lines[d]  BY <1>6, <2>1, <2>3
  <2>5. lines' \in [FrameConns -> LineRecords]  BY <1>5, <1>6, <1>9, <2>1
  <2>. QED  BY <1>5, <1>6, <1>9, <2>1, <2>2, <2>3, <2>4, <2>5 DEF FramesInv
<1>. QED  BY <1>8, <1>9


LEMMA KillKeepsOrder ==
  ASSUME FramesInv, NEW c \in FrameConns, FrameKill(c)
  PROVE  FramesInv'
<1>1. lines \in [FrameConns -> LineRecords] /\ queue_outgoing \in Seq(FrameRecords)
  BY DEF FramesInv
<1>2. PICK n \in Nat : n = Len(queue_outgoing) /\ DOMAIN queue_outgoing = 1 .. n
  BY <1>1, LenProperties
<1>3. \A i \in 1 .. n : queue_outgoing[i] \in FrameRecords  BY <1>1, <1>2, ElementOfSeq
<1>4. PICK killed : killed = queue_outgoing'  OBVIOUS
<1>5. killed = [i \in 1 .. n |->
                  IF queue_outgoing[i].conn = c THEN [queue_outgoing[i] EXCEPT !.handled = TRUE]
                  ELSE queue_outgoing[i]]
  BY <1>2, <1>4 DEF FrameKill
<1>6. ASSUME NEW i \in 1 .. n
      PROVE  /\ killed[i] \in FrameRecords
             /\ killed[i].conn = queue_outgoing[i].conn
             /\ queue_outgoing[i].conn = c => killed[i].handled
             /\ queue_outgoing[i].conn # c => killed[i] = queue_outgoing[i]
  <2>1. PICK f \in FrameRecords : f = queue_outgoing[i]  BY <1>3
  <2>2. killed[i] = IF f.conn = c THEN [f EXCEPT !.handled = TRUE] ELSE f  BY <1>5, <2>1
  <2>. QED  BY <2>1, <2>2 DEF FrameRecords
<1>7. killed \in Seq(FrameRecords) /\ Len(killed) = n /\ DOMAIN killed = 1 .. n
  <2>1. DOMAIN killed = 1 .. n  BY <1>5
  <2>2. killed = [i \in 1 .. n |-> killed[i]]  BY <1>5
  <2>3. killed \in [1 .. n -> FrameRecords]  BY <1>6, <2>2
  <2>4. killed \in Seq(FrameRecords)  BY <2>3, SeqDef
  <2>. QED  BY <2>1, <2>4, LenProperties
<1>8. Unsent(c)' = <<>>
  <2>1. \A i \in 1 .. n : killed[i] \notin FramesOf(c)
    <3>1. ASSUME NEW i \in 1 .. n, killed[i] \in FramesOf(c)  PROVE FALSE
      <4>1. killed[i].conn = c /\ ~killed[i].handled  BY <1>1, <1>6, <3>1, UnsentIsOf
      <4>. QED  BY <1>6, <4>1
    <3>. QED  BY <3>1
  <2>2. ToSet(killed) \cap FramesOf(c) = {}  BY <1>7, <2>1 DEF ToSet
  <2>3. Only(killed, FramesOf(c)) = <<>>  BY <1>7, <2>2, OnlyOfNone
  <2>. QED  BY <1>4, <2>3, NoNumbers DEF Unsent
<1>9. ASSUME NEW d \in FrameConns, d # c  PROVE Unsent(d)' = Unsent(d)
  <2>1. ASSUME NEW i \in 1 .. n
        PROVE  /\ queue_outgoing[i] \in FramesOf(d) <=> killed[i] \in FramesOf(d)
               /\ queue_outgoing[i] \in FramesOf(d) => killed[i] = queue_outgoing[i]
    <3>1. CASE queue_outgoing[i].conn = c
      <4>1. killed[i].conn # d /\ queue_outgoing[i].conn # d  BY <1>6, <1>9, <3>1
      <4>2. killed[i] \notin FramesOf(d) /\ queue_outgoing[i] \notin FramesOf(d)
        BY <1>1, <1>3, <1>6, <4>1, UnsentIsOf
      <4>. QED  BY <4>2
    <3>2. CASE queue_outgoing[i].conn # c
      <4>1. killed[i] = queue_outgoing[i]  BY <1>6, <3>2
      <4>. QED  BY <4>1
    <3>. QED  BY <3>1, <3>2
  <2>2. Only(killed, FramesOf(d)) = Only(queue_outgoing, FramesOf(d))
    BY <1>1, <1>2, <1>7, <2>1, OnlyAlike
  <2>. QED  BY <1>4, <2>2 DEF Unsent
<1>10. lines' = [lines EXCEPT ![c] = NewLine("none")]  BY DEF FrameKill
<1>11. \A d \in FrameConns : lines'[d] = IF d = c THEN NewLine("none") ELSE lines[d]
  BY <1>1, <1>10
<1>12. lines' \in [FrameConns -> LineRecords]  BY <1>1, <1>10, NewLines
<1>. QED  BY <1>4, <1>7, <1>8, <1>9, <1>11, <1>12, NewLines DEF FramesInv

LEMMA FlushingKeepsOrder ==
  ASSUME FramesInv, FlushWaiting \/ \E c \in FrameConns : FrameConnected(c)
  PROVE  FramesInv'
<1>1. lines \in [FrameConns -> LineRecords] /\ queue_outgoing \in Seq(FrameRecords)
  BY DEF FramesInv
<1>2. ASSUME NEW c \in FrameConns, NEW line \in LineRecords, line.state # "connecting",
             InOrder(line, Unsent(c))
      PROVE  InOrder(SendFrames(line, Unsent(c)), <<>>)
  <2>1. Unsent(c) = <<>>  BY <1>2 DEF InOrder
  <2>2. PICK arrived \in Seq(SeqNums) : arrived = line.arrived  BY DEF LineRecords
  <2>3. arrived \o <<>> = arrived  BY <2>2, ConcatEmptySeq
  <2>4. [line EXCEPT !.arrived = arrived] = line  BY <2>2 DEF LineRecords
  <2>5. SendFrames(line, <<>>) = line  BY <2>2, <2>3, <2>4 DEF SendFrames
  <2>. QED  BY <1>2, <2>1, <2>5
<1>3. CASE FlushWaiting
  <2>1. FlushQueue(lines) /\ \A c \in FrameConns : lines[c].state # "connecting"
    BY <1>3 DEF FlushWaiting
  <2>2. \A c \in FrameConns :
          lines[c].seqnum = lines[c].given % SeqNumbers /\ InOrder(lines[c], Unsent(c))
    BY DEF FramesInv
  <2>. QED  BY <1>1, <1>2, <2>1, <2>2, FlushKeepsOrder
<1>4. ASSUME NEW c \in FrameConns, FrameConnected(c)  PROVE FramesInv'
  <2>1. PICK of : of = [lines EXCEPT ![c].state = "open"]  OBVIOUS
  <2>2. FlushQueue(of) /\ lines[c].state = "connecting"  BY <1>4, <2>1 DEF FrameConnected, InProgress
  <2>3. PICK line \in LineRecords : line = lines[c]  BY <1>1
  <2>4. PICK open : open = [line EXCEPT !.state = "open"]  OBVIOUS
  <2>5. /\ open \in LineRecords /\ open.state = "open" /\ open.seqnum = line.seqnum
        /\ open.given = line.given /\ open.arrived = line.arrived
    BY <2>4 DEF LineRecords
  <2>6. of = [lines EXCEPT ![c] = open]  BY <1>1, <2>1, <2>3, <2>4
  <2>7. of \in [FrameConns -> LineRecords]  BY <1>1, <2>5, <2>6
  <2>8. \A d \in FrameConns : of[d] = IF d = c THEN open ELSE lines[d]  BY <1>1, <2>6
  <2>9. \A d \in FrameConns :
          lines[d].seqnum = lines[d].given % SeqNumbers /\ InOrder(lines[d], Unsent(d))
    BY DEF FramesInv
  <2>10. InOrder(SendFrames(open, Unsent(c)), <<>>)
    <3>1. line.arrived = <<>> /\ Unsent(c) = Given(line.given)
      BY <2>2, <2>3, <2>9 DEF InOrder, Given
    <3>2. PICK g \in Seq(SeqNums) : g = Given(line.given)
      <4>1. line.given \in Nat  BY DEF LineRecords
      <4>. QED  BY <4>1, GivenGrows
    <3>3. <<>> \o g = g  BY <3>2, ConcatEmptySeq
    <3>4. PICK sent : sent = SendFrames(open, Unsent(c))  OBVIOUS
    <3>5. sent = [open EXCEPT !.arrived = g]  BY <2>5, <3>1, <3>2, <3>3, <3>4 DEF SendFrames
    <3>6. sent.state = "open" /\ sent.given = line.given /\ sent.arrived = g
      BY <2>5, <3>5 DEF LineRecords
    <3>. QED  BY <3>2, <3>4, <3>6 DEF InOrder, Given
  <2>11. ASSUME NEW d \in FrameConns
         PROVE  /\ of[d].seqnum = of[d].given % SeqNumbers
                /\ of[d].state = "connecting" => InOrder(of[d], Unsent(d))
                /\ of[d].state # "connecting" => InOrder(SendFrames(of[d], Unsent(d)), <<>>)
    <3>1. CASE d = c  BY <2>3, <2>5, <2>8, <2>9, <2>10, <3>1
    <3>2. CASE d # c  BY <1>1, <1>2, <2>8, <2>9, <3>2
    <3>. QED  BY <3>1, <3>2
  <2>. QED  BY <2>2, <2>7, <2>11, FlushKeepsOrder
<1>. QED  BY <1>3, <1>4

LEMMA FramesStep == FramesInv /\ [FramesNext]_frameVars => FramesInv'
<1>. SUFFICES ASSUME FramesInv, [FramesNext]_frameVars  PROVE FramesInv'
  OBVIOUS
<1>1. /\ lines \in [FrameConns -> LineRecords] /\ queue_outgoing \in Seq(FrameRecords)
      /\ \A c \in FrameConns :
           lines[c].seqnum = lines[c].given % SeqNumbers /\ InOrder(lines[c], Unsent(c))
  BY DEF FramesInv
<1>2. ASSUME NEW c \in FrameConns, NEW line \in LineRecords, lines' = [lines EXCEPT ![c] = line],
             queue_outgoing' = queue_outgoing, line.seqnum = line.given % SeqNumbers,
             InOrder(line, Unsent(c))
      PROVE  FramesInv'
  <2>1. \A d \in FrameConns : Unsent(d)' = Unsent(d)  BY <1>2 DEF Unsent
  <2>2. \A d \in FrameConns : lines'[d] = IF d = c THEN line ELSE lines[d]  BY <1>1, <1>2
  <2>3. lines' \in [FrameConns -> LineRecords]  BY <1>1, <1>2
  <2>. QED  BY <1>1, <1>2, <2>1, <2>2, <2>3 DEF FramesInv
<1>3. ASSUME NEW c \in FrameConns, NEW state \in {"connecting", "open", "dead"},
             FrameConnect(c, state)
      PROVE  FramesInv'
  <2>1. Unsent(c) = <<>>  BY <1>1, <1>3 DEF FrameConnect, InOrder
  <2>. QED  BY <1>2, <1>3, <2>1, NewLines DEF FrameConnect
<1>4. ASSUME NEW c \in FrameConns, FrameBreak(c)  PROVE FramesInv'
  <2>1. PICK line \in LineRecords : line = lines[c]  BY <1>1
  <2>2. PICK broken : broken = [line EXCEPT !.state = "broken"]  OBVIOUS
  <2>3. /\ broken \in LineRecords /\ broken.state = "broken" /\ broken.seqnum = line.seqnum
        /\ broken.given = line.given /\ broken.arrived = line.arrived
    BY <2>2 DEF LineRecords
  <2>4. line.state = "open" /\ lines' = [lines EXCEPT ![c] = broken]
        /\ queue_outgoing' = queue_outgoing
    BY <1>1, <1>4, <2>1, <2>2 DEF FrameBreak
  <2>5. line.arrived = Given(line.given) /\ Unsent(c) = <<>>
    BY <1>1, <2>1, <2>4 DEF InOrder, Given
  <2>6. IsPrefix(line.arrived, line.arrived)
    <3>1. line.arrived \in Seq(SeqNums) /\ 0 \in SeqNums
      BY SeqNumbersAssumption DEF LineRecords, SeqNums
    <3>. QED  BY <3>1, LongerPrefix
  <2>7. InOrder(broken, Unsent(c))  BY <2>3, <2>5, <2>6 DEF InOrder, Given
  <2>. QED  BY <1>1, <1>2, <2>1, <2>3, <2>4, <2>7
<1>5. CASE FrameSession
  <2>1. lines' = [c \in FrameConns |-> NewLine("none")] /\ queue_outgoing' = <<>>
    BY <1>5 DEF FrameSession
  <2>2. ASSUME NEW c \in FrameConns  PROVE Unsent(c)' = <<>>
    <3>1. <<>> \in Seq(FrameRecords) /\ ToSet(<<>>) = {}  BY DEF ToSet
    <3>2. ToSet(<<>>) \cap FramesOf(c) = {}  BY <3>1
    <3>3. Only(<<>>, FramesOf(c)) = <<>>  BY <3>1, <3>2, OnlyOfNone
    <3>. QED  BY <2>1, <3>3, NoNumbers DEF Unsent
  <2>. QED  BY <2>1, <2>2, NewLines DEF FramesInv
<1>6. CASE UNCHANGED frameVars
  BY <1>1, <1>6 DEF FramesInv, frameVars, Unsent
<1>. QED
  BY <1>3, <1>4, <1>5, <1>6, EnqueueKeepsOrder, KillKeepsOrder, FlushingKeepsOrder
     DEF FramesNext

(* However connections are made, break and are killed beside each other,   *)
(* each gets all of its frames, in the order of their numbers, which wrap  *)
(* around, and none of another's (aim_tx_enqueue, aim_tx_flushqueue,       *)
(* aim_conn_completeconnect).                                              *)
THEOREM FramesStayInOrder == FramesSpec => []FramesArriveInOrder
<1>1. FramesInv => FramesArriveInOrder  BY DEF FramesInv, FramesArriveInOrder
<1>. QED  BY <1>1, FramesStart, FramesStep, PTL DEF FramesSpec

-----------------------------------------------------------------------------
(* ZephyrClient: who of the buddies is announced.                           *)
BuddySpec == BuddyInit /\ [][BuddyNext]_buddyVars

(* What is on the client's list was asked for by its last check, so that   *)
(* it is as loud as the flag says.                                         *)
Datagrams ==
  [what : {"request", "reply", "login"}, user : Anyone, online : BOOLEAN, listed : BOOLEAN, loud : BOOLEAN]
Fitting(loud) == {d \in Datagrams : d.listed => d.loud = loud}

(* Messages that say of nobody what a silent check found.                  *)
Proper ==
  {m \in [user : Anyone, online : BOOLEAN, pseudo : BOOLEAN, loud : BOOLEAN] : m.pseudo => m.loud}

BuddyInv ==
  /\ notify \in BOOLEAN
  /\ flying \in SUBSET Fitting(notify)
  /\ socket \in Seq(Fitting(notify)) /\ zqueue \in Seq(Fitting(notify))
  /\ zusers \in SUBSET Anyone /\ msgqueue \in Seq(Proper)

Results == [zusers : SUBSET Anyone, msgqueue : Seq(Proper)]

(* What one notice does is proper.                                         *)
LEMMA NoticeIsProper ==
  ASSUME notify \in BOOLEAN, NEW b \in Results, NEW d \in Fitting(notify)
  PROVE  ProcessNotice(b, d) \in Results
<1>1. PICK users \in SUBSET Anyone, queue \in Seq(Proper) :
        b = [zusers |-> users, msgqueue |-> queue] /\ b.zusers = users /\ b.msgqueue = queue
  BY DEF Results
<1>2. ASSUME NEW m \in Proper  PROVE Queue(b, m) \in Results /\ Queue(b, m).zusers = users
  <2>1. Append(queue, m) \in Seq(Proper)  BY AppendProperties
  <2>2. PICK q \in Seq(Proper) : q = Append(queue, m)  BY <2>1
  <2>3. Queue(b, m) = [b EXCEPT !.msgqueue = q]  BY <1>1, <2>2 DEF Queue
  <2>4. Queue(b, m) = [zusers |-> users, msgqueue |-> q]  BY <1>1, <2>3
  <2>. QED  BY <2>4 DEF Results
<1>3. d \in Datagrams /\ d.user \in Anyone /\ d.online \in BOOLEAN /\ d.loud \in BOOLEAN
  BY DEF Fitting, Datagrams
<1>4. CASE ~IsLocate(d)
  <2>1. LoginMessage(d.user, d.online, FALSE, FALSE) \in Proper
    BY <1>3 DEF LoginMessage, Proper
  <2>. QED  BY <1>2, <1>4, <2>1 DEF ProcessNotice
<1>5. CASE IsLocate(d)
  <2>1. CASE ~d.listed \/ (d.online <=> d.user \in b.zusers)
    BY <1>5, <2>1 DEF ProcessNotice, ProcessPseudologin
  <2>2. CASE ~(~d.listed \/ (d.online <=> d.user \in b.zusers))
    <3>1. d.loud = notify  BY <2>2 DEF Fitting
    <3>2. notify => LoginMessage(d.user, d.online, TRUE, d.loud) \in Proper
      BY <1>3, <3>1 DEF LoginMessage, Proper
    <3>3. PICK said : said = IF notify THEN Queue(b, LoginMessage(d.user, d.online, TRUE, d.loud)) ELSE b
      OBVIOUS
    <3>4. said \in Results /\ said.zusers = users  BY <1>1, <1>2, <3>2, <3>3
    <3>5. PICK queued \in Seq(Proper) : said = [zusers |-> users, msgqueue |-> queued]
      BY <3>4 DEF Results
    <3>6. ProcessNotice(b, d)
            = [said EXCEPT !.zusers = IF d.online THEN @ \cup {d.user} ELSE @ \ {d.user}]
      BY <1>5, <2>2, <3>3 DEF ProcessNotice, ProcessPseudologin
    <3>7. PICK now : now = IF d.online THEN users \cup {d.user} ELSE users \ {d.user}  OBVIOUS
    <3>8. now \in SUBSET Anyone  BY <1>3, <3>7
    <3>9. ProcessNotice(b, d) = [zusers |-> now, msgqueue |-> queued]  BY <3>5, <3>6, <3>7
    <3>. QED  BY <3>8, <3>9 DEF Results
  <2>. QED  BY <2>1, <2>2
<1>. QED  BY <1>4, <1>5

(* And so is what any number of them do.                                   *)
LEMMA NoticesAreProper ==
  ASSUME BuddyInv, NEW all \in Seq(Fitting(notify)), NEW n \in 0 .. Len(all)
  PROVE  Processed(all, n) \in Results
<1>. DEFINE Start == [zusers |-> zusers, msgqueue |-> msgqueue]
            Step(g, k) == IF k = 0 THEN Start ELSE ProcessNotice(g[k - 1], all[k])
<1>1. Start \in Results  BY DEF BuddyInv, Results
<1>2. n \in Nat /\ \A k \in 1 .. n : all[k] \in Fitting(notify)
  <2>1. Len(all) \in Nat  BY LenProperties
  <2>2. \A k \in 1 .. Len(all) : all[k] \in Fitting(notify)  BY ElementOfSeq
  <2>. QED  BY <2>1, <2>2
<1>3. PICK step : step = [x \in (1 .. n) \X Results |-> ProcessNotice(x[2], all[x[1]])]  OBVIOUS
<1>4. step \in [(1 .. n) \X Results -> Results]
  <2>1. \A x \in (1 .. n) \X Results : ProcessNotice(x[2], all[x[1]]) \in Results
    <3>1. SUFFICES ASSUME NEW x \in (1 .. n) \X Results PROVE ProcessNotice(x[2], all[x[1]]) \in Results
      OBVIOUS
    <3>2. x[1] \in 1 .. n /\ x[2] \in Results  OBVIOUS
    <3>. QED  BY <1>2, <3>2, NoticeIsProper DEF BuddyInv
  <2>. QED  BY <1>3, <2>1
<1>. HIDE DEF Start
<1>5. PICK f \in [0 .. n -> Results] : f[0] = Start /\ \A k \in 1 .. n : f[k] = step[<<k, f[k - 1]>>]
  <2>1. PICK V : V = Results  OBVIOUS
  <2>2. Start \in V /\ step \in [(1 .. n) \X V -> V] /\ n \in Nat  BY <1>1, <1>2, <1>4, <2>1
  <2>3. \E f \in [0 .. n -> V] : Runs(f, n, Start, step)  BY <2>2, RunsExist, Zenon
  <2>. QED  BY <2>1, <2>3 DEF Runs
<1>6. \A k \in 1 .. n : f[k] = ProcessNotice(f[k - 1], all[k])
  <2>1. SUFFICES ASSUME NEW k \in 1 .. n PROVE f[k] = ProcessNotice(f[k - 1], all[k])  OBVIOUS
  <2>2. f[k - 1] \in Results  BY <1>2, <1>5
  <2>3. PICK x : x = <<k, f[k - 1]>>  OBVIOUS
  <2>4. x \in (1 .. n) \X Results /\ x[1] = k /\ x[2] = f[k - 1]  BY <2>2, <2>3
  <2>5. step[x] = ProcessNotice(x[2], all[x[1]])  BY <1>3, <2>4
  <2>. QED  BY <1>5, <2>3, <2>4, <2>5
<1>7. f = [k \in 0 .. n |-> Step(f, k)]  BY <1>2, <1>5, <1>6
<1>8. PICK b : b = CHOOSE g : g = [k \in 0 .. n |-> Step(g, k)]  OBVIOUS
<1>9. b = [k \in 0 .. n |-> Step(b, k)]  BY <1>7, <1>8
<1>10. Processed(all, n) = b[n]  BY <1>8 DEF Processed, Start
<1>11. b[0] = Start /\ \A k \in 1 .. n : b[k] = ProcessNotice(b[k - 1], all[k])  BY <1>2, <1>9
<1>12. \A k \in 1 .. n : b[k - 1] \in Results => b[k] \in Results
  BY <1>2, <1>11, NoticeIsProper DEF BuddyInv
<1>13. b[n] \in Results  BY <1>1, <1>2, <1>11, <1>12, RunStays
<1>. QED  BY <1>10, <1>13

LEMMA BuddyStart == BuddyInit => BuddyInv
<1>1. ASSUME NEW S PROVE <<>> \in Seq(S)  OBVIOUS
<1>. QED  BY <1>1 DEF BuddyInit, BuddyInv

(* A check takes what is underway off the list, and puts its own on it.    *)
LEMMA CheckKeeps ==
  ASSUME BuddyInv, NEW loud \in BOOLEAN, BuddyCheck(loud), UNCHANGED <<zusers, msgqueue>>
  PROVE  BuddyInv'
<1>1. ASSUME NEW d \in Datagrams PROVE Unlisted(d) \in Fitting(loud)
  <2>1. Unlisted(d) \in Datagrams /\ ~Unlisted(d).listed  BY DEF Unlisted, Datagrams
  <2>. QED  BY <2>1 DEF Fitting
<1>2. Requests(loud) \subseteq Fitting(loud)
  <2>1. \A u \in Anyone : Datagram("request", u, FALSE, TRUE, loud) \in Datagrams
    BY DEF Datagram, Datagrams
  <2>2. \A u \in Anyone : Datagram("request", u, FALSE, TRUE, loud).loud = loud  BY DEF Datagram
  <2>. QED  BY <2>1, <2>2 DEF Requests, Fitting
<1>3. Fitting(notify) \subseteq Datagrams  BY DEF Fitting
<1>4. flying' \in SUBSET Fitting(loud)
  <2>1. flying' = {Unlisted(d) : d \in flying} \cup Requests(loud) /\ flying \subseteq Datagrams
    BY <1>3 DEF BuddyCheck, BuddyInv
  <2>. QED  BY <1>1, <1>2, <2>1
<1>5. ASSUME NEW s \in Seq(Fitting(notify))  PROVE UnlistedAll(s) \in Seq(Fitting(loud))
  <2>1. PICK n \in Nat : n = Len(s) /\ DOMAIN s = 1 .. n  BY LenProperties
  <2>2. \A i \in 1 .. n : s[i] \in Datagrams  BY <1>3, <2>1, ElementOfSeq
  <2>3. PICK t : t = [i \in 1 .. n |-> Unlisted(s[i])]  OBVIOUS
  <2>4. t \in [1 .. n -> Fitting(loud)]  BY <1>1, <2>2, <2>3
  <2>5. UnlistedAll(s) = t  BY <2>1, <2>3 DEF UnlistedAll
  <2>. QED  BY <2>1, <2>4, <2>5, SeqDef
<1>6. notify' = loud /\ socket' = UnlistedAll(socket) /\ zqueue' = UnlistedAll(zqueue)
  BY DEF BuddyCheck
<1>7. socket' \in Seq(Fitting(loud)) /\ zqueue' \in Seq(Fitting(loud))  BY <1>5, <1>6 DEF BuddyInv
<1>8. Fitting(notify)' = Fitting(loud)  BY <1>6 DEF Fitting, Datagrams
<1>. QED  BY <1>4, <1>6, <1>7, <1>8 DEF BuddyInv

(* The source takes what it may from the queue.                            *)
LEMMA EventsKeep == BuddyInv /\ ProcessEvents => BuddyInv'
<1>1. SUFFICES ASSUME BuddyInv, ProcessEvents PROVE BuddyInv'  OBVIOUS
<1>2. PICK all : all = zqueue \o socket  OBVIOUS
<1>3. all \in Seq(Fitting(notify))  BY <1>1, <1>2, ConcatProperties DEF BuddyInv
<1>4. PICK n : n = IF Len(all) < MaxNotices THEN Len(all) ELSE MaxNotices  OBVIOUS
<1>5. Len(all) \in Nat /\ n \in 0 .. Len(all) /\ n \in Nat
  <2>1. Len(all) \in Nat  BY <1>3, LenProperties
  <2>. QED  BY <1>4, <2>1, NoticesAssumption
<1>6. PICK b : b = Processed(all, n)  OBVIOUS
<1>7. b \in Results  BY <1>1, <1>3, <1>5, <1>6, NoticesAreProper
<1>8. /\ zusers' = b.zusers /\ msgqueue' = b.msgqueue
      /\ zqueue' = SubSeq(all, n + 1, Len(all)) /\ socket' = <<>> /\ notify' = notify /\ flying' = flying
  BY <1>1, <1>2, <1>4, <1>6 DEF ProcessEvents
<1>9. SubSeq(all, n + 1, Len(all)) \in Seq(Fitting(notify))
  <2>1. \A i \in (n + 1) .. Len(all) : i \in 1 .. Len(all) /\ all[i] \in Fitting(notify)
    BY <1>3, <1>5, ElementOfSeq
  <2>. QED  BY <1>3, <1>5, <2>1, SubSeqProperties
<1>10. <<>> \in Seq(Fitting(notify))  OBVIOUS
<1>11. Fitting(notify)' = Fitting(notify)  BY <1>8 DEF Fitting, Datagrams
<1>. QED  BY <1>1, <1>7, <1>8, <1>9, <1>10, <1>11 DEF BuddyInv, Results

LEMMA BuddyStep == BuddyInv /\ [BuddyNext]_buddyVars => BuddyInv'
<1>1. SUFFICES ASSUME BuddyInv, [BuddyNext]_buddyVars PROVE BuddyInv'  OBVIOUS
<1>2. ASSUME notify' = notify PROVE Fitting(notify)' = Fitting(notify)
  BY <1>2 DEF Fitting, Datagrams
<1>3. ASSUME NEW u \in Anyone, Move(u) PROVE BuddyInv'
  <2>1. LoginNotice(u, u \notin online) \in Fitting(notify)
    BY DEF LoginNotice, Datagram, Fitting, Datagrams
  <2>. QED  BY <1>1, <1>2, <1>3, <2>1 DEF Move, Elsewhere, BuddyInv
<1>4. ASSUME NEW d \in flying, Locate(d) PROVE BuddyInv'
  <2>1. d \in Fitting(notify)  BY <1>1 DEF BuddyInv
  <2>2. Datagram("reply", d.user, d.user \in online, d.listed, d.loud) \in Fitting(notify)
    BY <2>1 DEF Datagram, Fitting, Datagrams
  <2>. QED  BY <1>1, <1>2, <1>4, <2>2 DEF Locate, Elsewhere, BuddyInv
<1>5. ASSUME NEW d \in flying, Arrive(d) PROVE BuddyInv'
  <2>1. d \in Fitting(notify)  BY <1>1 DEF BuddyInv
  <2>2. Append(socket, d) \in Seq(Fitting(notify))  BY <1>1, <2>1, AppendProperties DEF BuddyInv
  <2>. QED  BY <1>1, <1>2, <1>5, <2>2 DEF Arrive, Elsewhere, BuddyInv
<1>6. ASSUME NEW d \in flying, Lose(d) PROVE BuddyInv'
  BY <1>1, <1>2, <1>6 DEF Lose, Elsewhere, BuddyInv
<1>7. CASE SetPseudologins
  BY <1>1, <1>7, CheckKeeps DEF SetPseudologins
<1>8. CASE BuddyCheckTimer
  BY <1>1, <1>8, CheckKeeps DEF BuddyCheckTimer
<1>9. CASE OtherCall
  <2>1. zqueue \o socket \in Seq(Fitting(notify)) /\ <<>> \in Seq(Fitting(notify))
    BY <1>1, ConcatProperties DEF BuddyInv
  <2>. QED  BY <1>1, <1>2, <1>9, <2>1 DEF OtherCall, Elsewhere, BuddyInv
<1>10. CASE ProcessEvents  BY <1>1, <1>10, EventsKeep
<1>11. CASE ProcessMessage
  <2>1. PICK m : m = Head(msgqueue)  OBVIOUS
  <2>2. m \in Proper /\ Tail(msgqueue) \in Seq(Proper)
    BY <1>1, <1>11, <2>1, HeadTailProperties DEF ProcessMessage, BuddyInv
  <2>3. m.user \in Anyone  BY <2>2 DEF Proper
  <2>4. zusers' \in SUBSET Anyone  BY <1>1, <1>11, <2>1, <2>3 DEF ProcessMessage, BuddyInv
  <2>. QED  BY <1>1, <1>2, <1>11, <2>2, <2>4 DEF ProcessMessage, BuddyInv
<1>12. CASE UNCHANGED buddyVars  BY <1>1, <1>2, <1>12 DEF buddyVars, BuddyInv
<1>. QED  BY <1>1, <1>3, <1>4, <1>5, <1>6, <1>7, <1>8, <1>9, <1>10, <1>11, <1>12 DEF BuddyNext

(* No login is announced by a check of the Zephyr buddies that was to be   *)
(* silent (zephyr.c), however the checks of both kinds overlap.            *)
THEOREM SilentChecksStaySilent == BuddySpec => []SilentChecksAreSilent
<1>1. BuddyInit => BuddyInv  BY BuddyStart
<1>2. BuddyInv => SilentChecksAreSilent
  <2>1. SUFFICES ASSUME BuddyInv PROVE SilentChecksAreSilent  OBVIOUS
  <2>2. \A i \in DOMAIN msgqueue : msgqueue[i] \in Proper
    BY <2>1, LenProperties, ElementOfSeq DEF BuddyInv
  <2>. QED  BY <2>2 DEF SilentChecksAreSilent, ToSet, Proper
<1>. QED  BY <1>1, <1>2, BuddyStep, PTL DEF BuddySpec
=============================================================================
