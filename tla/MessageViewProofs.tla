-------------------------- MODULE MessageViewProofs --------------------------
(***************************************************************************)
(* What is proved of the messages and their window: the view is always the *)
(* global list, narrowed; the window is always marked for redrawing when   *)
(* it is out of date; ids go on growing, and the binary searches over them *)
(* find what is there; the scroll modes show the current message, and the  *)
(* cursor stays on its message, and on the screen.                         *)
(***************************************************************************)
EXTENDS MessageView, SubsequencesProofs

(* Ids that have been given are the numbers below the next one.            *)
IdsAreGiven == NextMsgid \in Nat /\ DOMAIN kind = 0 .. NextMsgid - 1

(* A message is queued once, and is listed when it has left the queue.     *)
QueuedAreUnlisted ==
  /\ queue \in Seq(DOMAIN kind) /\ msglist \in Seq(DOMAIN kind)
  /\ \A i, j \in DOMAIN queue : queue[i] = queue[j] => i = j
  /\ ToSet(queue) \cap ToSet(msglist) = {}

(* The inductive invariant.                                                *)
NarrowingInv == IdsAreGiven /\ QueuedAreUnlisted /\ ViewIsNarrowedList

(* What is kept by an action that changes neither the lists nor what they  *)
(* are narrowed by.                                                        *)
LEMMA ListsUnchanged ==
  ASSUME NarrowingInv, UNCHANGED listVars
  PROVE  NarrowingInv'
BY DEF NarrowingInv, IdsAreGiven, QueuedAreUnlisted, ViewIsNarrowedList, NextMsgid, listVars,
       Recalculated, Matches

(* Marks of deletion narrow nothing but a view that looks at them.         *)
LEMMA MarksKeepTheView ==
  ASSUME NarrowingInv, UNCHANGED <<kind, queue, msglist, view, filter>>
  PROVE  NarrowingInv'
<1>1. IdsAreGiven' /\ QueuedAreUnlisted'
  BY DEF NarrowingInv, IdsAreGiven, QueuedAreUnlisted, NextMsgid
<1>2. ViewIsNarrowedList'
  BY DEF NarrowingInv, ViewIsNarrowedList, Recalculated, Matches
<1>. QED  BY <1>1, <1>2 DEF NarrowingInv

(* A view that has been recalculated is the list, narrowed.                *)
LEMMA RecalculationNarrows ==
  ASSUME NarrowingInv, kind' = kind, queue' = queue,
         msglist' \in Seq(DOMAIN kind), ToSet(msglist') \subseteq ToSet(msglist),
         view' = Recalculated(msglist', filter', deleted')
  PROVE  NarrowingInv'
<1>1. IdsAreGiven'
  BY DEF NarrowingInv, IdsAreGiven, NextMsgid
<1>2. QueuedAreUnlisted'
  BY DEF NarrowingInv, QueuedAreUnlisted
<1>3. view' = Only(msglist', ToSet(view'))
  <2>. DEFINE P == {id \in ToSet(msglist') : Matches(filter', id, kind, deleted')}
  <2>1. view' = Only(msglist', P)  BY DEF Recalculated
  <2>. HIDE DEF P
  <2>2. Only(msglist', ToSet(Only(msglist', P))) = Only(msglist', P)  BY OnlyOfOnly
  <2>. QED  BY <2>1, <2>2
<1>4. Recalculated(msglist, filter, deleted)' = Recalculated(msglist', filter', deleted')
  BY DEF Recalculated, Matches
<1>. QED  BY <1>1, <1>2, <1>3, <1>4 DEF NarrowingInv, ViewIsNarrowedList

(* The view of a list to which a message is added that it does not have.   *)
LEMMA ConsideringNarrows ==
  ASSUME NarrowingInv, IdsAreGiven', QueuedAreUnlisted',
         UNCHANGED <<filter, deleted>>,
         NEW id \in DOMAIN kind', id \notin ToSet(msglist),
         msglist' = Append(msglist, id), ConsiderMessage(id),
         DOMAIN kind \subseteq DOMAIN kind', \A m \in DOMAIN kind : kind'[m] = kind[m]
  PROVE  NarrowingInv'
<1>. DEFINE S == DOMAIN kind'
            P == {m \in ToSet(msglist) : Matches(filter, m, kind, deleted)}
            Q == {m \in ToSet(msglist') : Matches(filter, m, kind', deleted)}
<1>1. msglist \in Seq(S) /\ id \in S
  BY SeqMonotonic DEF NarrowingInv, QueuedAreUnlisted
<1>2. view = Only(msglist, ToSet(view)) /\ view \in Seq(S) /\ ToSet(view) \subseteq ToSet(msglist)
  <2>1. view = Only(msglist, ToSet(view))  BY DEF NarrowingInv, ViewIsNarrowedList
  <2>. HIDE DEF S
  <2>. QED  BY <1>1, <2>1, OnlyElements
<1>3. ToSet(msglist') = ToSet(msglist) \cup {id}
  <2>. HIDE DEF S
  <2>. QED  BY <1>1, ElementsOfAppend
<1>4. view' = Only(msglist', ToSet(view'))
  <2>1. CASE Matches(filter, id, kind', deleted)
    <3>1. view' = Append(view, id)  BY <2>1 DEF ConsiderMessage
    <3>. HIDE DEF S
    <3>2. ToSet(view') = ToSet(view) \cup {id}  BY <1>1, <1>2, <3>1, ElementsOfAppend
    <3>3. Only(msglist', ToSet(view')) = Append(Only(msglist, ToSet(view')), id)
      BY <1>1, <3>2, OnlyOfAppend
    <3>4. Only(msglist, ToSet(view')) = Only(msglist, ToSet(view))
      <4>1. ToSet(msglist) \cap ToSet(view') = ToSet(msglist) \cap ToSet(view)  BY <3>2
      <4>. QED  BY <4>1, OnlyOfThese
    <3>. QED  BY <1>2, <3>1, <3>3, <3>4
  <2>2. CASE ~Matches(filter, id, kind', deleted)
    <3>1. view' = view  BY <2>2 DEF ConsiderMessage
    <3>2. id \notin ToSet(view')  BY <1>2, <3>1
    <3>. HIDE DEF S
    <3>3. Only(msglist', ToSet(view')) = Only(msglist, ToSet(view'))
      BY <1>1, <3>2, OnlyOfAppend
    <3>. QED  BY <1>2, <3>1, <3>3
  <2>. QED  BY <2>1, <2>2
<1>5. ASSUME ~filter'.undeleted PROVE view' = Recalculated(msglist, filter, deleted)'
  <2>1. view = Only(msglist, P)
    BY <1>5 DEF NarrowingInv, ViewIsNarrowedList, Recalculated
  <2>2. Recalculated(msglist, filter, deleted)' = Only(msglist', Q)
    BY DEF Recalculated, Matches
  <2>3. Only(msglist, Q) = Only(msglist, P)
    <3>1. ToSet(msglist) \subseteq DOMAIN kind
      BY ElementOfSeq, LenProperties DEF NarrowingInv, QueuedAreUnlisted, ToSet
    <3>2. ToSet(msglist) \cap Q = ToSet(msglist) \cap P  BY <1>3, <3>1 DEF Matches
    <3>. HIDE DEF P, Q
    <3>. QED  BY <3>2, OnlyOfThese
  <2>4. id \in Q <=> Matches(filter, id, kind', deleted)  BY <1>3
  <2>. HIDE DEF S, P, Q
  <2>5. Only(msglist', Q) = IF id \in Q THEN Append(Only(msglist, Q), id) ELSE Only(msglist, Q)
    BY <1>1, OnlyOfAppend
  <2>. QED  BY <2>1, <2>2, <2>3, <2>4, <2>5 DEF ConsiderMessage
<1>. QED  BY <1>4, <1>5 DEF NarrowingInv, ViewIsNarrowedList

(* A new message has the next id, which nothing had.                       *)
LEMMA NextIdIsNew ==
  ASSUME IdsAreGiven, NEW k, kind' = WithMessage(NextMsgid, k)
  PROVE  /\ IdsAreGiven'
         /\ DOMAIN kind' = DOMAIN kind \cup {NextMsgid} /\ NextMsgid \notin DOMAIN kind
         /\ \A m \in DOMAIN kind : kind'[m] = kind[m]
<1>1. PICK n \in Nat : n = NextMsgid  BY DEF IdsAreGiven
<1>2. DOMAIN kind = 0 .. n - 1 /\ n \notin DOMAIN kind  BY <1>1 DEF IdsAreGiven
<1>3. DOMAIN kind' = DOMAIN kind \cup {n} /\ \A m \in DOMAIN kind : kind'[m] = kind[m]
  BY <1>1, <1>2 DEF WithMessage
<1>4. NextMsgid' = n + 1
  <2>1. IsFiniteSet(DOMAIN kind)
    <3>1. 0 \in Int /\ n - 1 \in Int  OBVIOUS
    <3>. QED  BY <1>2, <3>1, FS_Interval
  <2>. QED  BY <1>1, <1>2, <1>3, <2>1, FS_AddElement DEF NextMsgid
<1>5. 0 .. n + 1 - 1 = (0 .. n - 1) \cup {n}  OBVIOUS
<1>. QED  BY <1>1, <1>2, <1>3, <1>4, <1>5 DEF IdsAreGiven

-----------------------------------------------------------------------------
(* A queued message is new to the list.                                    *)
LEMMA EnqueueNarrows ==
  ASSUME NarrowingInv, NEW k, Enqueue(k)
  PROVE  NarrowingInv'
<1>. DEFINE id == NextMsgid
<1>1. /\ kind' = WithMessage(id, k) /\ queue' = Append(queue, id)
      /\ UNCHANGED <<msglist, view, filter, deleted>>
  BY DEF Enqueue
<1>2. /\ IdsAreGiven' /\ DOMAIN kind' = DOMAIN kind \cup {id} /\ id \notin DOMAIN kind
      /\ \A m \in DOMAIN kind : kind'[m] = kind[m]
  BY <1>1, NextIdIsNew DEF NarrowingInv
<1>3. /\ queue \in Seq(DOMAIN kind') /\ msglist \in Seq(DOMAIN kind') /\ id \in DOMAIN kind'
      /\ queue \in Seq(DOMAIN kind) /\ msglist \in Seq(DOMAIN kind)
  BY <1>2, SeqMonotonic DEF NarrowingInv, QueuedAreUnlisted
<1>4. ToSet(queue) \subseteq DOMAIN kind /\ ToSet(msglist) \subseteq DOMAIN kind
  BY <1>3, OnlyAtPositions
<1>5. QueuedAreUnlisted'
  <2>. HIDE DEF id
  <2>1. PICK n \in Nat : n = Len(queue)  BY <1>3, LenProperties
  <2>2. /\ queue' \in Seq(DOMAIN kind') /\ Len(queue') = n + 1 /\ queue'[n + 1] = id
        /\ \A i \in 1 .. n : queue'[i] = queue[i]
    BY <1>1, <1>3, <2>1, AppendProperties
  <2>3. DOMAIN queue = 1 .. n /\ DOMAIN queue' = 1 .. n + 1
    BY <1>3, <2>1, <2>2, LenProperties
  <2>4. \A i \in 1 .. n : queue[i] # id  BY <1>2, <1>4, <2>3 DEF ToSet
  <2>5. ASSUME NEW i \in DOMAIN queue', NEW j \in DOMAIN queue', queue'[i] = queue'[j]
        PROVE  i = j
    <3>1. CASE i \in 1 .. n /\ j \in 1 .. n
      BY <2>2, <2>3, <2>5, <3>1 DEF NarrowingInv, QueuedAreUnlisted
    <3>2. CASE i = n + 1 \/ j = n + 1
      BY <2>2, <2>3, <2>4, <2>5, <3>2
    <3>. QED  BY <2>3, <3>1, <3>2
  <2>6. ToSet(queue') = ToSet(queue) \cup {id}  BY <1>1, <1>3, ElementsOfAppend
  <2>7. ToSet(queue') \cap ToSet(msglist') = {}
    BY <1>1, <1>2, <1>4, <2>6 DEF NarrowingInv, QueuedAreUnlisted
  <2>. QED  BY <1>1, <1>3, <2>2, <2>5, <2>7 DEF QueuedAreUnlisted
<1>6. ViewIsNarrowedList'
  <2>1. \A m \in ToSet(msglist) :
          Matches(filter, m, kind', deleted) <=> Matches(filter, m, kind, deleted)
    BY <1>2, <1>4 DEF Matches
  <2>2. Recalculated(msglist, filter, deleted)' = Recalculated(msglist, filter, deleted)
    BY <1>1, <2>1 DEF Recalculated, Matches
  <2>. QED  BY <1>1, <2>2 DEF NarrowingInv, ViewIsNarrowedList
<1>. QED  BY <1>2, <1>5, <1>6 DEF NarrowingInv

(* An admin message is listed at once.                                     *)
LEMMA AdminMsgNarrows ==
  ASSUME NarrowingInv, NEW k, AdminMsg(k)
  PROVE  NarrowingInv'
<1>. DEFINE id == NextMsgid
<1>1. /\ kind' = WithMessage(id, k) /\ msglist' = Append(msglist, id) /\ ConsiderMessage(id)
      /\ UNCHANGED <<queue, filter, deleted>>
  BY DEF AdminMsg
<1>2. /\ IdsAreGiven' /\ DOMAIN kind' = DOMAIN kind \cup {id} /\ id \notin DOMAIN kind
      /\ \A m \in DOMAIN kind : kind'[m] = kind[m]
  BY <1>1, NextIdIsNew DEF NarrowingInv
<1>3. /\ queue \in Seq(DOMAIN kind') /\ msglist \in Seq(DOMAIN kind') /\ id \in DOMAIN kind'
      /\ queue \in Seq(DOMAIN kind) /\ msglist \in Seq(DOMAIN kind)
  BY <1>2, SeqMonotonic DEF NarrowingInv, QueuedAreUnlisted
<1>4. ToSet(queue) \subseteq DOMAIN kind /\ ToSet(msglist) \subseteq DOMAIN kind
  BY <1>3, OnlyAtPositions
<1>5. QueuedAreUnlisted'
  <2>. HIDE DEF id
  <2>1. msglist' \in Seq(DOMAIN kind') /\ ToSet(msglist') = ToSet(msglist) \cup {id}
    BY <1>1, <1>3, AppendProperties, ElementsOfAppend
  <2>2. ToSet(queue) \cap ToSet(msglist') = {}
    BY <1>2, <1>4, <2>1 DEF NarrowingInv, QueuedAreUnlisted
  <2>. QED  BY <1>1, <1>3, <2>1, <2>2 DEF NarrowingInv, QueuedAreUnlisted
<1>. HIDE DEF id
<1>. QED  BY <1>1, <1>2, <1>3, <1>4, <1>5, ConsideringNarrows

(* The first message of the queue is listed, or forgotten.                 *)
LEMMA ProcessMessageNarrows ==
  ASSUME NarrowingInv, ProcessMessage
  PROVE  NarrowingInv'
<1>. DEFINE id == Head(queue)
<1>1. /\ queue # <<>> /\ queue' = Tail(queue) /\ kind' = kind /\ UNCHANGED <<filter, deleted>>
      /\ \/ UNCHANGED <<msglist, view>>
         \/ msglist' = Append(msglist, id) /\ ConsiderMessage(id)
  BY DEF ProcessMessage
<1>2. queue \in Seq(DOMAIN kind) /\ msglist \in Seq(DOMAIN kind)
  BY DEF NarrowingInv, QueuedAreUnlisted
<1>3. /\ Tail(queue) \in Seq(DOMAIN kind) /\ ToSet(queue) = {id} \cup ToSet(Tail(queue))
      /\ \A i \in DOMAIN Tail(queue) :
           i + 1 \in DOMAIN queue /\ i + 1 # 1 /\ Tail(queue)[i] = queue[i + 1]
      /\ 1 \in DOMAIN queue /\ id = queue[1] /\ id \in DOMAIN kind
  BY <1>1, <1>2, ElementsOfTail, HeadTailProperties
<1>4. DOMAIN Tail(queue) \subseteq Int  BY <1>3, LenProperties
<1>5. ASSUME NEW i \in DOMAIN queue', NEW j \in DOMAIN queue', queue'[i] = queue'[j] PROVE i = j
  <2>1. i + 1 = j + 1
    BY <1>1, <1>3, <1>5 DEF NarrowingInv, QueuedAreUnlisted
  <2>. QED  BY <1>1, <1>4, <2>1
<1>6. id \notin ToSet(queue') /\ ToSet(queue') \subseteq ToSet(queue)
  BY <1>1, <1>3 DEF NarrowingInv, QueuedAreUnlisted, ToSet
<1>7. id \notin ToSet(msglist)
  BY <1>3 DEF NarrowingInv, QueuedAreUnlisted
<1>8. IdsAreGiven'  BY <1>1 DEF NarrowingInv, IdsAreGiven, NextMsgid
<1>9. CASE UNCHANGED <<msglist, view>>
  <2>1. QueuedAreUnlisted'
    BY <1>1, <1>2, <1>3, <1>5, <1>6, <1>9 DEF NarrowingInv, QueuedAreUnlisted
  <2>2. ViewIsNarrowedList'
    BY <1>1, <1>9 DEF NarrowingInv, ViewIsNarrowedList, Recalculated, Matches
  <2>. QED  BY <1>8, <2>1, <2>2 DEF NarrowingInv
<1>10. CASE msglist' = Append(msglist, id) /\ ConsiderMessage(id)
  <2>. HIDE DEF id
  <2>1. msglist' \in Seq(DOMAIN kind) /\ ToSet(msglist') = ToSet(msglist) \cup {id}
    BY <1>2, <1>3, <1>10, AppendProperties, ElementsOfAppend
  <2>2. QueuedAreUnlisted'
    BY <1>1, <1>3, <1>5, <1>6, <2>1 DEF NarrowingInv, QueuedAreUnlisted
  <2>. QED  BY <1>1, <1>3, <1>7, <1>8, <1>10, <2>2, ConsideringNarrows
<1>. QED  BY <1>1, <1>9, <1>10

-----------------------------------------------------------------------------
(* Expunging takes messages out and narrows again.                         *)
LEMMA RemovalNarrows ==
  ASSUME NarrowingInv, Expunge \/ \E n : DeleteAndExpunge(n)
  PROVE  NarrowingInv'
<1>1. msglist \in Seq(DOMAIN kind)  BY DEF NarrowingInv, QueuedAreUnlisted
<1>2. CASE Expunge
  <2>1. Without(msglist, deleted) \in Seq(DOMAIN kind)
        /\ ToSet(Without(msglist, deleted)) \subseteq ToSet(msglist)
    BY <1>1, WithoutElements
  <2>. QED  BY <1>2, <2>1, RecalculationNarrows DEF Expunge, unlisted, RedisplayToNearest
<1>3. ASSUME NEW n, DeleteAndExpunge(n) PROVE NarrowingInv'
  <2>1. CASE InList(msglist, n)
    <3>1. PICK I : I = DOMAIN msglist \ {n + 1}  OBVIOUS
    <3>2. I \in SUBSET (1 .. Len(msglist)) /\ I \subseteq DOMAIN msglist
      BY <1>1, <3>1, LenProperties
    <3>3. /\ Subsequence(msglist, I) \in Seq(DOMAIN kind)
          /\ ToSet(Subsequence(msglist, I)) = {msglist[i] : i \in I}
      BY <1>1, <3>2, SubsequenceElements
    <3>4. {msglist[i] : i \in I} \subseteq ToSet(msglist)  BY <3>2 DEF ToSet
    <3>5. WithoutPosition(msglist, n) = Subsequence(msglist, I)
      BY <3>1 DEF WithoutPosition
    <3>. QED
      BY <1>3, <2>1, <3>3, <3>4, <3>5, RecalculationNarrows
         DEF DeleteAndExpunge, unlisted, RedisplayToNearest
  <2>2. CASE ~InList(msglist, n)
    BY <1>3, <2>2, ListsUnchanged DEF DeleteAndExpunge
  <2>. QED  BY <2>1, <2>2
<1>. QED  BY <1>2, <1>3

(* At the start there are no messages to narrow.                           *)
LEMMA NarrowingInit == Init => NarrowingInv
<1>. SUFFICES ASSUME Init PROVE NarrowingInv  OBVIOUS
<1>1. DOMAIN kind = {} /\ NextMsgid = 0
  BY FS_EmptySet DEF Init, NextMsgid
<1>2. <<>> \in Seq(DOMAIN kind) /\ Len(<<>>) = 0 /\ DOMAIN <<>> = {}  BY EmptySeq
<1>3. IdsAreGiven  BY <1>1 DEF IdsAreGiven
<1>4. queue = <<>> /\ msglist = <<>> /\ view = <<>>  BY DEF Init
<1>5. QueuedAreUnlisted  BY <1>2, <1>4 DEF QueuedAreUnlisted, ToSet
<1>6. \A P : Only(<<>>, P) = <<>>
  <2>1. ASSUME NEW P PROVE Only(<<>>, P) = <<>>
    <3>1. {i \in DOMAIN <<>> : <<>>[i] \in P} = {}  BY <1>2
    <3>. QED  BY <3>1, FS_EmptySet DEF Only, Subsequence
  <2>. QED  BY <2>1
<1>7. ViewIsNarrowedList  BY <1>4, <1>6 DEF ViewIsNarrowedList, Recalculated
<1>. QED  BY <1>3, <1>5, <1>7 DEF NarrowingInv

(* Every step keeps the view the narrowed list.                            *)
LEMMA NarrowingStep == NarrowingInv /\ [Next]_vars => NarrowingInv'
<1>. SUFFICES ASSUME NarrowingInv, [Next]_vars PROVE NarrowingInv'  OBVIOUS
<1>1. CASE Receive
  BY <1>1, EnqueueNarrows, AdminMsgNarrows DEF Receive
<1>2. CASE Process
  <2>1. CASE ProcessMessage  BY <2>1, ProcessMessageNarrows
  <2>2. CASE DispatchStart \/ FinishMessage \/ DispatchEnd
    BY <2>2, ListsUnchanged DEF DispatchStart, FinishMessage, DispatchEnd
  <2>. QED  BY <1>2, <2>1, <2>2 DEF Process
<1>3. CASE Move
  <2>1. ASSUME NEW f, NEW skip, NEW stop, NextMsg(f, skip, stop) \/ PrevMsg(f, skip, stop)
        PROVE  UNCHANGED listVars
    BY <2>1 DEF NextMsg, PrevMsg, unmoved
  <2>2. ASSUME NEW step, PageCurmsg(step) PROVE UNCHANGED listVars
    BY <2>2 DEF PageCurmsg, unmoved
  <2>3. ASSUME NEW dir, NEW here, NEW classes, Search(dir, here, classes)
        PROVE  UNCHANGED listVars
    BY <2>3 DEF Search, unmoved
  <2>4. ASSUME FirstMsg \/ LastMsg \/ PageDown \/ PageUp \/ MarkMessage \/ SwapCurMarked
        PROVE  UNCHANGED listVars
    BY <2>4, ListsUnchanged
       DEF FirstMsg, LastMsg, PageDown, PageUp, MarkMessage, SwapCurMarked, unmoved
  <2>. QED  BY <1>3, <2>1, <2>2, <2>3, <2>4, ListsUnchanged DEF Move
<1>4. CASE Delete
  <2>1. ASSUME NEW b, DeleteCur(b) \/ UndeleteCur(b) \/ DeleteCurviewMsgs(b) PROVE NarrowingInv'
    BY <2>1, MarksKeepTheView
       DEF DeleteCur, UndeleteCur, DeleteCurviewMsgs, MarkDeletions, unlisted
  <2>2. ASSUME NEW id, NEW b, DeleteById(id, b) PROVE NarrowingInv'
    BY <2>2, MarksKeepTheView DEF DeleteById, MarkDeletions, unlisted
  <2>3. ASSUME NEW f, DeleteAutomsgs(f) PROVE NarrowingInv'
    BY <2>3, MarksKeepTheView DEF DeleteAutomsgs, MarkDeletions, unlisted
  <2>4. CASE Expunge \/ DeleteAndExpungeCur \/ \E id \in Ids : DeleteAndExpungeById(id)
    BY <2>4, RemovalNarrows DEF DeleteAndExpungeCur, DeleteAndExpungeById
  <2>. QED  BY <1>4, <2>1, <2>2, <2>3, <2>4 DEF Delete
<1>5. CASE Show
  <2>1. ASSUME NEW f, ChangeFilter(f) PROVE NarrowingInv'
    BY <2>1, RecalculationNarrows DEF ChangeFilter, NarrowingInv, QueuedAreUnlisted
  <2>2. ASSUME NEW w, ChangeStyle(w) \/ Resize(w) PROVE UNCHANGED listVars
    BY <2>2 DEF ChangeStyle, Resize
  <2>3. ASSUME NEW m, NEW b, SetVariables(m, b) PROVE UNCHANGED listVars
    BY <2>3 DEF SetVariables
  <2>4. CASE Redraw  BY <2>4, ListsUnchanged DEF Redraw
  <2>. QED  BY <1>5, <2>1, <2>2, <2>3, <2>4, ListsUnchanged DEF Show
<1>6. CASE UNCHANGED vars \/ Crashed
  BY <1>6, ListsUnchanged DEF vars, Crashed
<1>. QED  BY <1>1, <1>2, <1>3, <1>4, <1>5, <1>6 DEF Next

(* Whatever arrives, is processed while hooks run commands, deleted,       *)
(* expunged or narrowed to: the view has the listed messages that its      *)
(* filter matches, all of them and in the order of the list                *)
(* (owl_view_consider_message, owl_view_recalculate).                      *)
THEOREM ViewIsNarrowed == Spec => []ViewIsNarrowedList
<1>1. NarrowingInv => ViewIsNarrowedList  BY DEF NarrowingInv
<1>. QED  BY <1>1, NarrowingInit, NarrowingStep, PTL DEF Spec

-----------------------------------------------------------------------------
(* What a redraw would show is marked, or messages have been listed that   *)
(* will have the window marked when the queue is empty.                    *)
RedrawInv ==
  /\ stale \in BOOLEAN /\ dirty \in BOOLEAN
  /\ DOMAIN proc = DOMAIN Idle /\ proc.phase \in {"idle", "run", "hooks"}
  /\ stale /\ ~dirty => proc.phase = "hooks" \/ (proc.phase = "run" /\ proc.newmsgs)

(* A redraw has been asked for.                                            *)
LEMMA AskedFor ==
  ASSUME RedrawInv, Redisplay, proc' = proc \/ proc' = Idle
  PROVE  RedrawInv'
BY DEF RedrawInv, Redisplay, Idle

(* Nothing that is shown has changed.                                      *)
LEMMA NothingToShow ==
  ASSUME RedrawInv, proc' = proc, \/ NoRedisplay /\ UNCHANGED Display
                                  \/ UNCHANGED <<stale, dirty>>
  PROVE  RedrawInv'
BY DEF RedrawInv, NoRedisplay

(* A step to the next message, or the one before, moves the cursor and     *)
(* asks for a redraw or does neither.                                      *)
LEMMA NextFromRedraws ==
  ASSUME RedrawInv, NEW cur, NEW f, NEW skip, NEW last, proc' = proc,
         UNCHANGED <<view, markedmsgid, window>>,
         last \/ (cur = curmsg /\ deleted' = deleted),
         NextFrom(cur, f, skip, last) \/ PrevFrom(cur, f, skip, last)
  PROVE  RedrawInv'
<1>1. Redisplay \/ (NoRedisplay /\ UNCHANGED Display)
  BY DEF NextFrom, PrevFrom, MoveTo, Display
<1>. QED  BY <1>1, AskedFor, NothingToShow

(* At the start the display is to be drawn.                                *)
LEMMA RedrawInit == Init => RedrawInv
<1>. SUFFICES ASSUME Init PROVE RedrawInv  OBVIOUS
<1>1. stale = FALSE /\ dirty = TRUE  BY DEF Init
<1>2. proc = Idle  BY DEF Init
<1>3. proc.phase = "idle"  BY <1>2 DEF Idle
<1>. QED  BY <1>1, <1>2, <1>3 DEF RedrawInv

(* A move of the cursor asks for a redraw.                                 *)
LEMMA MovesRedraw == ASSUME RedrawInv, Move PROVE RedrawInv'
<1>1. ASSUME NEW f, NEW skip, NEW stop, NextMsg(f, skip, stop) \/ PrevMsg(f, skip, stop)
      PROVE  RedrawInv'
  BY <1>1, NextFromRedraws DEF NextMsg, PrevMsg, unmoved, listVars, setVars
<1>2. CASE PageDown
  <2>1. \E last : NextFrom(last, NoFilter, FALSE, TRUE)  BY <1>2 DEF PageDown
  <2>. QED  BY <1>2, <2>1, NextFromRedraws DEF PageDown, unmoved, listVars, setVars
<1>3. CASE PageUp
  BY <1>3, NextFromRedraws DEF PageUp, unmoved, listVars, setVars
<1>4. CASE FirstMsg \/ LastMsg \/ MarkMessage \/ SwapCurMarked
  BY <1>4, AskedFor DEF FirstMsg, LastMsg, MarkMessage, SwapCurMarked, MoveTo, unmoved
<1>5. ASSUME NEW step, PageCurmsg(step) PROVE RedrawInv'
  BY <1>5, AskedFor DEF PageCurmsg, unmoved
<1>6. ASSUME NEW dir, NEW here, NEW classes, Search(dir, here, classes) PROVE RedrawInv'
  <2>1. Redisplay /\ proc' = proc  BY <1>6 DEF Search, MoveTo, unmoved
  <2>. QED  BY <2>1, AskedFor
<1>. QED  BY <1>1, <1>2, <1>3, <1>4, <1>5, <1>6 DEF Move

(* So do marking, deleting and expunging, by the user or by a hook.        *)
LEMMA DeletionsRedraw ==
  ASSUME RedrawInv, Delete, "deletenomove" \notin Commands PROVE RedrawInv'
<1>1. ASSUME NEW b \in BOOLEAN, DeleteCur(b) PROVE RedrawInv'
  <2>1. b /\ UNCHANGED <<view, markedmsgid, window, proc>>
    BY <1>1 DEF DeleteCur, MayRun, unlisted, setVars
  <2>2. \/ PrevFrom(curmsg, NoFilter, TRUE, TRUE)
        \/ NextFrom(curmsg, NoFilter, TRUE, TRUE)
    BY <1>1, <2>1 DEF DeleteCur
  <2>. QED  BY <2>1, <2>2, NextFromRedraws
<1>2. ASSUME NEW b \in BOOLEAN, UndeleteCur(b) PROVE RedrawInv'
  <2>1. UNCHANGED <<view, markedmsgid, window, proc>>
    BY <1>2 DEF UndeleteCur, unlisted, setVars
  <2>2. \/ Redisplay
        \/ PrevFrom(curmsg, NoFilter, FALSE, TRUE)
        \/ NextFrom(curmsg, NoFilter, FALSE, TRUE)
    BY <1>2 DEF UndeleteCur
  <2>. QED  BY <2>1, <2>2, NextFromRedraws, AskedFor
<1>3. ASSUME NEW ids, NEW b, MarkDeletions(ids, b) PROVE RedrawInv'
  BY <1>3, AskedFor DEF MarkDeletions, unlisted
<1>4. CASE Expunge  BY <1>4, AskedFor DEF Expunge, unlisted
<1>5. ASSUME NEW n, DeleteAndExpunge(n) PROVE RedrawInv'
  BY <1>5, AskedFor, NothingToShow DEF DeleteAndExpunge, unlisted
<1>. QED
  BY <1>1, <1>2, <1>3, <1>4, <1>5
     DEF Delete, DeleteCurviewMsgs, DeleteById, DeleteAutomsgs, DeleteAndExpungeCur,
         DeleteAndExpungeById

(* So do a change of filter, of style or of size.                          *)
LEMMA ShowsRedraw == ASSUME RedrawInv, Show PROVE RedrawInv'
<1>1. ASSUME NEW f, ChangeFilter(f) PROVE RedrawInv'
  BY <1>1, AskedFor DEF ChangeFilter, MoveTo
<1>2. ASSUME NEW w, ChangeStyle(w) \/ Resize(w) PROVE RedrawInv'
  BY <1>2, AskedFor DEF ChangeStyle, Resize
<1>3. ASSUME NEW m, NEW b, SetVariables(m, b) PROVE RedrawInv'
  BY <1>3, NothingToShow DEF SetVariables
<1>4. CASE Redraw
  BY <1>4 DEF Redraw, RedrawInv
<1>. QED  BY <1>1, <1>2, <1>3, <1>4 DEF Show

(* So does a message that arrives, when its processing is over.            *)
LEMMA ArrivalsRedraw == ASSUME RedrawInv, Receive \/ Process PROVE RedrawInv'
<1>1. ASSUME NEW k, Enqueue(k) PROVE RedrawInv'  BY <1>1, NothingToShow DEF Enqueue
<1>2. ASSUME NEW k, AdminMsg(k) PROVE RedrawInv'  BY <1>2, AskedFor DEF AdminMsg
<1>3. CASE DispatchStart
  BY <1>3 DEF DispatchStart, RedrawInv, Idle
<1>4. CASE ProcessMessage
  <2>1. CASE UNCHANGED <<msglist, view, proc>>
    BY <1>4, <2>1, NothingToShow DEF ProcessMessage, Display, curVars, setVars
  <2>2. CASE proc' = [proc EXCEPT !.phase = "hooks", !.msg = Head(queue)]
    BY <1>4, <2>2 DEF ProcessMessage, NoRedisplay, RedrawInv, Idle
  <2>. QED  BY <1>4, <2>1, <2>2 DEF ProcessMessage
<1>5. CASE FinishMessage
  BY <1>5 DEF FinishMessage, RedrawInv, Idle
<1>6. CASE DispatchEnd
  <2>1. CASE proc.newmsgs
    BY <1>6, <2>1, AskedFor DEF DispatchEnd
  <2>2. CASE ~proc.newmsgs
    <3>1. NoRedisplay /\ UNCHANGED Display /\ proc' = Idle /\ proc.phase = "run"
      BY <1>6, <2>2 DEF DispatchEnd, Display, listVars, setVars
    <3>. QED  BY <2>2, <3>1 DEF RedrawInv, NoRedisplay, Idle
  <2>. QED  BY <2>1, <2>2
<1>. QED  BY <1>1, <1>2, <1>3, <1>4, <1>5, <1>6 DEF Receive, Process

(* Every step leaves a display that is out of date marked.                 *)
LEMMA RedrawStep ==
  ASSUME "deletenomove" \notin Commands PROVE RedrawInv /\ [Next]_vars => RedrawInv'
<1>. SUFFICES ASSUME RedrawInv, [Next]_vars PROVE RedrawInv'  OBVIOUS
<1>1. CASE UNCHANGED vars \/ Crashed
  BY <1>1, NothingToShow DEF vars, Crashed
<1>. QED
  BY <1>1, ArrivalsRedraw, MovesRedraw, DeletionsRedraw, ShowsRedraw DEF Next

(* Between two callbacks of the main loop a display that is out of date is *)
(* marked, whatever the hooks do while messages are processed, unless      *)
(* messages are deleted with --no-move (functions.c:706), which asks for   *)
(* no redraw.                                                              *)
THEOREM NoRedisplayIsMissed ==
  ASSUME "deletenomove" \notin Commands PROVE Spec => []NoMissedRedisplay
<1>1. RedrawInv => NoMissedRedisplay  BY DEF RedrawInv, NoMissedRedisplay
<1>. QED  BY <1>1, RedrawInit, RedrawStep, PTL DEF Spec

-----------------------------------------------------------------------------
(* Two lists in a row are sorted when both are and the one is before the   *)
(* other.                                                                  *)
LEMMA SortedConcat ==
  ASSUME NEW s \in Seq(Nat), NEW t \in Seq(Nat)
  PROVE  Sorted(s \o t) <=> /\ Sorted(s) /\ Sorted(t)
                            /\ \A a \in ToSet(s), b \in ToSet(t) : a < b
<1>1. PICK m \in Nat, n \in Nat : m = Len(s) /\ n = Len(t)  BY LenProperties
<1>2. PICK u : u = s \o t  OBVIOUS
<1>3. /\ u \in Seq(Nat) /\ Len(u) = m + n
      /\ \A i \in 1 .. m + n : u[i] = IF i <= m THEN s[i] ELSE t[i - m]
  BY <1>1, <1>2, ConcatProperties
<1>4. DOMAIN s = 1 .. m /\ DOMAIN t = 1 .. n /\ DOMAIN u = 1 .. m + n
  BY <1>1, <1>3, LenProperties
<1>5. \A i \in 1 .. m : i \in 1 .. m + n /\ u[i] = s[i]  BY <1>3
<1>6. \A i \in 1 .. n : m + i \in 1 .. m + n /\ u[m + i] = t[i]
  <2>1. ASSUME NEW i \in 1 .. n PROVE m + i \in 1 .. m + n /\ u[m + i] = t[i]
    <3>1. m + i \in 1 .. m + n /\ ~ m + i <= m /\ m + i - m = i  OBVIOUS
    <3>2. PICK k \in 1 .. m + n : k = m + i  BY <3>1
    <3>3. u[k] = t[k - m]  BY <1>3, <3>1, <3>2
    <3>. QED  BY <3>1, <3>2, <3>3
  <2>. QED  BY <2>1
<1>7. ASSUME Sorted(u)
      PROVE  Sorted(s) /\ Sorted(t) /\ \A a \in ToSet(s), b \in ToSet(t) : a < b
  <2>1. ASSUME NEW i \in 1 .. m, NEW j \in 1 .. m, i < j PROVE s[i] < s[j]
    <3>1. i \in DOMAIN u /\ j \in DOMAIN u /\ u[i] = s[i] /\ u[j] = s[j]  BY <1>4, <1>5
    <3>. QED  BY <1>7, <2>1, <3>1 DEF Sorted
  <2>2. ASSUME NEW i \in 1 .. n, NEW j \in 1 .. n, i < j PROVE t[i] < t[j]
    <3>1. m + i < m + j  BY <2>2
    <3>2. u[m + i] < u[m + j]  BY <1>4, <1>6, <1>7, <3>1 DEF Sorted
    <3>. QED  BY <1>6, <3>2
  <2>3. ASSUME NEW i \in 1 .. m, NEW j \in 1 .. n PROVE s[i] < t[j]
    <3>1. i < m + j  OBVIOUS
    <3>2. u[i] < u[m + j]  BY <1>4, <1>5, <1>6, <1>7, <3>1 DEF Sorted
    <3>. QED  BY <1>5, <1>6, <3>2
  <2>. QED  BY <1>4, <2>1, <2>2, <2>3 DEF Sorted, ToSet
<1>8. ASSUME Sorted(s), Sorted(t), \A a \in ToSet(s), b \in ToSet(t) : a < b
      PROVE  Sorted(u)
  <2>1. ASSUME NEW i \in 1 .. m + n, NEW j \in 1 .. m + n, i < j PROVE u[i] < u[j]
    <3>1. CASE i <= m /\ j <= m
      <4>1. i \in 1 .. m /\ j \in 1 .. m  BY <3>1
      <4>. QED  BY <1>4, <1>5, <1>8, <2>1, <4>1 DEF Sorted
    <3>2. CASE i <= m /\ ~ j <= m
      <4>1. i \in 1 .. m /\ j - m \in 1 .. n  BY <3>2
      <4>2. s[i] \in ToSet(s) /\ t[j - m] \in ToSet(t)  BY <1>4, <4>1 DEF ToSet
      <4>. QED  BY <1>3, <1>8, <3>2, <4>2
    <3>3. CASE ~ i <= m
      <4>1. i - m \in 1 .. n /\ j - m \in 1 .. n /\ i - m < j - m /\ ~ j <= m  BY <2>1, <3>3
      <4>2. t[i - m] < t[j - m]  BY <1>4, <1>8, <4>1 DEF Sorted
      <4>. QED  BY <1>3, <3>3, <4>1, <4>2
    <3>. QED  BY <3>1, <3>2, <3>3
  <2>. QED  BY <1>4, <2>1 DEF Sorted
<1>. QED  BY <1>2, <1>7, <1>8

(* What is kept of a sorted list is sorted.                                *)
LEMMA SortedSubsequence ==
  ASSUME NEW s \in Seq(Nat), Sorted(s), NEW I \in SUBSET (1 .. Len(s))
  PROVE  /\ Subsequence(s, I) \in Seq(Nat) /\ Sorted(Subsequence(s, I))
         /\ ToSet(Subsequence(s, I)) \subseteq ToSet(s)
<1>1. PICK C : C = Cardinality(I)  OBVIOUS
<1>2. PICK t : t = Subsequence(s, I)  OBVIOUS
<1>3. t \in Seq(Nat) /\ Len(t) = C /\ ToSet(t) = {s[i] : i \in I}
  BY <1>1, <1>2, SubsequenceElements
<1>4. DOMAIN s = 1 .. Len(s) /\ DOMAIN t = 1 .. C  BY <1>3, LenProperties
<1>5. ASSUME NEW c \in 1 .. C, NEW d \in 1 .. C, c < d PROVE t[c] < t[d]
  <2>1. /\ KthOf(I, c) \in 1 .. Len(s) /\ KthOf(I, d) \in 1 .. Len(s)
        /\ KthOf(I, c) < KthOf(I, d)
        /\ t[c] = s[KthOf(I, c)] /\ t[d] = s[KthOf(I, d)]
    BY <1>1, <1>2, <1>5, SubsequenceKeepsOrder
  <2>. QED  BY <1>4, <2>1 DEF Sorted
<1>6. Sorted(t)  BY <1>4, <1>5 DEF Sorted
<1>7. {s[i] : i \in I} \subseteq ToSet(s)  BY <1>4 DEF ToSet
<1>. QED  BY <1>2, <1>3, <1>6, <1>7

(* One larger element at the end.                                          *)
LEMMA SortedAppend ==
  ASSUME NEW s \in Seq(Nat), Sorted(s), NEW e \in Nat, \A a \in ToSet(s) : a < e
  PROVE  Append(s, e) \in Seq(Nat) /\ Sorted(Append(s, e))
<1>1. PICK n \in Nat : n = Len(s)  BY LenProperties
<1>2. PICK u : u = Append(s, e)  OBVIOUS
<1>3. u \in Seq(Nat) /\ Len(u) = n + 1 /\ u[n + 1] = e /\ \A i \in 1 .. n : u[i] = s[i]
  BY <1>1, <1>2, AppendProperties
<1>4. DOMAIN s = 1 .. n /\ DOMAIN u = 1 .. n + 1  BY <1>1, <1>3, LenProperties
<1>5. ASSUME NEW i \in 1 .. n + 1, NEW j \in 1 .. n + 1, i < j PROVE u[i] < u[j]
  <2>1. i \in 1 .. n  BY <1>5
  <2>2. CASE j \in 1 .. n  BY <1>3, <1>4, <1>5, <2>1, <2>2 DEF Sorted
  <2>3. CASE j = n + 1
    <3>1. s[i] \in ToSet(s)  BY <1>4, <2>1 DEF ToSet
    <3>. QED  BY <1>3, <2>1, <2>3, <3>1
  <2>. QED  BY <2>2, <2>3
<1>. QED  BY <1>2, <1>3, <1>4, <1>5 DEF Sorted

(* The two lists when the invariant holds.                                 *)
LEMMA ListsAreNumbers ==
  ASSUME NarrowingInv
  PROVE  /\ queue \in Seq(Nat) /\ msglist \in Seq(Nat) /\ NextMsgid \in Nat
         /\ \A a \in ToSet(queue) \cup ToSet(msglist) : a < NextMsgid
<1>1. queue \in Seq(DOMAIN kind) /\ msglist \in Seq(DOMAIN kind)
  BY DEF NarrowingInv, QueuedAreUnlisted
<1>2. NextMsgid \in Nat /\ DOMAIN kind = 0 .. NextMsgid - 1  BY DEF NarrowingInv, IdsAreGiven
<1>3. DOMAIN kind \subseteq Nat /\ \A a \in DOMAIN kind : a < NextMsgid  BY <1>2
<1>4. ToSet(queue) \subseteq DOMAIN kind /\ ToSet(msglist) \subseteq DOMAIN kind
  BY <1>1, OnlyAtPositions
<1>. QED  BY <1>1, <1>2, <1>3, <1>4, SeqMonotonic

(* The steps that change the list or the queue.                            *)
LEMMA IdsGrowInStep ==
  ASSUME NarrowingInv, Next, Sorted(msglist \o queue),
         ~(queue # <<>> /\ queue' = queue /\ Len(msglist') > Len(msglist))
  PROVE  Sorted(msglist' \o queue')
<1>1. /\ queue \in Seq(Nat) /\ msglist \in Seq(Nat) /\ NextMsgid \in Nat
      /\ \A a \in ToSet(queue) \cup ToSet(msglist) : a < NextMsgid
  BY ListsAreNumbers
<1>2. /\ Sorted(msglist) /\ Sorted(queue)
      /\ \A a \in ToSet(msglist), b \in ToSet(queue) : a < b
  BY <1>1, SortedConcat
<1>3. ASSUME NEW k, Enqueue(k) PROVE Sorted(msglist' \o queue')
  <2>. PICK id \in Nat : id = NextMsgid  BY <1>1
  <2>1. queue' = Append(queue, id) /\ msglist' = msglist  BY <1>3 DEF Enqueue
  <2>2. queue' \in Seq(Nat) /\ Sorted(queue') /\ ToSet(queue') = ToSet(queue) \cup {id}
    <3>1. \A b \in ToSet(queue) : b < id  BY <1>1
    <3>2. queue' \in Seq(Nat) /\ Sorted(queue')  BY <1>1, <1>2, <2>1, <3>1, SortedAppend
    <3>3. ToSet(Append(queue, id)) = ToSet(queue) \cup {id}  BY <1>1, ElementsOfAppend
    <3>4. ToSet(queue') = ToSet(queue) \cup {id}  BY <2>1, <3>3
    <3>. QED  BY <3>2, <3>4
  <2>3. \A a \in ToSet(msglist), b \in ToSet(queue') : a < b  BY <1>1, <1>2, <2>2
  <2>4. Sorted(msglist \o queue')  BY <1>1, <1>2, <2>2, <2>3, SortedConcat
  <2>. QED  BY <2>1, <2>4
<1>4. ASSUME NEW k, AdminMsg(k) PROVE Sorted(msglist' \o queue')
  <2>. PICK id \in Nat : id = NextMsgid  BY <1>1
  <2>1. msglist' = Append(msglist, id) /\ queue' = queue  BY <1>4 DEF AdminMsg
  <2>2. msglist' \in Seq(Nat) /\ Sorted(msglist') /\ Len(msglist') = Len(msglist) + 1
    <3>1. \A a \in ToSet(msglist) : a < id  BY <1>1
    <3>2. msglist' \in Seq(Nat) /\ Sorted(msglist')
      BY <1>1, <1>2, <2>1, <3>1, SortedAppend
    <3>3. Len(msglist') = Len(msglist) + 1  BY <1>1, <2>1, AppendProperties
    <3>. QED  BY <3>2, <3>3
  <2>3. Len(msglist) \in Nat  BY <1>1, LenProperties
  <2>4. queue = <<>>  BY <2>1, <2>2, <2>3
  <2>. QED  BY <2>1, <2>2, <2>4, ConcatEmptySeq
<1>5. CASE ProcessMessage
  <2>1. queue # <<>> /\ queue' = Tail(queue)  BY <1>5 DEF ProcessMessage
  <2>2. PICK head : head = Head(queue)  OBVIOUS
  <2>3. /\ queue' \in Seq(Nat) /\ head \in ToSet(queue) /\ head \in Nat
        /\ ToSet(queue) = {head} \cup ToSet(queue')
        /\ \A i \in DOMAIN queue' : i + 1 \in DOMAIN queue /\ queue'[i] = queue[i + 1]
        /\ 1 \in DOMAIN queue /\ head = queue[1]
    BY <1>1, <2>1, <2>2, ElementsOfTail, HeadTailProperties
  <2>4. DOMAIN queue' \subseteq Nat \ {0}  BY <2>3, LenProperties
  <2>5. Sorted(queue')
    <3>1. ASSUME NEW i \in DOMAIN queue', NEW j \in DOMAIN queue', i < j
          PROVE  queue'[i] < queue'[j]
      <4>1. i + 1 < j + 1  BY <2>4, <3>1
      <4>. QED  BY <1>2, <2>3, <4>1 DEF Sorted
    <3>. QED  BY <3>1 DEF Sorted
  <2>6. \A b \in ToSet(queue') : head < b
    <3>1. ASSUME NEW i \in DOMAIN queue' PROVE head < queue'[i]
      <4>1. 1 < i + 1  BY <2>4
      <4>. QED  BY <1>2, <2>3, <4>1 DEF Sorted
    <3>. QED  BY <3>1 DEF ToSet
  <2>7. CASE msglist' = msglist
    BY <1>1, <1>2, <2>3, <2>5, <2>7, SortedConcat
  <2>8. CASE msglist' = Append(msglist, head)
    <3>1. /\ msglist' \in Seq(Nat) /\ Sorted(msglist')
          /\ ToSet(msglist') = ToSet(msglist) \cup {head}
      BY <1>1, <1>2, <2>3, <2>8, SortedAppend, ElementsOfAppend
    <3>2. \A a \in ToSet(msglist'), b \in ToSet(queue') : a < b
      BY <1>2, <2>3, <2>6, <3>1
    <3>. QED  BY <2>3, <2>5, <3>1, <3>2, SortedConcat
  <2>9. msglist' = msglist \/ msglist' = Append(msglist, head)
    BY <1>5, <2>2 DEF ProcessMessage
  <2>. QED  BY <2>7, <2>8, <2>9
<1>6. ASSUME NEW I \in SUBSET (1 .. Len(msglist)), msglist' = Subsequence(msglist, I),
             queue' = queue
      PROVE  Sorted(msglist' \o queue')
  <2>1. msglist' \in Seq(Nat) /\ Sorted(msglist') /\ ToSet(msglist') \subseteq ToSet(msglist)
    BY <1>1, <1>2, <1>6, SortedSubsequence
  <2>. QED  BY <1>1, <1>2, <1>6, <2>1, SortedConcat
<1>7. CASE Expunge
  <2>1. PICK I : I = {i \in DOMAIN msglist : msglist[i] \notin deleted}  OBVIOUS
  <2>2. I \in SUBSET (1 .. Len(msglist))  BY <1>1, <2>1, LenProperties
  <2>3. msglist' = Subsequence(msglist, I) /\ queue' = queue
    BY <1>7, <2>1 DEF Expunge, Without, unlisted
  <2>. QED  BY <1>6, <2>2, <2>3
<1>8. ASSUME NEW n, DeleteAndExpunge(n) PROVE Sorted(msglist' \o queue')
  <2>1. CASE InList(msglist, n)
    <3>1. PICK I : I = DOMAIN msglist \ {n + 1}  OBVIOUS
    <3>2. I \in SUBSET (1 .. Len(msglist))  BY <1>1, <3>1, LenProperties
    <3>3. msglist' = Subsequence(msglist, I) /\ queue' = queue
      BY <1>8, <2>1, <3>1 DEF DeleteAndExpunge, WithoutPosition, unlisted
    <3>. QED  BY <1>6, <3>2, <3>3
  <2>2. CASE ~InList(msglist, n)
    BY <1>8, <2>2 DEF DeleteAndExpunge, listVars
  <2>. QED  BY <2>1, <2>2
<1>9. ASSUME UNCHANGED <<msglist, queue>> PROVE Sorted(msglist' \o queue')
  BY <1>9
<1>10. ASSUME NEW b, DeleteCur(b) \/ UndeleteCur(b) \/ DeleteCurviewMsgs(b)
       PROVE  UNCHANGED <<msglist, queue>>
  BY <1>10 DEF DeleteCur, UndeleteCur, DeleteCurviewMsgs, MarkDeletions, unlisted
<1>11. ASSUME NEW id, NEW b, NEW f, DeleteById(id, b) \/ DeleteAutomsgs(f)
       PROVE  UNCHANGED <<msglist, queue>>
  BY <1>11 DEF DeleteById, DeleteAutomsgs, MarkDeletions, unlisted
<1>12. CASE Delete
  BY <1>7, <1>8, <1>9, <1>10, <1>11, <1>12 DEF Delete, DeleteAndExpungeCur, DeleteAndExpungeById
<1>13. CASE Receive  BY <1>3, <1>4, <1>13 DEF Receive
<1>14. CASE Process
  BY <1>5, <1>9, <1>14
     DEF Process, DispatchStart, FinishMessage, DispatchEnd, listVars
<1>15. CASE Move
  <2>1. ASSUME NEW f, NEW skip, NEW stop, NextMsg(f, skip, stop) \/ PrevMsg(f, skip, stop)
        PROVE  UNCHANGED listVars
    BY <2>1 DEF NextMsg, PrevMsg, unmoved
  <2>2. ASSUME NEW step, PageCurmsg(step) PROVE UNCHANGED listVars
    BY <2>2 DEF PageCurmsg, unmoved
  <2>3. ASSUME NEW dir, NEW here, NEW classes, Search(dir, here, classes)
        PROVE  UNCHANGED listVars
    BY <2>3 DEF Search, unmoved
  <2>4. ASSUME FirstMsg \/ LastMsg \/ PageDown \/ PageUp \/ MarkMessage \/ SwapCurMarked
        PROVE  UNCHANGED listVars
    BY <2>4 DEF FirstMsg, LastMsg, PageDown, PageUp, MarkMessage, SwapCurMarked, unmoved
  <2>5. UNCHANGED listVars  BY <1>15, <2>1, <2>2, <2>3, <2>4 DEF Move
  <2>. QED  BY <1>9, <2>5 DEF listVars
<1>16. CASE Show
  <2>1. ASSUME NEW f, ChangeFilter(f) PROVE UNCHANGED <<msglist, queue>>
    BY <2>1 DEF ChangeFilter
  <2>2. ASSUME NEW w, ChangeStyle(w) \/ Resize(w) PROVE UNCHANGED listVars
    BY <2>2 DEF ChangeStyle, Resize
  <2>3. ASSUME NEW m, NEW b, SetVariables(m, b) PROVE UNCHANGED listVars
    BY <2>3 DEF SetVariables
  <2>4. CASE Redraw  BY <1>9, <2>4 DEF Redraw, listVars
  <2>. QED  BY <1>9, <1>16, <2>1, <2>2, <2>3, <2>4 DEF Show, listVars
<1>17. CASE Crashed  BY <1>9, <1>17 DEF Crashed, vars, listVars
<1>. QED  BY <1>12, <1>13, <1>14, <1>15, <1>16, <1>17 DEF Next

(* Ids grow along the list and on into the queue, which is what the binary *)
(* searches by id rely on, but for an admin message that is listed ahead   *)
(* of messages that are queued (owl_function_adminmsg).                    *)
THEOREM IdsKeepGrowing == Spec => IdsGrow
<1>1. ASSUME NarrowingInv, [Next]_vars
      PROVE  [LET overtakes == queue # <<>> /\ queue' = queue /\ Len(msglist') > Len(msglist)
              IN  Sorted(msglist \o queue) /\ ~overtakes => Sorted(msglist' \o queue')]_vars
  BY <1>1, IdsGrowInStep
<1>. QED  BY <1>1, NarrowingInit, NarrowingStep, PTL DEF Spec, IdsGrow

-----------------------------------------------------------------------------
(* The binary search, whose list is of numbers.                            *)
Mid(range) == (range[1] + range[2]) \div 2

(* The ranges in which it ends, and where it goes on from the others.      *)
Ending(list, target) ==
  {range \in Ranges(list) :
     \/ ElementAt(list, Mid(range)) = target
     \/ ElementAt(list, Mid(range)) < target /\ Mid(range) + 1 > range[2]
     \/ ElementAt(list, Mid(range)) > target /\ range[1] > Mid(range) - 1}

Found(list, target) ==
  [range \in Ending(list, target) |-> [mid |-> Mid(range), id |-> ElementAt(list, Mid(range))]]

Onward(list, target) ==
  [range \in Ranges(list) \ Ending(list, target) |->
     IF ElementAt(list, Mid(range)) < target THEN <<Mid(range) + 1, range[2]>>
     ELSE <<range[1], Mid(range) - 1>>]

Results(list) == [mid : 0 .. Len(list) - 1, id : Int]

LEMMA MiddleIsWithin ==
  ASSUME NEW list \in Seq(Int), NEW range \in Ranges(list)
  PROVE  /\ Len(list) \in Nat /\ Len(list) > 0
         /\ range[1] \in 0 .. Len(list) - 1 /\ range[2] \in 0 .. Len(list) - 1
         /\ Mid(range) \in range[1] .. range[2]
         /\ range[1] < range[2] => Mid(range) < range[2]
         /\ ElementAt(list, Mid(range)) \in Int
<1>1. PICK n \in Nat : n = Len(list) /\ DOMAIN list = 1 .. n  BY LenProperties
<1>2. PICK first \in 0 .. n - 1, last \in 0 .. n - 1 :
        first = range[1] /\ last = range[2] /\ first <= last
  BY <1>1 DEF Ranges
<1>3. PICK mid : mid = Mid(range)  OBVIOUS
<1>4. mid \in first .. last /\ (first < last => mid < last)
  <2>1. mid = (first + last) \div 2  BY <1>2, <1>3 DEF Mid
  <2>2. first \in Int /\ last \in Int /\ first <= last  BY <1>1, <1>2
  <2>. QED  BY <2>1, <2>2
<1>5. list[mid + 1] \in Int  BY <1>1, <1>2, <1>4, ElementOfSeq
<1>. QED  BY <1>1, <1>2, <1>3, <1>4, <1>5 DEF ElementAt

LEMMA GoesOnWithin ==
  ASSUME NEW list \in Seq(Int), NEW target \in Int,
         NEW range \in Ranges(list) \ Ending(list, target)
  PROVE  /\ Onward(list, target)[range] \in Ranges(list)
         /\ range[1] < range[2]
         /\ \/ /\ ElementAt(list, Mid(range)) < target
               /\ Onward(list, target)[range] = <<Mid(range) + 1, range[2]>>
            \/ /\ ElementAt(list, Mid(range)) > target
               /\ Onward(list, target)[range] = <<range[1], Mid(range) - 1>>
<1>0. PICK n, first, last, mid, id :
        /\ n = Len(list) /\ first = range[1] /\ last = range[2] /\ mid = Mid(range)
        /\ id = ElementAt(list, Mid(range))
  OBVIOUS
<1>1. /\ n = Len(list) /\ first = range[1] /\ last = range[2] /\ mid = Mid(range)
      /\ id = ElementAt(list, Mid(range))
      /\ n \in Nat /\ first \in 0 .. n - 1 /\ last \in 0 .. n - 1 /\ mid \in first .. last
      /\ id \in Int /\ (first < last => mid < last)
  BY <1>0, MiddleIsWithin
<1>2. /\ id # target /\ ~(id < target /\ mid + 1 > last) /\ ~(id > target /\ first > mid - 1)
  BY <1>1 DEF Ending
<1>3. Onward(list, target)[range] = IF id < target THEN <<mid + 1, last>> ELSE <<first, mid - 1>>
  BY <1>1 DEF Onward
<1>4. CASE id < target
  <2>1. mid + 1 <= last  BY <1>1, <1>2, <1>4
  <2>2. <<mid + 1, last>> \in Ranges(list)  BY <1>1, <2>1 DEF Ranges
  <2>. QED  BY <1>1, <1>3, <1>4, <2>1, <2>2
<1>5. CASE id > target
  <2>1. first <= mid - 1  BY <1>1, <1>2, <1>5
  <2>2. <<first, mid - 1>> \in Ranges(list)  BY <1>1, <2>1 DEF Ranges
  <2>. QED  BY <1>1, <1>3, <1>5, <2>1, <2>2
<1>. QED  BY <1>1, <1>2, <1>4, <1>5

(* The search is a function of the range that it looks in.                 *)
LEMMA ProbesExist ==
  ASSUME NEW list \in Seq(Int), list # <<>>, NEW target \in Int
  PROVE  \E p :
           /\ Follows(p, Ranges(list), Ending(list, target), Found(list, target), Onward(list, target))
           /\ LastProbe(list, target) = p[<<0, Len(list) - 1>>]
<1>. DEFINE D == Ranges(list)  stop == Ending(list, target)  next == Onward(list, target)
            result == Found(list, target)  V == Results(list)
            size == [range \in D |-> range[2] - range[1]]
<1>1. PICK n \in Nat : n = Len(list)  BY LenProperties
<1>2. size \in [D -> Nat] /\ \A d \in D : size[d] < n  BY <1>1 DEF Ranges
<1>3. stop \in SUBSET D /\ result \in [stop -> V] /\ next \in [D \ stop -> D]
  <2>1. stop \in SUBSET D  BY DEF Ending
  <2>2. ASSUME NEW d \in stop
        PROVE  [mid |-> Mid(d), id |-> ElementAt(list, Mid(d))] \in V
    <3>1. d \in Ranges(list)  BY <2>1
    <3>2. Mid(d) \in 0 .. Len(list) - 1 /\ ElementAt(list, Mid(d)) \in Int
      BY <3>1, MiddleIsWithin
    <3>. QED  BY <3>2 DEF Results
  <2>3. result \in [stop -> V]  BY <2>2 DEF Found
  <2>4. next \in [D \ stop -> D]  BY GoesOnWithin DEF Onward
  <2>. QED  BY <2>1, <2>3, <2>4
<1>4. ASSUME NEW d \in D \ stop  PROVE size[next[d]] < size[d]
  <2>1. PICK first \in Int, last \in Int, mid \in Int :
          first = d[1] /\ last = d[2] /\ mid = Mid(d) /\ mid \in first .. last
    BY MiddleIsWithin
  <2>2. PICK on : on = next[d]  OBVIOUS
  <2>3. on \in D /\ (on = <<mid + 1, last>> \/ on = <<first, mid - 1>>)
    BY <2>1, <2>2, GoesOnWithin
  <2>4. size[d] = last - first /\ size[on] = on[2] - on[1]  BY <2>1, <2>3
  <2>5. CASE on = <<mid + 1, last>>
    <3>1. on[1] = mid + 1 /\ on[2] = last  BY <2>5
    <3>2. size[on] < size[d]  BY <2>1, <2>4, <3>1
    <3>. QED  BY <2>2, <3>2
  <2>6. CASE on = <<first, mid - 1>>
    <3>1. on[1] = first /\ on[2] = mid - 1  BY <2>6
    <3>2. size[on] < size[d]  BY <2>1, <2>4, <3>1
    <3>. QED  BY <2>2, <3>2
  <2>. QED  BY <2>3, <2>5, <2>6
<1>. HIDE DEF size
<1>5. PICK f \in [D -> V] : Follows(f, D, stop, result, next)
  BY <1>1, <1>2, <1>3, <1>4, SearchesExist
<1>. DEFINE Step(g, range) ==
              LET first == range[1]
                  last  == range[2]
                  mid   == (first + last) \div 2
                  id    == ElementAt(list, mid)
              IN  IF id = target \/ (id < target /\ mid + 1 > last)
                                 \/ (id > target /\ first > mid - 1)
                    THEN [mid |-> mid, id |-> id]
                  ELSE IF id < target THEN g[<<mid + 1, last>>]
                  ELSE g[<<first, mid - 1>>]
<1>6. ASSUME NEW g, NEW d \in D
      PROVE  Step(g, d) = IF d \in stop THEN result[d] ELSE g[next[d]]
  <2>1. CASE d \in stop  BY <2>1 DEF Ending, Found, Mid
  <2>2. CASE d \notin stop
    <3>1. ~(\/ ElementAt(list, Mid(d)) = target
            \/ ElementAt(list, Mid(d)) < target /\ Mid(d) + 1 > d[2]
            \/ ElementAt(list, Mid(d)) > target /\ d[1] > Mid(d) - 1)
      BY <2>2 DEF Ending
    <3>2. next[d] = IF ElementAt(list, Mid(d)) < target THEN <<Mid(d) + 1, d[2]>>
                    ELSE <<d[1], Mid(d) - 1>>
      BY <2>2 DEF Onward
    <3>. QED  BY <2>2, <3>1, <3>2 DEF Mid
  <2>. QED  BY <2>1, <2>2
<1>7. f = [d \in D |-> Step(f, d)]
  BY <1>5, <1>6 DEF Follows
<1>8. PICK p : p = CHOOSE g : g = [d \in D |-> Step(g, d)]  OBVIOUS
<1>9. p = [d \in D |-> Step(p, d)]  BY <1>7, <1>8
<1>10. Follows(p, D, stop, result, next)
  <2>. HIDE DEF Step
  <2>1. \A d \in D : p[d] = Step(p, d)  BY <1>9
  <2>2. \A d \in D : p[d] = IF d \in stop THEN result[d] ELSE p[next[d]]  BY <1>6, <2>1
  <2>. QED  BY <2>2 DEF Follows
<1>11. LastProbe(list, target) = p[<<0, Len(list) - 1>>]
  BY <1>8 DEF LastProbe
<1>. QED  BY <1>10, <1>11

(* Where a search in a growing list ends: on what it is for, or next to    *)
(* where that would be; and if above it, then not at the last position but *)
(* one, where owl_view_get_nearest_to_msgid would not look at the last.    *)
EndsWell(list, target, end) ==
  /\ end.mid \in 0 .. Len(list) - 1 /\ end.id = ElementAt(list, end.mid)
  /\ end.id < target => /\ \A q \in end.mid + 1 .. Len(list) - 1 : ElementAt(list, q) > target
                        /\ end.mid # Len(list) - 2
  /\ end.id > target => \A q \in 0 .. end.mid - 1 : ElementAt(list, q) < target

(* What is outside of the range is on the right side of the target.        *)
Around(list, target, range) ==
  /\ range[2] # Len(list) - 2
  /\ \A q \in 0 .. range[1] - 1 : ElementAt(list, q) < target
  /\ \A q \in range[2] + 1 .. Len(list) - 1 : ElementAt(list, q) > target

LEMMA SortedPositions ==
  ASSUME NEW list \in Seq(Int), Sorted(list)
  PROVE  /\ Len(list) \in Nat /\ \A q \in 0 .. Len(list) - 1 : ElementAt(list, q) \in Int
         /\ \A p, q \in 0 .. Len(list) - 1 : p < q => ElementAt(list, p) < ElementAt(list, q)
<1>1. PICK n \in Nat : n = Len(list) /\ DOMAIN list = 1 .. n  BY LenProperties
<1>2. \A q \in 0 .. n - 1 : q + 1 \in DOMAIN list /\ list[q + 1] \in Int
  BY <1>1, ElementOfSeq
<1>3. \A p, q \in 0 .. n - 1 : p < q => list[p + 1] < list[q + 1]
  BY <1>2 DEF Sorted
<1>. QED  BY <1>1, <1>2, <1>3 DEF ElementAt

LEMMA StaysAround ==
  ASSUME NEW list \in Seq(Int), NEW target \in Int, Sorted(list),
         NEW range \in Ranges(list) \ Ending(list, target), Around(list, target, range)
  PROVE  /\ Around(list, target, Onward(list, target)[range])
         /\ Onward(list, target)[range][2] - Onward(list, target)[range][1]
              < range[2] - range[1]
<1>0. PICK n, first, last, mid :
        n = Len(list) /\ first = range[1] /\ last = range[2] /\ mid = Mid(range)
  OBVIOUS
<1>1. /\ n = Len(list) /\ first = range[1] /\ last = range[2] /\ mid = Mid(range)
      /\ n \in Nat /\ first \in 0 .. n - 1 /\ last \in 0 .. n - 1 /\ mid \in first .. last
      /\ first < last /\ mid < last
  BY <1>0, MiddleIsWithin, GoesOnWithin
<1>2. PICK on : on = Onward(list, target)[range]  OBVIOUS
<1>3. /\ \A q \in 0 .. n - 1 : ElementAt(list, q) \in Int
      /\ \A p, q \in 0 .. n - 1 : p < q => ElementAt(list, p) < ElementAt(list, q)
  BY <1>1, SortedPositions
<1>4. /\ last # n - 2
      /\ \A q \in 0 .. first - 1 : ElementAt(list, q) < target
      /\ \A q \in last + 1 .. n - 1 : ElementAt(list, q) > target
  BY <1>1 DEF Around
<1>5. CASE ElementAt(list, mid) < target /\ on = <<mid + 1, last>>
  <2>1. \A q \in 0 .. mid : ElementAt(list, q) < target
    <3>1. ASSUME NEW q \in 0 .. mid  PROVE ElementAt(list, q) < target
      <4>1. q \in 0 .. n - 1 /\ mid \in 0 .. n - 1  BY <1>1
      <4>2. q = mid \/ ElementAt(list, q) < ElementAt(list, mid)  BY <1>3, <4>1
      <4>. QED  BY <1>3, <1>5, <4>1, <4>2
    <3>. QED  BY <3>1
  <2>2. on[1] = mid + 1 /\ on[2] = last  BY <1>5
  <2>3. Around(list, target, on)  BY <1>1, <1>4, <2>1, <2>2 DEF Around
  <2>. QED  BY <1>1, <1>2, <2>2, <2>3
<1>6. CASE ElementAt(list, mid) > target /\ on = <<first, mid - 1>>
  <2>1. \A q \in mid .. n - 1 : ElementAt(list, q) > target
    <3>1. ASSUME NEW q \in mid .. n - 1  PROVE ElementAt(list, q) > target
      <4>1. q \in 0 .. n - 1 /\ mid \in 0 .. n - 1  BY <1>1
      <4>2. q = mid \/ ElementAt(list, mid) < ElementAt(list, q)  BY <1>3, <4>1
      <4>. QED  BY <1>3, <1>6, <4>1, <4>2
    <3>. QED  BY <3>1
  <2>2. on[1] = first /\ on[2] = mid - 1  BY <1>6
  <2>3. mid - 1 # n - 2  BY <1>1
  <2>4. Around(list, target, on)  BY <1>1, <1>4, <2>1, <2>2, <2>3 DEF Around
  <2>. QED  BY <1>1, <1>2, <2>2, <2>4
<1>. QED  BY <1>1, <1>2, <1>5, <1>6, GoesOnWithin

LEMMA StopsWell ==
  ASSUME NEW list \in Seq(Int), NEW target \in Int, Sorted(list),
         NEW range \in Ending(list, target), Around(list, target, range)
  PROVE  EndsWell(list, target, Found(list, target)[range])
<1>0. PICK n, first, last, mid, id :
        /\ n = Len(list) /\ first = range[1] /\ last = range[2] /\ mid = Mid(range)
        /\ id = ElementAt(list, mid)
  OBVIOUS
<1>1. /\ n = Len(list) /\ first = range[1] /\ last = range[2] /\ mid = Mid(range)
      /\ id = ElementAt(list, mid) /\ id \in Int
      /\ n \in Nat /\ first \in 0 .. n - 1 /\ last \in 0 .. n - 1 /\ mid \in first .. last
  <2>1. range \in Ranges(list)  BY DEF Ending
  <2>. QED  BY <1>0, <2>1, MiddleIsWithin
<1>2. id = target \/ (id < target /\ mid + 1 > last) \/ (id > target /\ first > mid - 1)
  BY <1>1 DEF Ending
<1>3. /\ last # n - 2
      /\ \A q \in 0 .. first - 1 : ElementAt(list, q) < target
      /\ \A q \in last + 1 .. n - 1 : ElementAt(list, q) > target
  BY <1>1 DEF Around
<1>4. PICK end : end = Found(list, target)[range]  OBVIOUS
<1>5. end.mid = mid /\ end.id = id  BY <1>1, <1>4 DEF Found
<1>6. id < target => mid = last  BY <1>1, <1>2
<1>7. id > target => mid = first  BY <1>1, <1>2
<1>8. EndsWell(list, target, end)
  <2>1. mid \in 0 .. n - 1  BY <1>1
  <2>2. ASSUME id < target
        PROVE  mid # n - 2 /\ \A q \in mid + 1 .. n - 1 : ElementAt(list, q) > target
    BY <1>3, <1>6, <2>2
  <2>3. ASSUME id > target
        PROVE  \A q \in 0 .. mid - 1 : ElementAt(list, q) < target
    BY <1>3, <1>7, <2>3
  <2>. QED  BY <1>1, <1>5, <2>1, <2>2, <2>3 DEF EndsWell
<1>. QED  BY <1>4, <1>8

(* The last probe of the binary search by id (messagelist.c), in a list of *)
(* any length that grows, is the id itself or one such that all ids behind *)
(* it, if it is too small, or before it, if it is too large, are on the    *)
(* other side.                                                             *)
THEOREM SearchEndsWell ==
  ASSUME NEW list \in Seq(Int), list # <<>>, NEW target \in Int, Sorted(list)
  PROVE  EndsWell(list, target, LastProbe(list, target))
<1>1. PICK p :
        /\ Follows(p, Ranges(list), Ending(list, target), Found(list, target), Onward(list, target))
        /\ LastProbe(list, target) = p[<<0, Len(list) - 1>>]
  BY ProbesExist
<1>. DEFINE Bad == {k \in Nat : \E range \in Ranges(list) :
                      /\ Around(list, target, range) /\ k = range[2] - range[1]
                      /\ ~EndsWell(list, target, p[range])}
<1>2. PICK n \in Nat : n = Len(list) /\ n > 0  BY LenProperties, EmptySeq
<1>3. ASSUME NEW range \in Ranges(list), Around(list, target, range)
      PROVE  range[2] - range[1] \in Nat
    BY <1>2, <1>3 DEF Ranges
<1>4. Bad = {}
  <2>1. SUFFICES ASSUME NEW k \in Bad, \A l \in Bad : k <= l  PROVE FALSE
    <3>1. Bad \in SUBSET Nat  OBVIOUS
    <3>. QED  BY <2>1, <3>1, LeastNumber
  <2>2. PICK range \in Ranges(list) :
          /\ Around(list, target, range) /\ k = range[2] - range[1]
          /\ ~EndsWell(list, target, p[range])
    OBVIOUS
  <2>3. range \notin Ending(list, target)
    <3>1. range \in Ending(list, target) => p[range] = Found(list, target)[range]
      BY <1>1 DEF Follows
    <3>. QED  BY <2>2, <3>1, StopsWell
  <2>4. PICK on \in Ranges(list) : on = Onward(list, target)[range]
    BY <2>3, GoesOnWithin
  <2>5. Around(list, target, on) /\ on[2] - on[1] < k
    BY <2>2, <2>3, <2>4, StaysAround
  <2>6. p[range] = p[on]  BY <1>1, <2>3, <2>4 DEF Follows
  <2>7. on[2] - on[1] \in Bad  BY <1>3, <2>2, <2>4, <2>5, <2>6
  <2>8. on[2] - on[1] \in Nat  BY <1>3, <2>4, <2>5
  <2>9. k \in Nat /\ k <= on[2] - on[1]  BY <2>1, <2>7
  <2>. QED  BY <2>5, <2>8, <2>9
<1>5. PICK all : all = <<0, n - 1>>  OBVIOUS
<1>6. all \in Ranges(list) /\ all[1] = 0 /\ all[2] = n - 1  BY <1>2, <1>5 DEF Ranges
<1>7. Around(list, target, all)  BY <1>2, <1>6 DEF Around
<1>8. all[2] - all[1] \in Nat  BY <1>2, <1>6
<1>9. EndsWell(list, target, p[all])  BY <1>4, <1>6, <1>7, <1>8
<1>. QED  BY <1>1, <1>2, <1>5, <1>9

(* In whatever order the list is, both searches stay within it.            *)
LEMMA ProbesAreWithin ==
  ASSUME NEW list \in Seq(Int), list # <<>>, NEW target \in Int
  PROVE  LastProbe(list, target) \in Results(list)
<1>1. PICK p :
        /\ Follows(p, Ranges(list), Ending(list, target), Found(list, target), Onward(list, target))
        /\ LastProbe(list, target) = p[<<0, Len(list) - 1>>]
  BY ProbesExist
<1>. DEFINE Width(range) == range[2] - range[1]
            Bad == {k \in Nat : \E range \in Ranges(list) :
                                  k = Width(range) /\ p[range] \notin Results(list)}
<1>2. PICK n \in Nat : n = Len(list) /\ n > 0  BY LenProperties, EmptySeq
<1>3. \A range \in Ranges(list) : Width(range) \in Nat  BY <1>2 DEF Ranges
<1>4. \A range \in Ending(list, target) : Found(list, target)[range] \in Results(list)
  <2>1. ASSUME NEW range \in Ending(list, target)
        PROVE  [mid |-> Mid(range), id |-> ElementAt(list, Mid(range))] \in Results(list)
    <3>1. range \in Ranges(list)  BY DEF Ending
    <3>2. Mid(range) \in 0 .. Len(list) - 1 /\ ElementAt(list, Mid(range)) \in Int
      BY <3>1, MiddleIsWithin
    <3>. QED  BY <3>2 DEF Results
  <2>. QED  BY <2>1 DEF Found
<1>5. ASSUME NEW range \in Ranges(list) \ Ending(list, target)
      PROVE  /\ Onward(list, target)[range] \in Ranges(list)
             /\ Width(Onward(list, target)[range]) < Width(range)
  <2>1. PICK first \in Int, last \in Int, mid \in Int :
          first = range[1] /\ last = range[2] /\ mid = Mid(range) /\ mid \in first .. last
    BY MiddleIsWithin
  <2>2. PICK on : on = Onward(list, target)[range]  OBVIOUS
  <2>3. on \in Ranges(list) /\ (on = <<mid + 1, last>> \/ on = <<first, mid - 1>>)
    BY <2>1, <2>2, GoesOnWithin
  <2>4. CASE on = <<mid + 1, last>>
    <3>1. on[1] = mid + 1 /\ on[2] = last  BY <2>4
    <3>2. Width(on) < Width(range)  BY <2>1, <3>1
    <3>. QED  BY <2>2, <2>3, <3>2
  <2>5. CASE on = <<first, mid - 1>>
    <3>1. on[1] = first /\ on[2] = mid - 1  BY <2>5
    <3>2. Width(on) < Width(range)  BY <2>1, <3>1
    <3>. QED  BY <2>2, <2>3, <3>2
  <2>. QED  BY <2>3, <2>4, <2>5
<1>. HIDE DEF Width
<1>6. Bad = {}
  <2>1. SUFFICES ASSUME NEW k \in Bad, \A l \in Bad : k <= l  PROVE FALSE
    <3>1. Bad \in SUBSET Nat  OBVIOUS
    <3>. QED  BY <2>1, <3>1, LeastNumber
  <2>2. PICK range \in Ranges(list) : k = Width(range) /\ p[range] \notin Results(list)
    OBVIOUS
  <2>3. range \notin Ending(list, target)  BY <1>1, <1>4, <2>2 DEF Follows
  <2>4. PICK on \in Ranges(list) : on = Onward(list, target)[range] /\ Width(on) < k
    BY <1>5, <2>2, <2>3
  <2>5. p[range] = p[on]  BY <1>1, <2>3, <2>4 DEF Follows
  <2>6. Width(on) \in Bad /\ Width(on) \in Nat /\ k \in Nat  BY <1>3, <2>2, <2>4, <2>5
  <2>. QED  BY <2>1, <2>4, <2>6
<1>7. PICK all : all = <<0, n - 1>>  OBVIOUS
<1>8. all \in Ranges(list)  BY <1>2, <1>7 DEF Ranges
<1>9. p[all] \in Results(list)
  <2>1. Width(all) \in Nat /\ Width(all) \notin Bad  BY <1>3, <1>6, <1>8
  <2>. QED  BY <1>8, <2>1
<1>. QED  BY <1>1, <1>2, <1>7, <1>9

LEMMA NearestIsWithin ==
  ASSUME NEW list \in Seq(Int), list # <<>>, NEW target \in Int
  PROVE  NearestToMsgid(list, target) \in 0 .. Len(list) - 1
<1>1. PICK n \in Nat : n = Len(list)  BY LenProperties
<1>2. PICK end \in Results(list) : end = LastProbe(list, target)  BY ProbesAreWithin
<1>3. end.mid \in 0 .. n - 1  BY <1>1, <1>2 DEF Results
<1>. QED  BY <1>1, <1>2, <1>3 DEF NearestToMsgid

(* Both searches in a growing list of any length land where they should.   *)
THEOREM IndexIsExact ==
  ASSUME NEW list \in Seq(Int), NEW target \in Int, Sorted(list)
  PROVE  IndexByIdIsExact(list, target)
<1>1. PICK n \in Nat : n = Len(list) /\ DOMAIN list = 1 .. n  BY LenProperties
<1>2. \A q \in 0 .. n - 1 : ElementAt(list, q) \in ToSet(list)
  <2>1. \A q \in 0 .. n - 1 : q + 1 \in DOMAIN list  BY <1>1
  <2>. QED  BY <2>1 DEF ElementAt, ToSet
<1>3. CASE list = <<>>
  <2>1. ToSet(list) = {}  BY <1>3 DEF ToSet
  <2>. QED  BY <1>3, <2>1 DEF IndexByIdIsExact, IndexById
<1>4. CASE list # <<>>
  <2>1. PICK end : end = LastProbe(list, target)  OBVIOUS
  <2>2. EndsWell(list, target, end)  BY <1>4, <2>1, SearchEndsWell
  <2>3. end.mid \in 0 .. n - 1 /\ end.id = ElementAt(list, end.mid)
    BY <1>1, <2>2 DEF EndsWell
  <2>4. CASE end.id = target
    <3>1. IndexById(list, target) = end.mid  BY <1>4, <2>1, <2>4 DEF IndexById
    <3>2. target \in ToSet(list)  BY <1>2, <2>3, <2>4
    <3>3. InList(list, end.mid)  BY <1>1, <2>3 DEF InList
    <3>. QED  BY <2>3, <2>4, <3>1, <3>2, <3>3 DEF IndexByIdIsExact
  <2>5. CASE end.id # target
    <3>1. IndexById(list, target) = -1  BY <1>4, <2>1, <2>5 DEF IndexById
    <3>2. SUFFICES ASSUME target \in ToSet(list)  PROVE FALSE
      BY <3>1 DEF IndexByIdIsExact
    <3>3. PICK i \in 1 .. n : target = list[i]  BY <1>1, <3>2 DEF ToSet
    <3>4. PICK q \in 0 .. n - 1 : target = ElementAt(list, q)
      <4>1. i - 1 \in 0 .. n - 1 /\ (i - 1) + 1 = i  BY <1>1
      <4>. QED  BY <3>3, <4>1 DEF ElementAt
    <3>5. end.id \in Int  BY <1>1, <2>3, SortedPositions
    <3>6. q # end.mid  BY <2>3, <2>5, <3>4
    <3>7. CASE end.id < target
      <4>1. \A r \in end.mid + 1 .. n - 1 : ElementAt(list, r) > target
        BY <1>1, <2>2, <3>7 DEF EndsWell
      <4>2. q < end.mid => target < end.id
        BY <1>1, <2>3, <3>4, SortedPositions
      <4>3. q \in end.mid + 1 .. n - 1  BY <1>1, <2>3, <3>5, <3>6, <3>7, <4>2
      <4>. QED  BY <3>4, <4>1, <4>3
    <3>8. CASE end.id > target
      <4>1. \A r \in 0 .. end.mid - 1 : ElementAt(list, r) < target
        BY <1>1, <2>2, <3>8 DEF EndsWell
      <4>2. end.mid < q => end.id < target
        BY <1>1, <2>3, <3>4, SortedPositions
      <4>3. q \in 0 .. end.mid - 1  BY <1>1, <2>3, <3>5, <3>6, <3>8, <4>2
      <4>. QED  BY <3>4, <4>1, <4>3
    <3>. QED  BY <2>5, <3>5, <3>7, <3>8
  <2>. QED  BY <2>4, <2>5
<1>. QED  BY <1>3, <1>4

(* The message that is nearest by its id (view.c), in a list of any        *)
(* length, is what the search for the nearest returns.                     *)
THEOREM NearestIsExact ==
  ASSUME NEW list \in Seq(Int), NEW target \in Int, Sorted(list)
  PROVE  NearestIsClosest(list, target)
<1>1. PICK n \in Nat : n = Len(list) /\ DOMAIN list = 1 .. n  BY LenProperties
<1>2. CASE list = <<>>
  <2>1. LastProbe(list, target) = [mid |-> 0, id |-> 0] /\ Len(list) = 0
    BY <1>2 DEF LastProbe
  <2>2. NearestToMsgid(list, target) = 0  BY <2>1 DEF NearestToMsgid
  <2>. QED  BY <1>2, <2>2 DEF NearestIsClosest
<1>3. CASE list # <<>>
  <2>1. PICK end, mid, id : end = LastProbe(list, target) /\ mid = end.mid /\ id = end.id
    OBVIOUS
  <2>2. /\ mid \in 0 .. n - 1 /\ id = ElementAt(list, mid) /\ id \in Int
        /\ id < target => /\ \A q \in mid + 1 .. n - 1 : ElementAt(list, q) > target
                          /\ mid # n - 2
        /\ id > target => \A q \in 0 .. mid - 1 : ElementAt(list, q) < target
    <3>1. EndsWell(list, target, end)  BY <1>3, <2>1, SearchEndsWell
    <3>. QED  BY <1>1, <2>1, <3>1, SortedPositions DEF EndsWell
  <2>3. /\ \A q \in 0 .. n - 1 : ElementAt(list, q) \in Int
        /\ \A p, q \in 0 .. n - 1 : p < q => ElementAt(list, p) < ElementAt(list, q)
    BY <1>1, SortedPositions
  <2>4. PICK near : near = NearestToMsgid(list, target)  OBVIOUS
  <2>5. near = IF id < target /\ mid + 1 < n - 1
                 THEN IF Distance(target, id) < Distance(target, ElementAt(list, mid + 1))
                      THEN mid ELSE mid + 1
               ELSE IF id > target /\ mid - 1 >= 0
                 THEN IF Distance(target, id) < Distance(target, ElementAt(list, mid - 1))
                      THEN mid ELSE mid - 1
               ELSE mid
    BY <1>1, <2>1, <2>4 DEF NearestToMsgid
  <2>6. SUFFICES /\ near \in 0 .. n - 1
                 /\ \A q \in 0 .. n - 1 : Distance(target, ElementAt(list, near))
                                            <= Distance(target, ElementAt(list, q))
    <3>1. \A i \in DOMAIN list : i - 1 \in 0 .. n - 1 /\ list[i] = ElementAt(list, i - 1)
      BY <1>1 DEF ElementAt
    <3>2. near \in 0 .. n - 1 => InList(list, near)  BY <1>1 DEF InList
    <3>. QED  BY <1>1, <1>3, <2>4, <2>6, <3>1, <3>2 DEF NearestIsClosest
  <2>7. CASE id = target
    <3>1. near = mid  BY <2>2, <2>5, <2>7
    <3>2. \A q \in 0 .. n - 1 : 0 <= Distance(target, ElementAt(list, q))
      BY <2>3 DEF Distance
    <3>3. Distance(target, id) = 0  BY <2>7 DEF Distance
    <3>. QED  BY <2>2, <3>1, <3>2, <3>3
  <2>8. CASE id < target
    <3>1. ASSUME NEW q \in 0 .. mid  PROVE Distance(target, id) <= Distance(target, ElementAt(list, q))
      <4>1. q \in 0 .. n - 1 /\ (q = mid \/ ElementAt(list, q) < id)  BY <1>1, <2>2, <2>3
      <4>. QED  BY <2>2, <2>3, <2>8, <4>1 DEF Distance
    <3>2. CASE mid = n - 1
      BY <1>1, <2>2, <2>5, <2>8, <3>1, <3>2
    <3>3. CASE mid # n - 1
      <4>1. mid + 1 < n - 1 /\ mid + 1 \in 0 .. n - 1  BY <1>1, <2>2, <2>8, <3>3
      <4>2. ASSUME NEW q \in mid + 1 .. n - 1
            PROVE  Distance(target, ElementAt(list, mid + 1)) <= Distance(target, ElementAt(list, q))
        <5>1. q \in 0 .. n - 1  BY <1>1, <2>2
        <5>2. q = mid + 1 \/ ElementAt(list, mid + 1) < ElementAt(list, q)
          BY <2>2, <2>3, <4>1, <5>1
        <5>3. ElementAt(list, mid + 1) > target /\ ElementAt(list, q) > target
          BY <2>2, <2>8, <4>1
        <5>. QED  BY <2>3, <4>1, <5>1, <5>2, <5>3 DEF Distance
      <4>3. /\ Distance(target, id) \in Int
            /\ \A q \in 0 .. n - 1 : Distance(target, ElementAt(list, q)) \in Int
        BY <2>2, <2>3 DEF Distance
      <4>4. \A q \in 0 .. n - 1 : q \in 0 .. mid \/ q \in mid + 1 .. n - 1  BY <2>2
      <4>. QED  BY <2>2, <2>5, <2>8, <3>1, <4>1, <4>2, <4>3, <4>4
    <3>. QED  BY <3>2, <3>3
  <2>9. CASE id > target
    <3>1. ASSUME NEW q \in mid .. n - 1
          PROVE  Distance(target, id) <= Distance(target, ElementAt(list, q))
      <4>1. q \in 0 .. n - 1 /\ (q = mid \/ id < ElementAt(list, q))  BY <1>1, <2>2, <2>3
      <4>. QED  BY <2>2, <2>3, <2>9, <4>1 DEF Distance
    <3>2. CASE mid = 0
      BY <1>1, <2>2, <2>5, <2>9, <3>1, <3>2
    <3>3. CASE mid # 0
      <4>1. mid - 1 >= 0 /\ mid - 1 \in 0 .. n - 1  BY <1>1, <2>2, <3>3
      <4>2. ASSUME NEW q \in 0 .. mid - 1
            PROVE  Distance(target, ElementAt(list, mid - 1)) <= Distance(target, ElementAt(list, q))
        <5>1. q \in 0 .. n - 1  BY <1>1, <2>2
        <5>2. q = mid - 1 \/ ElementAt(list, q) < ElementAt(list, mid - 1)
          BY <2>2, <2>3, <4>1, <5>1
        <5>3. ElementAt(list, mid - 1) < target /\ ElementAt(list, q) < target
          BY <2>2, <2>9, <4>1
        <5>. QED  BY <2>3, <4>1, <5>1, <5>2, <5>3 DEF Distance
      <4>3. /\ Distance(target, id) \in Int
            /\ \A q \in 0 .. n - 1 : Distance(target, ElementAt(list, q)) \in Int
        BY <2>2, <2>3 DEF Distance
      <4>4. \A q \in 0 .. n - 1 : q \in 0 .. mid - 1 \/ q \in mid .. n - 1  BY <2>2
      <4>. QED  BY <2>2, <2>5, <2>9, <3>1, <4>1, <4>2, <4>3, <4>4
    <3>. QED  BY <3>2, <3>3
  <2>. QED  BY <2>2, <2>7, <2>8, <2>9
<1>. QED  BY <1>2, <1>3

-----------------------------------------------------------------------------
(* The least and the greatest of a set of positions.                       *)
LEMMA LeastIsOfSet ==
  ASSUME NEW S \in SUBSET Nat, S # {}
  PROVE  Min(S) \in S /\ \A y \in S : Min(S) <= y
<1>1. \E x \in S : \A y \in S : x =< y  BY LeastNumber
<1>. QED  BY <1>1 DEF Min

LEMMA GreatestIsOfSet ==
  ASSUME NEW n \in Nat, NEW S \in SUBSET (0 .. n), S # {}
  PROVE  Max(S) \in S /\ \A y \in S : y <= Max(S)
<1>. DEFINE Below == {n - x : x \in S}
<1>1. Below \in SUBSET Nat /\ Below # {}
  <2>1. \A x \in S : n - x \in Nat  OBVIOUS
  <2>2. PICK x : x \in S  OBVIOUS
  <2>3. n - x \in Below  BY <2>2
  <2>. QED  BY <2>1, <2>3
<1>2. PICK least \in Below : \A y \in Below : least <= y  BY <1>1, LeastNumber
<1>3. PICK x \in S : least = n - x  BY <1>2
<1>4. \A y \in S : x >= y
  <2>1. ASSUME NEW y \in S  PROVE x >= y
    <3>1. n - y \in Below  OBVIOUS
    <3>2. n - x <= n - y  BY <1>2, <1>3, <3>1
    <3>3. x \in Int /\ y \in Int  OBVIOUS
    <3>. QED  BY <3>2, <3>3
  <2>. QED  BY <2>1
<1>5. \E z \in S : \A y \in S : z >= y  BY <1>4
<1>6. Max(S) \in S /\ \A y \in S : Max(S) >= y  BY <1>5 DEF Max
<1>. QED  BY <1>6

-----------------------------------------------------------------------------
(* The lines before each position of a view, of which the lines between    *)
(* two positions are the difference.                                       *)
Sums(P, ls, n) ==
  /\ P \in [0 .. n -> Nat] /\ P[0] = 0
  /\ \A p \in 1 .. n : P[p] = P[p - 1] + LinesAt(ls, p - 1)

LEMMA LinesAreNumbers ==
  ASSUME NEW ls \in Seq(Nat \ {0}), NEW p \in Int
  PROVE  /\ LinesAt(ls, p) \in Nat
         /\ p \in 0 .. Len(ls) - 1 => LinesAt(ls, p) > 0
<1>1. PICK n \in Nat : n = Len(ls) /\ DOMAIN ls = 1 .. n  BY LenProperties
<1>2. \A i \in 1 .. n : ls[i] \in Nat \ {0}  BY <1>1, ElementOfSeq
<1>3. p \in 0 .. n - 1 => p + 1 \in 1 .. n  OBVIOUS
<1>. QED  BY <1>1, <1>2, <1>3 DEF LinesAt

LEMMA SumsExist ==
  ASSUME NEW ls \in Seq(Nat \ {0}), NEW n \in Nat
  PROVE  \E P : Sums(P, ls, n)
<1>. DEFINE Bad == {m \in Nat : ~ \E P : Sums(P, ls, m)}
<1>1. SUFFICES ASSUME NEW m \in Bad, \A l \in Bad : m <= l  PROVE FALSE
  <2>1. Bad \in SUBSET Nat  OBVIOUS
  <2>. QED  BY <1>1, <2>1, LeastNumber
<1>2. m # 0
  <2>1. PICK P : P = [p \in 0 .. 0 |-> 0]  OBVIOUS
  <2>2. Sums(P, ls, 0)  BY <2>1 DEF Sums
  <2>. QED  BY <2>2
<1>3. m - 1 \in Nat /\ m - 1 \notin Bad  BY <1>1, <1>2
<1>4. PICK P : Sums(P, ls, m - 1)  BY <1>3
<1>5. PICK more \in Nat : more = LinesAt(ls, m - 1)  BY <1>3, LinesAreNumbers
<1>6. PICK Q : Q = [p \in 0 .. m |-> IF p = m THEN P[m - 1] + more ELSE P[p]]  OBVIOUS
<1>7. Sums(Q, ls, m)
  <2>1. P \in [0 .. m - 1 -> Nat] /\ P[0] = 0
        /\ \A p \in 1 .. m - 1 : P[p] = P[p - 1] + LinesAt(ls, p - 1)
    BY <1>4 DEF Sums
  <2>2. \A p \in 0 .. m - 1 : P[p] \in Nat /\ Q[p] = P[p]  BY <1>6, <2>1
  <2>3. Q[m] = P[m - 1] + more /\ Q[m] \in Nat /\ Q[m - 1] = P[m - 1]
    BY <1>3, <1>6, <2>1
  <2>4. Q \in [0 .. m -> Nat]  BY <1>6, <2>2, <2>3
  <2>5. ASSUME NEW p \in 1 .. m  PROVE Q[p] = Q[p - 1] + LinesAt(ls, p - 1)
    <3>1. CASE p = m  BY <1>5, <2>3, <3>1
    <3>2. CASE p # m
      <4>1. p \in 1 .. m - 1 /\ p - 1 \in 0 .. m - 1  BY <1>3, <3>2
      <4>. QED  BY <2>1, <2>2, <4>1
    <3>. QED  BY <3>1, <3>2
  <2>6. Q[0] = 0  BY <1>3, <2>1, <2>2
  <2>. QED  BY <2>4, <2>5, <2>6 DEF Sums
<1>. QED  BY <1>7

LEMMA LinesAreDifference ==
  ASSUME NEW ls \in Seq(Nat \ {0}), NEW n \in Nat, NEW P, Sums(P, ls, n),
         NEW a \in 0 .. n, NEW b \in a - 1 .. n - 1
  PROVE  LinesFromTo(ls, a, b) = P[b + 1] - P[a]
<1>0. /\ \A p \in 0 .. n : P[p] \in Nat
      /\ \A p \in 1 .. n : P[p] = P[p - 1] + LinesAt(ls, p - 1)
  BY DEF Sums
<1>1. CASE b < a
  <2>1. b + 1 = a  BY <1>1
  <2>2. LinesFromTo(ls, a, b) = 0  BY <1>1 DEF LinesFromTo
  <2>. QED  BY <1>0, <2>1, <2>2
<1>2. CASE a <= b
  <2>. DEFINE D == a - 1 .. b
              Step(s, p) == IF p < a THEN 0 ELSE s[p - 1] + LinesAt(ls, p)
  <2>1. PICK g : g = [p \in D |-> P[p + 1] - P[a]]  OBVIOUS
  <2>2. ASSUME NEW p \in D  PROVE g[p] = Step(g, p)
    <3>1. CASE p < a
      <4>1. p + 1 = a  BY <3>1
      <4>. QED  BY <1>0, <2>1, <3>1, <4>1
    <3>2. CASE a <= p
      <4>1. p - 1 \in D /\ p + 1 \in 1 .. n /\ (p - 1) + 1 = p /\ (p + 1) - 1 = p
            /\ p \in 0 .. n
        BY <3>2
      <4>2. g[p - 1] = P[p] - P[a] /\ g[p] = P[p + 1] - P[a]  BY <2>1, <4>1
      <4>3. P[p + 1] = P[p] + LinesAt(ls, p)  BY <1>0, <4>1
      <4>4. P[p] \in Nat /\ P[p + 1] \in Nat /\ P[a] \in Nat  BY <1>0, <4>1
      <4>5. LinesAt(ls, p) \in Nat  BY LinesAreNumbers
      <4>. QED  BY <3>2, <4>2, <4>3, <4>4, <4>5
    <3>. QED  BY <3>1, <3>2
  <2>3. g = [p \in D |-> Step(g, p)]  BY <2>1, <2>2
  <2>4. PICK s : s = CHOOSE f : f = [p \in D |-> Step(f, p)]  OBVIOUS
  <2>5. s = [p \in D |-> Step(s, p)]  BY <2>3, <2>4
  <2>6. \A p \in D : s[p] = g[p]
    <3>. DEFINE Bad == {k \in Nat : k + a - 1 \in D /\ s[k + a - 1] # g[k + a - 1]}
    <3>1. Bad = {}
      <4>1. SUFFICES ASSUME NEW k \in Bad, \A l \in Bad : k <= l  PROVE FALSE
        <5>1. Bad \in SUBSET Nat  OBVIOUS
        <5>. QED  BY <4>1, <5>1, LeastNumber
      <4>2. PICK p \in D : p = k + a - 1 /\ s[p] # g[p]  OBVIOUS
      <4>3. s[p] = Step(s, p) /\ g[p] = Step(g, p)  BY <2>2, <2>5
      <4>4. ~(p < a)  BY <4>2, <4>3
      <4>5. p - 1 \in D /\ k - 1 \in Nat /\ (k - 1) + a - 1 = p - 1  BY <4>2, <4>4
      <4>6. s[p - 1] # g[p - 1]  BY <4>2, <4>3, <4>4
      <4>7. k - 1 \in Bad  BY <4>5, <4>6
      <4>. QED  BY <4>1, <4>7
    <3>2. ASSUME NEW p \in D  PROVE s[p] = g[p]
      <4>1. p - a + 1 \in Nat /\ (p - a + 1) + a - 1 = p  OBVIOUS
      <4>. QED  BY <3>1, <4>1
    <3>. QED  BY <3>2
  <2>7. LinesFromTo(ls, a, b) = s[b]  BY <1>2, <2>4 DEF LinesFromTo
  <2>8. b \in D  BY <1>2
  <2>. QED  BY <2>1, <2>6, <2>7, <2>8
<1>. QED  BY <1>1, <1>2

LEMMA SumsGrow ==
  ASSUME NEW ls \in Seq(Nat \ {0}), NEW n \in Nat, NEW P, Sums(P, ls, n),
         NEW p \in 0 .. n, NEW q \in p .. n
  PROVE  P[p] <= P[q]
<1>0. /\ \A r \in 0 .. n : P[r] \in Nat
      /\ \A r \in 1 .. n : P[r] = P[r - 1] + LinesAt(ls, r - 1)
  BY DEF Sums
<1>. DEFINE Bad == {k \in Nat : k \in p .. n /\ P[k] < P[p]}
<1>1. Bad = {}
  <2>1. SUFFICES ASSUME NEW k \in Bad, \A l \in Bad : k <= l  PROVE FALSE
    <3>1. Bad \in SUBSET Nat  OBVIOUS
    <3>. QED  BY <2>1, <3>1, LeastNumber
  <2>2. k \in p .. n /\ P[k] < P[p] /\ k # p /\ k \in Nat
    <3>1. P[p] \in Nat  BY <1>0
    <3>. QED  BY <3>1
  <2>3. k - 1 \in p .. n /\ k \in 1 .. n /\ k - 1 \in Nat  BY <2>2
  <2>4. P[k] = P[k - 1] + LinesAt(ls, k - 1) /\ LinesAt(ls, k - 1) \in Nat
    BY <1>0, <2>3, LinesAreNumbers
  <2>5. P[k - 1] \in Nat /\ P[k] \in Nat /\ P[p] \in Nat  BY <1>0, <2>2, <2>3
  <2>6. P[k - 1] < P[p]  BY <2>2, <2>4, <2>5
  <2>7. k - 1 \in Bad  BY <2>3, <2>6
  <2>. QED  BY <2>1, <2>2, <2>7
<1>2. q \in Nat /\ P[q] \in Nat /\ P[p] \in Nat  BY <1>0
<1>. QED  BY <1>1, <1>2

(* A view, the position of the cursor in it, which may be past the end,    *)
(* and a window with a line.                                               *)
Scene(ls, cur, win) ==
  ls \in Seq(Nat \ {0}) /\ cur \in 0 .. Len(ls) /\ win \in Nat \ {0}

(* Where the top of the screen is to be for the cursor to be seen, or past *)
(* the end.                                                                *)
Seen(ls, cur, t, win) == t \in 0 .. cur /\ (cur < Len(ls) => OnScreen(ls, cur, t, win))

(* The message at the cursor fits, and is shown whole.                     *)
Whole(ls, cur, t, win) == LinesAt(ls, cur) <= win => LinesFromTo(ls, t, cur) <= win

(* What the modes know of the lines.                                       *)
LEMMA LinesAddUp ==
  ASSUME NEW ls, NEW cur, NEW win, Scene(ls, cur, win)
  PROVE  \E P \in [0 .. cur -> Nat], h \in Nat :
           /\ \A p \in 0 .. cur : /\ LinesFromTo(ls, p, cur - 1) = P[cur] - P[p]
                                 /\ LinesFromTo(ls, p, cur) = P[cur] - P[p] + h
                                 /\ \A q \in p .. cur : P[p] <= P[q]
           /\ h = LinesAt(ls, cur) /\ (cur < Len(ls) => h > 0)
<1>1. PICK n \in Nat : n = Len(ls)  BY LenProperties DEF Scene
<1>2. ls \in Seq(Nat \ {0}) /\ cur \in 0 .. n  BY <1>1 DEF Scene
<1>3. PICK R : Sums(R, ls, cur + 1)  BY <1>2, SumsExist
<1>4. R \in [0 .. cur + 1 -> Nat] /\ R[cur + 1] = R[(cur + 1) - 1] + LinesAt(ls, (cur + 1) - 1)
  BY <1>2, <1>3 DEF Sums
<1>5. PICK P : P = [p \in 0 .. cur |-> R[p]]  OBVIOUS
<1>6. PICK h : h = LinesAt(ls, cur)  OBVIOUS
<1>7. h \in Nat /\ (cur < n => h > 0)  BY <1>1, <1>2, <1>6, LinesAreNumbers
<1>8. P \in [0 .. cur -> Nat] /\ \A p \in 0 .. cur : P[p] = R[p] /\ R[p] \in Nat
  BY <1>2, <1>4, <1>5
<1>9. R[cur + 1] = R[cur] + h
  <2>1. (cur + 1) - 1 = cur  BY <1>2
  <2>. QED  BY <1>4, <1>6, <2>1
<1>10. ASSUME NEW p \in 0 .. cur
       PROVE  /\ LinesFromTo(ls, p, cur - 1) = P[cur] - P[p]
              /\ LinesFromTo(ls, p, cur) = P[cur] - P[p] + h
              /\ \A q \in p .. cur : P[p] <= P[q]
  <2>1. p \in 0 .. cur + 1 /\ cur + 1 \in Nat /\ cur \in p .. cur  BY <1>2
  <2>2. \A q \in p - 1 .. cur : LinesFromTo(ls, p, q) = R[q + 1] - R[p]
    <3>1. ASSUME NEW q \in p - 1 .. cur  PROVE LinesFromTo(ls, p, q) = R[q + 1] - R[p]
      <4>1. q \in p - 1 .. (cur + 1) - 1  BY <1>2
      <4>. QED  BY <1>2, <1>3, <2>1, <4>1, LinesAreDifference
    <3>. QED  BY <3>1
  <2>3. \A q \in p .. cur : R[p] <= R[q]
    <3>1. ASSUME NEW q \in p .. cur  PROVE R[p] <= R[q]
      <4>1. q \in p .. cur + 1  BY <1>2
      <4>. QED  BY <1>2, <1>3, <2>1, <4>1, SumsGrow
    <3>. QED  BY <3>1
  <2>4. LinesFromTo(ls, p, cur - 1) = R[cur] - R[p]
    <3>1. cur - 1 \in p - 1 .. cur /\ (cur - 1) + 1 = cur  BY <1>2
    <3>. QED  BY <2>2, <3>1
  <2>5. LinesFromTo(ls, p, cur) = R[cur] - R[p] + h
    <3>1. LinesFromTo(ls, p, cur) = R[cur + 1] - R[p]  BY <2>2, <1>2
    <3>2. R[cur] \in Nat /\ R[p] \in Nat  BY <1>2, <1>8, <2>1
    <3>. QED  BY <1>7, <1>9, <3>1, <3>2
  <2>6. P[p] = R[p] /\ P[cur] = R[cur] /\ \A q \in p .. cur : P[q] = R[q]
    <3>1. \A q \in p .. cur : q \in 0 .. cur  BY <1>2
    <3>. QED  BY <1>2, <1>8, <2>1, <3>1
  <2>. QED  BY <2>3, <2>4, <2>5, <2>6
<1>. QED  BY <1>1, <1>6, <1>7, <1>8, <1>10

LEMMA CenterIsSeen ==
  ASSUME NEW ls, NEW cur, NEW win, Scene(ls, cur, win)
  PROVE  /\ Seen(ls, cur, CalculateTopmsgCenter(ls, cur, win), win)
         /\ LinesFromTo(ls, CalculateTopmsgCenter(ls, cur, win), cur - 1) <= win \div 2
<1>1. cur \in Nat /\ win \in Nat \ {0}
  BY LenProperties DEF Scene
<1>2. PICK P \in [0 .. cur -> Nat], h \in Nat :
        \A p \in 0 .. cur : LinesFromTo(ls, p, cur - 1) = P[cur] - P[p]
  BY LinesAddUp
<1>. DEFINE S == {p \in 0 .. cur : LinesFromTo(ls, p, cur - 1) <= win \div 2}
<1>3. cur \in S
  <2>1. LinesFromTo(ls, cur, cur - 1) = 0  BY <1>1, <1>2
  <2>. QED  BY <1>1, <2>1
<1>4. Min(S) \in S
  <2>1. S \in SUBSET Nat  BY <1>1
  <2>. QED  BY <1>3, <2>1, LeastIsOfSet
<1>5. win \div 2 < win  BY <1>1
<1>. HIDE DEF S
<1>6. CalculateTopmsgCenter(ls, cur, win) = Min(S)  BY DEF CalculateTopmsgCenter, S
<1>7. PICK t \in 0 .. cur : t = Min(S) /\ LinesFromTo(ls, t, cur - 1) <= win \div 2
  BY <1>4 DEF S
<1>8. LinesFromTo(ls, t, cur - 1) < win
  <2>1. LinesFromTo(ls, t, cur - 1) \in Int  BY <1>1, <1>2
  <2>. QED  BY <1>1, <1>5, <1>7, <2>1
<1>. QED  BY <1>1, <1>6, <1>7, <1>8 DEF Seen, OnScreen

(* A top from which the lines down to the cursor fit the window.           *)
LEMMA FittingIsSeen ==
  ASSUME NEW ls, NEW cur, NEW win, Scene(ls, cur, win),
         NEW t \in 0 .. cur, LinesFromTo(ls, t, cur) <= win
  PROVE  Seen(ls, cur, t, win)
<1>1. cur \in Nat /\ win \in Nat \ {0}
  BY LenProperties DEF Scene
<1>2. PICK P \in [0 .. cur -> Nat], h \in Nat :
        /\ \A p \in 0 .. cur : /\ LinesFromTo(ls, p, cur - 1) = P[cur] - P[p]
                              /\ LinesFromTo(ls, p, cur) = P[cur] - P[p] + h
        /\ (cur < Len(ls) => h > 0)
  BY LinesAddUp
<1>3. cur < Len(ls) => LinesFromTo(ls, t, cur - 1) < win  BY <1>1, <1>2
<1>. QED  BY <1>1, <1>3 DEF Seen, OnScreen

(* The cursor at the top.                                                  *)
LEMMA TopIsSeen ==
  ASSUME NEW ls, NEW cur, NEW win, Scene(ls, cur, win)
  PROVE  Seen(ls, cur, cur, win) /\ Whole(ls, cur, cur, win) /\ cur \in 0 .. cur
<1>1. cur \in Nat /\ win \in Nat \ {0}
  BY LenProperties DEF Scene
<1>2. PICK P \in [0 .. cur -> Nat], h \in Nat :
        /\ \A p \in 0 .. cur : /\ LinesFromTo(ls, p, cur - 1) = P[cur] - P[p]
                              /\ LinesFromTo(ls, p, cur) = P[cur] - P[p] + h
        /\ h = LinesAt(ls, cur)
  BY LinesAddUp
<1>3. cur \in 0 .. cur  BY <1>1
<1>4. LinesFromTo(ls, cur, cur - 1) = 0 /\ LinesFromTo(ls, cur, cur) = h  BY <1>1, <1>2, <1>3
<1>. QED  BY <1>1, <1>2, <1>3, <1>4 DEF Seen, OnScreen, Whole

LEMMA NeartopIsSeen ==
  ASSUME NEW ls, NEW cur, NEW win, Scene(ls, cur, win)
  PROVE  Seen(ls, cur, CalculateTopmsgNeartop(ls, cur, win), win)
<1>1. ls \in Seq(Nat \ {0}) /\ cur \in Nat /\ win \in Nat \ {0}
  BY LenProperties DEF Scene
<1>2. CASE cur > 0 /\ LinesAt(ls, cur - 1) < win \div 2
  <2>1. PICK more \in Nat : more = LinesAt(ls, cur - 1)  BY <1>1, LinesAreNumbers
  <2>2. LinesFromTo(ls, cur - 1, cur - 1) = more
    <3>1. PICK R : Sums(R, ls, cur)  BY <1>1, SumsExist
    <3>2. R[cur] = R[cur - 1] + more /\ R[cur] \in Nat /\ R[cur - 1] \in Nat
      BY <1>1, <1>2, <2>1, <3>1 DEF Sums
    <3>3. cur - 1 \in 0 .. cur /\ cur - 1 \in (cur - 1) - 1 .. cur - 1  BY <1>1, <1>2
    <3>4. LinesFromTo(ls, cur - 1, cur - 1) = R[(cur - 1) + 1] - R[cur - 1]
      BY <1>1, <3>1, <3>3, LinesAreDifference
    <3>5. (cur - 1) + 1 = cur  BY <1>1
    <3>. QED  BY <3>2, <3>4, <3>5
  <2>3. more < win  BY <1>1, <1>2, <2>1
  <2>4. CalculateTopmsgNeartop(ls, cur, win) = cur - 1  BY <1>2 DEF CalculateTopmsgNeartop
  <2>. QED  BY <1>1, <1>2, <2>2, <2>3, <2>4 DEF Seen, OnScreen
<1>3. CASE ~(cur > 0 /\ LinesAt(ls, cur - 1) < win \div 2)
  <2>1. CalculateTopmsgNeartop(ls, cur, win) = cur  BY <1>3 DEF CalculateTopmsgNeartop
  <2>. QED  BY <2>1, TopIsSeen
<1>. QED  BY <1>2, <1>3

LEMMA PagedIsSeen ==
  ASSUME NEW ls, NEW cur, NEW win, Scene(ls, cur, win), NEW top \in Nat, NEW center
  PROVE  /\ Seen(ls, cur, CalculateTopmsgPaged(ls, cur, top, win, center), win)
         /\ ~center => Whole(ls, cur, CalculateTopmsgPaged(ls, cur, top, win, center), win)
<1>1. cur \in Nat /\ win \in Nat \ {0}
  BY LenProperties DEF Scene
<1>2. PICK t : t = CalculateTopmsgPaged(ls, cur, top, win, center)  OBVIOUS
<1>. DEFINE S == {cur} \cup {p \in 0 .. cur : LinesFromTo(ls, p, cur) <= win}
<1>3. Min(S) \in S
  <2>1. S \in SUBSET Nat /\ cur \in S  BY <1>1
  <2>. QED  BY <2>1, LeastIsOfSet
<1>4. \/ cur >= top /\ LinesFromTo(ls, top, cur) <= win /\ t = top
      \/ center /\ t = CalculateTopmsgCenter(ls, cur, win)
      \/ t = Min(S)
      \/ t = cur
  <2>. HIDE DEF S
  <2>1. Min({cur} \cup {p \in 0 .. cur : LinesFromTo(ls, p, cur) <= win}) = Min(S)  BY DEF S
  <2>. QED  BY <1>2, <2>1 DEF CalculateTopmsgPaged
<1>5. CASE t \in 0 .. cur /\ LinesFromTo(ls, t, cur) <= win
  BY <1>2, <1>5, FittingIsSeen DEF Whole
<1>6. CASE t = cur  BY <1>2, <1>6, TopIsSeen
<1>7. CASE center /\ t = CalculateTopmsgCenter(ls, cur, win)
  BY <1>2, <1>7, CenterIsSeen
<1>8. t = top /\ cur >= top => t \in 0 .. cur  BY <1>1
<1>. QED  BY <1>3, <1>4, <1>5, <1>6, <1>7, <1>8

LEMMA ScrolledUpIsSeen ==
  ASSUME NEW ls, NEW cur, NEW win, Scene(ls, cur, win)
  PROVE  /\ Seen(ls, cur, ScrolledUp(ls, cur, win), win)
         /\ Whole(ls, cur, ScrolledUp(ls, cur, win), win)
<1>1. cur \in Nat /\ win \in Nat \ {0}
  BY LenProperties DEF Scene
<1>2. PICK t : t = ScrolledUp(ls, cur, win)  OBVIOUS
<1>3. PICK stops : stops = {p \in 0 .. cur : \/ LinesFromTo(ls, p, cur) >= win
                                              \/ LinesFromTo(ls, p, cur) > win \div 2}
  OBVIOUS
<1>4. \A p \in 0 .. cur : LinesFromTo(ls, p, cur) \in Int
  <2>1. PICK P \in [0 .. cur -> Nat], h \in Nat :
          \A p \in 0 .. cur : LinesFromTo(ls, p, cur) = P[cur] - P[p] + h
    BY LinesAddUp
  <2>. QED  BY <1>1, <2>1
<1>5. \A p \in 0 .. cur : p \notin stops => LinesFromTo(ls, p, cur) <= win
  BY <1>1, <1>3, <1>4
<1>6. t = cur \/ (t \in 0 .. cur /\ LinesFromTo(ls, t, cur) <= win)
  <2>1. CASE stops = {}
    <3>1. t = 0 /\ 0 \in 0 .. cur  BY <1>1, <1>2, <1>3, <2>1 DEF ScrolledUp
    <3>. QED  BY <1>5, <2>1, <3>1
  <2>2. CASE stops # {}
    <3>1. PICK p : p = Max(stops)  OBVIOUS
    <3>2. p \in stops /\ \A q \in stops : q <= p
      BY <1>1, <1>3, <2>2, <3>1, GreatestIsOfSet
    <3>3. p \in 0 .. cur  BY <1>3, <3>2
    <3>4. t = IF LinesFromTo(ls, p, cur) >= win THEN Min({p + 1, cur}) ELSE p
      BY <1>2, <1>3, <2>2, <3>1 DEF ScrolledUp
    <3>5. CASE LinesFromTo(ls, p, cur) >= win
      <4>1. t = IF p + 1 <= cur THEN p + 1 ELSE cur
        <5>1. t = Min({p + 1, cur})  BY <3>4, <3>5
        <5>2. p + 1 <= cur => Min({p + 1, cur}) = p + 1  BY <1>1, <3>3 DEF Min
        <5>3. ~(p + 1 <= cur) => Min({p + 1, cur}) = cur  BY <1>1, <3>3 DEF Min
        <5>. QED  BY <5>1, <5>2, <5>3
      <4>2. p + 1 \notin stops  BY <3>2, <3>3
      <4>. QED  BY <1>1, <1>5, <3>3, <4>1, <4>2
    <3>6. CASE ~(LinesFromTo(ls, p, cur) >= win)
      BY <1>1, <1>4, <3>3, <3>4, <3>6
    <3>. QED  BY <3>5, <3>6
  <2>. QED  BY <2>1, <2>2
<1>. QED  BY <1>2, <1>6, TopIsSeen, FittingIsSeen DEF Whole

LEMMA ScrolledDownIsSeen ==
  ASSUME NEW ls, NEW cur, NEW win, Scene(ls, cur, win),
         NEW top \in 0 .. cur, LinesFromTo(ls, top, cur) <= win
  PROVE  /\ Seen(ls, cur, ScrolledDown(ls, cur, top, win), win)
         /\ Whole(ls, cur, ScrolledDown(ls, cur, top, win), win)
<1>1. cur \in Nat /\ win \in Nat \ {0}
  BY LenProperties DEF Scene
<1>2. PICK t : t = ScrolledDown(ls, cur, top, win)  OBVIOUS
<1>3. PICK stops : stops = {p \in top .. cur - 1 : LinesFromTo(ls, top, p) > win \div 2}
  OBVIOUS
<1>4. t = IF stops = {} THEN cur ELSE Min(stops) + 1
  BY <1>2, <1>3 DEF ScrolledDown
<1>5. CASE stops = {}  BY <1>2, <1>4, <1>5, TopIsSeen
<1>6. CASE stops # {}
  <2>1. Min(stops) \in top .. cur - 1
    <3>1. stops \in SUBSET Nat  BY <1>1, <1>3
    <3>2. Min(stops) \in stops  BY <1>6, <3>1, LeastIsOfSet
    <3>. QED  BY <1>3, <3>2
  <2>2. t \in top .. cur /\ t \in 0 .. cur  BY <1>1, <1>4, <1>6, <2>1
  <2>3. LinesFromTo(ls, t, cur) <= win
    <3>1. PICK P \in [0 .. cur -> Nat], h \in Nat :
            \A p \in 0 .. cur : /\ LinesFromTo(ls, p, cur) = P[cur] - P[p] + h
                                /\ \A q \in p .. cur : P[p] <= P[q]
      BY LinesAddUp
    <3>2. P[top] <= P[t] /\ P[top] \in Nat /\ P[t] \in Nat /\ P[cur] \in Nat
      BY <1>1, <2>2, <3>1
    <3>. QED  BY <1>1, <2>2, <3>1, <3>2
  <2>. QED  BY <1>2, <2>2, <2>3, FittingIsSeen DEF Whole
<1>. QED  BY <1>5, <1>6

LEMMA NormalIsSeen ==
  ASSUME NEW ls, NEW cur, NEW win, Scene(ls, cur, win), NEW top \in Nat, NEW way
  PROVE  /\ Seen(ls, cur, CalculateTopmsgNormal(way, ls, cur, top, win), win)
         /\ Whole(ls, cur, CalculateTopmsgNormal(way, ls, cur, top, win), win)
<1>1. cur \in Nat /\ win \in Nat \ {0}
  BY LenProperties DEF Scene
<1>2. PICK top1 : top1 = IF cur < top THEN CalculateTopmsgCenter(ls, cur, win) ELSE top
  OBVIOUS
<1>3. PICK y1 : y1 = IF cur - top1 <= win THEN LinesFromTo(ls, top1, cur) ELSE cur - top1
  OBVIOUS
<1>4. PICK off : off = (y1 > win)  OBVIOUS
<1>5. PICK top2 : top2 = IF y1 > win THEN cur ELSE top1  OBVIOUS
<1>6. PICK y2 : y2 = IF y1 > win THEN LinesAt(ls, cur) ELSE y1  OBVIOUS
<1>7. PICK dir : dir = IF y1 > win THEN "up" ELSE way  OBVIOUS
<1>8. PICK t : t = CalculateTopmsgNormal(way, ls, cur, top, win)  OBVIOUS
<1>9. \/ t = ScrolledUp(ls, cur, win)
      \/ dir \in {"down", "none"} /\ t = ScrolledDown(ls, cur, top2, win)
      \/ t = top2
  BY <1>2, <1>3, <1>5, <1>6, <1>7, <1>8 DEF CalculateTopmsgNormal
<1>10. top1 \in 0 .. cur
  <2>1. CalculateTopmsgCenter(ls, cur, win) \in 0 .. cur  BY CenterIsSeen DEF Seen
  <2>. QED  BY <1>1, <1>2, <2>1
<1>11. CASE t = ScrolledUp(ls, cur, win)  BY <1>8, <1>11, ScrolledUpIsSeen
<1>12. CASE y1 > win /\ t = top2  BY <1>5, <1>8, <1>12, TopIsSeen
<1>13. CASE ~(y1 > win)
  <2>1. LinesFromTo(ls, top1, cur) \in Int
    <3>1. PICK P \in [0 .. cur -> Nat], h \in Nat :
            \A p \in 0 .. cur : LinesFromTo(ls, p, cur) = P[cur] - P[p] + h
      BY LinesAddUp
    <3>. QED  BY <1>1, <1>10, <3>1
  <2>2. top2 = top1 /\ LinesFromTo(ls, top1, cur) <= win
    BY <1>1, <1>3, <1>5, <1>10, <1>13, <2>1
  <2>3. t = top1 \/ t = ScrolledDown(ls, cur, top1, win) \/ t = ScrolledUp(ls, cur, win)
    BY <1>9, <2>2
  <2>. QED
    BY <1>8, <1>10, <2>2, <2>3, FittingIsSeen, ScrolledDownIsSeen, ScrolledUpIsSeen DEF Whole
<1>. QED  BY <1>7, <1>9, <1>11, <1>12, <1>13

LEMMA ModesAreSeen ==
  ASSUME NEW ls, NEW cur, NEW win, Scene(ls, cur, win), NEW top \in Nat,
         NEW way, NEW mode \in Modes
  PROVE  /\ Seen(ls, cur, CalculateTopmsg(mode, way, ls, cur, top, win), win)
         /\ mode \in {"paged", "normal"} =>
              Whole(ls, cur, CalculateTopmsg(mode, way, ls, cur, top, win), win)
<1>1. CASE mode = "top"  BY <1>1, TopIsSeen DEF CalculateTopmsg, CalculateTopmsgTop
<1>2. CASE mode = "neartop"  BY <1>2, NeartopIsSeen DEF CalculateTopmsg
<1>3. CASE mode = "center"  BY <1>3, CenterIsSeen DEF CalculateTopmsg
<1>4. CASE mode = "paged"  BY <1>4, PagedIsSeen DEF CalculateTopmsg
<1>5. CASE mode = "pagedcenter"  BY <1>5, PagedIsSeen DEF CalculateTopmsg
<1>6. CASE mode = "normal"  BY <1>6, NormalIsSeen DEF CalculateTopmsg
<1>. QED  BY <1>1, <1>2, <1>3, <1>4, <1>5, <1>6 DEF Modes

(* Every mode shows the message it is to show, on a screen of any height,  *)
(* with messages of any heights, wherever the top was                      *)
(* (owl_function_calculate_topmsg).                                        *)
THEOREM ScrollingShowsCurrent ==
  ASSUME NEW ls \in Seq(Nat \ {0}), NEW cur \in 0 .. Len(ls) - 1, NEW win \in Nat \ {0},
         NEW top \in Nat, NEW way, NEW mode \in Modes
  PROVE  CurrentIsShown(mode, way, ls, cur, top, win)
<1>1. PICK n \in Nat : n = Len(ls)  BY LenProperties
<1>2. Scene(ls, cur, win) /\ cur < Len(ls)  BY <1>1 DEF Scene
<1>3. PICK t : t = CalculateTopmsg(mode, way, ls, cur, top, win)  OBVIOUS
<1>4. Seen(ls, cur, t, win) /\ (mode \in {"paged", "normal"} => Whole(ls, cur, t, win))
  BY <1>2, <1>3, ModesAreSeen
<1>. QED  BY <1>2, <1>3, <1>4 DEF CurrentIsShown, Seen, Whole

(* And the modes that page leave it where they have put it.                *)
THEOREM PagesAreKept ==
  ASSUME NEW ls \in Seq(Nat \ {0}), NEW cur \in 0 .. Len(ls), NEW win \in Nat \ {0},
         NEW top \in Nat, NEW way, NEW mode \in Modes
  PROVE  PageIsKept(mode, way, ls, cur, top, win)
<1>1. Scene(ls, cur, win)  BY DEF Scene
<1>2. cur \in Nat  BY LenProperties
<1>. DEFINE S == {cur} \cup {p \in 0 .. cur : LinesFromTo(ls, p, cur) <= win}
            Paged(t, center) == CalculateTopmsgPaged(ls, cur, t, win, center)
<1>3. ASSUME NEW center \in BOOLEAN  PROVE Paged(Paged(top, center), center) = Paged(top, center)
  <2>1. Min(S) \in S
    <3>1. S \in SUBSET Nat /\ cur \in S  BY <1>2
    <3>. QED  BY <3>1, LeastIsOfSet
  <2>2. PICK t : t = Paged(top, center)  OBVIOUS
  <2>3. CalculateTopmsgCenter(ls, cur, win) \in 0 .. cur  BY <1>1, CenterIsSeen DEF Seen
  <2>4. ASSUME NEW u  PROVE Paged(u, center) = IF cur >= u /\ LinesFromTo(ls, u, cur) <= win THEN u
                             ELSE IF center THEN CalculateTopmsgCenter(ls, cur, win)
                             ELSE IF cur < u THEN Min(S) ELSE cur
    BY DEF CalculateTopmsgPaged
  <2>. HIDE DEF Paged
  <2>5. t \in Int /\ t <= cur
    <3>1. Min(S) \in 0 .. cur  BY <1>2, <2>1
    <3>. QED  BY <1>2, <2>2, <2>3, <2>4, <3>1
  <2>6. CASE LinesFromTo(ls, t, cur) <= win
    BY <1>2, <2>2, <2>4, <2>5, <2>6
  <2>7. CASE ~(LinesFromTo(ls, t, cur) <= win)
    <3>1. t = IF center THEN CalculateTopmsgCenter(ls, cur, win) ELSE cur
      BY <1>2, <2>1, <2>2, <2>4, <2>7
    <3>2. Paged(t, center) = IF center THEN CalculateTopmsgCenter(ls, cur, win) ELSE cur
      <4>1. Paged(t, center) = IF cur >= t /\ LinesFromTo(ls, t, cur) <= win THEN t
                               ELSE IF center THEN CalculateTopmsgCenter(ls, cur, win)
                               ELSE IF cur < t THEN Min(S) ELSE cur
        BY <2>4
      <4>2. ~(cur < t)  BY <1>2, <2>5
      <4>. QED  BY <2>7, <4>1, <4>2
    <3>. QED  BY <2>2, <3>1, <3>2
  <2>. QED  BY <2>6, <2>7
<1>. QED  BY <1>3 DEF PageIsKept, CalculateTopmsg

-----------------------------------------------------------------------------
(* Where the cursor is put by the nearest id, it is on the message or next *)
(* to where it was.                                                        *)
Beside(list, position, old) ==
  /\ InList(list, position)
  /\ old \in ToSet(list) => ElementAt(list, position) = old
  /\ ~ \E id \in ToSet(list) : \/ old < id /\ id < ElementAt(list, position)
                               \/ ElementAt(list, position) < id /\ id < old

LEMMA NearestIsBeside ==
  ASSUME NEW list \in Seq(Int), list # <<>>, Sorted(list), NEW old \in Int
  PROVE  Beside(list, NearestToMsgid(list, old), old)
<1>1. PICK n \in Nat : n = Len(list) /\ DOMAIN list = 1 .. n  BY LenProperties
<1>2. PICK p : p = NearestToMsgid(list, old)  OBVIOUS
<1>3. /\ InList(list, p)
      /\ \A q \in DOMAIN list : Distance(old, ElementAt(list, p)) <= Distance(old, list[q])
  BY <1>2, NearestIsExact DEF NearestIsClosest
<1>4. PICK new : new = ElementAt(list, p)  OBVIOUS
<1>5. new \in Int
  <2>1. p \in 0 .. n - 1  BY <1>1, <1>2, NearestIsWithin
  <2>2. p + 1 \in DOMAIN list  BY <1>1, <2>1
  <2>. QED  BY <1>4, <2>2, ElementOfSeq DEF ElementAt
<1>6. \A id \in ToSet(list) : id \in Int /\ Distance(old, new) <= Distance(old, id)
  BY <1>1, <1>3, <1>4, ElementOfSeq DEF ToSet
<1>7. old \in ToSet(list) => new = old
  <2>1. Distance(old, old) = 0  BY DEF Distance
  <2>. QED  BY <1>5, <1>6, <2>1 DEF Distance
<1>8. ASSUME NEW id \in ToSet(list)
      PROVE  ~((old < id /\ id < new) \/ (new < id /\ id < old))
  BY <1>5, <1>6 DEF Distance
<1>. QED  BY <1>2, <1>3, <1>4, <1>7, <1>8 DEF Beside

(* The view is one of ids, which are numbers.                              *)
LEMMA ViewIsOfNumbers ==
  ASSUME NarrowingInv
  PROVE  view \in Seq(Int) /\ Len(msglist) \in Nat
<1>1. msglist \in Seq(Nat)  BY ListsAreNumbers
<1>2. view = Only(msglist, ToSet(view))  BY DEF NarrowingInv, ViewIsNarrowedList
<1>3. view \in Seq(Nat)  BY <1>1, <1>2, OnlyElements
<1>. QED  BY <1>1, <1>3, SeqMonotonic, LenProperties

LEMMA NextViewIsOfNumbers ==
  ASSUME NarrowingInv'
  PROVE  view' \in Seq(Int)
<1>1. msglist' \in Seq(DOMAIN kind')  BY DEF NarrowingInv, QueuedAreUnlisted
<1>2. DOMAIN kind' \subseteq Int  BY DEF NarrowingInv, IdsAreGiven
<1>3. view' = Only(msglist', ToSet(view'))  BY DEF NarrowingInv, ViewIsNarrowedList
<1>. QED  BY <1>1, <1>2, <1>3, SeqMonotonic, OnlyElements

(* The current message is one of the view, and so a number from 0 on.      *)
LEMMA CurrentIsANumber ==
  ASSUME NarrowingInv, InList(view, curmsg), curmsg \in Int
  PROVE  /\ CurmsgId = ElementAt(view, curmsg) /\ CurmsgId \in Nat
<1>1. msglist \in Seq(Nat)  BY ListsAreNumbers
<1>2. view \in Seq(Nat)
  <2>1. view = Only(msglist, ToSet(view))  BY DEF NarrowingInv, ViewIsNarrowedList
  <2>. QED  BY <1>1, <2>1, OnlyElements
<1>3. PICK n \in Nat : n = Len(view) /\ DOMAIN view = 1 .. n  BY <1>2, LenProperties
<1>4. curmsg + 1 \in DOMAIN view  BY <1>3 DEF InList
<1>. QED  BY <1>2, <1>4, ElementOfSeq DEF CurmsgId, ElementAt

(* The steps that take messages out or change the filter, with what they   *)
(* make of the view.                                                       *)
LEMMA CursorIsPutBeside ==
  ASSUME NarrowingInv, NarrowingInv', InList(view, curmsg), curmsg \in Int,
         view' # <<>>, Sorted(view'),
         \/ RedisplayToNearest(CurmsgId)
         \/ \E f : ChangeFilter(f)
  PROVE  Beside(view', curmsg', CurmsgId)
<1>1. view' \in Seq(Int)  BY NextViewIsOfNumbers
<1>2. PICK old \in Nat : old = CurmsgId /\ old = ElementAt(view, curmsg)  BY CurrentIsANumber
<1>3. PICK near : near = NearestToMsgid(view', old)  OBVIOUS
<1>4. Beside(view', near, old)  BY <1>1, <1>2, <1>3, NearestIsBeside
<1>5. CASE RedisplayToNearest(CurmsgId)
  <2>1. near \in 0 .. Len(view') - 1 /\ Len(view') \in Nat
    BY <1>1, <1>2, <1>3, NearestIsWithin, LenProperties
  <2>2. curmsg' = Min({near, Len(view') - 1})
    BY <1>2, <1>3, <1>5 DEF RedisplayToNearest, SetCurmsg
  <2>3. Min({near, Len(view') - 1}) = near  BY <2>1 DEF Min
  <2>. QED  BY <1>2, <1>4, <2>2, <2>3
<1>6. ASSUME NEW f, ChangeFilter(f)  PROVE curmsg' = near
  BY <1>2, <1>3, <1>6 DEF ChangeFilter, MoveTo, SetCurmsg
<1>. QED  BY <1>2, <1>4, <1>5, <1>6

LEMMA CursorStaysInStep ==
  ASSUME NarrowingInv, NarrowingInv', Next, InList(view, curmsg), curmsg \in Int,
         Len(msglist') < Len(msglist) \/ filter' # filter
  PROVE  RedisplayToNearest(CurmsgId) \/ \E f : ChangeFilter(f)
<1>1. Len(msglist) \in Nat /\ msglist \in Seq(Nat)  BY ViewIsOfNumbers, ListsAreNumbers
<1>2. \A id \in Nat : Len(Append(msglist, id)) = Len(msglist) + 1
  BY <1>1, AppendProperties
<1>3. filter' # filter \/ (msglist' # msglist /\ \A id \in Nat : msglist' # Append(msglist, id))
  BY <1>1, <1>2
<1>4. CASE Receive
  <2>1. NextMsgid \in Nat  BY ListsAreNumbers
  <2>2. filter' = filter /\ (msglist' = msglist \/ msglist' = Append(msglist, NextMsgid))
    BY <1>4 DEF Receive, Enqueue, AdminMsg
  <2>. QED  BY <1>3, <2>1, <2>2
<1>5. CASE Process
  <2>1. CASE ProcessMessage
    <3>1. filter' = filter /\ (msglist' = msglist \/ msglist' = Append(msglist, Head(queue)))
      BY <2>1 DEF ProcessMessage
    <3>2. queue # <<>> /\ queue \in Seq(Nat)  BY <2>1, ListsAreNumbers DEF ProcessMessage
    <3>3. Head(queue) \in Nat  BY <3>2, HeadTailProperties
    <3>. QED  BY <1>3, <3>1, <3>3
  <2>. QED  BY <1>3, <1>5, <2>1
         DEF Process, DispatchStart, FinishMessage, DispatchEnd, listVars
<1>6. CASE Move
  <2>1. ASSUME NEW f, NEW skip, NEW stop, NextMsg(f, skip, stop) \/ PrevMsg(f, skip, stop)
        PROVE  UNCHANGED listVars
    BY <2>1 DEF NextMsg, PrevMsg, unmoved
  <2>2. ASSUME NEW step, PageCurmsg(step) PROVE UNCHANGED listVars
    BY <2>2 DEF PageCurmsg, unmoved
  <2>3. ASSUME NEW dir, NEW here, NEW classes, Search(dir, here, classes)
        PROVE  UNCHANGED listVars
    BY <2>3 DEF Search, unmoved
  <2>4. ASSUME FirstMsg \/ LastMsg \/ PageDown \/ PageUp \/ MarkMessage \/ SwapCurMarked
        PROVE  UNCHANGED listVars
    BY <2>4 DEF FirstMsg, LastMsg, PageDown, PageUp, MarkMessage, SwapCurMarked, unmoved
  <2>5. UNCHANGED listVars  BY <1>6, <2>1, <2>2, <2>3, <2>4 DEF Move
  <2>. QED  BY <1>3, <2>5 DEF listVars
<1>7. CASE Delete
  <2>1. ASSUME NEW b, DeleteCur(b) \/ UndeleteCur(b) \/ DeleteCurviewMsgs(b)
        PROVE  UNCHANGED <<msglist, filter>>
    BY <2>1 DEF DeleteCur, UndeleteCur, DeleteCurviewMsgs, MarkDeletions, unlisted
  <2>2. ASSUME NEW id, NEW b, NEW f, DeleteById(id, b) \/ DeleteAutomsgs(f)
        PROVE  UNCHANGED <<msglist, filter>>
    BY <2>2 DEF DeleteById, DeleteAutomsgs, MarkDeletions, unlisted
  <2>3. Expunge => RedisplayToNearest(CurmsgId)  BY DEF Expunge
  <2>4. ASSUME NEW n, DeleteAndExpunge(n)
        PROVE  RedisplayToNearest(CurmsgId) \/ UNCHANGED <<msglist, filter>>
    BY <2>4 DEF DeleteAndExpunge, listVars
  <2>. QED  BY <1>3, <1>7, <2>1, <2>2, <2>3, <2>4
         DEF Delete, DeleteAndExpungeCur, DeleteAndExpungeById
<1>8. CASE Show
  <2>1. ASSUME NEW w, ChangeStyle(w) \/ Resize(w) PROVE UNCHANGED listVars
    BY <2>1 DEF ChangeStyle, Resize
  <2>2. ASSUME NEW m, NEW b, SetVariables(m, b) PROVE UNCHANGED listVars
    BY <2>2 DEF SetVariables
  <2>3. Redraw => UNCHANGED listVars  BY DEF Redraw
  <2>. QED  BY <1>3, <1>8, <2>1, <2>2, <2>3 DEF Show, listVars
<1>9. CASE Crashed  BY <1>3, <1>9 DEF Crashed, vars, listVars
<1>. QED  BY <1>4, <1>5, <1>6, <1>7, <1>8, <1>9 DEF Next

(* Where the cursor is put is a position, whatever puts it there; so are   *)
(* the ids that are kept for it.                                           *)
CursorInv == curmsg \in 0 .. Len(view) /\ markedmsgid \in Int /\ cachedmsgid \in Int

(* The positions that a move may stop at.                                  *)
LEMMA StopIsPosition ==
  ASSUME NEW n \in Nat, NEW S \in SUBSET (0 .. n - 1), S # {}
  PROVE  Min(S) \in 0 .. n /\ Max(S) \in 0 .. n
<1>1. S \in SUBSET Nat /\ S \in SUBSET (0 .. n)  OBVIOUS
<1>2. Min(S) \in S /\ Max(S) \in S  BY <1>1, LeastIsOfSet, GreatestIsOfSet
<1>. QED  BY <1>1, <1>2

(* A filtered move stops at a position, or leaves the cursor.              *)
LEMMA NextFromPutsCursor ==
  ASSUME NarrowingInv, NEW cur, NEW f, NEW skip, NEW stop, NextFrom(cur, f, skip, stop)
  PROVE  \/ curmsg' \in 0 .. Len(view) /\ CalculateTop("down")
         \/ curmsg' = cur /\ topmsg' = topmsg /\ ~stop
<1>1. PICK n \in Nat : n = Len(view)  BY ViewIsOfNumbers, LenProperties
<1>2. PICK stops : stops = {p \in Stops(view, f, skip, deleted') :
                              p > Max({0, Min({cur, Len(view) - 1})})}
  OBVIOUS
<1>3. stops \in SUBSET (0 .. n - 1)  BY <1>1, <1>2 DEF Stops
<1>4. stops # {} => Min(stops) \in 0 .. n  BY <1>3, StopIsPosition
<1>5. Max({0, n - 1}) \in 0 .. n  BY DEF Max
<1>6. \/ /\ curmsg' = IF stops # {} THEN Min(stops) ELSE Max({0, n - 1})
         /\ CalculateTop("down")
      \/ curmsg' = cur /\ topmsg' = topmsg /\ ~stop
  BY <1>1, <1>2 DEF NextFrom, MoveTo, SetCurmsg
<1>. QED  BY <1>1, <1>4, <1>5, <1>6

LEMMA PrevFromPutsCursor ==
  ASSUME NarrowingInv, NEW cur, NEW f, NEW skip, NEW stop, PrevFrom(cur, f, skip, stop)
  PROVE  \/ curmsg' \in 0 .. Len(view) /\ CalculateTop("up")
         \/ curmsg' = cur /\ topmsg' = topmsg /\ ~stop
<1>1. PICK n \in Nat : n = Len(view)  BY ViewIsOfNumbers, LenProperties
<1>2. PICK stops : stops = {p \in Stops(view, f, skip, deleted') : p < cur}  OBVIOUS
<1>3. stops \in SUBSET (0 .. n - 1)  BY <1>1, <1>2 DEF Stops
<1>4. stops # {} => Max(stops) \in 0 .. n  BY <1>3, StopIsPosition
<1>5. \/ curmsg' = (IF stops # {} THEN Max(stops) ELSE 0) /\ CalculateTop("up")
      \/ curmsg' = cur /\ topmsg' = topmsg /\ ~stop
  BY <1>1, <1>2 DEF PrevFrom, MoveTo, SetCurmsg
<1>. QED  BY <1>1, <1>4, <1>5

LEMMA NearestPutsCursor ==
  ASSUME NEW list \in Seq(Int), NEW target \in Int
  PROVE  NearestToMsgid(list, target) \in 0 .. Len(list)
<1>1. CASE list = <<>>
  <2>1. LastProbe(list, target) = [mid |-> 0, id |-> 0] /\ Len(list) = 0
    BY <1>1 DEF LastProbe
  <2>. QED  BY <2>1 DEF NearestToMsgid
<1>2. CASE list # <<>>
  <2>1. PICK n \in Nat : n = Len(list)  BY LenProperties
  <2>2. PICK p : p = NearestToMsgid(list, target)  OBVIOUS
  <2>3. p \in 0 .. n - 1  BY <1>2, <2>1, <2>2, NearestIsWithin
  <2>. QED  BY <2>1, <2>2, <2>3
<1>. QED  BY <1>1, <1>2

(* The last message, or what is behind it.                                 *)
LEMMA LastmsgPutsCursor ==
  ASSUME NarrowingInv', Lastmsg
  PROVE  /\ curmsg' \in 0 .. Len(view')
         /\ \/ CalculateTop("down")
            \/ curmsg' = Len(view') /\ view' # <<>> /\ topmsg' = Len(view')
            \/ curmsg' = 0 /\ view' = <<>> /\ topmsg' = topmsg
<1>1. PICK n \in Nat : n = Len(view')  BY NextViewIsOfNumbers, LenProperties
<1>2. PICK last \in Nat : last = (IF n = 0 THEN 0 ELSE n - 1)  OBVIOUS
<1>3. \/ curmsg' = last /\ CalculateTop("down")
      \/ last < n /\ curmsg' = last + 1 /\ topmsg' = last + 1
      \/ ~(last < n) /\ curmsg' = last /\ topmsg' = topmsg
  BY <1>1, <1>2 DEF Lastmsg, SetCurmsg
<1>4. n = 0 <=> view' = <<>>  BY <1>1, NextViewIsOfNumbers, EmptySeq
<1>. QED  BY <1>1, <1>2, <1>3, <1>4

(* The id by which the cursor finds its place again is a number.           *)
LEMMA CurmsgIdIsANumber ==
  ASSUME NarrowingInv, curmsg \in Nat
  PROVE  CurmsgId \in Int
<1>1. CASE InList(view, curmsg)  BY <1>1, CurrentIsANumber
<1>. QED  BY <1>1 DEF CurmsgId

LEMMA RedisplayPutsCursor ==
  ASSUME NarrowingInv', NEW id \in Int, RedisplayToNearest(id)
  PROVE  /\ curmsg' \in 0 .. Len(view')
         /\ CalculateTop("none") \/ (curmsg' = Len(view') /\ topmsg' = Len(view'))
<1>1. PICK n \in Nat : n = Len(view')  BY NextViewIsOfNumbers, LenProperties
<1>2. view' \in Seq(Int)  BY NextViewIsOfNumbers
<1>3. PICK near : near = NearestToMsgid(view', id)  OBVIOUS
<1>4. view' # <<>> => near \in 0 .. n - 1  BY <1>1, <1>2, <1>3, NearestIsWithin
<1>5. ASSUME near \in 0 .. n - 1  PROVE Min({near, n - 1}) \in 0 .. n
  <2>1. Min({near, n - 1}) = near  BY <1>1, <1>5 DEF Min
  <2>. QED  BY <1>5, <2>1
<1>6. \/ curmsg' = n /\ topmsg' = n
      \/ /\ curmsg' = IF view' = <<>> THEN 0 ELSE Min({near, n - 1})
         /\ CalculateTop("none")
  BY <1>1, <1>3 DEF RedisplayToNearest, SetCurmsg
<1>. QED  BY <1>1, <1>4, <1>5, <1>6

LEMMA CursorInit == Init => CursorInv
BY DEF Init, CursorInv

(* The view has as many messages as before, or one more.                   *)
ViewGrows ==
  /\ \A id \in DOMAIN kind : id \in DOMAIN kind' /\ kind'[id] = kind[id]
  /\ view' = view \/ \E id \in DOMAIN kind' : view' = Append(view, id)

(* What becomes of the cursor and the top: the top is calculated from the  *)
(* cursor; nothing of what there is moves; the cursor leaves the messages; *)
(* or both are at the first one.                                           *)
Recalculates == \E dir : CalculateTop(dir)
Leaves == UNCHANGED <<curmsg, topmsg, window>> /\ ViewGrows
Outside == curmsg' = Len(view') /\ topmsg' \in Nat /\ (view' = <<>> => topmsg' = 0)
AtFirst == curmsg' = 0 /\ topmsg' = 0

(* What the top is calculated from, and that it is at the first message of *)
(* an empty view.                                                          *)
HeightsInv ==
  (\A id \in DOMAIN kind : kind[id] \in Kinds) /\ window \in Windows /\ scrollmode \in ScrollModes

ScreenInv == HeightsInv /\ topmsg \in Nat /\ (view = <<>> => topmsg = 0)

LEMMA GrowingKeepsCursor ==
  ASSUME NarrowingInv, NarrowingInv', ViewGrows
  PROVE  Len(view) \in Nat /\ Len(view') \in Nat /\ Len(view) <= Len(view')
<1>1. view \in Seq(Int) /\ view' \in Seq(Int)  BY ViewIsOfNumbers, NextViewIsOfNumbers
<1>2. Len(view) \in Nat /\ Len(view') \in Nat  BY <1>1, LenProperties
<1>3. ASSUME NEW id \in DOMAIN kind', view' = Append(view, id)  PROVE Len(view') = Len(view) + 1
  <2>1. id \in Int  BY DEF NarrowingInv, IdsAreGiven
  <2>. QED  BY <1>1, <1>3, <2>1, AppendProperties
<1>. QED  BY <1>2, <1>3 DEF ViewGrows

LEMMA ScreenInit == Init => ScreenInv
BY DEF Init, ScreenInv, HeightsInv

LEMMA HeightsStep == NarrowingInv /\ HeightsInv /\ [Next]_vars => HeightsInv'
<1>. SUFFICES ASSUME NarrowingInv, HeightsInv, [Next]_vars  PROVE HeightsInv'
  OBVIOUS
<1>1. ASSUME kind' = kind, window' = window \/ window' \in Windows,
             scrollmode' = scrollmode \/ scrollmode' \in ScrollModes
      PROVE  HeightsInv'
  BY <1>1 DEF HeightsInv
<1>2. ASSUME NEW k \in Kinds, Enqueue(k) \/ AdminMsg(k)  PROVE HeightsInv'
  <2>1. kind' = WithMessage(NextMsgid, k) /\ window' = window /\ scrollmode' = scrollmode
    BY <1>2 DEF Enqueue, AdminMsg, setVars
  <2>. QED  BY <1>2, <2>1 DEF HeightsInv, WithMessage
<1>3. CASE Process
  BY <1>1, <1>3
     DEF Process, DispatchStart, ProcessMessage, FinishMessage, DispatchEnd, listVars, setVars
<1>4. CASE Move
  <2>1. ASSUME NEW f, NEW skip, NEW stop, NextMsg(f, skip, stop) \/ PrevMsg(f, skip, stop)
        PROVE  UNCHANGED <<kind, window, scrollmode>>
    BY <2>1 DEF NextMsg, PrevMsg, unmoved, listVars, setVars
  <2>2. ASSUME NEW step, PageCurmsg(step) PROVE UNCHANGED <<kind, window, scrollmode>>
    BY <2>2 DEF PageCurmsg, unmoved, listVars, setVars
  <2>3. ASSUME NEW dir, NEW here, NEW classes, Search(dir, here, classes)
        PROVE  UNCHANGED <<kind, window, scrollmode>>
    BY <2>3 DEF Search, unmoved, listVars, setVars
  <2>4. ASSUME FirstMsg \/ LastMsg \/ PageDown \/ PageUp \/ MarkMessage \/ SwapCurMarked
        PROVE  UNCHANGED <<kind, window, scrollmode>>
    BY <2>4 DEF FirstMsg, LastMsg, PageDown, PageUp, MarkMessage, SwapCurMarked, unmoved,
                listVars, setVars
  <2>. QED  BY <1>1, <1>4, <2>1, <2>2, <2>3, <2>4 DEF Move
<1>5. CASE Delete
  <2>1. ASSUME NEW b, DeleteCur(b) \/ UndeleteCur(b) \/ DeleteCurviewMsgs(b)
        PROVE  UNCHANGED <<kind, window, scrollmode>>
    BY <2>1 DEF DeleteCur, UndeleteCur, DeleteCurviewMsgs, MarkDeletions, unlisted, setVars
  <2>2. ASSUME NEW id, NEW b, NEW f, DeleteById(id, b) \/ DeleteAutomsgs(f)
        PROVE  UNCHANGED <<kind, window, scrollmode>>
    BY <2>2 DEF DeleteById, DeleteAutomsgs, MarkDeletions, unlisted, setVars
  <2>3. ASSUME NEW n, DeleteAndExpunge(n) \/ Expunge  PROVE UNCHANGED <<kind, window, scrollmode>>
    BY <2>3 DEF DeleteAndExpunge, Expunge, unlisted, listVars, setVars
  <2>. QED  BY <1>1, <1>5, <2>1, <2>2, <2>3
         DEF Delete, DeleteAndExpungeCur, DeleteAndExpungeById
<1>6. CASE Show
  <2>1. ASSUME NEW f, ChangeFilter(f) PROVE UNCHANGED <<kind, window, scrollmode>>
    BY <2>1 DEF ChangeFilter, setVars
  <2>2. ASSUME NEW w \in Windows, ChangeStyle(w) \/ Resize(w) PROVE HeightsInv'
    BY <1>1, <2>2 DEF ChangeStyle, Resize, listVars
  <2>3. ASSUME NEW m \in ScrollModes, NEW b, SetVariables(m, b) PROVE HeightsInv'
    BY <1>1, <2>3 DEF SetVariables, listVars
  <2>4. CASE Redraw  BY <1>1, <2>4 DEF Redraw, listVars, setVars
  <2>. QED  BY <1>1, <1>6, <2>1, <2>2, <2>3, <2>4 DEF Show
<1>7. CASE UNCHANGED vars \/ Crashed
  BY <1>1, <1>7 DEF vars, Crashed, listVars, setVars
<1>. QED  BY <1>2, <1>3, <1>4, <1>5, <1>6, <1>7 DEF Next, Receive

Outcome == Recalculates \/ Leaves \/ Outside \/ AtFirst

(* Nothing of what the cursor is at changes, or it is somewhere else.      *)
LEMMA SameList ==
  ASSUME CursorInv, UNCHANGED <<kind, view, window, cachedmsgid, markedmsgid>>,
         \/ curmsg' = curmsg /\ topmsg' = topmsg
         \/ curmsg' \in 0 .. Len(view) /\ Recalculates
         \/ AtFirst
  PROVE  CursorInv' /\ Outcome
<1>1. Len(view) \in Nat => 0 \in 0 .. Len(view)  OBVIOUS
<1>2. curmsg \in 0 .. Len(view) => 0 \in 0 .. Len(view)  OBVIOUS
<1>3. CursorInv'  BY <1>2 DEF CursorInv, AtFirst
<1>4. ViewGrows  BY DEF ViewGrows
<1>. QED  BY <1>3, <1>4 DEF Outcome, Leaves

(* The cursor stays, or follows, when something has been listed.           *)
LEMMA ArrivalsMoveCursor ==
  ASSUME NarrowingInv, NarrowingInv', CursorInv, Receive \/ Process
  PROVE  CursorInv' /\ Outcome
<1>1. ASSUME ViewGrows, UNCHANGED <<window, cachedmsgid, markedmsgid>>,
             Lastmsg \/ UNCHANGED <<curmsg, topmsg>>
      PROVE  CursorInv' /\ Outcome
  <2>1. Len(view) \in Nat /\ Len(view') \in Nat /\ Len(view) <= Len(view')
    BY <1>1, GrowingKeepsCursor
  <2>2. CASE UNCHANGED <<curmsg, topmsg>>
    BY <1>1, <2>1, <2>2 DEF CursorInv, Outcome, Leaves
  <2>3. CASE Lastmsg
    <3>1. /\ curmsg' \in 0 .. Len(view')
          /\ \/ CalculateTop("down")
             \/ curmsg' = Len(view') /\ view' # <<>> /\ topmsg' = Len(view')
             \/ curmsg' = 0 /\ view' = <<>> /\ topmsg' = topmsg
      BY <2>3, LastmsgPutsCursor
    <3>2. CursorInv'  BY <1>1, <3>1 DEF CursorInv
    <3>3. view' = <<>> => curmsg = 0
      <4>1. view' = <<>> => Len(view) = 0  BY <2>1
      <4>. QED  BY <4>1 DEF CursorInv
    <3>. QED  BY <1>1, <2>1, <3>1, <3>2, <3>3 DEF Outcome, Recalculates, Outside, Leaves
  <2>. QED  BY <1>1, <2>2, <2>3
<1>2. CASE Receive
  <2>1. ASSUME NEW k, kind' = WithMessage(NextMsgid, k)
        PROVE  /\ \A id \in DOMAIN kind : id \in DOMAIN kind' /\ kind'[id] = kind[id]
               /\ NextMsgid \in DOMAIN kind'
    BY <2>1, NextIdIsNew DEF NarrowingInv
  <2>2. ASSUME NEW k, Enqueue(k)  PROVE CursorInv' /\ Outcome
    <3>1. ViewGrows  BY <2>1, <2>2 DEF Enqueue, ViewGrows
    <3>. QED  BY <1>1, <2>2, <3>1 DEF Enqueue, curVars, setVars
  <2>3. ASSUME NEW k, AdminMsg(k)  PROVE CursorInv' /\ Outcome
    <3>1. ViewGrows  BY <2>1, <2>3 DEF AdminMsg, ConsiderMessage, ViewGrows
    <3>. QED  BY <1>1, <2>3, <3>1 DEF AdminMsg, setVars
  <2>. QED  BY <1>2, <2>2, <2>3 DEF Receive
<1>3. CASE ProcessMessage
  <2>1. Head(queue) \in DOMAIN kind
    BY <1>3, HeadTailProperties DEF ProcessMessage, NarrowingInv, QueuedAreUnlisted
  <2>2. ViewGrows  BY <1>3, <2>1 DEF ProcessMessage, ConsiderMessage, ViewGrows
  <2>. QED  BY <1>1, <1>3, <2>2 DEF ProcessMessage, curVars, setVars
<1>4. CASE DispatchStart \/ FinishMessage
  <2>1. ViewGrows  BY <1>4 DEF DispatchStart, FinishMessage, ViewGrows, listVars
  <2>. QED  BY <1>1, <1>4, <2>1 DEF DispatchStart, FinishMessage, curVars, setVars, listVars
<1>5. CASE DispatchEnd
  <2>1. ViewGrows  BY <1>5 DEF DispatchEnd, ViewGrows, listVars
  <2>. QED  BY <1>1, <1>5, <2>1 DEF DispatchEnd, setVars, listVars
<1>. QED  BY <1>2, <1>3, <1>4, <1>5 DEF Process

LEMMA MovesMoveCursor ==
  ASSUME NarrowingInv, CursorInv, Move
  PROVE  CursorInv' /\ Outcome
<1>0. /\ curmsg \in 0 .. Len(view) /\ Len(view) \in Nat /\ markedmsgid \in Int /\ cachedmsgid \in Int
      /\ view \in Seq(Int) /\ curmsg \in Nat
  BY ViewIsOfNumbers, LenProperties DEF CursorInv
<1>1. ASSUME NEW f, NEW skip, NEW stop, NextMsg(f, skip, stop) \/ PrevMsg(f, skip, stop)
      PROVE  CursorInv' /\ Outcome
  <2>1. UNCHANGED <<kind, view, window, cachedmsgid, markedmsgid>>
    BY <1>1 DEF NextMsg, PrevMsg, unmoved, listVars, setVars
  <2>2. \/ curmsg' = curmsg /\ topmsg' = topmsg
        \/ curmsg' \in 0 .. Len(view) /\ Recalculates
    BY <1>1, NextFromPutsCursor, PrevFromPutsCursor DEF NextMsg, PrevMsg, Recalculates
  <2>. QED  BY <2>1, <2>2, SameList
<1>2. CASE FirstMsg
  <2>1. UNCHANGED <<kind, view, window, cachedmsgid, markedmsgid>> /\ AtFirst
    BY <1>2 DEF FirstMsg, unmoved, listVars, setVars, SetCurmsg, AtFirst
  <2>. QED  BY <2>1, SameList
<1>3. CASE PageDown \/ PageUp
  <2>1. UNCHANGED <<kind, view, window, cachedmsgid, markedmsgid>>
    BY <1>3 DEF PageDown, PageUp, unmoved, listVars, setVars
  <2>2. curmsg' \in 0 .. Len(view) /\ Recalculates
    BY <1>3, NextFromPutsCursor, PrevFromPutsCursor DEF PageDown, PageUp, Recalculates
  <2>. QED  BY <2>1, <2>2, SameList
<1>4. ASSUME NEW step, PageCurmsg(step)  PROVE CursorInv' /\ Outcome
  <2>1. UNCHANGED <<kind, view, window, cachedmsgid, markedmsgid, curmsg, topmsg>>
    BY <1>4 DEF PageCurmsg, unmoved, listVars, setVars
  <2>. QED  BY <2>1, SameList
<1>5. CASE MarkMessage
  <2>1. ElementAt(view, curmsg) \in Int  BY <1>0, <1>5, CurrentIsANumber DEF MarkMessage
  <2>2. UNCHANGED <<kind, view, window, cachedmsgid, curmsg, topmsg>>
        /\ markedmsgid' = ElementAt(view, curmsg)
    BY <1>5 DEF MarkMessage, listVars, setVars
  <2>3. ViewGrows  BY <2>2 DEF ViewGrows
  <2>. QED  BY <1>0, <2>1, <2>2, <2>3 DEF CursorInv, Outcome, Leaves
<1>6. CASE SwapCurMarked
  <2>1. InList(view, curmsg) => ElementAt(view, curmsg) \in Int  BY <1>0, CurrentIsANumber
  <2>2. UNCHANGED <<kind, view, window, cachedmsgid>> /\ CalculateTop("none")
        /\ curmsg' = NearestToMsgid(view, markedmsgid)
        /\ markedmsgid' = IF InList(view, curmsg) THEN ElementAt(view, curmsg) ELSE markedmsgid
    BY <1>6 DEF SwapCurMarked, MoveTo, SetCurmsg, listVars, setVars
  <2>3. curmsg' \in 0 .. Len(view)  BY <1>0, <2>2, NearestPutsCursor
  <2>. QED  BY <1>0, <2>1, <2>2, <2>3 DEF CursorInv, Outcome, Recalculates
<1>7. ASSUME NEW way \in {"down", "up"}, NEW here, NEW classes, Search(way, here, classes)
      PROVE  CursorInv' /\ Outcome
  <2>1. PICK n \in Nat : n = Len(view)  BY <1>0
  <2>2. PICK start : start = IF here THEN curmsg ELSE curmsg + (IF way = "down" THEN 1 ELSE -1)
    OBVIOUS
  <2>3. PICK hits : hits = {p \in {q \in 0 .. Len(view) - 1 :
                                     IF way = "down" THEN q >= start ELSE q <= start} :
                              kind[ElementAt(view, p)].class \in classes}
    OBVIOUS
  <2>4. hits \in SUBSET (0 .. n - 1)  BY <2>1, <2>3
  <2>5. hits # {} => Min(hits) \in 0 .. n /\ Max(hits) \in 0 .. n  BY <2>4, StopIsPosition
  <2>6. \/ /\ hits # {} /\ curmsg' = IF way = "down" THEN Min(hits) ELSE Max(hits)
           /\ CalculateTop(way)
        \/ curmsg' = curmsg /\ topmsg' = topmsg
    BY <1>7, <2>2, <2>3 DEF Search, MoveTo, SetCurmsg
  <2>7. UNCHANGED <<kind, view, window, cachedmsgid, markedmsgid>>
    BY <1>7 DEF Search, unmoved, listVars, setVars
  <2>8. \/ curmsg' = curmsg /\ topmsg' = topmsg
        \/ curmsg' \in 0 .. Len(view) /\ Recalculates
    BY <2>1, <2>5, <2>6 DEF Recalculates
  <2>. QED  BY <2>7, <2>8, SameList
<1>8. CASE LastMsg
  <2>1. UNCHANGED <<listVars, setVars, markedmsgid>> /\ Lastmsg
    BY <1>8 DEF LastMsg, unmoved
  <2>2. UNCHANGED <<kind, view, window, cachedmsgid>>  BY <2>1 DEF listVars, setVars
  <2>3. NarrowingInv'  BY <2>1, ListsUnchanged
  <2>4. /\ curmsg' \in 0 .. Len(view')
        /\ \/ CalculateTop("down")
           \/ curmsg' = Len(view') /\ view' # <<>> /\ topmsg' = Len(view')
           \/ curmsg' = 0 /\ view' = <<>> /\ topmsg' = topmsg
    BY <2>1, <2>3, LastmsgPutsCursor
  <2>5. view' = <<>> => curmsg = 0
    <3>1. view' = <<>> => Len(view) = 0  BY <2>2
    <3>. QED  BY <1>0, <3>1
  <2>6. CursorInv'  BY <1>0, <2>1, <2>2, <2>4 DEF CursorInv
  <2>7. ViewGrows  BY <2>2 DEF ViewGrows
  <2>8. Outside \/ Recalculates \/ Leaves
    BY <1>0, <2>2, <2>4, <2>5, <2>7 DEF Outside, Recalculates, Leaves
  <2>. QED  BY <2>6, <2>8 DEF Outcome
<1>. QED  BY <1>1, <1>2, <1>3, <1>4, <1>5, <1>6, <1>7, <1>8 DEF Move

LEMMA DeletionsMoveCursor ==
  ASSUME NarrowingInv, NarrowingInv', CursorInv, Delete
  PROVE  CursorInv' /\ Outcome
<1>0. curmsg \in Nat
  <2>1. Len(view) \in Nat  BY ViewIsOfNumbers, LenProperties
  <2>. QED  BY <2>1 DEF CursorInv
<1>1. ASSUME UNCHANGED <<kind, view, window, cachedmsgid, markedmsgid>>,
             NEW f, NEW skip, UNCHANGED <<curmsg, topmsg>> \/ NextFrom(curmsg, f, skip, TRUE)
                              \/ PrevFrom(curmsg, f, skip, TRUE)
      PROVE  CursorInv' /\ Outcome
  <2>1. \/ curmsg' = curmsg /\ topmsg' = topmsg
        \/ curmsg' \in 0 .. Len(view) /\ Recalculates
    BY <1>1, NextFromPutsCursor, PrevFromPutsCursor DEF Recalculates
  <2>. QED  BY <1>1, <2>1, SameList
<1>2. ASSUME NEW b, DeleteCur(b) \/ UndeleteCur(b)  PROVE CursorInv' /\ Outcome
  <2>1. UNCHANGED <<kind, view, window, cachedmsgid, markedmsgid>>
    BY <1>2 DEF DeleteCur, UndeleteCur, unlisted, setVars
  <2>2. \E f, skip : \/ UNCHANGED <<curmsg, topmsg>> \/ NextFrom(curmsg, f, skip, TRUE)
                     \/ PrevFrom(curmsg, f, skip, TRUE)
    <3>1. CASE DeleteCur(b)
      <4>1. \/ UNCHANGED <<curmsg, topmsg>> \/ NextFrom(curmsg, NoFilter, TRUE, TRUE)
            \/ PrevFrom(curmsg, NoFilter, TRUE, TRUE)
        BY <3>1 DEF DeleteCur
      <4>. QED  BY <4>1
    <3>2. CASE UndeleteCur(b)
      <4>1. \/ UNCHANGED <<curmsg, topmsg>> \/ NextFrom(curmsg, NoFilter, FALSE, TRUE)
            \/ PrevFrom(curmsg, NoFilter, FALSE, TRUE)
        BY <3>2 DEF UndeleteCur
      <4>. QED  BY <4>1
    <3>. QED  BY <1>2, <3>1, <3>2
  <2>. QED  BY <1>1, <2>1, <2>2
<1>3. ASSUME NEW ids, NEW b, MarkDeletions(ids, b)  PROVE CursorInv' /\ Outcome
  <2>1. UNCHANGED <<kind, view, window, cachedmsgid, markedmsgid, curmsg, topmsg>>
    BY <1>3 DEF MarkDeletions, unlisted, setVars
  <2>. QED  BY <2>1, SameList
<1>4. ASSUME UNCHANGED unlisted, RedisplayToNearest(CurmsgId)  PROVE CursorInv' /\ Outcome
  <2>1. PICK id \in Int : id = CurmsgId  BY <1>0, CurmsgIdIsANumber
  <2>2. /\ curmsg' \in 0 .. Len(view')
        /\ CalculateTop("none") \/ (curmsg' = Len(view') /\ topmsg' = Len(view'))
    BY <1>4, <2>1, RedisplayPutsCursor
  <2>3. Len(view') \in Nat /\ (view' = <<>> => Len(view') = 0)
    BY NextViewIsOfNumbers, LenProperties
  <2>4. UNCHANGED <<cachedmsgid, markedmsgid>>  BY <1>4 DEF unlisted
  <2>. QED  BY <2>2, <2>3, <2>4 DEF CursorInv, Outcome, Recalculates, Outside
<1>5. Expunge => CursorInv' /\ Outcome  BY <1>4 DEF Expunge
<1>6. ASSUME NEW n, DeleteAndExpunge(n)  PROVE CursorInv' /\ Outcome
  <2>1. CASE InList(msglist, n)
    <3>1. UNCHANGED unlisted /\ RedisplayToNearest(CurmsgId)
      BY <1>6, <2>1 DEF DeleteAndExpunge
    <3>. QED  BY <1>4, <3>1
  <2>2. CASE ~InList(msglist, n)
    <3>1. UNCHANGED <<kind, view, window, cachedmsgid, markedmsgid, curmsg, topmsg>>
      BY <1>6, <2>2 DEF DeleteAndExpunge, listVars, curVars, setVars
    <3>. QED  BY <3>1, SameList
  <2>. QED  BY <2>1, <2>2
<1>. QED
  BY <1>2, <1>3, <1>5, <1>6
     DEF Delete, DeleteCurviewMsgs, DeleteById, DeleteAutomsgs, DeleteAndExpungeCur,
         DeleteAndExpungeById

LEMMA ShowsMoveCursor ==
  ASSUME NarrowingInv, NarrowingInv', CursorInv, Show
  PROVE  CursorInv' /\ Outcome
<1>0. PICK n \in Nat : n = Len(view) /\ curmsg \in 0 .. n /\ (view = <<>> => n = 0)
  BY ViewIsOfNumbers, LenProperties DEF CursorInv
<1>1. ASSUME NEW f, ChangeFilter(f)  PROVE CursorInv' /\ Outcome
  <2>1. InList(view, curmsg) => ElementAt(view, curmsg) \in Int  BY <1>0, CurrentIsANumber
  <2>2. cachedmsgid' = (IF InList(view, curmsg) THEN ElementAt(view, curmsg) ELSE cachedmsgid)
        /\ markedmsgid' = markedmsgid
        /\ curmsg' = NearestToMsgid(view', cachedmsgid') /\ CalculateTop("down")
    BY <1>1 DEF ChangeFilter, MoveTo, SetCurmsg
  <2>3. PICK target \in Int : target = cachedmsgid'  BY <2>1, <2>2 DEF CursorInv
  <2>4. curmsg' \in 0 .. Len(view')  BY <2>2, <2>3, NextViewIsOfNumbers, NearestPutsCursor
  <2>. QED  BY <2>2, <2>3, <2>4 DEF CursorInv, Outcome, Recalculates
<1>2. ASSUME NEW w, ChangeStyle(w) \/ Resize(w)  PROVE CursorInv' /\ Outcome
  <2>1. UNCHANGED <<view, curmsg, markedmsgid, cachedmsgid>> /\ Recalculates
    BY <1>2 DEF ChangeStyle, Resize, listVars, Recalculates
  <2>. QED  BY <2>1 DEF CursorInv, Outcome
<1>3. ASSUME NEW m, NEW b, SetVariables(m, b)  PROVE CursorInv' /\ Outcome
  <2>1. UNCHANGED <<kind, view, window, cachedmsgid, markedmsgid, curmsg, topmsg>>
    BY <1>3 DEF SetVariables, listVars, curVars
  <2>. QED  BY <2>1, SameList
<1>4. CASE Redraw
  <2>1. UNCHANGED <<kind, view, window, cachedmsgid, markedmsgid, curmsg>>
        /\ topmsg' = IF view = <<>> THEN 0 ELSE topmsg
    BY <1>4 DEF Redraw, listVars, setVars
  <2>2. topmsg' = topmsg \/ AtFirst  BY <1>0, <2>1 DEF AtFirst
  <2>. QED  BY <2>1, <2>2, SameList
<1>. QED  BY <1>1, <1>2, <1>3, <1>4 DEF Show

LEMMA CursorStep ==
  ASSUME NarrowingInv, NarrowingInv', CursorInv, [Next]_vars
  PROVE  CursorInv' /\ Outcome
<1>1. CASE UNCHANGED vars \/ Crashed
  <2>1. UNCHANGED <<kind, view, window, cachedmsgid, markedmsgid, curmsg, topmsg>>
    BY <1>1 DEF vars, Crashed, listVars, curVars, setVars
  <2>. QED  BY <2>1, SameList
<1>. QED
  BY <1>1, ArrivalsMoveCursor, MovesMoveCursor, DeletionsMoveCursor, ShowsMoveCursor DEF Next

(* Whatever takes messages out of the list, or changes the filter, leaves  *)
(* the cursor on its message if that one is still shown, and otherwise     *)
(* next to where it was (owl_function_redisplay_to_nearest and             *)
(* owl_function_change_currentview_filter, by the binary search of         *)
(* owl_view_get_nearest_to_msgid).                                         *)
THEOREM CursorStaysPut == Spec => CursorStays
<1>. DEFINE Stays ==
       LET old == CurmsgId
           new == ElementAt(view', curmsg')
       IN  /\ Len(msglist') < Len(msglist) \/ filter' # filter
           /\ InList(view, curmsg) /\ view' # <<>> /\ Sorted(view')
           => /\ InList(view', curmsg')
              /\ old \in ToSet(view') => new = old
              /\ ~ \E id \in ToSet(view') : (old < id /\ id < new) \/ (new < id /\ id < old)
<1>1. ASSUME NarrowingInv, NarrowingInv', CursorInv, [Next]_vars  PROVE [Stays]_vars
  <2>1. ASSUME Next, Len(msglist') < Len(msglist) \/ filter' # filter,
               InList(view, curmsg), view' # <<>>, Sorted(view')
        PROVE  Beside(view', curmsg', CurmsgId)
    <3>1. curmsg \in Int  BY <1>1 DEF CursorInv
    <3>. QED  BY <1>1, <2>1, <3>1, CursorStaysInStep, CursorIsPutBeside
  <2>. QED  BY <1>1, <2>1 DEF Beside
<1>. QED
  BY <1>1, NarrowingInit, NarrowingStep, CursorInit, CursorStep, PTL DEF Spec, CursorStays

-----------------------------------------------------------------------------
(* The messages of a view have as many lines as their style gives them, at *)
(* least one each.                                                         *)
LEMMA HeightsOfView ==
  ASSUME NEW ks, NEW v \in Seq(DOMAIN ks), NEW w \in Windows,
         \A id \in DOMAIN ks : ks[id] \in Kinds
  PROVE  /\ LinesOf(ks, v, w) \in Seq(Nat \ {0})
         /\ Len(LinesOf(ks, v, w)) = Len(v)
         /\ w.win \in Nat
<1>1. PICK n \in Nat : n = Len(v) /\ DOMAIN v = 1 .. n  BY LenProperties
<1>2. ASSUME NEW i \in 1 .. n  PROVE ks[v[i]].lines[w.layout] \in Nat \ {0}
  <2>1. v[i] \in DOMAIN ks  BY <1>1, ElementOfSeq
  <2>. QED  BY <2>1, HeightsAssumption
<1>3. PICK ls : ls = LinesOf(ks, v, w)  OBVIOUS
<1>4. ls \in [1 .. n -> Nat \ {0}]  BY <1>1, <1>2, <1>3 DEF LinesOf
<1>5. ls \in Seq(Nat \ {0}) /\ Len(ls) = n  BY <1>4, SeqDef, LenProperties
<1>. QED  BY <1>1, <1>3, <1>5, HeightsAssumption

LEMMA HeightsNow ==
  ASSUME NarrowingInv, HeightsInv
  PROVE  /\ view \in Seq(DOMAIN kind)
         /\ LinesOf(kind, view, window) \in Seq(Nat \ {0})
         /\ Len(LinesOf(kind, view, window)) = Len(view)
<1>1. msglist \in Seq(DOMAIN kind)  BY DEF NarrowingInv, QueuedAreUnlisted
<1>2. view = Only(msglist, ToSet(view))  BY DEF NarrowingInv, ViewIsNarrowedList
<1>3. view \in Seq(DOMAIN kind)  BY <1>1, <1>2, OnlyElements
<1>. QED  BY <1>3, HeightsOfView DEF HeightsInv

LEMMA HeightsNext ==
  ASSUME NarrowingInv', HeightsInv'
  PROVE  /\ view' \in Seq(DOMAIN kind')
         /\ LinesOf(kind', view', window') \in Seq(Nat \ {0})
         /\ Len(LinesOf(kind', view', window')) = Len(view')
         /\ window'.win \in Nat /\ window' \in Windows
<1>1. msglist' \in Seq(DOMAIN kind')  BY DEF NarrowingInv, QueuedAreUnlisted
<1>2. view' = Only(msglist', ToSet(view'))  BY DEF NarrowingInv, ViewIsNarrowedList
<1>3. view' \in Seq(DOMAIN kind')  BY <1>1, <1>2, OnlyElements
<1>. QED  BY <1>3, HeightsOfView DEF HeightsInv

(* Lists with the same first messages have the same lines there.           *)
LEMMA SameLines ==
  ASSUME NEW ls \in Seq(Nat \ {0}), NEW more \in Seq(Nat \ {0}), NEW n \in Nat,
         \A p \in 0 .. n - 1 : LinesAt(more, p) = LinesAt(ls, p),
         NEW a \in 0 .. n, NEW b \in a - 1 .. n - 1
  PROVE  LinesFromTo(more, a, b) = LinesFromTo(ls, a, b)
<1>1. PICK P : Sums(P, ls, n)  BY SumsExist
<1>2. Sums(P, more, n)
  <2>1. \A p \in 1 .. n : p - 1 \in 0 .. n - 1  OBVIOUS
  <2>. QED  BY <1>1, <2>1 DEF Sums
<1>. QED  BY <1>1, <1>2, LinesAreDifference

LEMMA NothingAbove ==
  ASSUME NEW ls, NEW win \in Nat, win > 0
  PROVE  OnScreen(ls, 0, 0, win)
<1>1. LinesFromTo(ls, 0, 0 - 1) = 0  BY DEF LinesFromTo
<1>. QED  BY <1>1 DEF OnScreen

(* The top has been calculated from where the cursor is now.               *)
LEMMA CalculatedIsSeen ==
  ASSUME NarrowingInv', CursorInv', HeightsInv, HeightsInv', topmsg \in Nat, Recalculates,
         window'.win > 0
  PROVE  topmsg' \in 0 .. curmsg' /\ CurmsgOnScreen'
<1>1. PICK ls : ls = LinesOf(kind', view', window')  OBVIOUS
<1>2. PICK cur : cur = curmsg'  OBVIOUS
<1>3. PICK win : win = window'.win  OBVIOUS
<1>4. PICK dir : topmsg' = CalculateTopmsg(scrollmode, dir, ls, cur, topmsg, win)
  BY <1>1, <1>2, <1>3 DEF Recalculates, CalculateTop
<1>5. ls \in Seq(Nat \ {0}) /\ Len(ls) = Len(view') /\ win \in Nat  BY <1>1, <1>3, HeightsNext
<1>6. Scene(ls, cur, win)  BY <1>2, <1>3, <1>5 DEF Scene, CursorInv
<1>7. scrollmode \in Modes  BY ModesAssumption DEF HeightsInv
<1>8. Seen(ls, cur, topmsg', win)  BY <1>4, <1>6, <1>7, ModesAreSeen
<1>. QED  BY <1>1, <1>2, <1>3, <1>5, <1>8 DEF Seen, CurmsgOnScreen, InList

(* A message that is seen is still seen when more are listed after it; so  *)
(* is the first message of all.                                            *)
LEMMA StaysSeen ==
  ASSUME NarrowingInv, NarrowingInv', CursorInv, ScreenInv, HeightsInv', Leaves,
         CurmsgOnScreen, ~(0 < curmsg /\ curmsg = Len(view) /\ Len(view) < Len(view')),
         window'.win > 0
  PROVE  CurmsgOnScreen'
<1>0. HeightsInv  BY DEF ScreenInv
<1>1. PICK ls : ls = LinesOf(kind, view, window)  OBVIOUS
<1>2. PICK more : more = LinesOf(kind', view', window')  OBVIOUS
<1>3. PICK n \in Nat : n = Len(view) /\ DOMAIN view = 1 .. n /\ (n = 0 => view = <<>>)
  BY ViewIsOfNumbers, LenProperties, EmptySeq
<1>4. PICK m \in Nat : m = Len(view') /\ DOMAIN view' = 1 .. m
  BY NextViewIsOfNumbers, LenProperties
<1>5. PICK win \in Nat : win = window'.win /\ win > 0 /\ win = window.win
  BY HeightsNext DEF Leaves
<1>6. PICK cur \in Nat : cur = curmsg /\ cur = curmsg' /\ cur <= n
  BY <1>3 DEF Leaves, CursorInv
<1>7. PICK top \in Nat : top = topmsg /\ top = topmsg'  BY DEF ScreenInv, Leaves
<1>8. SUFFICES ASSUME cur < m  PROVE OnScreen(more, cur, top, win)
  BY <1>2, <1>4, <1>5, <1>6, <1>7 DEF CurmsgOnScreen, InList
<1>9. CASE cur < n
  <2>1. OnScreen(ls, cur, top, win)
    BY <1>1, <1>3, <1>5, <1>6, <1>7, <1>9 DEF CurmsgOnScreen, InList
  <2>2. \A i \in 1 .. n : i \in 1 .. m /\ view'[i] = view[i]
    <3>1. CASE view' = view  BY <1>3, <1>4, <3>1
    <3>2. ASSUME NEW id \in DOMAIN kind', view' = Append(view, id)
          PROVE  \A i \in 1 .. n : i \in 1 .. m /\ view'[i] = view[i]
      <4>1. id \in Int  BY DEF NarrowingInv, IdsAreGiven
      <4>. QED  BY <1>3, <1>4, <3>2, <4>1, ViewIsOfNumbers, AppendProperties
    <3>. QED  BY <3>1, <3>2 DEF Leaves, ViewGrows
  <2>3. ASSUME NEW p \in 0 .. n - 1  PROVE LinesAt(more, p) = LinesAt(ls, p)
    <3>1. p + 1 \in 1 .. n /\ p + 1 \in 1 .. m  BY <2>2
    <3>2. view[p + 1] \in DOMAIN kind  BY <1>0, <1>3, <3>1, HeightsNow, ElementOfSeq
    <3>3. kind'[view[p + 1]] = kind[view[p + 1]]  BY <3>2 DEF Leaves, ViewGrows
    <3>4. DOMAIN ls = 1 .. n /\ DOMAIN more = 1 .. m  BY <1>1, <1>2, <1>3, <1>4 DEF LinesOf
    <3>5. ls[p + 1] = kind[view[p + 1]].lines[window.layout]  BY <1>1, <1>3, <3>1 DEF LinesOf
    <3>6. more[p + 1] = kind'[view'[p + 1]].lines[window'.layout]
      BY <1>2, <1>4, <3>1 DEF LinesOf
    <3>7. window' = window /\ view'[p + 1] = view[p + 1]  BY <2>2, <3>1 DEF Leaves
    <3>. QED  BY <3>1, <3>3, <3>4, <3>5, <3>6, <3>7 DEF LinesAt
  <2>4. ls \in Seq(Nat \ {0}) /\ more \in Seq(Nat \ {0})
    BY <1>0, <1>1, <1>2, HeightsNow, HeightsNext
  <2>5. top <= cur  BY <2>1 DEF OnScreen
  <2>6. top \in 0 .. n /\ cur - 1 \in top - 1 .. n - 1  BY <1>9, <2>5
  <2>7. LinesFromTo(more, top, cur - 1) = LinesFromTo(ls, top, cur - 1)
    BY <2>3, <2>4, <2>6, SameLines
  <2>. QED  BY <2>1, <2>7 DEF OnScreen
<1>10. CASE cur = n
  <2>1. cur = 0  BY <1>3, <1>4, <1>6, <1>8, <1>10
  <2>2. top = 0  BY <1>3, <1>7, <1>10, <2>1 DEF ScreenInv
  <2>. QED  BY <1>5, <2>1, <2>2, NothingAbove
<1>. QED  BY <1>6, <1>9, <1>10

(* Whatever a step does with the cursor, the current message is still, or  *)
(* again, among those written, except under a cursor that is past the end. *)
Shown ==
  LET arrivesUnderCursor == 0 < curmsg /\ curmsg = Len(view) /\ Len(view) < Len(view')
  IN  \/ CurmsgOnScreen /\ ~arrivesUnderCursor
      \/ curmsg' # curmsg \/ window' # window
      => CurmsgOnScreen'

LEMMA ScreenStep ==
  ASSUME NarrowingInv, NarrowingInv', CursorInv, CursorInv', ScreenInv, HeightsInv', Outcome,
         window'.win > 0
  PROVE  ScreenInv' /\ Shown
<1>1. PICK m \in Nat : m = Len(view') /\ (view' = <<>> => m = 0)
  BY NextViewIsOfNumbers, LenProperties
<1>2. curmsg' \in 0 .. m  BY <1>1 DEF CursorInv
<1>3. CASE Recalculates
  <2>1. topmsg' \in 0 .. curmsg' /\ CurmsgOnScreen'  BY <1>3, CalculatedIsSeen DEF ScreenInv
  <2>2. topmsg' \in Nat /\ (view' = <<>> => topmsg' = 0)  BY <1>1, <1>2, <2>1
  <2>. QED  BY <2>1, <2>2 DEF ScreenInv, Shown
<1>4. CASE Leaves
  <2>1. view' = <<>> => view = <<>>
    <3>1. Len(view) \in Nat /\ Len(view) <= Len(view')  BY <1>4, GrowingKeepsCursor DEF Leaves
    <3>2. Len(view) = 0 => view = <<>>  BY ViewIsOfNumbers, EmptySeq
    <3>. QED  BY <1>1, <3>1, <3>2
  <2>2. ScreenInv'  BY <1>4, <2>1 DEF ScreenInv, Leaves
  <2>3. Shown  BY <1>4, StaysSeen DEF Shown, Leaves
  <2>. QED  BY <2>2, <2>3
<1>5. CASE Outside
  <2>1. ScreenInv'  BY <1>5 DEF ScreenInv, Outside
  <2>2. ~InList(view', curmsg')  BY <1>1, <1>5 DEF Outside, InList
  <2>. QED  BY <2>1, <2>2 DEF Shown, CurmsgOnScreen
<1>6. CASE AtFirst
  <2>1. ScreenInv'  BY <1>6 DEF ScreenInv, AtFirst
  <2>2. window'.win \in Nat  BY HeightsNext
  <2>3. CurmsgOnScreen'  BY <1>6, <2>2, NothingAbove DEF AtFirst, CurmsgOnScreen
  <2>. QED  BY <2>1, <2>3 DEF Shown
<1>. QED  BY <1>3, <1>4, <1>5, <1>6 DEF Outcome

(* In a window of at least one line the current message is shown whatever  *)
(* moves the cursor, changes the heights, the window or the scroll mode;   *)
(* what is shown stays so when messages arrive, but under a cursor that is *)
(* past the end of the view (owl_function_calculate_topmsg and all that    *)
(* call it, and all that do not).                                          *)
THEOREM CurrentStaysShown ==
  ASSUME \A w \in Windows : w.win > 0
  PROVE  Spec => CurmsgStaysOnScreen
<1>. DEFINE Inv == NarrowingInv /\ CursorInv /\ ScreenInv
<1>1. Init => Inv  BY NarrowingInit, CursorInit, ScreenInit
<1>2. ASSUME Inv, [Next]_vars  PROVE Inv' /\ [Shown]_vars
  <2>1. NarrowingInv'  BY <1>2, NarrowingStep
  <2>2. CursorInv' /\ Outcome  BY <1>2, <2>1, CursorStep
  <2>3. HeightsInv'  BY <1>2, HeightsStep DEF ScreenInv
  <2>4. window'.win > 0  BY <2>1, <2>3, HeightsNext
  <2>. QED  BY <1>2, <2>1, <2>2, <2>3, <2>4, ScreenStep
<1>3. Inv /\ [Next]_vars => Inv' /\ [Shown]_vars  BY <1>2
<1>. QED  BY <1>1, <1>3, PTL DEF Spec, Shown, CurmsgStaysOnScreen
=============================================================================
