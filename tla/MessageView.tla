------------------------------ MODULE MessageView ------------------------------
(***************************************************************************)
(* The messages of BarnOwl and the window that shows them: the incoming    *)
(* queue and its processing (owl.c), the global list and the current view  *)
(* (messagelist.c, view.c), the cursor and the commands that move it,      *)
(* delete, expunge, narrow and mark (functions.c), and the main window's   *)
(* redraw (mainwin.c).                                                     *)
(*                                                                         *)
(* Everything here runs on the main thread, one callback of the main loop  *)
(* at a time; but processing a message calls Perl hooks and the alert      *)
(* action, which may run any command before the processing goes on.        *)
(*                                                                         *)
(* A message is its id.  Ids are given when a message is created and grow. *)
(***************************************************************************)
EXTENDS MessageList, FiniteSets

CONSTANTS
  MaxMsgs,     \* bound on the messages created
  Kinds,       \* what tells messages apart: [class, ignored, lines by layout]
  Filters,     \* filters: [classes matched, undeleted only]
  Windows,     \* terminal sizes: [win |-> lines, layout |-> index of lines]
  ScrollModes, \* the values of scrollmode the user picks from
  Commands     \* the commands the user and the hooks run

ASSUME MaxMsgsAssumption == MaxMsgs \in Nat

(* A style's text ends with a newline, which is added when it does not, so *)
(* that every message has a line (owl_style_get_formattext).               *)
ASSUME HeightsAssumption ==
  \A w \in Windows : w.win \in Nat /\ \A k \in Kinds : k.lines[w.layout] \in Nat \ {0}

ASSUME ModesAssumption == ScrollModes \subseteq Modes

VARIABLES
  kind,          \* id -> the message's kind, for the ids given so far
  queue,         \* g.messagequeue
  msglist,       \* g.msglist
  view,          \* g.current_view.ml
  filter,        \* g.current_view.filter
  cachedmsgid,   \* g.current_view.cachedmsgid
  deleted,       \* the messages whose delete mark is set
  curmsg, topmsg, vertOffset, direction, markedmsgid,   \* g.*
  followlast, scrollmode,                               \* variables
  window,        \* the window's size
  mw,            \* owl_mainwin: what the last redraw found
  dirty,         \* the main window is marked for redrawing
  stale,         \* what a redraw would show has changed since the last one
  proc,          \* the processing of the queue
  crashed        \* an undefined access took the program down

listVars == <<kind, queue, msglist, view, filter, cachedmsgid, deleted>>
curVars  == <<curmsg, topmsg, vertOffset, direction, markedmsgid>>
setVars  == <<followlast, scrollmode, window>>
vars     == <<listVars, curVars, setVars, mw, dirty, stale, proc, crashed>>

Ids == 0 .. MaxMsgs - 1
NextMsgid == Cardinality(DOMAIN kind)

Idle == [phase |-> "idle", followlast |-> FALSE, newmsgs |-> FALSE, msg |-> -1]

Init ==
  /\ kind = [id \in {} |-> <<>>]
  /\ queue = <<>> /\ msglist = <<>> /\ view = <<>>
  /\ filter \in Filters
  /\ cachedmsgid = 0          \* owl_global is a static object
  /\ deleted = {}
  /\ curmsg = 0 /\ topmsg = 0 /\ vertOffset = 0
  /\ direction = "down" /\ markedmsgid = -1
  /\ followlast = FALSE         \* its default
  /\ scrollmode \in ScrollModes
  /\ window \in Windows
  /\ \E b \in BOOLEAN :   \* owl_mainwin_new leaves lasttruncated unset
       mw = [curtruncated |-> FALSE, lasttruncated |-> b, lastdisplayed |-> -1]
  /\ dirty = TRUE /\ stale = FALSE
  /\ proc = Idle
  /\ crashed = FALSE

TypeOK ==
  /\ DOMAIN kind = 0 .. NextMsgid - 1 /\ DOMAIN kind \subseteq Ids
  /\ \A id \in DOMAIN kind : kind[id] \in Kinds
  /\ \A list \in {queue, msglist, view} : ToSet(list) \subseteq DOMAIN kind
  /\ filter \in Filters
  /\ cachedmsgid \in Ids \cup {0}
  /\ deleted \subseteq DOMAIN kind
  /\ curmsg \in 0 .. Len(view) /\ topmsg \in 0 .. MaxMsgs /\ vertOffset \in Nat
  /\ direction \in {"down", "up"}
  /\ markedmsgid \in -1 .. MaxMsgs - 1
  /\ followlast \in BOOLEAN /\ scrollmode \in ScrollModes /\ window \in Windows
  /\ mw \in [curtruncated : BOOLEAN, lasttruncated : BOOLEAN,
             lastdisplayed : -1 .. MaxMsgs - 1]
  /\ dirty \in BOOLEAN /\ stale \in BOOLEAN /\ crashed \in BOOLEAN
  /\ proc \in [phase : {"idle", "run", "hooks"}, followlast : BOOLEAN,
               newmsgs : BOOLEAN, msg : -1 .. MaxMsgs - 1]

-----------------------------------------------------------------------------
(* Matching, the view's contents and what the window shows of them.        *)

(* owl_filter_message_match *)
Matches(f, id, ks, del) ==
  ks[id].class \in f.classes /\ (f.undeleted => id \notin del)

(* owl_view_recalculate: every listed message the filter matches.          *)
Recalculated(list, f, del) ==
  Only(list, {id \in ToSet(list) : Matches(f, id, kind, del)})

LinesOf(ks, v, w) == [i \in DOMAIN v |-> ks[v[i]].lines[w.layout]]

(* What owl_mainwin_redraw puts on the screen depends on these.            *)
Display == <<view, topmsg, curmsg, vertOffset, markedmsgid, deleted \cap ToSet(view), window>>

(* owl_function_get_curmsg_id *)
CurmsgId ==
  IF InList(view, curmsg) THEN ElementAt(view, curmsg)
  ELSE IF curmsg > 0 THEN -1 ELSE 0

(* owl_global_should_followlast *)
ShouldFollowlast(cur, v) == followlast /\ cur = Len(v) - 1

(* owl_mainwin_redisplay; and the bookkeeping of what a redraw would change. *)
Redisplay == dirty' = TRUE /\ stale' = (stale \/ Display' # Display)
NoRedisplay == dirty' = dirty /\ stale' = (stale \/ Display' # Display)

-----------------------------------------------------------------------------
(* Moving the cursor.  set_curmsg resets the vertical offset; the callers  *)
(* then recalculate the top message from the new position.                 *)
SetCurmsg(p) == curmsg' = p /\ vertOffset' = 0

CalculateTop(dir) ==
  topmsg' = CalculateTopmsg(scrollmode, dir, LinesOf(kind', view', window'),
                            curmsg', topmsg, window'.win)

(* owl_function_lastmsg, on the list it finds: when the cursor is already  *)
(* at the end, the screen is blanked and the cursor goes past the end.     *)
Lastmsg ==
  LET last == IF Len(view') = 0 THEN 0 ELSE Len(view') - 1 IN
  /\ IF curmsg < last
       THEN SetCurmsg(last) /\ CalculateTop("down")
     ELSE IF last < Len(view')
       THEN SetCurmsg(last + 1) /\ topmsg' = last + 1
     ELSE SetCurmsg(last) /\ topmsg' = topmsg
  /\ direction' = "down"

(* Broken variant: the cursor keeps its position, not its message.         *)
RedisplayToSamePosition(msgid) ==
  /\ view' = Recalculated(msglist', filter, deleted')
  /\ SetCurmsg(IF msgid < 0 THEN Len(view') ELSE Max({0, Min({curmsg, Len(view') - 1})}))
  /\ CalculateTop("none")
  /\ direction' = "down"

(* owl_function_redisplay_to_nearest, once the list has been changed.      *)
RedisplayToNearest(msgid) ==
  /\ view' = Recalculated(msglist', filter, deleted')
  /\ IF msgid < 0
       THEN SetCurmsg(Len(view')) /\ topmsg' = Len(view')
     ELSE LET near == NearestToMsgid(view', msgid) IN
          /\ SetCurmsg(IF view' = <<>> THEN 0 ELSE Min({near, Len(view') - 1}))
          /\ CalculateTop("none")
  /\ direction' = "down"

(* Commands run from the keyboard, between two callbacks, or from a hook.  *)
MayRun(command) ==
  command \in Commands /\ proc.phase \in {"idle", "hooks"} /\ ~crashed

(* The cursor goes to position p, the top message follows.                 *)
MoveTo(p, dir) == SetCurmsg(p) /\ CalculateTop(dir) /\ Redisplay

-----------------------------------------------------------------------------
(* Messages are created.                                                   *)

(* owl_message_init gives the message the next id.                         *)
WithMessage(id, k) == [m \in DOMAIN kind \cup {id} |-> IF m = id THEN k ELSE kind[m]]

(* Broken variant: the queue is a stack.                                   *)
EnqueueFirst(k) ==
  /\ MayRun("enqueue") /\ NextMsgid < MaxMsgs
  /\ kind' = WithMessage(NextMsgid, k)
  /\ queue' = <<NextMsgid>> \o queue
  /\ UNCHANGED <<msglist, view, filter, cachedmsgid, deleted, curVars, setVars,
                 mw, dirty, stale, proc, crashed>>

(* A protocol, or a hook, makes a message and puts it on the queue:        *)
(* owl_message_init, owl_global_messagequeue_addmsg.                       *)
Enqueue(k) ==
  /\ MayRun("enqueue") /\ NextMsgid < MaxMsgs
  /\ kind' = WithMessage(NextMsgid, k)
  /\ queue' = Append(queue, NextMsgid)
  /\ UNCHANGED <<msglist, view, filter, cachedmsgid, deleted, curVars, setVars,
                 mw, dirty, stale, proc, crashed>>

(* The view takes the listed message if its filter matches it.             *)
ConsiderMessage(id) ==
  view' = IF Matches(filter, id, kind', deleted) THEN Append(view, id) ELSE view

(* Broken variant: only a cursor that moves redisplays.                    *)
AdminMsgWithoutRedisplay(k) ==
  LET id == NextMsgid IN
  /\ MayRun("adminmsg") /\ id < MaxMsgs
  /\ kind' = WithMessage(id, k)
  /\ msglist' = Append(msglist, id)
  /\ ConsiderMessage(id)
  /\ UNCHANGED <<queue, filter, cachedmsgid, deleted, markedmsgid, setVars, mw, proc, crashed>>
  /\ IF ShouldFollowlast(curmsg, view') THEN Lastmsg /\ Redisplay
     ELSE UNCHANGED <<curmsg, topmsg, vertOffset, direction>> /\ NoRedisplay

(* owl_function_adminmsg: listed at once, ahead of what is queued.         *)
AdminMsg(k) ==
  LET id == NextMsgid IN
  /\ MayRun("adminmsg") /\ id < MaxMsgs
  /\ kind' = WithMessage(id, k)
  /\ msglist' = Append(msglist, id)
  /\ ConsiderMessage(id)
  /\ UNCHANGED <<queue, filter, cachedmsgid, deleted, markedmsgid, setVars, mw, proc, crashed>>
  /\ IF ShouldFollowlast(curmsg, view') THEN Lastmsg
     ELSE UNCHANGED <<curmsg, topmsg, vertOffset, direction>>
  /\ Redisplay

-----------------------------------------------------------------------------
(* The queue is processed: owl_process_messages_dispatch.                  *)

(* Broken variant: one message is not taken for a queue.                   *)
DispatchStartOnSecond ==
  /\ proc.phase = "idle" /\ Len(queue) > 1 /\ ~crashed
  /\ proc' = [Idle EXCEPT !.phase = "run", !.followlast = ShouldFollowlast(curmsg, view)]
  /\ UNCHANGED <<listVars, curVars, setVars, mw, dirty, stale, crashed>>

(* The source is ready while the queue holds something; whether the cursor *)
(* is to follow is decided before the first message.                       *)
DispatchStart ==
  /\ proc.phase = "idle" /\ queue # <<>> /\ ~crashed
  /\ proc' = [Idle EXCEPT !.phase = "run", !.followlast = ShouldFollowlast(curmsg, view)]
  /\ UNCHANGED <<listVars, curVars, setVars, mw, dirty, stale, crashed>>

(* owl_process_message, up to the hooks: punted, ignored and undisplayed   *)
(* messages are freed; any other one is listed and offered to the view.    *)
ProcessMessage ==
  /\ proc.phase = "run" /\ queue # <<>> /\ ~crashed
  /\ queue' = Tail(queue) /\ kind' = kind
  /\ LET id == Head(queue) IN
       IF kind[id].ignored
         THEN UNCHANGED <<msglist, view, proc>>
         ELSE /\ msglist' = Append(msglist, id)
              /\ ConsiderMessage(id)
              /\ proc' = [proc EXCEPT !.phase = "hooks", !.msg = id]
  /\ UNCHANGED <<filter, cachedmsgid, deleted, curVars, setVars, mw, crashed>>
  /\ NoRedisplay

(* The rest of owl_process_message reads the message: undefined if a hook  *)
(* has made the list let go of it.                                         *)
FinishMessage ==
  /\ proc.phase = "hooks" /\ ~crashed
  /\ proc' = [proc EXCEPT !.phase = "run", !.newmsgs = TRUE, !.msg = -1]
  /\ crashed' \in (IF proc.msg \in ToSet(msglist) THEN {FALSE} ELSE BOOLEAN)
  /\ UNCHANGED <<listVars, curVars, setVars, mw, dirty, stale>>

(* Broken variant: the screen is redrawn only when the cursor follows.     *)
DispatchEndWithoutRedisplay ==
  /\ proc.phase = "run" /\ queue = <<>> /\ ~crashed
  /\ proc' = Idle
  /\ UNCHANGED <<listVars, markedmsgid, setVars, mw, crashed>>
  /\ IF proc.newmsgs /\ proc.followlast THEN Lastmsg /\ Redisplay
     ELSE UNCHANGED <<curmsg, topmsg, vertOffset, direction>> /\ NoRedisplay

(* If anything was listed, the cursor follows and the window is redrawn.   *)
DispatchEnd ==
  /\ proc.phase = "run" /\ queue = <<>> /\ ~crashed
  /\ proc' = Idle
  /\ UNCHANGED <<listVars, markedmsgid, setVars, mw, crashed>>
  /\ IF proc.newmsgs /\ proc.followlast THEN Lastmsg
     ELSE UNCHANGED <<curmsg, topmsg, vertOffset, direction>>
  /\ IF proc.newmsgs THEN Redisplay ELSE NoRedisplay

-----------------------------------------------------------------------------
(* Commands that move the cursor.                                          *)

unmoved == <<listVars, markedmsgid, setVars, mw, proc, crashed>>

(* The positions of v that a filtered move may stop at.                    *)
Stops(v, f, skipDeleted, del) ==
  {p \in 0 .. Len(v) - 1 : /\ Matches(f, ElementAt(v, p), kind, {})
                           /\ skipDeleted => ElementAt(v, p) \notin del}

(* owl_function_nextmsg_full, from cur: the first stop after it, or the    *)
(* last message; nothing if that is not wanted.                            *)
NextFrom(cur, f, skipDeleted, lastIfNone) ==
  LET start == Max({0, Min({cur, Len(view) - 1})})
      stops == {p \in Stops(view, f, skipDeleted, deleted') : p > start}
  IN  IF stops # {} \/ lastIfNone
        THEN /\ MoveTo(IF stops # {} THEN Min(stops) ELSE Max({0, Len(view) - 1}), "down")
             /\ direction' = "down"
        ELSE /\ curmsg' = cur /\ UNCHANGED <<topmsg, vertOffset, direction>> /\ NoRedisplay

(* owl_function_prevmsg_full *)
PrevFrom(cur, f, skipDeleted, firstIfNone) ==
  LET stops == {p \in Stops(view, f, skipDeleted, deleted') : p < cur}
  IN  IF stops # {} \/ firstIfNone
        THEN /\ MoveTo(IF stops # {} THEN Max(stops) ELSE 0, "up")
             /\ direction' = "up"
        ELSE /\ curmsg' = cur /\ UNCHANGED <<topmsg, vertOffset, direction>> /\ NoRedisplay

NoFilter == [classes |-> {k.class : k \in Kinds}, undeleted |-> FALSE]

NextMsg(f, skipDeleted, lastIfNone) ==
  MayRun("next") /\ UNCHANGED unmoved /\ NextFrom(curmsg, f, skipDeleted, lastIfNone)

PrevMsg(f, skipDeleted, firstIfNone) ==
  MayRun("prev") /\ UNCHANGED unmoved /\ PrevFrom(curmsg, f, skipDeleted, firstIfNone)

(* owl_function_firstmsg *)
FirstMsg ==
  /\ MayRun("first") /\ UNCHANGED unmoved
  /\ SetCurmsg(0) /\ topmsg' = 0 /\ direction' = "down" /\ Redisplay

(* owl_function_lastmsg as a command *)
LastMsg == MayRun("last") /\ UNCHANGED unmoved /\ Lastmsg /\ Redisplay

(* owl_function_mainwin_pagedown: from the last message that the last      *)
(* redraw reached, or the one before it when that one was cut.             *)
PageDown ==
  /\ MayRun("page") /\ UNCHANGED unmoved
  /\ LET last == mw.lastdisplayed
         cut  == mw.lasttruncated /\ curmsg < last /\ last > 0
     IN  last >= 0 /\ NextFrom(IF cut THEN last - 1 ELSE last, NoFilter, FALSE, TRUE)

(* owl_function_mainwin_pageup *)
PageUp == MayRun("page") /\ UNCHANGED unmoved /\ PrevFrom(topmsg, NoFilter, FALSE, TRUE)

(* owl_function_page_curmsg: scrolls inside the current message, when the  *)
(* last redraw cut it or it is scrolled already.                           *)
PageCurmsg(step) ==
  LET lines == LinesAt(LinesOf(kind, view, window), curmsg) IN
  /\ MayRun("scroll") /\ InList(view, curmsg)
  /\ vertOffset = 0 => mw.curtruncated /\ mw.lastdisplayed = curmsg
  /\ vertOffset' = IF step > 0 THEN Min({vertOffset + step, lines - 1})
                   ELSE Max({vertOffset + step, 0})
  /\ UNCHANGED <<unmoved, curmsg, topmsg, direction>>
  /\ Redisplay

(* owl_function_search_helper: the first message from start on that the    *)
(* pattern, here a set of classes, matches; an interrupt ends the search.  *)
Search(dir, considerCurrent, classes) ==
  LET step  == IF dir = "down" THEN 1 ELSE -1
      start == IF considerCurrent THEN curmsg ELSE curmsg + step
      ahead == {p \in 0 .. Len(view) - 1 : IF dir = "down" THEN p >= start ELSE p <= start}
      hits  == {p \in ahead : kind[ElementAt(view, p)].class \in classes}
      hit   == IF dir = "down" THEN Min(hits) ELSE Max(hits)
  IN  /\ MayRun("search") /\ InList(view, start) /\ UNCHANGED unmoved
      /\ \/ hits # {} /\ MoveTo(hit, dir) /\ direction' = dir
         \/ /\ start \notin hits
            /\ UNCHANGED <<curmsg, topmsg, vertOffset, direction>> /\ Redisplay

(* owl_function_mark_message; past the end there is nothing to mark.       *)
MarkMessage ==
  /\ MayRun("mark") /\ InList(view, curmsg)
  /\ markedmsgid' = ElementAt(view, curmsg)
  /\ UNCHANGED <<listVars, curmsg, topmsg, vertOffset, direction, setVars, mw, proc, crashed>>
  /\ Redisplay

(* owl_function_swap_cur_marked *)
SwapCurMarked ==
  /\ MayRun("mark") /\ markedmsgid # -1 /\ view # <<>>
  /\ markedmsgid' = IF InList(view, curmsg) THEN ElementAt(view, curmsg) ELSE markedmsgid
  /\ UNCHANGED <<listVars, setVars, mw, proc, crashed>>
  /\ MoveTo(NearestToMsgid(view, markedmsgid), "none")
  /\ direction' = "down"

-----------------------------------------------------------------------------
(* Commands that delete, undelete and expunge.                             *)

unlisted == <<kind, queue, filter, cachedmsgid, markedmsgid, setVars, mw, proc>>

(* owl_function_deletecur.  Past the end, owl_messagelist_delete_element   *)
(* reads outside of its array.                                             *)
DeleteCur(moveAfter) ==
  /\ MayRun(IF moveAfter THEN "delete" ELSE "deletenomove") /\ view # <<>>
  /\ IF InList(view, curmsg)
       THEN deleted' = deleted \cup {ElementAt(view, curmsg)} /\ crashed' = FALSE
       ELSE deleted' = deleted /\ crashed' \in BOOLEAN
  /\ UNCHANGED <<unlisted, msglist, view>>
  /\ CASE ~moveAfter -> UNCHANGED <<curmsg, topmsg, vertOffset, direction>> /\ NoRedisplay
       [] moveAfter /\ direction = "up" -> PrevFrom(curmsg, NoFilter, TRUE, TRUE)
       [] OTHER -> NextFrom(curmsg, NoFilter, TRUE, TRUE)

(* owl_function_undeletecur, which redisplays in any case.                 *)
UndeleteCur(moveAfter) ==
  /\ MayRun("undelete") /\ view # <<>>
  /\ IF InList(view, curmsg)
       THEN deleted' = deleted \ {ElementAt(view, curmsg)} /\ crashed' = FALSE
       ELSE deleted' = deleted /\ crashed' \in BOOLEAN
  /\ UNCHANGED <<unlisted, msglist, view>>
  /\ CASE ~moveAfter -> UNCHANGED <<curmsg, topmsg, vertOffset, direction>> /\ Redisplay
       [] moveAfter /\ direction = "up" /\ curmsg > 0 -> PrevFrom(curmsg, NoFilter, FALSE, TRUE)
       [] OTHER -> NextFrom(curmsg, NoFilter, FALSE, TRUE)

(* The marks change, nothing moves, the window is redisplayed.             *)
MarkDeletions(ids, flag) ==
  /\ deleted' = IF flag THEN deleted \cup ids ELSE deleted \ ids
  /\ UNCHANGED <<unlisted, msglist, view, curmsg, topmsg, vertOffset, direction, crashed>>
  /\ Redisplay

(* owl_function_delete_by_id *)
DeleteById(id, flag) ==
  MayRun("deletebyid") /\ IndexById(msglist, id) # -1 /\ MarkDeletions({id}, flag)

(* owl_function_delete_curview_msgs *)
DeleteCurviewMsgs(flag) == MayRun("deleteview") /\ MarkDeletions(ToSet(view), flag)

(* owl_function_delete_automsgs, with the trash filter *)
DeleteAutomsgs(trash) ==
  /\ MayRun("deleteview")
  /\ MarkDeletions({id \in ToSet(view) : Matches(trash, id, kind, deleted)}, TRUE)

(* Broken variant: the view is not recalculated from the shortened list.   *)
ExpungeKeepingView ==
  /\ MayRun("expunge")
  /\ msglist' = Without(msglist, deleted)
  /\ deleted' = deleted \ ToSet(msglist)
  /\ view' = view
  /\ UNCHANGED <<unlisted, crashed, curmsg, topmsg, vertOffset, direction>>
  /\ Redisplay

(* owl_function_expunge *)
Expunge ==
  /\ MayRun("expunge")
  /\ msglist' = Without(msglist, deleted)
  /\ deleted' = deleted \ ToSet(msglist)
  /\ UNCHANGED <<unlisted, crashed>>
  /\ RedisplayToNearest(CurmsgId)
  /\ Redisplay

(* owl_function_delete_and_expunge_message: position n of the global list. *)
(* Outside of it, g_ptr_array_remove_index returns NULL, which is freed    *)
(* like a message.                                                         *)
DeleteAndExpunge(n) ==
  IF InList(msglist, n)
    THEN /\ msglist' = WithoutPosition(msglist, n)
         /\ deleted' = deleted \ {ElementAt(msglist, n)}
         /\ UNCHANGED <<unlisted, crashed>>
         /\ RedisplayToNearest(CurmsgId)
         /\ Redisplay
    ELSE /\ crashed' = TRUE
         /\ UNCHANGED <<listVars, curVars, setVars, mw, dirty, stale, proc>>

(* owl_function_delete_and_expunge_cur: the cursor's position in the view. *)
DeleteAndExpungeCur == MayRun("deleteexpungecur") /\ view # <<>> /\ DeleteAndExpunge(curmsg)

(* owl_function_delete_and_expunge_by_id *)
DeleteAndExpungeById(id) ==
  /\ MayRun("deleteexpungebyid") /\ IndexById(msglist, id) # -1
  /\ DeleteAndExpunge(IndexById(msglist, id))

-----------------------------------------------------------------------------
(* Commands that change what is shown.                                     *)

(* owl_function_change_currentview_filter *)
ChangeFilter(f) ==
  /\ MayRun("filter")
  /\ filter' = f
  /\ view' = Recalculated(msglist, f, deleted)
  /\ cachedmsgid' = IF InList(view, curmsg) THEN ElementAt(view, curmsg) ELSE cachedmsgid
  /\ UNCHANGED <<kind, queue, msglist, deleted, markedmsgid, setVars, mw, proc, crashed>>
  /\ MoveTo(NearestToMsgid(view', cachedmsgid'), "down")
  /\ direction' = "down"

(* owl_function_change_style: the messages' heights change.                *)
ChangeStyle(w) ==
  /\ MayRun("style") /\ w.win = window.win
  /\ window' = w
  /\ UNCHANGED <<listVars, curmsg, vertOffset, direction, markedmsgid, followlast,
                 scrollmode, mw, proc, crashed>>
  /\ CalculateTop("down") /\ Redisplay

(* Broken variant: the top message is left where it was.                   *)
ResizeKeepingTop(w) ==
  /\ proc.phase = "idle" /\ ~crashed /\ "resize" \in Commands
  /\ window' = w
  /\ UNCHANGED <<listVars, curVars, followlast, scrollmode, mw, proc, crashed>>
  /\ Redisplay

(* owl_mainwin_resized: the main loop lays out the windows again.          *)
Resize(w) ==
  /\ proc.phase = "idle" /\ ~crashed /\ "resize" \in Commands
  /\ window' = w
  /\ UNCHANGED <<listVars, curmsg, vertOffset, direction, markedmsgid, followlast,
                 scrollmode, mw, proc, crashed>>
  /\ CalculateTop("none") /\ Redisplay

(* The variables scrollmode and _followlast are read when next needed.     *)
SetVariables(mode, follow) ==
  /\ MayRun("set")
  /\ scrollmode' = mode /\ followlast' = follow
  /\ UNCHANGED <<listVars, curVars, window, mw, dirty, stale, proc, crashed>>

(* owl_mainwin_redraw, from the redraw's source: what it finds on the      *)
(* way is kept for paging.                                                 *)
Redraw ==
  LET ls         == LinesOf(kind, view, window)
      height(p)  == Max({0, LinesAt(ls, p) - (IF p = curmsg THEN vertOffset ELSE 0)})
      bottom(p)  == MapThenSumSet(height, topmsg .. p)
      full       == {p \in topmsg .. Len(view) - 1 : bottom(p) > window.win - 1}
      last       == Min(full \cup {Len(view) - 1})
  IN  /\ proc.phase = "idle" /\ dirty /\ ~crashed
      /\ dirty' = FALSE /\ stale' = FALSE
      /\ topmsg' = IF view = <<>> THEN 0 ELSE topmsg
      /\ mw' = IF topmsg >= Len(view)
                 THEN [mw EXCEPT !.curtruncated = FALSE, !.lastdisplayed = -1]
                 ELSE [curtruncated  |-> curmsg \in topmsg .. last /\ bottom(curmsg) > window.win,
                       lasttruncated |-> bottom(last) > window.win,
                       lastdisplayed |-> last]
      /\ UNCHANGED <<listVars, curmsg, vertOffset, direction, markedmsgid, setVars, proc, crashed>>

Crashed == crashed /\ UNCHANGED vars

-----------------------------------------------------------------------------
Receive == \E k \in Kinds : Enqueue(k) \/ AdminMsg(k)

Process == DispatchStart \/ ProcessMessage \/ FinishMessage \/ DispatchEnd

Move ==
  \/ \E f \in Filters, skip, stop \in BOOLEAN : NextMsg(f, skip, stop) \/ PrevMsg(f, skip, stop)
  \/ FirstMsg \/ LastMsg \/ PageDown \/ PageUp \/ MarkMessage \/ SwapCurMarked
  \/ \E step \in {-1, 1} : PageCurmsg(step)
  \/ \E dir \in {"down", "up"}, here \in BOOLEAN, f \in Filters : Search(dir, here, f.classes)

Delete ==
  \/ \E b \in BOOLEAN : DeleteCur(b) \/ UndeleteCur(b) \/ DeleteCurviewMsgs(b)
  \/ \E id \in Ids, b \in BOOLEAN : DeleteById(id, b)
  \/ \E f \in Filters : DeleteAutomsgs(f)
  \/ Expunge \/ DeleteAndExpungeCur \/ \E id \in Ids : DeleteAndExpungeById(id)

Show ==
  \/ \E f \in Filters : ChangeFilter(f)
  \/ \E w \in Windows : ChangeStyle(w) \/ Resize(w)
  \/ \E m \in ScrollModes, b \in BOOLEAN : SetVariables(m, b)
  \/ Redraw

Next == Receive \/ Process \/ Move \/ Delete \/ Show \/ Crashed

Spec == Init /\ [][Next]_vars

(* The main loop dispatches the queue's source while something is queued   *)
(* and the redraw's while the screen is marked; they have one priority, so *)
(* that neither keeps the other waiting.                                   *)
FairSpec == Spec /\ WF_vars(Process) /\ WF_vars(Redraw)

-----------------------------------------------------------------------------
(* The view is the global list, narrowed: its messages are listed, in the  *)
(* same order; and unless the filter looks at deletion marks, which change *)
(* without a recalculation, it is all and only the messages that match.    *)
ViewIsNarrowedList ==
  /\ view = Only(msglist, ToSet(view))
  /\ ~filter.undeleted => view = Recalculated(msglist, filter, deleted)

(* "so that new messages will appear starting at the top of the screen":   *)
(* the current message, one that arrived under a cursor past the end too,  *)
(* is among those written when the window is redrawn.                      *)
CurmsgOnScreen ==
  InList(view, curmsg) =>
    OnScreen(LinesOf(kind, view, window), curmsg, topmsg, window.win)

(* Whatever moves the cursor or changes the heights or the window shows    *)
(* the current message, and nothing else pushes it off the screen but for  *)
(* a message that arrives under a cursor past the end.                     *)
CurmsgStaysOnScreen ==
  [][ LET arrivesUnderCursor == 0 < curmsg /\ curmsg = Len(view) /\ Len(view) < Len(view')
      IN  \/ CurmsgOnScreen /\ ~arrivesUnderCursor
          \/ curmsg' # curmsg \/ window' # window
          => CurmsgOnScreen' ]_vars

(* Between two callbacks of the main loop, a display that is out of date   *)
(* is marked for redrawing.                                                *)
NoMissedRedisplay == proc.phase = "idle" /\ stale /\ ~crashed => dirty

(* Ids grow along the list and on into the queue; the binary searches by   *)
(* id rely on it.  Nothing puts them out of order but an admin message     *)
(* that is listed ahead of the queued ones, whose ids are smaller.         *)
IdsGrow ==
  [][ LET overtakes == queue # <<>> /\ queue' = queue /\ Len(msglist') > Len(msglist)
      IN  Sorted(msglist \o queue) /\ ~overtakes => Sorted(msglist' \o queue') ]_vars

(* The cursor does not jump: when messages are taken out or the filter is  *)
(* changed, the cursor stays on its message if the view still has it, and  *)
(* otherwise no message of the view lies between the old one and the new.  *)
(* Where an admin message has put the view out of order, its binary search *)
(* promises nothing.                                                       *)
CursorStays ==
  [][ LET old == CurmsgId
          new == ElementAt(view', curmsg')
      IN  /\ Len(msglist') < Len(msglist) \/ filter' # filter
          /\ InList(view, curmsg) /\ view' # <<>> /\ Sorted(view')
          => /\ InList(view', curmsg')
             /\ old \in ToSet(view') => new = old
             /\ ~ \E id \in ToSet(view') : (old < id /\ id < new) \/ (new < id /\ id < old)
    ]_vars

(* "delete the current message": delete-and-expunge without an id removes  *)
(* the message under the cursor.                                           *)
CurrentIsExpunged ==
  [][Len(msglist') < Len(msglist) => CurmsgId \notin ToSet(msglist')]_vars

(* "bail if there's no current message": no command reads or frees what is *)
(* not there.                                                              *)
NoCrash == ~crashed

(* What is queued is processed, whatever the hooks and the user do.        *)
QueueIsProcessed == \A id \in Ids : id \in ToSet(queue) ~> id \notin ToSet(queue) \/ crashed

(* Whatever has changed gets onto the screen.                              *)
ScreenCatchesUp == stale ~> ~stale \/ crashed

(* Together: what arrives is on the screen in the end.                     *)
ArrivalsAreShown == QueueIsProcessed /\ ScreenCatchesUp
=============================================================================
