------------------------------ MODULE MessageList ------------------------------
(***************************************************************************)
(* Lists of messages (messagelist.c), the searches over them (view.c) and  *)
(* the scroll modes of the window that shows one (functions.c).            *)
(*                                                                         *)
(* A list is the sequence of its messages' ids.  Positions are those of    *)
(* the C code: the first message is at position 0.  Both searches are      *)
(* binary, so they rely on ids that grow along the list.                   *)
(***************************************************************************)
EXTENDS Subsequences, SequencesExt

(* Position p of the list holds a message. *)
InList(list, p) == p >= 0 /\ p < Len(list)

(* The message at position p. *)
ElementAt(list, p) == list[p + 1]

Distance(a, b) == IF a < b THEN b - a ELSE a - b

(* The ids grow along the list. *)
Sorted(list) == \A i, j \in DOMAIN list : i < j => list[i] < list[j]

(* The list without the message at position p. *)
WithoutPosition(list, p) == Subsequence(list, DOMAIN list \ {p + 1})

-----------------------------------------------------------------------------
(* Broken variant: the upper half skips the message next to the middle.    *)
SkippingProbe(list, target) ==
  LET probe[first \in 0 .. Len(list) + 1, last \in -1 .. Len(list) - 1] ==
        LET mid == (first + last) \div 2
            id  == ElementAt(list, mid)
        IN  IF id = target \/ (id < target /\ mid + 2 > last)
                           \/ (id > target /\ first > mid - 1)
              THEN [mid |-> mid, id |-> id]
            ELSE IF id < target THEN probe[mid + 2, last]
            ELSE probe[first, mid - 1]
  IN  IF list = <<>> THEN [mid |-> 0, id |-> 0] ELSE probe[0, Len(list) - 1]

(* The ranges of positions that a search looks in, from first to last.     *)
Ranges(list) ==
  {range \in (0 .. Len(list) - 1) \X (0 .. Len(list) - 1) : range[1] <= range[2]}

(* The probes of the binary search for target between positions first and  *)
(* last: where it ends, as the last position probed and the id found there *)
(* (0 and 0 when nothing is probed, as the C locals are initialised).      *)
LastProbe(list, target) ==
  LET probe[range \in Ranges(list)] ==
        LET first == range[1]
            last  == range[2]
            mid   == (first + last) \div 2
            id    == ElementAt(list, mid)
        IN  IF id = target \/ (id < target /\ mid + 1 > last)
                           \/ (id > target /\ first > mid - 1)
              THEN [mid |-> mid, id |-> id]
            ELSE IF id < target THEN probe[<<mid + 1, last>>]
            ELSE probe[<<first, mid - 1>>]
  IN  IF list = <<>> THEN [mid |-> 0, id |-> 0] ELSE probe[<<0, Len(list) - 1>>]

(* owl_messagelist_get_index_by_id. *)
IndexById(list, target) ==
  LET end == LastProbe(list, target) IN
  IF list # <<>> /\ end.id = target THEN end.mid ELSE -1

(* owl_view_get_nearest_to_msgid: where the search for targetid ends, or   *)
(* its neighbour on targetid's side when that one is no farther.           *)
NearestToMsgid(list, target) ==
  LET end  == LastProbe(list, target)
      mid  == end.mid
      best == Distance(target, end.id)
      max  == Len(list) - 1
  IN  IF end.id < target /\ mid + 1 < max
        THEN IF best < Distance(target, ElementAt(list, mid + 1)) THEN mid ELSE mid + 1
      ELSE IF end.id > target /\ mid - 1 >= 0
        THEN IF best < Distance(target, ElementAt(list, mid - 1)) THEN mid ELSE mid - 1
      ELSE mid

(* "return the message index with id == 'id'.  If it doesn't exist return  *)
(* -1": the search by id finds a message exactly when it is in the list,   *)
(* at its position.                                                        *)
IndexByIdIsExact(list, target) ==
  LET p == IndexById(list, target) IN
  IF target \in ToSet(list) THEN InList(list, p) /\ ElementAt(list, p) = target
  ELSE p = -1

(* "Returns the position in the view with a message closest to the passed  *)
(* msgid": no message of a growing list is closer to the id asked for than *)
(* the one returned; an empty list gives position 0.                       *)
NearestIsClosest(list, target) ==
  LET p == NearestToMsgid(list, target) IN
  IF list = <<>> THEN p = 0
  ELSE /\ InList(list, p)
       /\ \A q \in DOMAIN list :
            Distance(target, ElementAt(list, p)) <= Distance(target, list[q])

-----------------------------------------------------------------------------
(* Which message of a view the main window shows first: the scroll modes   *)
(* of owl_function_calculate_topmsg (functions.c).  The view is given by   *)
(* the number of lines of each of its messages, ls; positions count from   *)
(* 0; win is the number of lines of the window.                            *)
Modes == {"top", "neartop", "center", "paged", "pagedcenter", "normal"}

(* OWL_DIRECTION_NONE, _DOWNWARDS, _UPWARDS *)
Directions == {"none", "down", "up"}

(* The lines of the message at position p; owl_message_get_numlines of a   *)
(* NULL message, outside the view, is 0.                                   *)
LinesAt(ls, p) == IF p + 1 \in DOMAIN ls THEN ls[p + 1] ELSE 0

(* The lines from position a to position b, both included. *)
LinesFromTo(ls, a, b) ==
  LET sum[p \in a - 1 .. b] == IF p < a THEN 0 ELSE sum[p - 1] + LinesAt(ls, p)
  IN  IF b < a THEN 0 ELSE sum[b]

-----------------------------------------------------------------------------
CalculateTopmsgTop(cur) == cur

CalculateTopmsgNeartop(ls, cur, win) ==
  IF cur > 0 /\ LinesAt(ls, cur - 1) < win \div 2 THEN cur - 1 ELSE cur

(* As many messages above cur as fit in half the window. *)
CalculateTopmsgCenter(ls, cur, win) ==
  Min({p \in 0 .. cur : LinesFromTo(ls, p, cur - 1) <= win \div 2})

(* Broken variant: a page that is exactly full counts as overfull.         *)
PagedUpToTheEdge(ls, cur, top, win, centerOnPage) ==
  LET lastOnPage ==
        Min({cur} \cup {p \in 0 .. cur : LinesFromTo(ls, p, cur) <= win})
  IN  IF cur >= top /\ LinesFromTo(ls, top, cur) < win THEN top
      ELSE IF centerOnPage THEN CalculateTopmsgCenter(ls, cur, win)
      ELSE IF cur < top THEN lastOnPage
      ELSE cur

(* Above the window: cur becomes its last message; below it: its first. *)
CalculateTopmsgPaged(ls, cur, top, win, centerOnPage) ==
  LET lastOnPage ==
        Min({cur} \cup {p \in 0 .. cur : LinesFromTo(ls, p, cur) <= win})
  IN  IF cur >= top /\ LinesFromTo(ls, top, cur) <= win THEN top
      ELSE IF centerOnPage THEN CalculateTopmsgCenter(ls, cur, win)
      ELSE IF cur < top THEN lastOnPage
      ELSE cur

(* Scrolling up: the first position such that what is below it, down to    *)
(* cur, is half the window, without pushing cur off it.                    *)
ScrolledUp(ls, cur, win) ==
  LET stops == {p \in 0 .. cur : \/ LinesFromTo(ls, p, cur) >= win
                                 \/ LinesFromTo(ls, p, cur) > win \div 2}
      p     == Max(stops)
  IN  IF stops = {} THEN 0
      ELSE IF LinesFromTo(ls, p, cur) >= win THEN Min({p + 1, cur})
      ELSE p

(* Scrolling down: half the window's lines leave it at the top, cur stays. *)
ScrolledDown(ls, cur, top, win) ==
  LET stops == {p \in top .. cur - 1 : LinesFromTo(ls, top, p) > win \div 2}
  IN  IF stops = {} THEN cur ELSE Min(stops) + 1

(* Broken variant: a cursor below the window is not noticed.               *)
NormalWithoutBottomCheck(direction, ls, cur, top, win) ==
  LET top1 == IF cur < top THEN CalculateTopmsgCenter(ls, cur, win) ELSE top
      y    == LinesFromTo(ls, top1, cur)
  IN  IF direction \in {"up", "none"} /\ y < win \div 4 THEN ScrolledUp(ls, cur, win)
      ELSE top1

(* The default: keep cur between one and three quarters of the window.     *)
CalculateTopmsgNormal(direction, ls, cur, top, win) ==
  LET top1 == IF cur < top THEN CalculateTopmsgCenter(ls, cur, win) ELSE top
      y1   == IF cur - top1 <= win THEN LinesFromTo(ls, top1, cur) ELSE cur - top1
      off  == y1 > win
      top2 == IF off THEN cur ELSE top1
      y2   == IF off THEN LinesAt(ls, cur) ELSE y1
      dir  == IF off THEN "up" ELSE direction
  IN  IF dir \in {"up", "none"} /\ y2 < win \div 4 THEN ScrolledUp(ls, cur, win)
      ELSE IF dir \in {"down", "none"} /\ y2 > (win * 3) \div 4
        THEN ScrolledDown(ls, cur, top2, win)
      ELSE top2

CalculateTopmsg(mode, direction, ls, cur, top, win) ==
  CASE mode = "top"         -> CalculateTopmsgTop(cur)
    [] mode = "neartop"     -> CalculateTopmsgNeartop(ls, cur, win)
    [] mode = "center"      -> CalculateTopmsgCenter(ls, cur, win)
    [] mode = "paged"       -> CalculateTopmsgPaged(ls, cur, top, win, FALSE)
    [] mode = "pagedcenter" -> CalculateTopmsgPaged(ls, cur, top, win, TRUE)
    [] mode = "normal"      -> CalculateTopmsgNormal(direction, ls, cur, top, win)

-----------------------------------------------------------------------------
(* owl_mainwin_redraw writes messages from top on until the window is      *)
(* full; cur is among them when the messages before it leave a line.       *)
OnScreen(ls, cur, top, win) ==
  top <= cur /\ LinesFromTo(ls, top, cur - 1) < win

(* "recalculate the topmsg to make sure the current message is on screen": *)
(* in every mode, from every former top, the current message is written    *)
(* when the window is redrawn from the result; one that fits is shown      *)
(* whole in the modes that count its own lines.                            *)
CurrentIsShown(mode, direction, ls, cur, top, win) ==
  LET t == CalculateTopmsg(mode, direction, ls, cur, top, win) IN
  /\ OnScreen(ls, cur, t, win)
  /\ mode \in {"paged", "normal"} /\ LinesAt(ls, cur) <= win => LinesFromTo(ls, t, cur) <= win

(* Recalculating once more, with no movement, does not scroll again in the *)
(* modes that page: otherwise each redraw after a resize would move the    *)
(* text under the reader.                                                  *)
PageIsKept(mode, direction, ls, cur, top, win) ==
  LET t == CalculateTopmsg(mode, direction, ls, cur, top, win) IN
  mode \in {"paged", "pagedcenter"} =>
    CalculateTopmsg(mode, direction, ls, cur, t, win) = t
=============================================================================
