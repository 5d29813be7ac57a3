--------------------------------- MODULE Window ---------------------------------
(***************************************************************************)
(* The windows of the screen (window.c): a tree of windows that their      *)
(* users show, hide, resize and dirty.  A window is realized, that is has  *)
(* a curses window, when it can; one marked dirty is redrawn by the main   *)
(* loop, in one pass over the tree that follows the marks dirty_subtree.   *)
(* The pass goes step by step here, as redraw handlers may dirty windows.  *)
(***************************************************************************)
EXTENDS Naturals, Sequences, SequencesExt

CONSTANTS
  Windows,    \* the windows that are made, with the screen
  Screen,     \* owl_window_get_screen()
  Children,   \* the children of each, the newest first
  MaxLines,   \* windows have up to MaxLines lines; 0 stands for none or less
  MaxChanges  \* bound on what the users of the windows do

ASSUME TreeAssumption ==
  /\ Screen \in Windows /\ MaxLines \in Nat \ {0} /\ MaxChanges \in Nat
  /\ Children \in [Windows -> Seq(Windows)]
  /\ \A w \in Windows \ {Screen} :
       \E p \in Windows : \A q \in Windows : w \in ToSet(Children[q]) <=> q = p
  /\ \A p \in Windows : Screen \notin ToSet(Children[p])

Parent(w) == CHOOSE p \in Windows : w \in ToSet(Children[p])

(* A window and those it is in, the least set that has it and the parents  *)
(* of its members; a window and those in it.                               *)
Above ==
  [w \in Windows |->
     {u \in Windows :
        \A S \in SUBSET Windows :
          w \in S /\ (\A v \in S \ {Screen} : Parent(v) \in S) => u \in S}]

ASSUME ScreenAssumption == \A w \in Windows : Screen \in Above[w]

Below(w) == {v \in Windows : w \in Above[v]}

VARIABLES
  unlinked, \* windows taken out of the tree
  shown,    \* w->shown
  lines,    \* w->nlines
  realized, \* w->win is not NULL
  dirty, subtree, \* w->dirty and w->dirty_subtree
  asked,    \* a redraw has been asked for that has not begun
  agenda,   \* what is left of the pass
  drawing,  \* the window whose redraw handler runs, in a set of its own
  changes

flags == <<realized, dirty, subtree, asked>>
windowVars == <<unlinked, shown, lines, flags, agenda, drawing, changes>>

(* The screen has been shown; the other windows have just been made.       *)
WindowInit ==
  /\ unlinked = {} /\ shown = {Screen}
  /\ lines = [w \in Windows |-> IF w = Screen THEN MaxLines ELSE 0]
  /\ realized = {Screen} /\ dirty = {Screen} /\ subtree = {Screen} /\ asked = {Screen}
  /\ agenda = <<>> /\ drawing = {}
  /\ changes = 0

-----------------------------------------------------------------------------
(* The operations on flags; f stands for the flags before.                 *)
Flags == [realized |-> realized, dirty |-> dirty, subtree |-> subtree, asked |-> asked]

SetFlags(f) ==
  /\ realized' = f.realized /\ dirty' = f.dirty
  /\ subtree' = f.subtree /\ asked' = f.asked

(* The windows on the way up from w, without the parent of an unlinked one.*)
Up(w) == {u \in Above[w] : \A v \in Above[w] \cap unlinked : u \in Above[v] => u = v}

ShouldRealize(f, w, up) == w \in up /\ (w = Screen \/ w \in unlinked \/ Parent(w) \in f.realized)

(* Broken variant: only the windows themselves are marked.                 *)
DirtyAlone(f, ws, up) ==
  LET ds == {w \in ws : ShouldRealize(f, w, up)}
  IN [f EXCEPT !.dirty = @ \cup ds, !.asked = @ \cup ds, !.subtree = @ \cup ds]

(* owl_window_dirty of each of ws.  The marks go up as far as they are not *)
(* set.                                                                    *)
Dirty(f, ws, up) ==
  LET ds == {w \in ws : ShouldRealize(f, w, up)}
  IN [f EXCEPT
        !.dirty = @ \cup ds, !.asked = @ \cup ds,
        !.subtree = @ \cup
          {u \in Windows :
             \E w \in ds \ f.dirty :
               u \in Up(w) /\ \A v \in Above[w] : u \in Above[v] => v \notin f.subtree}]

RealizeLater(f, ws, up) == Dirty(f, ws \ f.realized, up)

(* The windows in w that are still linked to it.                           *)
LinkedIn(w) == ToSet(Children[w]) \ unlinked

(* _owl_window_realize, when shown is up: what is unlinked cannot be, nor  *)
(* what has no lines.                                                      *)
Realize(f, w, up) ==
  IF w \in f.realized \cup unlinked \/ ~ShouldRealize(f, w, up) \/ lines[w] = 0 THEN f
  ELSE RealizeLater(Dirty([f EXCEPT !.realized = @ \cup {w}], {w}, up), LinkedIn(w), up)

(* Broken variant: the windows inside keep their curses windows.           *)
UnrealizeAlone(f, w, up) ==
  IF w \notin f.realized THEN f
  ELSE LET g == [part \in DOMAIN f |-> f[part] \ {w}]
       IN IF w = Screen THEN g ELSE Dirty(g, {Parent(w)}, up)

(* _owl_window_unrealize, and what is realized in it; the parent of a      *)
(* window has to be drawn again where it was.                              *)
Unrealize(f, w, up) ==
  IF w \notin f.realized THEN f
  ELSE LET g == [part \in DOMAIN f |-> f[part] \ (Below(w) \cap f.realized)]
       IN IF w = Screen THEN g ELSE Dirty(g, {Parent(w)}, up)

-----------------------------------------------------------------------------
(* The users of the windows, between two passes.                           *)
Change ==
  /\ agenda = <<>> /\ changes < MaxChanges /\ changes' = changes + 1
  /\ UNCHANGED <<agenda, drawing>>

(* owl_window_show                                                         *)
Show(w) ==
  /\ Change /\ w \notin unlinked
  /\ UNCHANGED <<unlinked, lines>>
  /\ shown' = shown \cup {w}
  /\ SetFlags(Realize(Flags, w, shown'))

(* owl_window_hide: "you can't unmap the screen".                          *)
Hide(w) ==
  /\ Change /\ w \notin unlinked \cup {Screen}
  /\ UNCHANGED <<unlinked, lines>>
  /\ shown' = shown \ {w}
  /\ SetFlags(Unrealize(Flags, w, shown'))

DirtyWindow(w) ==
  /\ Change /\ w \notin unlinked
  /\ UNCHANGED <<unlinked, shown, lines>>
  /\ SetFlags(Dirty(Flags, {w}, shown))

(* Broken variant: the window is left to be shown again by its users.      *)
SetPositionOnly(w, size) ==
  /\ Change /\ w \notin unlinked
  /\ UNCHANGED <<unlinked, shown>>
  /\ lines' = [v \in Windows |-> IF v \in Below(w) THEN size[v] ELSE lines[v]]
  /\ lines' # lines
  /\ SetFlags(Unrealize(Flags, w, shown))

(* owl_window_set_position.  Those who listen to "resized" give windows in *)
(* the window new sizes, no larger than what they are in.                  *)
SetPosition(w, size) ==
  /\ Change /\ w \notin unlinked
  /\ UNCHANGED <<unlinked, shown>>
  /\ lines' = [v \in Windows |-> IF v \in Below(w) THEN size[v] ELSE lines[v]]
  /\ lines'[w] # lines[w]
  /\ \A v \in Below(w) \ {Screen} : lines'[v] <= lines'[Parent(v)]
  /\ LET f == Unrealize(Flags, w, shown)
     IN SetFlags(IF w \in shown THEN RealizeLater(f, {w}, shown) ELSE f)

(* owl_window_unlink                                                       *)
Unlink(w) ==
  /\ Change /\ w \notin unlinked \cup {Screen}
  /\ unlinked' = unlinked \cup {w}
  /\ UNCHANGED <<shown, lines>>
  /\ SetFlags(Unrealize(Flags, w, shown))

-----------------------------------------------------------------------------
(* owl_window_redraw_scheduled, step by step.                              *)
InPass == UNCHANGED <<unlinked, shown, lines>>

PassBegin ==
  /\ InPass /\ agenda = <<>> /\ Screen \in subtree
  /\ agenda' = << <<"redraw", Screen>> >>
  /\ UNCHANGED <<flags, drawing, changes>>

(* The children follow their parent, and then it is looked at once more.   *)
Descend(w) ==
  LET next == SelectSeq(Children[w], LAMBDA c : c \in LinkedIn(w))
  IN agenda' = [i \in DOMAIN next |-> <<"redraw", next[i]>>]
                 \o << <<"leave", w>> >> \o Tail(agenda)

At(part, w) == InPass /\ agenda # <<>> /\ Head(agenda) = <<part, w>> /\ drawing = {}

(* _owl_window_redraw_subtree of a window without marks does nothing.      *)
Skip(w) ==
  /\ At("redraw", w) /\ w \notin subtree
  /\ agenda' = Tail(agenda)
  /\ UNCHANGED <<flags, drawing, changes>>

(* The window itself is not dirty, but something in it is.                 *)
PassThrough(w) ==
  /\ At("redraw", w) /\ w \in subtree \ dirty
  /\ Descend(w)
  /\ UNCHANGED <<flags, drawing, changes>>

(* _owl_window_redraw, up to its signal, which the screen does not get and *)
(* no window does that cannot be realized.                                 *)
RedrawWindow(w) ==
  /\ At("redraw", w) /\ w \in subtree \cap dirty
  /\ UNCHANGED changes
  /\ LET f == Realize(Flags, w, shown)
     IN IF w \in f.realized \ {Screen}
          THEN /\ SetFlags([f EXCEPT !.asked = @ \ {w}])
               /\ drawing' = {w} /\ UNCHANGED agenda
          ELSE /\ SetFlags([f EXCEPT !.asked = @ \ {w}, !.dirty = @ \ {w}])
               /\ Descend(w) /\ UNCHANGED drawing

(* The handler dirties another window, or its own: that is forgotten when  *)
(* it returns.                                                             *)
HandlerDirty(v) ==
  /\ InPass /\ drawing # {} /\ v \notin unlinked
  /\ changes < MaxChanges /\ changes' = changes + 1
  /\ LET f == Dirty(Flags, {v}, shown)
     IN SetFlags([f EXCEPT !.asked = @ \ drawing])
  /\ UNCHANGED <<agenda, drawing>>

(* It returns, and the window is clean.                                    *)
HandlerEnd(w) ==
  /\ InPass /\ drawing = {w}
  /\ drawing' = {} /\ dirty' = dirty \ {w}
  /\ Descend(w)
  /\ UNCHANGED <<realized, subtree, asked, changes>>

(* Broken variant: the mark is never cleared.                              *)
LeaveMarked(w) ==
  /\ At("leave", w)
  /\ agenda' = Tail(agenda)
  /\ UNCHANGED <<flags, drawing, changes>>

(* The end of _owl_window_redraw_subtree.                                  *)
LeaveWindow(w) ==
  /\ At("leave", w)
  /\ subtree' = IF w \in dirty \/ LinkedIn(w) \cap subtree # {}
                THEN subtree ELSE subtree \ {w}
  /\ agenda' = Tail(agenda)
  /\ UNCHANGED <<realized, dirty, asked, drawing, changes>>

-----------------------------------------------------------------------------
Pass ==
  \/ PassBegin
  \/ \E w \in Windows : Skip(w) \/ PassThrough(w) \/ RedrawWindow(w)
                          \/ HandlerEnd(w) \/ LeaveWindow(w)

WindowNext ==
  \/ \E w \in Windows : \/ Show(w) \/ Hide(w) \/ DirtyWindow(w) \/ Unlink(w)
                        \/ \E size \in [Below(w) -> 0 .. MaxLines] : SetPosition(w, size)
                        \/ HandlerDirty(w)
  \/ Pass

-----------------------------------------------------------------------------
(* A window still in the tree, and whether it should be realized.          *)
InTree(w) == Above[w] \cap unlinked = {}
Should(w) == InTree(w) /\ w \in shown /\ (w = Screen \/ Parent(w) \in realized)

(* derwin gives a window that shares the memory of its parent's: a window  *)
(* is realized only while the one it is in is, and while it is shown.      *)
RealizedIsInside ==
  \A w \in realized : Should(w) /\ lines[w] > 0

(* A redraw asked for is not lost: until it begins the window stays dirty, *)
(* and the pass finds it by the marks above it.                            *)
RequestIsFound ==
  \A w \in asked : InTree(w) => w \in dirty /\ (Should(w) => Above[w] \subseteq subtree)

(* What is shown where it can be gets a curses window: at once, or in the  *)
(* next pass, which comes to it.                                           *)
ShownIsRealized ==
  agenda = <<>> =>
    \A w \in Windows : Should(w) /\ lines[w] > 0 /\ w \notin realized
                         => w \in dirty /\ Above[w] \subseteq subtree

(* The tree and its marks agree, between any two steps of a pass and while *)
(* its handlers change the windows.                                        *)
MarksLeadTheRedraw == RealizedIsInside /\ RequestIsFound /\ ShownIsRealized

(* "Redraw will not break": once nobody changes the windows any more, the  *)
(* main loop comes to rest, with nothing left to redraw.                   *)
RedrawComesToRest == <>[](Screen \notin subtree /\ agenda = <<>>)
=============================================================================
