------------------------------ MODULE EditWin -------------------------------
(***************************************************************************)
(* The text editor of editwin.c.  An editor is a record: the text with the *)
(* locked prompt before it, the point (index), the mark, the column that   *)
(* moves between lines aim at, the cached column of the point, the first   *)
(* index on the screen, the saved excursions and the kill buffer, which    *)
(* all editors share.  -1 stands for "unset".  Every character takes one   *)
(* byte and one column and only a space may be broken after: tabs, wide    *)
(* and combining characters are left out.                                  *)
(***************************************************************************)
EXTENDS Integers, Sequences, SequencesExt, FiniteSetsExt

CONSTANTS
  WinLines, WinCols,  \* size of the editor's window
  WrapCol, FillCol,   \* columns to wrap and to fill at; WrapCol = 0: no wrapping
  OneLine,            \* the style: a command line takes no newline
  Characters,         \* what is typed
  Prompt,             \* the locked text
  MaxText,            \* bound: length of the text after it
  MaxKill             \* bound: length of what is copied or killed

VARIABLE ed

Blank == {" ", "\n", "\t"}
Nul == "nul"

Editor(text, lock) ==
  [text |-> text, lock |-> lock, index |-> lock, mark |-> -1, goal |-> -1,
   column |-> -1, top |-> 0, saved |-> <<>>, kill |-> <<>>]

CharAt(e, i) == IF i < Len(e.text) THEN e.text[i + 1] ELSE Nul
AtPoint(e) == CharAt(e, e.index)
Region(e, i, j) == SubSeq(e.text, i + 1, Min({j, Len(e.text)}))

-----------------------------------------------------------------------------
(* Points and excursions.                                                  *)

SetIndex(e, i) ==
  IF i # e.index THEN [e EXCEPT !.index = i, !.goal = -1, !.column = -1] ELSE e

Save(e) ==
  [e EXCEPT !.saved = <<[index |-> e.index, mark |-> e.mark, goal |-> e.goal,
                         lock |-> e.lock]>> \o @]
Release(e) == [e EXCEPT !.saved = Tail(@)]
Restore(e) ==
  LET x == Head(e.saved)
  IN  Release([SetIndex(e, x.index) EXCEPT !.goal = x.goal, !.mark = x.mark, !.lock = x.lock])
RestoreMarkOnly(e) == Release([e EXCEPT !.mark = Head(e.saved).mark])

PointMove(e, delta) ==
  SetIndex(e, IF delta > 0 THEN Min({e.index + delta, Len(e.text)})
              ELSE Max({e.index + delta, e.lock}))

(* owl_editwin_move_if_in and _if_not_in: to the nearest place whose       *)
(* character is one of stop, or to the end of the text or of the prompt.   *)
Forward(e, stop) ==
  SetIndex(e, Min({i \in e.index .. Len(e.text) : i = Len(e.text) \/ CharAt(e, i) \in stop}))
Backward(e, stop) ==
  SetIndex(e, Max({i \in e.lock .. e.index : i = e.lock \/ CharAt(e, i) \in stop}))
NotBlank(e) == (ToSet(e.text) \cup {Nul}) \ Blank
NotSpace(e) == (ToSet(e.text) \cup {Nul}) \ {" "}

ExchangePointAndMark(e) ==
  IF e.mark = -1 THEN e ELSE SetIndex([e EXCEPT !.mark = e.index], e.mark)

-----------------------------------------------------------------------------
(* Replacing.                                                              *)

(* A mutant: a point inside the replaced text is left where it was.        *)
FixupOutside(target, start, end, change) == IF target <= end THEN target ELSE target + change

Fixup(target, start, end, change) ==
  IF target <= start THEN target ELSE IF target <= end THEN end + change ELSE target + change

ColumnAfter(s, column) ==
  LET breaks == {i \in DOMAIN s : s[i] = "\n"}
  IN  IF breaks = {} THEN column + Len(s) ELSE Len(s) - Max(breaks)

(* owl_editwin_replace_internal: n characters at the point give way to s;  *)
(* the mark, the first index shown and the excursions follow.              *)
ReplaceInternal(e, n, s) ==
  LET start  == e.index
      end    == start + n
      change == Len(s) - n
      top    == Fixup(e.top, start, end, change)
  IN  [e EXCEPT !.text = Region(e, 0, start) \o s \o Region(e, end, Len(e.text)),
                !.index = start + Len(s),
                !.column = IF @ = -1 THEN -1 ELSE ColumnAfter(s, @),
                !.mark = Fixup(@, start, end, change),
                !.top = IF start <= top THEN -1 ELSE top,
                !.saved = [i \in DOMAIN @ |->
                             [@[i] EXCEPT !.index = Fixup(@, start, end, change),
                                          !.mark = Fixup(@, start, end, change)]]]

Replace(e, n, s) == ReplaceInternal(e, Min({n, Len(e.text) - e.index}), s)

ReplaceRegion(e, s) ==
  IF e.mark = -1 THEN e
  ELSE LET x == Save(e)
           f == IF x.index > x.mark THEN ExchangePointAndMark(x) ELSE x
       IN  Restore(ReplaceInternal(f, f.mark - f.index, s))

DeleteChar(e) == Replace(e, 1, <<>>)
Backspace(e) == IF e.index > e.lock THEN DeleteChar(PointMove(e, -1)) ELSE e

SetLocktext(e, text) ==
  LET f == [SetIndex(e, 0) EXCEPT !.lock = 0]
      g == ReplaceInternal(f, Len(f.text), text)
  IN  SetIndex([g EXCEPT !.lock = Len(g.text)], Len(g.text))

Clear(e) ==
  LET new == [Editor(<<>>, 0) EXCEPT !.kill = e.kill]
  IN  IF e.lock > 0 THEN SetLocktext(new, Region(e, 0, e.lock)) ELSE new

(* owl_editwin_transpose_chars.                                            *)
TransposeChars(e) ==
  LET f == IF e.index = Len(e.text) THEN PointMove(e, -1) ELSE e
      g == PointMove(f, -1)
  IN  IF e.text = <<>> THEN e
      ELSE IF f.index = f.lock THEN f
      ELSE Replace(g, 2, <<AtPoint(f), AtPoint(g)>>)

-----------------------------------------------------------------------------
(* Lines.                                                                  *)

AtBeginningOfLine(e) == e.index = e.lock \/ CharAt(e, e.index - 1) = "\n"

LineStart(e, i) == Max({j \in e.lock .. i : j = e.lock \/ CharAt(e, j - 1) = "\n"})

MoveToBeginningOfLine(e) == [SetIndex(e, LineStart(e, e.index)) EXCEPT !.goal = 0]
MoveToEndOfLine(e) == Forward(e, {"\n"})

(* owl_editwin_line_move by one line: up or down to the column aimed at,   *)
(* or to the end of a shorter line.                                        *)
LineMove(e, delta) ==
  LET goal  == IF e.goal = -1 THEN e.index - LineStart(e, e.index) ELSE e.goal
      start == MoveToBeginningOfLine(e)
      moved == IF delta > 0 THEN PointMove(MoveToEndOfLine(start), 1)
               ELSE MoveToBeginningOfLine(PointMove(start, -1))
      end == MoveToEndOfLine(moved)
      ll  == end.index - moved.index
  IN  [(IF ll > goal THEN PointMove(end, goal - ll) ELSE end) EXCEPT !.goal = goal]

CurrentColumn(e) ==
  IF e.column # -1 THEN e
  ELSE LET f == Save(e)
           g == Restore(MoveToBeginningOfLine(f))
       IN  [g EXCEPT !.column = e.index - LineStart(e, e.index)]

-----------------------------------------------------------------------------
(* Words, killing and yanking.                                             *)

ForwardWord(e) == Forward(Forward(e, NotBlank(e)), Blank)

(* The rest of owl_editwin_backward_word: to the beginning of this word.   *)
ToWordStart(e) ==
  LET f == Backward(e, Blank) IN IF f.index > f.lock THEN PointMove(f, 1) ELSE f

FromBlank(e) ==
  LET f == Backward(e, NotBlank(e))
      before == PointMove(Save(f), -1)
  IN  IF AtPoint(before) \in Blank THEN Restore(before) ELSE ToWordStart(Restore(before))

BackwardWord(e) ==
  LET f == PointMove(Save(e), -1)
  IN  IF AtPoint(e) \in Blank THEN FromBlank(e)
      ELSE IF AtPoint(f) \in Blank THEN Release(FromBlank(f))
      ELSE ToWordStart(Restore(f))

(* A mutant: a region is killed from the mark to the point only.           *)
KillFromMark(e) ==
  IF e.mark = -1 \/ e.mark > e.index THEN e
  ELSE ReplaceInternal([e EXCEPT !.kill = Region(e, e.mark, e.index)],
                       e.index - e.mark, <<>>)

(* owl_editwin_kill_region: without a mark nothing is killed.              *)
KillRegion(e) ==
  LET f == IF e.index > e.mark THEN ExchangePointAndMark(e) ELSE e
  IN  IF f.mark = -1 THEN ReplaceInternal(f, 0, <<>>)
      ELSE ReplaceInternal([f EXCEPT !.kill = Region(f, f.index, f.mark)],
                           f.mark - f.index, <<>>)

CopyRegionAsKill(e) ==
  IF e.mark = -1 THEN e
  ELSE [e EXCEPT !.kill = Region(e, Min({e.index, e.mark}), Max({e.index, e.mark}))]

Yank(e) == Replace(e, 0, e.kill)
SetMark(e) == [e EXCEPT !.mark = e.index]

DeleteNextWord(e) == RestoreMarkOnly(KillRegion(ForwardWord(SetMark(Save(e)))))
DeletePreviousWord(e) == RestoreMarkOnly(KillRegion(BackwardWord(SetMark(Save(e)))))

DeleteToEndOfLine(e) ==
  LET f == MoveToEndOfLine(SetMark(Save(e)))
  IN  Restore(IF f.index # e.index THEN KillRegion(f) ELSE Replace(f, 1, <<>>))

-----------------------------------------------------------------------------
(* Paragraphs.                                                             *)

BackwardParagraph(e) ==
  LET f == PointMove(e, -1)
  IN  SetIndex(f, Max({i \in f.lock .. f.index :
                              i = f.lock \/ (CharAt(f, i) = "\n" /\ CharAt(f, i - 1) = "\n")}))

ForwardParagraph(e) ==
  LET f == PointMove(e, 1)
  IN  SetIndex(f, Min({i \in f.index .. Len(f.text) :
                           \/ i = Len(f.text)
                           \/ CharAt(f, i - 1) = "\n" /\ CharAt(f, i) = "\n"}))

RECURSIVE DeleteBlanks(_)
DeleteBlanks(e) ==
  IF AtPoint(e) \in Blank /\ e.index < e.mark THEN DeleteBlanks(DeleteChar(e)) ELSE e

(* The first pass of owl_editwin_fill_paragraph: runs of blanks become one *)
(* space, or two after a sentence.  last is the character before ch.       *)
RECURSIVE Squeeze(_, _)
Squeeze(e, sentence) ==
  IF e.index >= e.mark THEN e
  ELSE IF Region(e, e.index, Len(e.text)) = <<"\n", ".">> THEN SetMark(e)
  ELSE LET ch     == AtPoint(e)
           spaced == Replace(e, 1, <<" ">>)
           kept   == IF sentence /\ AtPoint(spaced) \in Blank /\ spaced.index < spaced.mark
                     THEN PointMove(spaced, 1) ELSE spaced
       IN  Squeeze(PointMove(IF ch \in Blank THEN DeleteBlanks(kept) ELSE e, 1), ch = ".")

(* _owl_editwin_linewrap_word: the blank before the word becomes a newline.*)
LinewrapWord(e) ==
  LET blanks == {i \in e.lock .. e.index - 1 : CharAt(e, i) \in {" ", "\n"}}
      f == SetIndex(Save(e), IF blanks = {} THEN e.lock ELSE Max(blanks))
  IN  Restore(IF blanks # {} /\ AtPoint(f) = " " THEN Replace(f, 1, <<"\n">>) ELSE f)

RECURSIVE WrapLines(_)
WrapLines(e) ==
  IF e.index >= e.mark THEN e
  ELSE LET f == CurrentColumn(e)
       IN  WrapLines(PointMove(IF f.column >= FillCol THEN LinewrapWord(f) ELSE f, 1))

FillParagraph(e) ==
  LET end   == SetMark(PointMove(ForwardParagraph(Save(e)), -1))
      start == BackwardParagraph(end)
      inner == IF AtPoint(start) = "\n" THEN PointMove(start, 1) ELSE start
  IN  IF FillCol < 0 THEN e
      ELSE Restore(WrapLines(BackwardParagraph(Squeeze(inner, FALSE))))

-----------------------------------------------------------------------------
(* Typing.                                                                 *)

IsAtEnd(e) == \A i \in e.index .. Len(e.text) - 1 : CharAt(e, i) \in Blank

(* A blank typed past the wrap column: it and the blanks before the point  *)
(* make a newline.                                                         *)
WrapAtBlank(e) ==
  LET back == PointMove(Save(e), -1)
      word == Backward(back, NotSpace(e))
      n    == back.index - word.index
      at   == IF AtBeginningOfLine(word) THEN word ELSE PointMove(word, 1)
  IN  IF n = 0 THEN Replace(Restore(word), 0, <<"\n">>)
      ELSE Restore(Replace(at, n, <<"\n">>))

(* Another character: the blanks before this line's last word do.          *)
WrapBeforeWord(e, c) ==
  LET start == LineStart(e, e.index)
      blanks == {i \in start .. e.index - 1 : CharAt(e, i) = " "}
      blank == SetIndex(Save(e), IF blanks = {} THEN start ELSE Max(blanks))
      word  == Backward(blank, NotSpace(e))
      n     == blank.index - word.index
      at    == PointMove(word, 1)
  IN  Replace(IF blanks = {} \/ AtBeginningOfLine(word) THEN e
              ELSE Restore(Replace(at, n, <<"\n">>)), 0, <<c>>)

(* oe_insert_char.                                                         *)
InsertChar(e, c) ==
  LET f == CurrentColumn(e)
  IN  IF c = "\n" /\ OneLine THEN e
      ELSE IF WrapCol = 0 \/ f.column + (IF c = "\n" THEN 0 ELSE 1) <= WrapCol THEN Replace(f, 0, <<c>>)
      ELSE IF c = " " THEN WrapAtBlank(f) ELSE WrapBeforeWord(f, c)

Dotsend(text, done) == [editor |-> text, done |-> done]

(* A mutant: a dot at the end of a longer line is taken for the end.       *)
CheckAnyDot(e) ==
  LET back == PointMove(Save(e), -2)
      dot  == Restore(ReplaceRegion(SetIndex(SetMark(back), Len(e.text)), <<>>))
  IN  IF IsAtEnd(e) /\ Region(back, back.index, back.index + 2) = <<".", "\n">>
      THEN Dotsend(dot, TRUE) ELSE Dotsend(e, FALSE)

(* owl_editwin_check_dotsend: the point is after a line that is one dot;   *)
(* the dot and what follows are taken off.                                 *)
CheckDotsend(e) ==
  LET back == PointMove(Save(e), -3)
      dot  == IF Region(back, back.index, back.index + 3) = <<"\n", ".", "\n">>
              THEN PointMove(back, 1) ELSE back
      is_dot == \/ dot # back
                \/ back.index = back.lock /\ Region(back, back.index, back.index + 2) = <<".", "\n">>
  IN  IF ~IsAtEnd(e) THEN Dotsend(e, FALSE)
      ELSE IF ~is_dot THEN Dotsend(Restore(back), FALSE)
      ELSE Dotsend(Restore(ReplaceRegion(SetIndex(SetMark(dot), Len(e.text)), <<>>)), TRUE)

-----------------------------------------------------------------------------
(* The screen.                                                             *)

(* oe_find_display_line: where the line that starts at index ends, and the *)
(* column of the point on it, or -1.                                       *)
DisplayLine(e, index) ==
  LET room == WinCols - 1
      stop == Min({i \in index .. index + room :
                       i >= Len(e.text) \/ CharAt(e, i) = "\n" \/ i = index + room})
      hard == stop >= Len(e.text) \/ CharAt(e, stop) = "\n"
      next == IF stop < Len(e.text) /\ CharAt(e, stop) = "\n" THEN stop + 1 ELSE stop
      onIt == e.index \in index .. stop /\ (hard \/ e.index # stop)
  IN  [next |-> next, x |-> IF onIt THEN e.index - index ELSE -1]

RECURSIVE AfterLines(_, _, _)
AfterLines(e, index, n) ==
  IF n <= 0 THEN index ELSE AfterLines(e, DisplayLine(e, index).next, n - 1)

RECURSIVE LinesUpTo(_, _, _)
LinesUpTo(e, i, index) == IF i >= index THEN 0 ELSE 1 + LinesUpTo(e, DisplayLine(e, i).next, index)

(* A mutant: the screen begins with the line of the point, whatever line   *)
(* of the screen that is.                                                  *)
FrameFromLine(e, last, count) == [e EXCEPT !.top = LineStart(e, e.index)]

(* The loop of oe_reframe: back line by line until the lines passed fill   *)
(* half of the window.                                                     *)
RECURSIVE FrameBack(_, _, _)
FrameBack(e, last, count) ==
  LET goal  == 1 + WinLines \div 2
      start == MoveToBeginningOfLine(e)
      lines == LinesUpTo(e, start.index, e.index)
      total == count + (IF lines = 0 THEN 1 ELSE lines)
  IN  IF last = start.index THEN [start EXCEPT !.top = AfterLines(e, start.index, count - goal)]
      ELSE IF total < goal THEN FrameBack(PointMove(start, -1), start.index, total)
      ELSE [start EXCEPT !.top = AfterLines(e, start.index, total - goal)]

Reframe(e) == Restore(FrameBack([Save(e) EXCEPT !.lock = 0], -1, 0))

LinesShown(e) == {AfterLines(e, e.top, n) : n \in 0 .. WinLines - 1}
PointIsShown(e) == \E i \in LinesShown(e) : DisplayLine(e, i).x # -1

Framed(e) == IF e.top = -1 \/ e.index < e.top THEN Reframe(e) ELSE e

(* oe_redraw: a screen without the point is framed anew, three times.      *)
Redraw(e) ==
  LET first == Framed(e)
      again == [first EXCEPT !.top = -1]
  IN  IF PointIsShown(first) THEN first
      ELSE IF PointIsShown(Framed(again)) THEN Framed(again) ELSE again
-----------------------------------------------------------------------------
(* The machine: an editor with a prompt, and the commands of its keymaps.  *)

EditInit == ed = SetLocktext(Editor(<<>>, 0), Prompt)

Edits(f) == /\ \A e \in {ed, f} : Len(e.text) - e.lock <= MaxText
            /\ Len(f.kill) <= MaxKill
            /\ ed' = f

Type(c) == Edits(InsertChar(ed, c))
(* A newline that ends the message is followed by the edit being done: the *)
(* editor goes on with an empty text.                                      *)
TypeNewline ==
  LET f == InsertChar(ed, "\n")
      dot == CheckDotsend(f)
  IN  Edits(IF dot.done THEN Clear(dot.editor) ELSE dot.editor)
MoveChar(delta) == Edits(PointMove(ed, delta))
MoveLine(delta) == Edits(LineMove(ed, delta))
MoveWord == Edits(ForwardWord(ed)) \/ Edits(BackwardWord(ed))
MoveInLine == Edits(MoveToBeginningOfLine(ed)) \/ Edits(MoveToEndOfLine(ed))
MoveInBuffer == Edits(SetIndex(ed, ed.lock)) \/ Edits(SetIndex(ed, Len(ed.text)))
MoveParagraph == Edits(ForwardParagraph(ed)) \/ Edits(BackwardParagraph(ed))
Mark == Edits(SetMark(ed)) \/ Edits(ExchangePointAndMark(ed))
DeleteChars == Edits(DeleteChar(ed)) \/ Edits(Backspace(ed)) \/ Edits(Clear(ed))
DeleteWord == Edits(DeleteNextWord(ed)) \/ Edits(DeletePreviousWord(ed))
Kill == Edits(KillRegion(ed)) \/ Edits(CopyRegionAsKill(ed)) \/ Edits(DeleteToEndOfLine(ed))
YankBack == Edits(Yank(ed))
Transpose == Edits(TransposeChars(ed))
Fill == Edits(FillParagraph(ed))
Draw == Edits(Redraw(ed))
Recenter == Edits([ed EXCEPT !.top = -1])

EditNext ==
  \/ \E c \in Characters : Type(c)
  \/ TypeNewline
  \/ \E delta \in {-1, 1} : MoveChar(delta) \/ MoveLine(delta)
  \/ MoveWord \/ MoveInLine \/ MoveInBuffer \/ MoveParagraph
  \/ Mark \/ DeleteChars \/ DeleteWord \/ Kill \/ YankBack \/ Transpose
  \/ Fill \/ Draw \/ Recenter

EditSpec == EditInit /\ [][EditNext]_ed

-----------------------------------------------------------------------------
RECURSIVE Words(_)
Words(s) ==
  LET blanks == {i \in DOMAIN s : s[i] \in Blank}
  IN  IF s = <<>> THEN <<>>
      ELSE IF 1 \in blanks THEN Words(Tail(s))
      ELSE IF blanks = {} THEN <<s>>
      ELSE <<SubSeq(s, 1, Min(blanks) - 1)>> \o Words(SubSeq(s, Min(blanks), Len(s)))

NoBlanks(s) == SelectSeq(s, LAMBDA c : c \notin Blank)

PointsInText ==
  /\ ed.lock = Len(Prompt) /\ IsPrefix(Prompt, ed.text)
  /\ ed.index \in ed.lock .. Len(ed.text)
  /\ ed.mark \in {-1} \cup (ed.lock .. Len(ed.text))
  /\ ed.top \in -1 .. Len(ed.text)
  /\ ed.saved = <<>>

ColumnIsCurrent ==
  ed.column # -1 => ed.column = ed.index - LineStart(ed, ed.index)

(* Where the last move between lines wanted to be: typing moves the point  *)
(* and leaves the column to aim at as it was.                              *)
AimIsFresh(e) ==
  \/ e.goal = -1
  \/ LET start == LineStart(e, e.index)
         width == MoveToEndOfLine(e).index - start
     IN  e.index - start = Min({e.goal, width})

UpAndDownReturns ==
  (LineStart(ed, ed.index) > ed.lock /\ AimIsFresh(ed))
    => LineMove(LineMove(ed, -1), 1).index = ed.index

(* The point and the mark stay in the text after the prompt, the prompt is *)
(* never touched and every excursion has ended, whatever was replaced      *)
(* under the saved points; the cached column is the column of the point;   *)
(* and up and down again comes back to the same place, also past a shorter *)
(* line, unless typing has left a stale column to aim at.                  *)
PointsAreSound == PointsInText /\ ColumnIsCurrent /\ UpAndDownReturns

KillThenYank ==
  ed.mark # -1 =>
    LET killed == KillRegion(ed)
    IN  /\ Yank(killed).text = ed.text
        /\ Len(killed.text) = Len(ed.text) - Len(killed.kill)

FillKeepsWords ==
  LET filled == FillParagraph(ed)
  IN  /\ Words(filled.text) = Words(ed.text)
      /\ AtPoint(ed) \notin Blank => AtPoint(filled) = AtPoint(ed)

LoneCharacter(e) ==
  LET start == LineStart(e, e.index)
  IN  CharAt(e, start) \notin Blank /\ \A i \in start + 1 .. e.index - 1 : CharAt(e, i) = " "

WrapLosesNothing ==
  \A c \in Characters : (c = " " /\ LoneCharacter(ed)) \/
    NoBlanks(InsertChar(ed, c).text) =
      NoBlanks(Region(ed, 0, ed.index) \o <<c>> \o Region(ed, ed.index, Len(ed.text)))

(* What is killed comes back in its place by yanking it.  Filling a        *)
(* paragraph moves words between lines and changes no word, and leaves the *)
(* point on the character it was on.  Typing at any column inserts the     *)
(* character between what was before and after the point; wrapping only    *)
(* adds and removes blanks.  One case is left out because the code does    *)
(* otherwise: a blank after a line of one character and blanks wraps that  *)
(* character away (editwin.c:1339).                                        *)
EditsLoseNothing == KillThenYank /\ FillKeepsWords /\ WrapLosesNothing

(* A message ends when a newline is typed after a line that is a single    *)
(* dot, with only blanks after it, and what is before that line is sent.   *)
DotIsWholeLine ==
  LET typed == InsertChar(ed, "\n")
      dot   == CheckDotsend(typed)
      sent  == dot.editor.text
  IN  /\ ~dot.done => sent = typed.text
      /\ dot.done => /\ IsPrefix(sent \o <<".", "\n">>, typed.text)
                     /\ Len(sent) = ed.lock \/ Last(sent) = "\n"
                     /\ ToSet(Region(typed, Len(sent) + 1, Len(typed.text))) \subseteq Blank

(* After a redraw the point is on the screen.                              *)
PointIsDrawn ==
  LET drawn == Redraw(ed) IN drawn.top # -1 /\ PointIsShown(drawn)

(* Whatever the keys of the editor do, alone and after each other, neither *)
(* the text nor the point goes astray.                                     *)
EditorIsSound == PointsAreSound /\ PointIsDrawn /\ EditsLoseNothing /\ DotIsWholeLine
=============================================================================
