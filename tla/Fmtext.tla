------------------------------- MODULE Fmtext -------------------------------
(***************************************************************************)
(* Formatted text (fmtext.c) and the pager it is read in (viewwin.c).      *)
(* Looks are characters of the text: an attribute or a color holds from    *)
(* its character to the next of its kind.  What is drawn is a part of a    *)
(* text, cut by lines and by columns, in which each character must look    *)
(* as it does in the whole.  A background color is kept as the color of    *)
(* the text is; characters of no width are left out.                       *)
(***************************************************************************)
EXTENDS Integers, Sequences, SequencesExt, FiniteSetsExt

CONSTANTS TabWidth,      \* OWL_TAB_WIDTH
          MaxNesting     \* how deep the markup of a zephyr nests: 32

ASSUME FmtextAssumption == TabWidth \in Nat \ {0} /\ MaxNesting \in Nat

Char(c)   == <<"char", c>>
Attr(set) == <<"attr", set>>
Color(c)  == <<"color", c>>
IsFormatChar(x) == x[1] # "char"
Newline == Char("\n")
Width(x) == IF IsFormatChar(x) THEN 0 ELSE IF x = Char("W") THEN 2 ELSE 1

Default == [attr |-> {}, fg |-> "default"]
UpdateAttributes(look, x) ==
  CASE x[1] = "attr"  -> [look EXCEPT !.attr = x[2]]
    [] x[1] = "color" -> [look EXCEPT !.fg = x[2]]
    [] OTHER          -> look
ScanAttributes(f, n) == FoldLeft(UpdateAttributes, Default, SubSeq(f, 1, n))

SetLook(look) ==
  (IF look.attr = {} THEN <<>> ELSE <<Attr(look.attr)>>)
    \o (IF look.fg = "default" THEN <<>> ELSE <<Color(look.fg)>>)
AppendAttr(f, text, look) ==
  f \o SetLook(look) \o text
    \o (IF look.fg = "default" THEN <<>> ELSE <<Color("default")>>)
    \o (IF look.attr = {} THEN <<>> ELSE <<Attr({})>>)
AppendNormal(f, text) == AppendAttr(f, text, Default)

(* The characters of in after the first from, up to the one at to. *)
AppendUnscanned(f, in, from, to) ==
  f \o SubSeq(in, from + 1, to) \o <<Color("default"), Attr({})>>
AppendFmtext(f, in, from, to) ==
  f \o SetLook(ScanAttributes(in, from)) \o SubSeq(in, from + 1, to)
    \o <<Color("default"), Attr({})>>

Spaces(n) == [i \in 1 .. n |-> Char(" ")]

(* What ends the line that follows the first n characters, if anything.    *)
NewlineAfter(f, n) ==
  LET ends == {i \in n + 1 .. Len(f) : f[i] = Newline} IN IF ends = {} THEN 0 ELSE Min(ends)

RECURSIVE CopyLines(_, _, _, _), StartOfLine(_, _, _)
StartOfLine(in, n, aline) ==     \* -1 when there is no such line
  IF aline = 0 THEN n
  ELSE IF NewlineAfter(in, n) = 0 THEN -1
  ELSE StartOfLine(in, NewlineAfter(in, n), aline - 1)
CopyLines(out, in, n, lines) ==
  LET end == NewlineAfter(in, n) IN
  IF lines = 0 THEN out
  ELSE IF end = 0 THEN AppendFmtext(out, in, n, Len(in))
  ELSE CopyLines(AppendFmtext(out, in, n, end), in, end, lines - 1)

TruncateLines(in, aline, lines) ==
  LET n == StartOfLine(in, 0, aline) IN IF n = -1 THEN <<>> ELSE CopyLines(<<>>, in, n, lines)

ExpandTabs(in) ==
  LET Step(s, i) ==
        CASE in[i] = Char("\t") ->
               LET w == TabWidth - (s.col % TabWidth) IN
               [out |-> AppendNormal(AppendFmtext(s.out, in, s.copied, i - 1), Spaces(w)),
                col |-> s.col + w, copied |-> i]
          [] in[i] = Newline -> [s EXCEPT !.col = 0]
          [] OTHER -> [s EXCEPT !.col = @ + Width(in[i])]
      s == FoldLeft(Step, [out |-> <<>>, col |-> 0, copied |-> 0], [i \in DOMAIN in |-> i])
  IN  IF s.copied < Len(in) THEN AppendFmtext(s.out, in, s.copied, Len(in)) ELSE s.out

(* One line, from the character after n to the newline at end, through the *)
(* columns acol to bcol: how far it fits, and where its first column is.   *)
RECURSIVE Fit(_, _, _, _, _)
Fit(in, end, acol, bcol, s) ==
  LET x == in[s.at] IN
  IF s.at = end THEN s
  ELSE IF IsFormatChar(x) THEN Fit(in, end, acol, bcol, [s EXCEPT !.at = @ + 1])
  ELSE IF s.col + Width(x) > bcol THEN [s EXCEPT !.width = Width(x)]
  ELSE Fit(in, end, acol, bcol,
           [(IF s.col >= acol /\ s.start = 0 THEN [s EXCEPT !.start = s.at, !.padding = s.col - acol]
             ELSE s) EXCEPT !.at = @ + 1, !.col = @ + Width(x)])

RECURSIVE TruncateFrom(_, _, _, _, _)
TruncateFrom(in, acol, bcol, out, n) ==
  LET end    == NewlineAfter(in, n)
      fit    == Fit(in, end, acol, bcol, [at |-> n + 1, col |-> 0, start |-> 0, padding |-> 0, width |-> 0])
      padded == AppendNormal(out, Spaces(fit.padding))
      line   == CASE fit.start = 0 -> AppendNormal(out, <<Newline>>)
                  [] fit.start > 0 /\ fit.at = end -> AppendFmtext(padded, in, fit.start - 1, end)
                  [] fit.start > 0 /\ fit.at < end /\ fit.width > 1 ->
                       AppendNormal(AppendFmtext(padded, in, fit.start - 1, fit.at - 1), <<Newline>>)
                  [] OTHER -> AppendFmtext(padded, in, fit.start - 1, fit.at)
  IN  IF end = 0 THEN out ELSE TruncateFrom(in, acol, bcol, line, end)

TruncateCols(in, acol, bcol) ==
  TruncateFrom(IF Char("\t") \in ToSet(in) THEN ExpandTabs(in) ELSE in, acol, bcol, <<>>, 0)

(* A last line is counted when it shows something, its first character     *)
(* left aside when there is no other line.                                 *)
NumLines(f) ==
  LET ends == {i \in DOMAIN f : f[i] = Newline}
      lastbreak == IF ends = {} THEN 1 ELSE Max(ends)
  IN  Cardinality(ends) + (IF \E i \in lastbreak + 1 .. Len(f) : ~IsFormatChar(f[i]) THEN 1 ELSE 0)

LineNumber(f, offset) ==
  Cardinality({i \in 1 .. Min({offset, Len(f) - 1}) : f[i] = Newline})
LineExtents(f, lineno) ==
  LET start == IF lineno <= 0 THEN 0
               ELSE IF StartOfLine(f, 0, lineno) = -1 THEN Len(f) ELSE StartOfLine(f, 0, lineno)
      end   == NewlineAfter(f, start)
  IN  [start |-> start, end |-> IF end = 0 THEN Len(f) ELSE end]

(* The offset of the first c at or after start, as the search of one       *)
(* character finds it, or -1.                                              *)
FmtextSearch(f, c, start) ==
  LET found == {i \in start + 1 .. Len(f) : f[i] = Char(c)} IN
  IF found = {} THEN -1 ELSE Min(found) - 1

-----------------------------------------------------------------------------
(* The markup of zephyrs: "@", a name, and an opener; the closer of the    *)
(* last opener ends it.                                                    *)
Openers == <<"{", "[", "<", "(">>
Closers == <<"}", "]", ">", ")">>
Special == {"@"} \cup ToSet(Openers) \cup ToSet(Closers)
Closes(opener, closer) == \E i \in DOMAIN Openers : Openers[i] = opener /\ Closers[i] = closer
AttrOf(name) ==
  CASE name \in {<<"b">>, <<"bold">>} -> {{"bold"}}
    [] name \in {<<"i">>, <<"italic">>} -> {{"underline"}}
    [] name = <<>> -> {{}}
    [] OTHER -> {}

Chars(words) == [i \in DOMAIN words |-> Char(words[i])]
Rest(t, k) == SubSeq(t, k, Len(t))
Next1(t, set) == LET at == {i \in DOMAIN t : t[i] \in set} IN IF at = {} THEN 0 ELSE Min(at)

(* The rest t of a text, inside the openers of stack, in color fg. *)
RECURSIVE AppendZtext(_, _, _, _)
AppendZtext(f, t, stack, fg) ==
  LET look == [attr |-> UNION {stack[i].attr : i \in DOMAIN stack}, fg |-> fg]
      k    == Next1(t, Special)
      before == AppendAttr(f, Chars(SubSeq(t, 1, k - 1)), look)
      through == AppendAttr(f, Chars(SubSeq(t, 1, k)), look)
      rest == Rest(t, k + 1)
      o    == Next1(rest, ToSet(Openers) \cup {" "})
      name == SubSeq(rest, 1, o - 1)
      end  == Next1(Rest(rest, o + 1), Special)
  IN
  CASE k = 0 -> AppendAttr(f, Chars(t), look)
    [] k > 0 /\ t[k] = "@" ->
        (CASE Len(stack) = MaxNesting -> AppendZtext(through, rest, stack, fg)
           [] Len(stack) < MaxNesting /\ rest # <<>> /\ rest[1] = "@" ->
                AppendZtext(through, Rest(rest, 2), stack, fg)
           [] Len(stack) < MaxNesting /\ (rest = <<>> \/ rest[1] # "@") ->
               (CASE o = 0 \/ rest[o] = " " -> AppendZtext(through, rest, stack, fg)
                  [] o > 0 /\ rest[o] # " " /\ AttrOf(name) # {} ->
                       AppendZtext(before, Rest(rest, o + 1),
                                   Append(stack, [attr |-> UNION AttrOf(name), opener |-> rest[o], fg |-> fg]), fg)
                  [] o > 0 /\ rest[o] # " " /\ name = <<"color">> ->
                       IF end > 0 /\ Closes(rest[o], rest[o + end])
                       THEN AppendZtext(before, Rest(rest, o + end + 1), stack,
                                        IF SubSeq(rest, o + 1, o + end - 1) = <<"red">> THEN "red" ELSE "default")
                       ELSE AppendZtext(before, Rest(rest, o + 1), stack, fg)
                  [] OTHER -> AppendZtext(through, rest, stack, fg)))
    [] k > 0 /\ t[k] \in ToSet(Closers) ->
        (IF stack # <<>> /\ Closes(Last(stack).opener, t[k])
         THEN AppendZtext(before, rest, Front(stack), Last(stack).fg)
         ELSE AppendZtext(through, rest, stack, fg))
    [] OTHER -> AppendZtext(through, rest, stack, fg)

Ztext(t) == AppendZtext(<<>>, t, <<>>, "default")

-----------------------------------------------------------------------------
(* The pager: v = [text, textlines, topline, rightshift]. *)

ViewwinNewText(f) ==
  LET text == IF f # <<>> /\ Last(f) # Newline THEN AppendNormal(f, <<Newline>>) ELSE f IN
  [text |-> text, textlines |-> NumLines(text), topline |-> 0, rightshift |-> 0]
ViewwinDrawn(v, lines, cols) ==
  TruncateCols(TruncateLines(v.text, v.topline, lines), v.rightshift, cols - 1 + v.rightshift)
ViewwinMore(v, lines) == v.textlines - v.topline > lines
ViewwinDown(v, lines, amount) ==
  LET n == Min({amount, v.textlines - (v.topline + lines)}) IN
  IF n > 0 THEN [v EXCEPT !.topline = @ + n] ELSE v
ViewwinUp(v, amount) == [v EXCEPT !.topline = Max({@ - amount, 0})]
ViewwinBottom(v, lines) == [v EXCEPT !.topline = v.textlines - lines]

(* Up: the line of consider_current or the ones before, last first.        *)
ViewwinSearch(v, c, current, direction) ==
  LET here  == LineExtents(v.text, v.topline)
      down  == FmtextSearch(v.text, c, IF current THEN here.start ELSE here.end)
      below == IF current THEN here.end ELSE here.start
      above == {i \in 1 .. below : v.text[i] = Char(c)}
  IN  IF direction = "downwards"
        THEN IF down = -1 THEN v ELSE [v EXCEPT !.topline = LineNumber(v.text, down)]
        ELSE IF above = {} THEN v ELSE [v EXCEPT !.topline = LineNumber(v.text, Max(above) - 1)]

-----------------------------------------------------------------------------
(* What a text is to show: its lines, each a sequence of cells, of which a *)
(* wide character takes two and a tab those to the next stop.              *)
Cell(x, look) ==
  CASE x = Char("W") -> <<[c |-> "W", half |-> 1, look |-> look], [c |-> "W", half |-> 2, look |-> look]>>
    [] OTHER -> <<[c |-> x[2], half |-> 0, look |-> look]>>
BlankCell == [c |-> " ", half |-> 0, look |-> Default]

LinesOf(f) ==
  LET Step(s, i) ==
        LET line == Last(s.rows) IN
        CASE f[i] = Newline -> [s EXCEPT !.rows = Append(@, <<>>)]
          [] f[i] = Char("\t") ->
               [s EXCEPT !.rows = Append(Front(@), line \o
                  [j \in 1 .. TabWidth - (Len(line) % TabWidth) |-> BlankCell])]
          [] IsFormatChar(f[i]) -> [s EXCEPT !.look = UpdateAttributes(@, f[i])]
          [] OTHER -> [s EXCEPT !.rows = Append(Front(@), line \o Cell(f[i], s.look))]
  IN  FoldLeft(Step, [rows |-> <<<<>>>>, look |-> Default], [i \in DOMAIN f |-> i]).rows

(* The columns acol to bcol of a line: half a wide character that is cut   *)
(* on the left is blank, one at the right edge is left out, and so is all  *)
(* of a line of which only the last column has the start of a character.   *)
Columns(line, acol, bcol) ==
  LET end  == Min({Len(line), bcol + 1})
      kept == CASE end > bcol /\ line[end].half = 2 -> end - 2
                [] end > bcol /\ line[end].half = 1 -> end - 1
                [] OTHER -> end
  IN  IF \A j \in acol + 1 .. Min({kept, bcol}) : line[j].half = 2 THEN <<>>
      ELSE [j \in 1 .. kept - acol |->
              IF j = 1 /\ line[acol + 1].half = 2 THEN BlankCell ELSE line[acol + j]]

(* The rows a terminal of that width fills: after its last column the next *)
(* row follows.                                                            *)
Drawn(f, width) ==
  LET Step(s, i) ==
        LET row == Last(s.rows) \o Cell(f[i], s.look) IN
        CASE f[i] = Newline -> [s EXCEPT !.rows = Append(@, <<>>)]
          [] IsFormatChar(f[i]) -> [s EXCEPT !.look = UpdateAttributes(@, f[i])]
          [] OTHER -> [s EXCEPT !.rows = Append(Front(@), row) \o
                                           IF Len(row) >= width THEN <<<<>>>> ELSE <<>>]
  IN  FoldLeft(Step, [rows |-> <<<<>>>>, look |-> Default], [i \in DOMAIN f |-> i]).rows

(* The window shows exactly the lines and columns it is scrolled to, each  *)
(* character with the looks it has in the whole text.                      *)
WindowShowsText(f, aline, lines, acol, cols) ==
  LET v == [ViewwinNewText(f) EXCEPT !.topline = aline, !.rightshift = acol]
      all == Front(LinesOf(v.text))
      seen == SubSeq(all, aline + 1, Min({aline + lines, Len(all)}))
  IN  Front(Drawn(ViewwinDrawn(v, lines, cols), cols))
        = [i \in DOMAIN seen |-> Columns(seen[i], acol, acol + cols - 1)]

(* Paging down shows every line, and ends when the status line says so;    *)
(* paging up goes back over all of them, to the first.                     *)
PagingShowsAll(f, topline, lines) ==
  LET v == [ViewwinNewText(f) EXCEPT !.topline = topline]
      w == ViewwinDown(v, lines, lines)
      u == ViewwinUp(w, lines)
  IN  /\ v.textlines = Len(LinesOf(v.text)) - 1
      /\ w.topline <= v.topline + lines
      /\ ViewwinMore(v, lines) => w.topline > v.topline
      /\ ~ViewwinMore(ViewwinBottom(v, lines), lines)
      /\ u.topline >= 0 /\ u.topline + lines >= w.topline
      /\ u.topline <= v.topline /\ (u.topline = w.topline => w.topline = 0)

(* A search goes to the nearest line that has what is looked for.          *)
SearchFindsNearest(f, topline, c, current, direction) ==
  LET v == [ViewwinNewText(f) EXCEPT !.topline = topline]
      lines == LinesOf(v.text)
      has == {i \in 0 .. Len(lines) - 1 : \E j \in DOMAIN lines[i + 1] : lines[i + 1][j].c = c}
      ahead == {i \in has : \/ direction = "downwards" /\ i > topline
                            \/ direction = "upwards" /\ i < topline
                            \/ current /\ i = topline}
      found == ViewwinSearch(v, c, current, direction).topline
  IN  IF ahead = {} THEN found = topline
      ELSE found = IF direction = "downwards" THEN Min(ahead) ELSE Max(ahead)

(* A text whose every "@" is doubled is shown as it is, all in one look,   *)
(* and so it is inside markup, up to the closer of that.                   *)
QuotedShowsItself(t) ==
  LET quoted == FlattenSeq([i \in DOMAIN t |-> IF t[i] = "@" THEN <<"@", "@">> ELSE <<t[i]>>])
      bold   == [attr |-> {"bold"}, fg |-> "default"]
  IN  /\ LinesOf(Ztext(quoted)) = LinesOf(Chars(t))
      /\ MaxNesting > 1 /\ ")" \notin ToSet(t) =>
           LinesOf(Ztext(<<"@", "b", "(">> \o quoted \o <<")">>)) = LinesOf(AppendAttr(<<>>, Chars(t), bold))
=============================================================================
