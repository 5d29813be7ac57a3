------------------------------ MODULE Contexts ------------------------------
(***************************************************************************)
(* What the keyboard talks to: the stack of contexts (context.c,           *)
(* editcontext.c, global.c), the keyhandler (keymap.c), the line and text  *)
(* editors that commands and scripts open (functions.c), the pop-up viewer *)
(* with its own command line (popwin.c, viewwin.c) and the histories       *)
(* (history.c).  Everything that a key sets off happens before the next    *)
(* key, so a key is a function on the record ui.  The cursor stays at the  *)
(* end of the text: editing inside a text is module EditWin's subject.     *)
(***************************************************************************)
EXTENDS Keymaps, FiniteSets

CONSTANTS
  KeymapTable,  \* name of a keymap -> its bindings and its parent
  Keys,         \* the keys that are pressed
  Typable,      \* those that insert themselves
  NestedEdits,  \* scripts may open an editor while one is open
  MaxStack,     \* OWL_KEYMAP_MAXSTACK
  HistorySize,  \* OWL_HISTORYSIZE
  MaxEdits,     \* bound: editors opened
  MaxTyped      \* bound: length of a text

ASSUME ContextAssumption ==
  /\ NestedEdits \in BOOLEAN /\ Keys \subseteq STRING
  /\ MaxStack \in Nat \ {0} /\ HistorySize \in Nat \ {0}
  /\ MaxEdits \in Nat /\ MaxTyped \in Nat

(* What keys.c and owl_keyhandler_add_keymap see to: the chain of a keymap *)
(* ends; a keymap binds commands of its own context; and C-c, which leaves *)
(* an editor and the viewer, is bound to nothing else there and begins no  *)
(* longer sequence; nor is it the key that ends a line.                    *)
EditMaps == {"editline", "editmulti", "editresponse"}
OpeningCommands == {"start-command", "reply", "help"}
EditCommands    == {"edit:cancel", "edit:done", "edit:history-prev", "edit:history-next"}
ViewerCommands  == {"popless:quit", "popless:start-search"}
OthersCommands(map) ==
  CASE map = "recv"    -> EditCommands \cup ViewerCommands
    [] map = "popless" -> OpeningCommands \cup EditCommands
    [] OTHER           -> OpeningCommands \cup ViewerCommands
Leave(map)    == IF map = "popless" THEN "popless:quit" ELSE "edit:cancel"
LeavingKeys   == {"C-c", "M-" \o "C-c"}
BindingsOf(map) == UNION {ToSet(KeymapTable[m].bindings) : m \in ToSet(Chain(KeymapTable, map))}

ASSUME KeymapAssumption ==
  /\ \A m \in DOMAIN KeymapTable :
       KeymapTable[m].bindings \in Seq([keys : Seq(STRING), command : STRING])
  /\ \A map \in EditMaps \cup {"recv", "popless"} :
       /\ Chain(KeymapTable, map) \in Seq(DOMAIN KeymapTable)
       /\ \A b \in BindingsOf(map) : b.command \notin OthersCommands(map)
  /\ \A map \in EditMaps \cup {"popless"} :
       /\ Binding(<<"C-c">>, Leave(map)) \in BindingsOf(map)
       /\ \A b \in BindingsOf(map) : \A i \in DOMAIN b.keys :
            b.keys[i] \in LeavingKeys => i = Len(b.keys) /\ b.command = Leave(map)
  /\ "CR" \notin LeavingKeys

VARIABLE ui

NoEdit == 0

Frame(kind, keymap, edit) == [kind |-> kind, keymap |-> keymap, edit |-> edit]
History(lines, cur, partial) == [lines |-> lines, cur |-> cur, partial |-> partial]

Top(s) == Head(s.stack)
TopEdit(s) == Top(s).edit

ContextInit ==
  ui = [stack   |-> <<Frame("recv", "recv", NoEdit)>>,
        keymap  |-> "recv", keys |-> <<>>, esc |-> FALSE,
        edits   |-> <<>>,    \* the editors opened so far
        tw      |-> NoEdit,  \* g.tw, the editor of the typing window
        viewer  |-> FALSE,   \* g.pw and g.vw
        cmdwin  |-> NoEdit,  \* the command line of the viewer
        hist    |-> [h \in {"cmd", "msg"} |-> History(<<>>, 0, FALSE)],
        crashed |-> FALSE]

-----------------------------------------------------------------------------
(* Histories.                                                              *)

Reset(h) ==
  LET lines == IF h.partial THEN Front(h.lines) ELSE h.lines
  IN  History(lines, Len(lines), FALSE)

Store(h, line, partial) ==
  LET r == Reset(h)
      kept == IF Len(r.lines) >= HistorySize THEN Tail(r.lines) ELSE r.lines
  IN  IF ~partial /\ r.lines # <<>> /\ Last(r.lines) = line THEN r
      ELSE History(Append(kept, line), Len(kept) + 1, partial)

IsTouched(h) == h.cur # 0 /\ h.cur < Len(h.lines)

-----------------------------------------------------------------------------
(* Keyhandler, contexts and editors.                                       *)

ResetKeys(s) == [s EXCEPT !.keys = <<>>, !.esc = FALSE]

(* owl_keyhandler_activate: nothing is reset if the keymap is active.      *)
Activate(s, keymap) ==
  IF s.keymap = keymap THEN s ELSE [ResetKeys(s) EXCEPT !.keymap = keymap]

PushContext(s, frame) == Activate([s EXCEPT !.stack = <<frame>> \o @], frame.keymap)

Ref(s, e) == [s EXCEPT !.edits[e].refs = @ + 1]

(* owl_editwin_unref does not expect NULL.  The text goes with the last    *)
(* reference.                                                              *)
Unref(s, e) ==
  IF e = NoEdit THEN [s EXCEPT !.crashed = TRUE]
  ELSE IF s.edits[e].refs = 1
  THEN [s EXCEPT !.edits[e] = [@ EXCEPT !.refs = 0, !.text = <<>>, !.typed = <<>>,
                                        !.browsing = FALSE]]
  ELSE [s EXCEPT !.edits[e].refs = @ - 1]

NewEdit(s, style, hist, callback) ==
  [s EXCEPT !.edits = Append(@, [text |-> <<>>, style |-> style, hist |-> hist,
                                 callback |-> callback, refs |-> 1, closed |-> 0,
                                 browsing |-> FALSE, typed |-> <<>>])]

(* owl_global_set_typwin_active and the context over it: the typing window *)
(* and the context hold a reference each.                                  *)
OpenMain(s, style, keymap, hist, callback) ==
  LET e == Len(s.edits) + 1
      t == Ref([NewEdit(s, style, hist, callback) EXCEPT !.tw = e], e)
  IN  PushContext(t, Frame("edit", keymap, e))

StartCommand(s)  == OpenMain(s, "line", "editline", "cmd", "command")
StartEditWin(s)  == OpenMain(s, "multi", "editmulti", "msg", "send")
StartQuestion(s) == OpenMain(s, "line", "editresponse", "cmd", "script")

(* owl_function_popless_text: there is one viewer.                         *)
Popless(s) ==
  IF s.viewer THEN s
  ELSE PushContext([s EXCEPT !.viewer = TRUE], Frame("popless", "popless", NoEdit))

(* owl_viewwin_command_start_search: the caller's reference is given up.   *)
StartSearch(s) ==
  LET e == Len(s.edits) + 1
      t == Ref([NewEdit(s, "line", "none", "search") EXCEPT !.cmdwin = e], e)
  IN  Unref(PushContext(t, Frame("edit", "editline", e)), e)

(* A mutant: the context below does not get its keymap back.               *)
PopWithoutActivate(s) ==
  LET deactivated == IF s.cmdwin = TopEdit(s) THEN [s EXCEPT !.cmdwin = NoEdit]
                     ELSE [Unref(s, s.tw) EXCEPT !.tw = NoEdit]
  IN  Unref([deactivated EXCEPT !.stack = Tail(@)], TopEdit(s))

(* owl_global_pop_context: the deactivation lets go of the typing window,  *)
(* whoever has it now, or of the viewer's command line; the deletion lets  *)
(* go of the context's own editor.                                         *)
PopContext(s) ==
  LET frame == Top(s)
      deactivated == IF frame.kind # "edit" THEN s
                     ELSE IF s.cmdwin = frame.edit THEN [s EXCEPT !.cmdwin = NoEdit]
                     ELSE [Unref(s, s.tw) EXCEPT !.tw = NoEdit]
      popped == Activate([deactivated EXCEPT !.stack = Tail(@)], s.stack[2].keymap)
  IN  IF deactivated.crashed THEN deactivated
      ELSE IF frame.kind = "edit" THEN Unref(popped, frame.edit) ELSE popped

PoplessQuit(s) == PopContext([s EXCEPT !.viewer = FALSE, !.cmdwin = NoEdit])

(* A command line typed by the user: two aliases, or an unknown command.   *)
RunCommand(s, line) ==
  LET room == Len(s.edits) < MaxEdits
  IN  CASE line = <<"z">> /\ room -> StartEditWin(s)
        [] line = <<"h">> /\ room -> Popless(s)
        [] OTHER -> s

(* owl_editwin_do_callback.                                                *)
Callback(s, e, success) ==
  LET t == [s EXCEPT !.edits[e].closed = @ + 1]
  IN  IF s.edits[e].callback = "command" /\ success THEN RunCommand(t, s.edits[e].text)
      ELSE t

StoreText(s, e, partial) ==
  IF s.edits[e].hist = "none" THEN s
  ELSE [s EXCEPT !.hist[s.edits[e].hist] = Store(@, s.edits[e].text, partial)]

(* A mutant: the callback runs before the context is popped.               *)
CloseAfterCallback(s, success) ==
  LET e == TopEdit(s) IN PopContext(Callback(StoreText(s, e, FALSE), e, success))

(* owl_command_edit_done and owl_command_edit_cancel: a reference keeps    *)
(* the editor until its callback has run.                                  *)
CloseEdit(s, success) ==
  LET e == TopEdit(s)
      popped == PopContext(Ref(StoreText(s, e, FALSE), e))
  IN  IF popped.crashed THEN popped ELSE Unref(Callback(popped, e, success), e)

-----------------------------------------------------------------------------
(* Editing.                                                                *)

SetText(s, e, text) == [s EXCEPT !.edits[e].text = text]

(* A mutant: every step back stores the line that is shown.                *)
HistoryPrevStoring(s, e) ==
  LET name  == s.edits[e].hist
      saved == [StoreText(s, e, TRUE) EXCEPT
                  !.edits[e].browsing = TRUE,
                  !.edits[e].typed = IF s.edits[e].browsing THEN @ ELSE s.edits[e].text]
      h == saved.hist[name]
  IN  IF h.cur > 1 THEN SetText([saved EXCEPT !.hist[name].cur = @ - 1], e, h.lines[h.cur - 1])
      ELSE saved

(* owl_command_edit_history_prev.  typed remembers, for the properties     *)
(* only, what was there when browsing began.                               *)
HistoryPrev(s, e) ==
  LET name  == s.edits[e].hist
      saved == IF IsTouched(s.hist[name]) THEN s
               ELSE [StoreText(s, e, TRUE) EXCEPT !.edits[e].browsing = TRUE,
                                                  !.edits[e].typed = s.edits[e].text]
      h == saved.hist[name]
  IN  IF h.cur > 1 THEN SetText([saved EXCEPT !.hist[name].cur = @ - 1], e, h.lines[h.cur - 1])
      ELSE saved

HistoryNext(s, e) ==
  LET name == s.edits[e].hist
      h == s.hist[name]
  IN  IF h.cur # 0 /\ h.cur < Len(h.lines)
      THEN SetText([s EXCEPT !.hist[name].cur = @ + 1], e, h.lines[h.cur + 1])
      ELSE s

(* owl_editwin_process_char: a line takes no newline.                      *)
TypeChar(s, e, key) ==
  LET char == IF key = "CR" THEN "newline" ELSE key
  IN  IF \/ key \notin Typable \cup {"CR"}
         \/ key = "CR" /\ s.edits[e].style = "line"
         \/ Len(s.edits[e].text) = MaxTyped
      THEN s
      ELSE SetText(s, e, Append(s.edits[e].text, char))

(* A mutant: a message without any text is ended too.                      *)
EndsOrEmpty(text) == text = <<>> \/ Last(text) = "newline"

(* owl_editwin_post_process_char and owl_editwin_check_dotsend: a line     *)
(* that is a single dot ends the message, and is taken off.                *)
EndsInDot(text) ==
  \/ text = <<".", "newline">>
  \/ Len(text) >= 3 /\ SubSeq(text, Len(text) - 2, Len(text)) = <<"newline", ".", "newline">>

PostAlways(s, key) ==
  LET e == TopEdit(s)
  IN  IF e = NoEdit \/ key # "CR" THEN s
      ELSE IF s.edits[e].style = "multi" /\ EndsInDot(s.edits[e].text)
      THEN CloseEdit(SetText(s, e, SubSeq(s.edits[e].text, 1, Len(s.edits[e].text) - 2)), TRUE)
      ELSE s

(* owl_cmd_execute for the commands that the keymaps of the model name;    *)
(* edit:done-or-delete is always at the end of the text.                   *)
Execute(s, command) ==
  LET e == TopEdit(s)
      room == Len(s.edits) < MaxEdits
  IN  CASE command = "start-command" /\ room -> StartCommand(s)
        [] command = "reply" /\ room -> StartEditWin(s)
        [] command = "help"          -> Popless(s)
        [] command = "popless:quit"  -> PoplessQuit(s)
        [] command = "popless:start-search" /\ room -> StartSearch(s)
        [] command = "edit:cancel"   -> CloseEdit(s, FALSE)
        [] command = "edit:done"     -> CloseEdit(s, TRUE)
        [] command = "edit:history-prev" /\ s.edits[e].hist # "none" -> HistoryPrev(s, e)
        [] command = "edit:history-next" /\ s.edits[e].hist # "none" -> HistoryNext(s, e)
        [] OTHER -> s

IsEditKeymap(map) == map \in {"edit", "editmulti", "editline", "editresponse"}

(* A mutant: an unbound sequence of keys is not forgotten.                 *)
HandleKeeping(s, key) ==
  LET found == FindBinding(KeymapTable, s.keymap, s.keys)
  IN  CASE found.kind = "bound" ->
             LET t == ResetKeys(Execute(s, found.command))
             IN  IF IsEditKeymap(found.map) THEN PostAlways(t, key) ELSE t
        [] OTHER -> s

(* The end of owl_keyhandler_process: run the binding, wait for more keys, *)
(* or let the active keymap take a single unbound key.                     *)
Handle(s, key) ==
  LET found == FindBinding(KeymapTable, s.keymap, s.keys)
  IN  CASE found.kind = "wait"  -> s
        [] found.kind = "bound" ->
             LET t == ResetKeys(Execute(s, found.command))
             IN  IF IsEditKeymap(found.map) THEN PostAlways(t, key) ELSE t
        [] OTHER ->
             IF IsEditKeymap(s.keymap) /\ Len(s.keys) = 1
             THEN PostAlways(ResetKeys(TypeChar(s, TopEdit(s), key)), key)
             ELSE ResetKeys(s)

(* owl_keyhandler_process: ESC is taken for the next key's prefix.         *)
PressKey(s, key) ==
  IF key = "ESC" /\ ~s.esc THEN [s EXCEPT !.esc = TRUE]
  ELSE LET name == IF s.esc THEN "M-" \o key ELSE key
           t == [s EXCEPT !.esc = FALSE, !.keys = Append(@, name)]
       IN  IF Len(t.keys) > MaxStack THEN ResetKeys(t) ELSE Handle(t, name)

-----------------------------------------------------------------------------
Press(key) == ~ui.crashed /\ ui' = PressKey(ui, key)

(* A hook, a timer or an answer from the network runs a script between two *)
(* keys, and the script opens an editor or a viewer.                       *)
ScriptEdits ==
  /\ ~ui.crashed /\ Len(ui.edits) < MaxEdits
  /\ NestedEdits \/ ui.tw = NoEdit
  /\ \/ ui' = StartQuestion(ui)
     \/ ui' = StartEditWin(ui)

ScriptPopsUp == ~ui.crashed /\ ~ui.viewer /\ ui' = Popless(ui)

ContextNext ==
  \/ \E key \in Keys : Press(key)
  \/ ScriptEdits
  \/ ScriptPopsUp

ContextSpec == ContextInit /\ [][ContextNext]_ui

-----------------------------------------------------------------------------
OnStack(s, e) == {i \in DOMAIN s.stack : s.stack[i].edit = e}

KeymapFollowsContext == ui.keymap = Top(ui).keymap

ReferencesAreExact ==
  \A e \in DOMAIN ui.edits :
    ui.edits[e].refs = Cardinality(OnStack(ui, e)) + (IF ui.tw = e THEN 1 ELSE 0)

ClosedOnce ==
  \A e \in DOMAIN ui.edits :
    ui.edits[e].closed + Cardinality(OnStack(ui, e)) = 1

(* Whatever keys, callbacks and scripts push and pop: the keys are looked  *)
(* up in the keymap of the context on top; an editor is referred to        *)
(* exactly by its context and the typing window, so it is freed when it is *)
(* closed and not before; and it is closed once, so its callback runs when *)
(* its context goes and never again.                                       *)
EditorsAreClosedOnce == KeymapFollowsContext /\ ReferencesAreExact /\ ClosedOnce

ClosedEdits(s) == {e \in DOMAIN s.edits : s.edits[e].closed > 0}

(* A key closes at most one editor: the newline that ends a command line   *)
(* is not also the end of the message that the command began.              *)
OneEditPerKey == [][Cardinality(ClosedEdits(ui') \ ClosedEdits(ui)) <= 1]_ui

PendingKeysLead ==
  \/ ui.keys = <<>>
  \/ \E map \in ToSet(Chain(KeymapTable, ui.keymap)) :
       \E b \in ToSet(KeymapTable[map].bindings) :
         IsStrictPrefix(ui.keys, b.keys)

EscapeLeaves ==
  Len(ui.stack) > 1 =>
    LET s == PressKey(ui, "C-c")
    IN  \/ Len(s.stack) < Len(ui.stack)
        \/ Len(PressKey(s, "C-c").stack) < Len(ui.stack)

(* Keys that wait are the beginning of something that can still be typed,  *)
(* for a stale prefix would swallow the next key; and C-c, twice at most,  *)
(* leaves whatever is on top of the message list: no nesting of editors    *)
(* and viewers and no half-typed key locks the user in.                    *)
KeysAreNeverStuck == PendingKeysLead /\ EscapeLeaves

TypedTextIsKept ==
  \A e \in DOMAIN ui.edits :
    (TopEdit(ui) = e /\ ui.edits[e].browsing /\ IsTouched(ui.hist[ui.edits[e].hist]))
      => Last(ui.hist[ui.edits[e].hist].lines) = ui.edits[e].typed

HistoryIsTidy ==
  \A h \in {ui.hist["cmd"], ui.hist["msg"]} :
    LET lines == Reset(h).lines
    IN  /\ Len(h.lines) <= HistorySize
        /\ \A i \in 1 .. Len(lines) - 1 : lines[i] # lines[i + 1]

(* Text that was typed before the history was browsed is still there to go *)
(* forward to, as long as other lines of the history are shown; and a      *)
(* history holds no more than its size and repeats no line in a row, the   *)
(* text being composed apart.                                              *)
HistoryKeepsText == TypedTextIsKept /\ HistoryIsTidy

(* Keys always go where the user sees them go, and out again, and what was *)
(* typed in an editor is neither handed over twice nor lost.               *)
ContextsServeKeys == EditorsAreClosedOnce /\ KeysAreNeverStuck /\ HistoryKeepsText

=============================================================================
