------------------------------ MODULE Keymaps -------------------------------
(***************************************************************************)
(* How a sequence of keys finds its binding, keymap.c and keybinding.c,    *)
(* and the keymaps BarnOwl starts with, keys.c.  A keymap is a sequence of *)
(* bindings, oldest first, in the order they are made, and the name of the *)
(* keymap it inherits from; NoMap ends the chain.                          *)
(***************************************************************************)
EXTENDS Naturals, Sequences, SequencesExt

NoMap == "none"
Binding(keys, command) == [keys |-> keys, command |-> command]

Waiting   == [kind |-> "wait"]
Unbound   == [kind |-> "unbound"]
Bound(map, command) == [kind |-> "bound", map |-> map, command |-> command]

(* The keymap and those it inherits from, nearest first.                   *)
Chain(maps, map) ==
  LET up[i \in Nat] == IF i = 0 THEN map
                       ELSE IF up[i - 1] = NoMap THEN NoMap ELSE maps[up[i - 1]].parent
      length == CHOOSE n \in 0 .. 10 : up[n] = NoMap /\ \A i \in 0 .. n - 1 : up[i] # NoMap
  IN  [i \in 1 .. length |-> up[i - 1]]

(* owl_keybinding_match: the keys are a binding's or the first of them.    *)
Hits(bindings, keys) == {i \in DOMAIN bindings : IsPrefix(keys, bindings[i].keys)}

NewestHit(bindings, keys) ==
  CHOOSE i \in Hits(bindings, keys) : \A j \in Hits(bindings, keys) : j <= i

(* The search of owl_keyhandler_process: the first keymap of the chain     *)
(* with a binding that fits decides, whether it fits as a whole or not.    *)
FindBinding(maps, active, keys) ==
  LET chain == Chain(maps, active)
      fits  == {m \in DOMAIN chain : Hits(maps[chain[m]].bindings, keys) # {}}
  IN  IF fits = {} THEN Unbound
      ELSE LET map == chain[CHOOSE m \in fits : \A k \in fits : m <= k]
               hit == maps[map].bindings[NewestHit(maps[map].bindings, keys)]
           IN  IF hit.keys = keys THEN Bound(map, hit.command) ELSE Waiting

(* owl_keymap_create_binding: a binding takes the place of one of the same *)
(* keys, at the end.                                                       *)
CreateBinding(bindings, binding) ==
  Append(SelectSeq(bindings, LAMBDA b : b.keys # binding.keys), binding)

-----------------------------------------------------------------------------
(* keys.c                                                                  *)

Each(keys, line) == [i \in DOMAIN keys |-> Binding(<<keys[i]>>, line)]
Long(keys, line) == <<Binding(keys, line)>>

GlobalKeys ==
  FlattenSeq(<<
    Each(<<"C-z">>, <<"message", "Use", ":suspend", "to", "suspend.">>)>>)

EditKeys ==
  FlattenSeq(<<
    Each(<<"C-c", "C-g">>, <<"edit:cancel">>), Each(<<"M-f">>, <<"edit:move-next-word">>),
    Long(<<"M-O", "3", "C">>, <<"edit:move-next-word">>),
    Each(<<"M-RIGHT">>, <<"edit:move-next-word">>),
    Long(<<"M-[", "1", ";", "3", "D">>, <<"edit:move-next-word">>),
    Each(<<"M-b">>, <<"edit:move-prev-word">>), Long(<<"M-O", "3", "D">>, <<"edit:move-prev-word">>),
    Each(<<"M-LEFT">>, <<"edit:move-prev-word">>),
    Long(<<"M-[", "1", ";", "3", "C">>, <<"edit:move-next-word">>),
    Each(<<"LEFT">>, <<"edit:move-left">>), Long(<<"M-[", "D">>, <<"edit:move-left">>),
    Each(<<"C-b">>, <<"edit:move-left">>), Each(<<"RIGHT">>, <<"edit:move-right">>),
    Long(<<"M-[", "C">>, <<"edit:move-right">>), Each(<<"C-f">>, <<"edit:move-right">>),
    Each(<<"M-<", "HOME">>, <<"edit:move-to-buffer-start">>),
    Each(<<"M->", "END">>, <<"edit:move-to-buffer-end">>),
    Each(<<"C-a">>, <<"edit:move-to-line-start">>), Each(<<"C-e">>, <<"edit:move-to-line-end">>),
    Each(<<"M-BACKSPACE", "M-DELETE">>, <<"edit:delete-prev-word">>),
    Each(<<"M-d", "M-DC">>, <<"edit:delete-next-word">>),
    Long(<<"M-[", "3", ";", "3", "~">>, <<"edit:delete-next-word">>),
    Each(<<"C-h", "BACKSPACE", "DELETE">>, <<"edit:delete-prev-char">>),
    Each(<<"C-d", "DC">>, <<"edit:delete-next-char">>), Each(<<"C-k">>, <<"edit:delete-to-line-end">>),
    Each(<<"C-t">>, <<"edit:transpose-chars">>), Each(<<"M-q">>, <<"edit:fill-paragraph">>),
    Each(<<"C-@">>, <<"edit:set-mark">>), Long(<<"C-x", "C-x">>, <<"edit:exchange-point-and-mark">>),
    Each(<<"M-w">>, <<"edit:copy-region-as-kill">>), Each(<<"C-w">>, <<"edit:kill-region">>),
    Each(<<"C-y">>, <<"edit:yank">>), Each(<<"C-l">>, <<"(", "edit:recenter", ";", "redisplay", ")">>)>>)

EditmultiKeys ==
  FlattenSeq(<<
    Each(<<"UP">>, <<"edit:move-up-line">>), Long(<<"M-[", "A">>, <<"edit:move-up-line">>),
    Each(<<"C-p">>, <<"edit:move-up-line">>), Each(<<"DOWN">>, <<"edit:move-down-line">>),
    Long(<<"M-[", "B">>, <<"edit:move-down-line">>), Each(<<"C-n">>, <<"edit:move-down-line">>),
    Each(<<"M-}">>, <<"edit:forward-paragraph">>), Each(<<"M-{">>, <<"edit:backward-paragraph">>),
    Each(<<"M-p">>, <<"edit:history-prev">>), Each(<<"M-n">>, <<"edit:history-next">>),
    Each(<<"C-d">>, <<"edit:done-or-delete">>)>>)

EditlineKeys ==
  FlattenSeq(<<
    Each(<<"C-u">>, <<"edit:delete-all">>), Each(<<"UP">>, <<"edit:history-prev">>),
    Long(<<"M-[", "A">>, <<"edit:history-prev">>), Each(<<"C-p", "M-p">>, <<"edit:history-prev">>),
    Each(<<"DOWN">>, <<"edit:history-next">>), Long(<<"M-[", "B">>, <<"edit:history-next">>),
    Each(<<"C-n", "M-n">>, <<"edit:history-next">>), Each(<<"LF", "CR">>, <<"editline:done">>)>>)

EditresponseKeys ==
  FlattenSeq(<<
    Each(<<"C-u">>, <<"edit:delete-all">>), Each(<<"LF", "CR">>, <<"editresponse:done">>)>>)

PoplessKeys ==
  FlattenSeq(<<
    Each(<<"SPACE", "NPAGE", "M-n", "C-v">>, <<"popless:scroll-down-page">>),
    Each(<<"b", "PPAGE", "M-p", "M-v">>, <<"popless:scroll-up-page">>),
    Each(<<"CR", "LF", "DOWN">>, <<"popless:scroll-down-line">>),
    Long(<<"M-[", "B">>, <<"popless:scroll-down-line">>),
    Each(<<"C-n">>, <<"popless:scroll-down-line">>), Each(<<"UP">>, <<"popless:scroll-up-line">>),
    Long(<<"M-[", "A">>, <<"popless:scroll-up-line">>),
    Each(<<"C-h", "C-p", "DELETE", "BACKSPACE", "DC">>, <<"popless:scroll-up-line">>),
    Each(<<"RIGHT">>, <<"popless:scroll-right", "10">>),
    Long(<<"M-[", "C">>, <<"popless:scroll-right", "10">>),
    Each(<<"LEFT">>, <<"popless:scroll-left", "10">>),
    Long(<<"M-[", "D">>, <<"popless:scroll-left", "10">>),
    Each(<<"HOME", "<", "M-<">>, <<"popless:scroll-to-top">>),
    Each(<<"END", ">", "M->">>, <<"popless:scroll-to-bottom">>),
    Each(<<"q", "C-c", "C-g">>, <<"popless:quit">>), Each(<<"/">>, <<"popless:start-search">>),
    Each(<<"?">>, <<"popless:start-search", "-r">>), Each(<<"n">>, <<"popless:search">>),
    Each(<<"N">>, <<"popless:search", "-r">>), Each(<<"C-l">>, <<"redisplay">>)>>)

RecvKeys ==
  FlattenSeq(<<
    Long(<<"C-x", "C-c">>, <<"start-command", "quit">>), Each(<<"F1", "h", "HELP">>, <<"help">>),
    Long(<<"M-[", "2", "8", "~">>, <<"help">>), Each(<<":", "M-x">>, <<"start-command">>),
    Each(<<"x">>, <<"expunge">>), Each(<<"u">>, <<"undelete">>),
    Each(<<"M-u">>, <<"undelete", "view">>), Each(<<"d">>, <<"delete">>),
    Each(<<"M-D">>, <<"delete", "view">>), Long(<<"C-x", "k">>, <<"smartzpunt", "-i">>),
    Each(<<"X">>, <<"(", "expunge", ";", "view", "--home", ")">>),
    Each(<<"v">>, <<"start-command", "view">>), Each(<<"V">>, <<"view", "--home">>),
    Each(<<"!">>, <<"view", "-r">>), Each(<<"M-n">>, <<"smartnarrow">>),
    Each(<<"M-N">>, <<"smartnarrow", "-i">>), Each(<<"M-m">>, <<"smartnarrow", "-r">>),
    Each(<<"M-M">>, <<"smartnarrow", "-ri">>), Each(<<"M-p">>, <<"view", "personal">>),
    Each(<<"/">>, <<"start-command", "search">>), Each(<<"?">>, <<"start-command", "search", "-r">>),
    Each(<<"HOME">>, <<"recv:setshift", "0">>), Each(<<"LEFT">>, <<"recv:shiftleft">>),
    Long(<<"M-[", "D">>, <<"recv:shiftleft">>), Each(<<"RIGHT">>, <<"recv:shiftright">>),
    Long(<<"M-[", "C">>, <<"recv:shiftright">>), Each(<<"DOWN", "C-n">>, <<"recv:next">>),
    Long(<<"M-[", "B">>, <<"recv:next">>), Each(<<"M-C-n">>, <<"recv:next", "--smart-filter">>),
    Each(<<"UP">>, <<"recv:prev">>), Long(<<"M-[", "A">>, <<"recv:prev">>),
    Each(<<"n">>, <<"recv:next-notdel">>), Each(<<"p">>, <<"recv:prev-notdel">>),
    Each(<<"C-p">>, <<"recv:prev">>), Each(<<"M-C-p">>, <<"recv:prev", "--smart-filter">>),
    Each(<<"P">>, <<"recv:next-personal">>), Each(<<"M-P">>, <<"recv:prev-personal">>),
    Each(<<"M-<", "<">>, <<"recv:first">>), Each(<<"M->", ">">>, <<"recv:last">>),
    Each(<<"C-v", "NPAGE">>, <<"recv:pagedown">>), Each(<<"M-v", "PPAGE">>, <<"recv:pageup">>),
    Each(<<"C-@">>, <<"recv:mark">>), Long(<<"C-x", "C-x">>, <<"recv:swapmark">>),
    Each(<<"SPACE">>, <<"recv:scroll", "10">>), Each(<<"CR", "LF">>, <<"recv:scroll", "1">>),
    Each(<<"C-h", "DELETE", "BACKSPACE", "DC">>, <<"recv:scroll", "-1">>),
    Each(<<"b">>, <<"recv:scroll", "-10">>), Each(<<"C-l">>, <<"redisplay">>),
    Each(<<"i">>, <<"info">>), Each(<<"l">>, <<"blist">>), Each(<<"B">>, <<"alist">>),
    Each(<<"M">>, <<"pop-message">>), Each(<<"T">>, <<"delete", "trash">>),
    Each(<<"o">>, <<"toggle-oneline">>), Each(<<"A">>, <<"away", "toggle">>),
    Each(<<"z">>, <<"start-command", "zwrite">>), Each(<<"a">>, <<"start-command", "aimwrite">>),
    Each(<<"r">>, <<"reply">>), Each(<<"R">>, <<"reply", "sender">>),
    Each(<<"C-r", "M-r">>, <<"reply", "-e">>), Each(<<"M-R">>, <<"reply", "-e", "sender">>),
    Each(<<"W">>, <<"start-command", "webzephyr">>), Each(<<"C-c", "C-g">>, <<>>)>>)

Keymap(parent, keys) == [parent |-> parent, bindings |-> FoldLeft(CreateBinding, <<>>, keys)]

DefaultKeymaps ==
  [global |-> Keymap(NoMap, GlobalKeys),
   edit |-> Keymap("global", EditKeys),
   editmulti |-> Keymap("edit", EditmultiKeys),
   editline |-> Keymap("edit", EditlineKeys),
   editresponse |-> Keymap("edit", EditresponseKeys),
   popless |-> Keymap("global", PoplessKeys),
   recv |-> Keymap("global", RecvKeys)]

(* The contexts in which a keymap is the active one.                       *)
ActiveIn == [recv |-> "recv", popless |-> "popless", editline |-> "editline",
             editmulti |-> "editmulti", editresponse |-> "editresponse"]
=============================================================================
