------------------------------ MODULE FmtextCache ------------------------------
(***************************************************************************)
(* The ring of formatted texts that messages share (message.c, style.c).   *)
(*                                                                         *)
(* Formatting a message runs a Perl style, so its result is kept in one of *)
(* CacheSize slots until the slot is needed for another message or the     *)
(* style (or the window's width, or a display variable) changes.  A        *)
(* message points to its slot and the slot points back to its message; a   *)
(* message's address may be used again for a new message after g_free.     *)
(***************************************************************************)
EXTENDS Naturals

CONSTANTS
  Msgs,        \* addresses of owl_message objects
  NoMsg,       \* NULL, as a slot's message
  CacheSize,   \* OWL_FMTEXT_CACHE_SIZE
  Styles       \* what a text is formatted with: the style, width, variables

ASSUME CacheSizeAssumption == CacheSize \in Nat \ {0}
ASSUME NoMsgAssumption == NoMsg \notin Msgs

VARIABLES
  live,        \* messages allocated and not yet freed
  listed,      \* the live messages in g.msglist
  fmtext,      \* m->fmtext: a slot, or NoSlot
  message,     \* fmtext_cache[s].message
  text,        \* fmtext_cache[s].fmtext: the pieces of text appended to it
  next,        \* fmtext_cache_next
  style        \* what a text made now is formatted with

vars == <<live, listed, fmtext, message, text, next, style>>

Slots == 0 .. CacheSize - 1
NoSlot == CacheSize

TypeOK ==
  /\ live \subseteq Msgs
  /\ listed \subseteq live
  /\ fmtext \in [Msgs -> Slots \cup {NoSlot}]
  /\ message \in [Slots -> Msgs \cup {NoMsg}]
  /\ text \in [Slots -> SUBSET (Msgs \X Styles)]
  /\ next \in Slots
  /\ style \in Styles

(* owl_message_init_fmtext_cache *)
Init ==
  /\ live = {}
  /\ listed = {}
  /\ fmtext = [m \in Msgs |-> NoSlot]
  /\ message = [s \in Slots |-> NoMsg]
  /\ text = [s \in Slots |-> {}]
  /\ next = 0
  /\ style \in Styles

-----------------------------------------------------------------------------
(* Broken variant: the slot is unlinked but its text is left in it.        *)
InvalidateKeepingText(M) ==
  LET given == {fmtext[m] : m \in M} IN
  [fmtext  |-> [m \in Msgs |-> IF m \in M THEN NoSlot ELSE fmtext[m]],
   message |-> [s \in Slots |-> IF s \in given THEN NoMsg ELSE message[s]],
   text    |-> text]

(* The cache after owl_message_invalidate_format has run on every message  *)
(* of M: each one that has a slot gives it back, emptied.                  *)
InvalidateFormat(M) ==
  LET given == {fmtext[m] : m \in M} IN
  [fmtext  |-> [m \in Msgs |-> IF m \in M THEN NoSlot ELSE fmtext[m]],
   message |-> [s \in Slots |-> IF s \in given THEN NoMsg ELSE message[s]],
   text    |-> [s \in Slots |-> IF s \in given THEN {} ELSE text[s]]]

(* owl_message_next_fmtext frees the slot it is about to hand out. *)
Evict == InvalidateFormat({message[next]} \ {NoMsg})

(* owl_message_init: a new message, at an address not in use, has no slot. *)
Create(m) ==
  /\ m \notin live
  /\ live' = live \cup {m}
  /\ fmtext' = [fmtext EXCEPT ![m] = NoSlot]
  /\ UNCHANGED <<listed, message, text, next, style>>

(* owl_messagelist_append_element on the global list. *)
AppendText(m) ==
  /\ m \in live \ listed
  /\ listed' = listed \cup {m}
  /\ UNCHANGED <<live, fmtext, message, text, next, style>>

(* owl_message_format, when there is no cached text: take the next slot    *)
(* and append the styled text to what the slot holds.  Its callers         *)
(* (numlines, get_text, curs_waddstr, search) reach messages only through  *)
(* the current view, a part of g.msglist.                                  *)
Format(m) ==
  /\ m \in listed
  /\ fmtext[m] = NoSlot
  /\ LET c == Evict IN
       /\ fmtext' = [c.fmtext EXCEPT ![m] = next]
       /\ message' = [c.message EXCEPT ![next] = m]
       /\ text' = [c.text EXCEPT ![next] = @ \cup {<<m, style>>}]
  /\ next' = (next + 1) % CacheSize
  /\ UNCHANGED <<live, listed, style>>

(* Broken variant: the message is freed with its slot.                     *)
DeleteKeepingSlot(m) ==
  /\ m \in live
  /\ live' = live \ {m}
  /\ listed' = listed \ {m}
  /\ UNCHANGED <<fmtext, message, text, next, style>>

(* owl_message_delete, of a message that is listed or of one that never    *)
(* was (punted, ignored).                                                  *)
Delete(m) ==
  /\ m \in live
  /\ live' = live \ {m}
  /\ listed' = listed \ {m}
  /\ LET c == InvalidateFormat({m}) IN
       /\ fmtext' = c.fmtext
       /\ message' = c.message
       /\ text' = c.text
  /\ UNCHANGED <<next, style>>

(* Whatever changes how messages look also calls                           *)
(* owl_messagelist_invalidate_formats: change_style, the main window's     *)
(* resize handler, the colorztext variable.                                *)
ChangeStyle(s) ==
  /\ style' = s
  /\ LET c == InvalidateFormat(listed) IN
       /\ fmtext' = c.fmtext
       /\ message' = c.message
       /\ text' = c.text
  /\ UNCHANGED <<live, listed, next>>

Next ==
  \/ \E m \in Msgs : Create(m) \/ AppendText(m) \/ Format(m) \/ Delete(m)
  \/ \E s \in Styles : ChangeStyle(s)

Spec == Init /\ [][Next]_vars

-----------------------------------------------------------------------------
(* The pointers agree: a slot's message is alive and points to that slot,  *)
(* a live message's slot points back.  Otherwise the next eviction or the  *)
(* next delete follows a pointer to a freed message or empties a slot that *)
(* belongs to another one.                                                 *)
BackPointers ==
  /\ \A s \in Slots : message[s] # NoMsg =>
       message[s] \in live /\ fmtext[message[s]] = s
  /\ \A m \in live : fmtext[m] # NoSlot => message[fmtext[m]] = m

(* Only listed messages hold slots, so that invalidating the formats of    *)
(* g.msglist reaches every text in the cache.                              *)
CachedAreListed == \A s \in Slots : message[s] # NoMsg => message[s] \in listed

(* What a message shows is its own text, made once, as formatting it again *)
(* now would make it: nothing of the slot's former message, of the former  *)
(* style or width, is left in it, and a free slot is empty.                *)
TextIsCurrent ==
  \A s \in Slots :
    text[s] = IF message[s] = NoMsg THEN {} ELSE {<<message[s], style>>}
=============================================================================
