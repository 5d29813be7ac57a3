----------------------------- MODULE Variables -----------------------------
(***************************************************************************)
(* The settings (variable.c, and those Perl code adds, BarnOwl.pm): how    *)
(* the text of a "set" is read and a value is printed, and what a setting  *)
(* does besides being stored: it is copied to where it is consulted, the   *)
(* windows are laid out again, C-d is bound anew, the AIM or the zephyr    *)
(* server is told.  A setting is refused by its text, by its range or by   *)
(* the server.  The AIM session stays up.                                  *)
(***************************************************************************)
EXTENDS Integers, Sequences, SequencesExt

CONSTANTS ScreenLines,   \* the lines of the terminal
          MaxTypwin,     \* bound: the largest typing window that is opened, below 10
          MaxSettings    \* bound: the settings made

ASSUME SettingsAssumption ==
  /\ ScreenLines \in Nat /\ ScreenLines > 2
  /\ MaxTypwin \in 0 .. 9 /\ MaxSettings \in Nat

VARIABLE settings

NoText == "no text"
CtrlDSettings == <<"off", "middle", "on">>
Levels == <<"none", "opstaff", "realm-visible">>

KindOf ==
  [debug |-> "bool", aaway |-> "bool", typewinsize |-> "size", typewindelta |-> "int",
   ctrl_d |-> "enum", default_exposure |-> "level", exposure |-> "level", logfilter |-> "string",
   perl_int |-> "perl-int", perl_bool |-> "bool", perl_enum |-> "perl-enum"]
Names == DOMAIN KindOf
TakesOnOff(n) == KindOf[n] = "bool"

(* What strtol makes of a text and what is left of it in an int; the words *)
(* that are no number, or not only one, are not here.                      *)
SettingWords == {"", "-1", "0", "4", " 4", "7x", "4294967297", "on", "off", "middle", "opstaff",
          "OPSTAFF", "word"}
Numerals == <<"-1", "0", "1", "2", "3", "4", "5", "6", "7", "8", "9">>
ReadInt(w) ==
  IF w = " 4" THEN {4} ELSE IF w = "4294967297" THEN {1}
  ELSE {i \in -1 .. 9 : Numerals[i + 2] = w}

(* ZParseExposureLevel, which knows its levels in any case. *)
LevelOf(w) == IF w = "OPSTAFF" THEN {"opstaff"} ELSE {w} \cap ToSet(Levels)
IndexOf(valid, w) == {i - 1 : i \in {j \in DOMAIN valid : valid[j] = w}}

BoolFromString(w) == IF w = "on" THEN {TRUE} ELSE IF w = "off" THEN {FALSE} ELSE {}
EnumFromString(w) == IndexOf(CtrlDSettings, w)
IntFromString(w)  == ReadInt(w)
GreaterThan0(i)   == ~ i < 1

(* The value a text stands for, or nothing: what set_fromstring passes on. *)
FromString(kind, w) ==
  CASE kind = "bool"      -> BoolFromString(w)
    [] kind = "int"       -> IntFromString(w)
    [] kind = "size"      -> {i \in IntFromString(w) : GreaterThan0(i)}
    [] kind = "enum"      -> EnumFromString(w)
    [] kind = "level"     -> LevelOf(w)
    [] kind = "perl-int"  -> IF w = " 4" THEN {} ELSE ReadInt(w)
    [] kind = "perl-enum" -> {w} \cap ToSet(CtrlDSettings)
    [] OTHER              -> {w}

PrintValue(kind, v) ==
  CASE kind = "bool" -> IF v THEN "on" ELSE "off"
    [] kind \in {"int", "size", "perl-int"} -> Numerals[v + 2]
    [] kind = "enum" -> CtrlDSettings[v + 1]
    [] OTHER -> v

-----------------------------------------------------------------------------
(* val: the values; cached: g.debug; told: the away text the AIM server    *)
(* has; bound: what C-d runs in the editor; saved: the exposure in the     *)
(* user's file; location: the one the zephyr server has; rec, typ: lines   *)
(* of the two large windows; open: a multi-line text is being typed; left: *)
(* the settings that may still be made.                                    *)

(* owl_mainpanel_layout_contents *)
LayoutContents(s) ==
  LET rec == ScreenLines - (s.val.typewinsize + 2) IN
  IF rec < 0 THEN [s EXCEPT !.rec = 0, !.typ = ScreenLines - 2]
  ELSE [s EXCEPT !.rec = rec, !.typ = s.val.typewinsize]

Stored(s, n, v) == [s EXCEPT !.val[n] = v]

DebugSet(s, v)       == Stored([s EXCEPT !.cached = v], "debug", v)
AawaySet(s, v)       == Stored([s EXCEPT !.told = IF v THEN "away" ELSE ""], "aaway", v)
TypewinsizeSet(s, v) == LayoutContents(Stored(s, "typewinsize", v))
CtrlDCommands        == <<"edit:done", "edit:done-or-delete", "edit:delete-next-char">>
DisableCtrlDSet(s, v) == Stored([s EXCEPT !.bound = CtrlDCommands[v + 1]], "ctrl_d", v)
DefaultExposureSet(s, v) == [s EXCEPT !.saved = v]
ExposureSetFirst(s, w, ok) ==
  LET level == LevelOf(w) IN
  {Stored(IF ok THEN [s EXCEPT !.location = v] ELSE s, "exposure", v) : v \in level}
ExposureSet(s, w, ok) ==
  {Stored([s EXCEPT !.location = v], "exposure", v) : v \in IF ok THEN LevelOf(w) ELSE {}}

(* The function a setting is set by, which Stored is unless it has one.    *)
SetValue(s, n, v) ==
  CASE n = "debug"       -> DebugSet(s, v)
    [] n = "aaway"       -> AawaySet(s, v)
    [] n = "typewinsize" -> TypewinsizeSet(s, v)
    [] n = "ctrl_d"      -> DisableCtrlDSet(s, v)
    [] n = "default_exposure" -> DefaultExposureSet(s, v)
    [] OTHER             -> Stored(s, n, v)

(* owl_variable_set_fromstring: the settings after, or nothing when it is  *)
(* refused; ok is whether the file or the zephyr server takes it.          *)
SetFromString(s, n, w, ok) ==
  IF n = "exposure" THEN ExposureSet(s, w, ok)
  ELSE {SetValue(s, n, v) : v \in {v \in FromString(KindOf[n], w) : n = "default_exposure" => ok}}

GetToString(s, n) ==
  IF n = "default_exposure" THEN s.saved
  ELSE IF n = "exposure" /\ s.val.exposure = NoText THEN NoText
  ELSE PrintValue(KindOf[n], s.val[n])

(* The command: without a value it is on, for those that take on and off.  *)
SetCommand(s, n, args, ok) ==
  IF args = <<>>
    THEN IF TakesOnOff(n) THEN SetFromString(s, n, "on", ok) ELSE {}
    ELSE SetFromString(s, n, args[1], ok)
UnsetCommand(s, n) == IF TakesOnOff(n) THEN SetFromString(s, n, "off", TRUE) ELSE {}

(* owl_function_resize_typwin sets typewinsize, which may refuse, and lays *)
(* out the windows whether it did or not.                                  *)
ResizeTypwin(s, lines) ==
  LayoutContents(IF GreaterThan0(lines) THEN TypewinsizeSet(s, lines) ELSE s)
SetTypwinActive(s) ==
  [IF s.val.typewindelta > 0 THEN ResizeTypwin(s, s.val.typewinsize + s.val.typewindelta) ELSE s
     EXCEPT !.open = TRUE]
SetTypwinInactive(s) ==
  [IF s.val.typewindelta > 0 THEN ResizeTypwin(s, s.val.typewinsize - s.val.typewindelta) ELSE s
     EXCEPT !.open = FALSE]

-----------------------------------------------------------------------------
SettingsInit ==
  settings =
    LayoutContents(
      [val |-> [debug |-> FALSE, aaway |-> FALSE, typewinsize |-> 1, typewindelta |-> 0,
                ctrl_d |-> 1, default_exposure |-> NoText, exposure |-> NoText, logfilter |-> "",
                perl_int |-> 0, perl_bool |-> FALSE, perl_enum |-> "off"],
       cached |-> FALSE, told |-> "", bound |-> "edit:done-or-delete", saved |-> "realm-visible",
       location |-> NoText, rec |-> 0, typ |-> 0, open |-> FALSE, left |-> MaxSettings])

OneLess == [settings EXCEPT !.left = @ - 1]

Set ==
  /\ settings.left > 0
  /\ \E n \in Names, args \in {<<>>} \cup {<<w>> : w \in SettingWords}, ok \in BOOLEAN :
       settings' \in SetCommand(OneLess, n, args, ok)

Unset == settings.left > 0 /\ \E n \in Names : settings' \in UnsetCommand(OneLess, n)

OpenTyping ==
  /\ ~settings.open /\ settings.val.typewinsize + settings.val.typewindelta <= MaxTypwin
  /\ settings' = SetTypwinActive(settings)

CloseTyping == settings.open /\ settings' = SetTypwinInactive(settings)

(* "zlog in" takes the default as the current exposure; "zlog out" leaves  *)
(* the variable alone.                                                     *)
ZlogIn ==
  \E ok \in BOOLEAN : settings' \in ExposureSet(settings, GetToString(settings, "default_exposure"), ok)
ZlogOut == settings' = [settings EXCEPT !.location = NoText]

SettingsNext == Set \/ Unset \/ OpenTyping \/ CloseTyping \/ ZlogIn \/ ZlogOut

-----------------------------------------------------------------------------
(* A setting is where it is used what it is in print: debugging, the away  *)
(* text, the key that sends, the layout and the exposure follow it.        *)
CopiesFollow ==
  /\ settings.cached = settings.val.debug
  /\ settings.told # "" <=> settings.val.aaway
  /\ settings.bound = CtrlDCommands[settings.val.ctrl_d + 1]
  /\ settings.rec + settings.typ + 2 = ScreenLines
  /\ settings.rec > 0 => settings.typ = settings.val.typewinsize
  /\ settings.location # NoText => settings.location = settings.val.exposure

(* What "print" shows of a setting can be set and is the same setting;     *)
(* this is what lets a value be saved in a startup file.                   *)
PrintedIsReadBack ==
  \A n \in Names :
    GetToString(settings, n) # NoText /\ (n = "exposure" => settings.location # NoText) =>
      SetFromString(settings, n, GetToString(settings, n), TRUE) = {settings}

(* A text typed after an empty one leaves the windows as they were.        *)
TypingIsUndone ==
  ~settings.open => SetTypwinInactive(SetTypwinActive(settings)) = settings

(* What the user has set holds wherever it is consulted, is printed as it  *)
(* can be set again, and is not changed by opening the typing window.      *)
SettingsKeepTheirWord == CopiesFollow /\ PrintedIsReadBack /\ TypingIsUndone
=============================================================================
