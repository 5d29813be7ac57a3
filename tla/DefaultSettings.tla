---------------------------- MODULE DefaultSettings ----------------------------
(***************************************************************************)
(* What BarnOwl starts with: its settings with their defaults and the      *)
(* words they take (variable.c), the numbers that stand for those words    *)
(* (owl.h) and its filters (global.c).  Settings name filters, commands    *)
(* and styles, which are defined elsewhere, as do keys and code.           *)
(***************************************************************************)
EXTENDS Commands, FilterSyntax

(* A setting: what it takes, and its default.                              *)
Setting(kind, default) == [kind |-> kind, default |-> default, words |-> <<>>]
Choice(default, words) == [kind |-> "enum", default |-> default, words |-> words]

ForAllOf(names, row) == [n \in names |-> row]

(* A path that is not set is NoPath.                                       *)
NoPath == "not set"

BehaviourSettings ==
  ForAllOf({"bell", "startuplogin", "shutdownlogout", "txping", "smartstrip", "newlinestrip",
         "displayoutgoing", "loginsubs", "colorztext", "fancylines", "zcrypt"}, Setting("bool", TRUE))
  @@ ForAllOf({"debug", "rxping", "sepbar_disable", "logging", "classlogging", "pseudologins",
            "ignorelogins", "loglogins"}, Setting("bool", FALSE))
  @@ "personalbell" :> Setting("string", "off") @@ "logfilter" :> Setting("string", "")
  @@ "loggingdirection" :> Choice(0, <<"both", "in", "out">>)
  @@ "disable-ctrl-d" :> Choice(1, <<"off", "middle", "on">>)

NamingSettings ==
  "logpath" :> Setting("path", "~/zlog/people") @@ "classlogpath" :> Setting("path", "~/zlog/class")
  @@ "debug_file" :> Setting("path", "/var/tmp/barnowl-debug")
  @@ ForAllOf({"zsigproc", "newmsgproc"}, Setting("path", NoPath))
  @@ ForAllOf({"zsender", "zsig", "appendtosepbar", "tty"}, Setting("string", ""))
  @@ "zsigfunc" :> Setting("string", "BarnOwl::default_zephyr_signature()")
  @@ ForAllOf({"zaway", "aaway"}, Setting("bool", FALSE))
  @@ ForAllOf({"zaway_msg", "zaway_msg_default", "aaway_msg", "aaway_msg_default"},
           Setting("string", "I'm sorry"))
  @@ "view_home" :> Setting("string", "all") @@ "alert_filter" :> Setting("string", "none")
  @@ "alert_action" :> Setting("string", "nop") @@ "default_style" :> Setting("string", "default")

Exposures == <<"none", "opstaff", "realm-visible", "realm-announced", "net-visible", "net-announced">>

DisplaySettings ==
  ForAllOf({"edit:maxfillcols", "edit:maxwrapcols"}, Setting("int", 70))
  @@ "aim_ignorelogin_timer" :> Setting("int", 15)
  @@ "typewinsize" :> Setting("size", 8) @@ "typewindelta" :> Setting("int", 0)
  @@ "scrollmode" :> Choice(0, <<"normal", "top", "neartop", "center", "paged", "pagedcenter">>)
  @@ "narrow-related" :> Setting("bool", TRUE) @@ "_followlast" :> Setting("bool", FALSE)
  @@ ForAllOf({"default_exposure", "exposure"}, [Setting("string", "") EXCEPT !.words = Exposures])

DefaultSettings == BehaviourSettings @@ NamingSettings @@ DisplaySettings

(* OWL_SCROLLMODE_, OWL_LOGGING_DIRECTION_ and the words the code has for  *)
(* them where it acts on them; disable-ctrl-d has no names for its numbers.*)
ScrollModeNumbers ==
  "normal" :> 0 @@ "top" :> 1 @@ "neartop" :> 2 @@ "center" :> 3 @@ "paged" :> 4 @@ "pagedcenter" :> 5
LoggingNumbers == "both" :> 0 @@ "in" :> 1 @@ "out" :> 2
CtrlDNumbers ==
  <<"edit:done", "edit:done-or-delete", "edit:delete-next-char">>

-----------------------------------------------------------------------------
(* The filters that are there before any is made, in their order.          *)
DefaultFilters ==
  <<<<"personal", <<"isprivate", "^true$", "and", "(", "not", "type", "^zephyr$", "or",
                    "(", "class", "^message", ")", ")">>>>,
    <<"trash", <<"class", "^mail$", "or", "opcode", "^ping$", "or", "type", "^admin$", "or",
                 "(", "not", "login", "^none$", ")">>>>,
    <<"wordwrap", <<"not", "(", "type", "^admin$", "or", "type", "^zephyr$", ")">>>>,
    <<"ping", <<"opcode", "^ping$">>>>, <<"auto", <<"opcode", "^auto$">>>>,
    <<"login", <<"not", "login", "^none$">>>>, <<"reply-lockout", <<"class", "^mail$">>>>,
    <<"out", <<"direction", "^out$">>>>, <<"aim", <<"type", "^aim$">>>>,
    <<"zephyr", <<"type", "^zephyr$">>>>, <<"none", <<"false">>>>, <<"all", <<"true">>>>>>

DefaultFilterNames == {DefaultFilters[i][1] : i \in DOMAIN DefaultFilters}
DefaultFilterWords(name) == DefaultFilters[CHOOSE i \in DOMAIN DefaultFilters : DefaultFilters[i][1] = name][2]

(* regexec of the expressions above                                        *)
RegexMatches(re, value) ==
  IF re = "^message" THEN value \in {"message", "messages"} ELSE re = "^" \o value \o "$"

RECURSIVE Selects(_, _)
Selects(fe, m) ==
  CASE fe.op = "true"  -> TRUE
    [] fe.op = "false" -> FALSE
    [] fe.op = "re"    -> RegexMatches(fe.arg, m[fe.field])
    [] fe.op = "group" -> Selects(fe.left, m)
    [] fe.op = "not"   -> ~Selects(fe.left, m)
    [] fe.op = "and"   -> Selects(fe.left, m) /\ Selects(fe.right, m)
    [] fe.op = "or"    -> Selects(fe.left, m) \/ Selects(fe.right, m)

(* Messages that differ in what the filters look at.                       *)
SampleMessages ==
  [type : {"zephyr", "aim", "admin"}, class : {"message", "messages", "mail", "help"},
   opcode : {"", "ping"}, login : {"none", "login"}, isprivate : {"true", "false"},
   direction : {"in", "out"}]

(* What the code and its comments take the filters for: messages to the    *)
(* user alone, zephyrs only of the class message; what "T" throws away;    *)
(* what perlconfig.c wraps; what may not be replied to.                    *)
MeaningOf(name, m) ==
  CASE name = "personal" -> m.isprivate = "true" /\ (m.type = "zephyr" => m.class \in {"message", "messages"})
    [] name = "trash"    -> m.class = "mail" \/ m.opcode = "ping" \/ m.type = "admin" \/ m.login # "none"
    [] name = "wordwrap" -> m.type \notin {"admin", "zephyr"}
    [] name = "login"    -> m.login # "none"
    [] name = "reply-lockout" -> m.class = "mail"
    [] name = "none"     -> FALSE
    [] name = "all"      -> TRUE

(* The filters that code refers to by name, of which messages the program  *)
(* is silent when there is none.                                           *)
NamedInCode == {"personal", "trash", "wordwrap", "reply-lockout", "all"}

-----------------------------------------------------------------------------
(* A word that is set is the number that the code tests for, in whatever   *)
(* order the words are listed; the default is one of them, and C-d is      *)
(* bound as its default says.                                              *)
WordsMeanNumbers ==
  LET takes(name, number) ==
        LET words == DefaultSettings[name].words IN
        /\ DOMAIN number = ToSet(words)
        /\ \A i \in DOMAIN words : number[words[i]] = i - 1
  IN  /\ takes("scrollmode", ScrollModeNumbers) /\ takes("loggingdirection", LoggingNumbers)
      /\ \A n \in DOMAIN DefaultSettings :
           DefaultSettings[n].kind = "enum" => DefaultSettings[n].default + 1 \in DOMAIN DefaultSettings[n].words
      /\ FindBinding(DefaultKeymaps, "editmulti", <<"C-d">>).command
           = <<CtrlDNumbers[DefaultSettings["disable-ctrl-d"].default + 1]>>

(* The filters, commands and styles that are named by defaults, by keys,   *)
(* by aliases and by code are there.                                       *)
NamesAreThere ==
  /\ NamedInCode \subseteq DefaultFilterNames
  /\ {DefaultSettings[n].default : n \in {"view_home", "alert_filter"}} \subseteq DefaultFilterNames
  /\ DefaultSettings["personalbell"].default \in {"on", "off"} \cup DefaultFilterNames
  /\ ~Refused(RunAlone(<<DefaultSettings["alert_action"].default>>, "recv"))
  /\ \A map \in DOMAIN DefaultKeymaps : \A b \in ToSet(DefaultKeymaps[map].bindings) :
       Len(b.command) = 2 /\ b.command[1] = "view" /\ b.command[2] \notin {"-r", "--home"}
         => b.command[2] \in DefaultFilterNames
  /\ \A row \in CommandTable :
       row.kind = "alias" /\ Len(row.line) = 3 /\ row.line[2] = "--filter" => row.line[3] \in DefaultFilterNames

(* The default filters are filters, and select what they are meant to.     *)
FiltersMeanIt ==
  \A name \in DefaultFilterNames :
    LET fe == ParseFilter(DefaultFilterWords(name)) IN
    /\ fe # NoElement
    /\ name \in NamedInCode \cup {"login", "none"} =>
         \A m \in SampleMessages : Selects(fe, m) <=> MeaningOf(name, m)
=============================================================================
