------------------------------ MODULE Commands ------------------------------
(***************************************************************************)
(* What a command line does: the table of built-in commands with their     *)
(* usages and the functions that read their arguments (commands.c), and    *)
(* the dispatch with its aliases and context checks (cmd.c).  A line is a  *)
(* sequence of words, a quoted one counting as one; what it comes to is    *)
(* the sequence of functions called, with what they are given, a complaint *)
(* to the user being one of them.                                          *)
(***************************************************************************)
EXTENDS Keymaps, FilterSyntax, FiniteSetsExt

Booleans == {"variable"}            \* the variables that take on and off
DefinedFilters == {"filter", "word"}      \* the filters that there are
Colors   == {"red", "blue"}
Numbers  == {"7", "10", "1", "0", "-1", "-10"}
MaxAliasDepth == 50
KeymapNames == DOMAIN DefaultKeymaps

Do(function, given) == <<[call |-> function, given |-> given]>>
Complain == Do("complaint", <<>>)
Nothing  == <<>>
Refused(outcome) == \E i \in DOMAIN outcome : outcome[i].call = "complaint"

-----------------------------------------------------------------------------
(* Usages: what comes first, then options in any order, then the rest.     *)

Usage(first, options, rest) == [first |-> first, options |-> options, rest |-> rest]
Plain(rest) == {Usage({<<>>}, {}, rest)}
With(options, rest) == {Usage({<<>>}, options, rest)}
Bare == {<<>>}
One(word) == {<<word>>}
Maybe(set) == set \cup Bare

(* A row of the table; OWLCMD_ALIAS, _VOID, _ARGS, _INT and their _CTX     *)
(* forms, the only ones whose context cmd.c looks at.                      *)
Alias(name, line)     == [name |-> name, kind |-> "alias", context |-> "any",
                          line |-> line, usages |-> {}]
Row(kind, context, name, usages) ==
  [name |-> name, kind |-> kind, context |-> context, line |-> <<>>, usages |-> usages]
Args(name, usages)    == Row("args", "any", name, usages)
Void(name)            == Row("void", "any", name, Plain(Bare))
Number(name)          == Row("int", "any", name, Plain(One("7")))
ZephyrOptions         == {<<"-n">>, <<"-C">>, <<"-c", "class">>, <<"-i", "inst">>,
                          <<"-r", "realm">>, <<"-O", "op">>}

SessionRows ==
  {Args("zlog", Plain({<<"in">>, <<"in", "tty">>, <<"out">>})),
   Void("quit"), Alias("exit", <<"quit">>), Alias("q", <<"quit">>),
   Args("term", Plain({<<"raise">>, <<"deiconify">>})), Void("nop"),
   Args("start-command", Plain(Maybe(One("word")))),
   Args("alias", Plain({<<"word", "nop">>})),
   Args("bindkey", Plain({<<"recv", "X", "command", "nop">>})),
   Args("unbindkey", Plain({<<"recv", "X">>}))}

WriteRows ==
  {Args("zwrite", With(ZephyrOptions, {<<>>, <<"user">>, <<"-m", "word">>, <<"user", "-m", "word">>})),
   Args("zcrypt", With(ZephyrOptions, {<<>>, <<"-m", "word">>})),
   Args("aimwrite", Plain({<<"user">>, <<"user", "-m", "word">>})),
   Args("loopwrite", Plain(Bare)),
   Args("reply", With({<<"-e">>}, Maybe({<<"sender">>, <<"all">>, <<"zaway">>}))),
   Args("set", With({<<"-q">>}, {<<"variable">>, <<"variable", "on">>}) \cup Plain(Bare)),
   Args("unset", With({<<"-q">>}, One("variable")) \cup Plain(Bare)),
   Args("print", Plain(Maybe(One("variable")))),
   Args("startup", Plain({<<"nop">>})), Args("unstartup", Plain({<<"nop">>})), Void("version")}

SubscriptionRows ==
  {Args(c, With({<<"-t">>}, {<<"class">>, <<"class", "inst">>, <<"class", "inst", "user">>})) :
      c \in {"subscribe", "unsubscribe"}}
    \cup
  {Alias("sub", <<"subscribe">>), Alias("unsub", <<"unsubscribe">>), Void("unsuball"), Void("getsubs"),
   Args("dump", Plain(One("file"))), Args("source", Plain(One("file"))),
   Args("aim", Plain({<<"search", "mail">>}))}
    \cup
  {Args(c, Plain({<<"aim", "user">>, <<"zephyr", "user">>})) : c \in {"addbuddy", "delbuddy"}}
    \cup
  {Args("join", Plain({<<"aim", "group">>, <<"aim", "group", "7">>})),
   Args("smartzpunt", Plain(Maybe({<<"-i">>, <<"--instance">>})))}
    \cup
  {Args(c, Plain({<<"inst">>, <<"class", "inst">>, <<"class", "inst", "user">>})) : c \in {"zpunt", "zunpunt"}}
    \cup
  {Args("punt", Plain({<<"filter">>, <<"class", "word">>})),
   Args("unpunt", Plain({<<"7">>, <<"filter">>, <<"class", "word">>})), Void("info")}

Similar == {<<"--smart-filter">>, <<"--smart-filter-instance">>}

MovingRows ==
  {Args("help", Plain(Maybe(One("nop")))), Args("zlist", With({<<"-f", "file">>}, Bare))}
    \cup
  {Void(c) : c \in {"alist", "blist", "toggle-oneline", "recv:pagedown", "recv:pageup", "recv:mark",
                    "recv:swapmark", "first", "last", "expunge", "resize", "redisplay", "suspend"}}
    \cup
  {Args("recv:getshift", Plain(Bare)), Number("recv:setshift"), Number("recv:scroll"),
   Args("next", {Usage(Bare, {<<"--filter", "filter">>, <<"--skip-deleted">>, <<"--last-if-none">>}, s) :
                   s \in {Bare} \cup {{o} : o \in Similar}}),
   Args("prev", {Usage(Bare, {<<"--filter", "filter">>, <<"--skip-deleted">>, <<"--first-if-none">>}, s) :
                   s \in {Bare} \cup {{o} : o \in Similar}}),
   Alias("recv:next", <<"next">>), Alias("recv:prev", <<"prev">>),
   Alias("recv:next-notdel", <<"recv:next", "--skip-deleted", "--last-if-none">>),
   Alias("next-notdel", <<"recv:next", "--skip-deleted", "--last-if-none">>),
   Alias("recv:prev-notdel", <<"recv:prev", "--skip-deleted", "--first-if-none">>),
   Alias("prev-notdel", <<"recv:prev", "--skip-deleted", "--first-if-none">>),
   Alias("recv:next-personal", <<"recv:next", "--filter", "personal">>),
   Alias("recv:prev-personal", <<"recv:prev", "--filter", "personal">>),
   Alias("recv:first", <<"first">>), Alias("recv:last", <<"last">>),
   Args("echo", Plain(Maybe(One("word"))))}

AwayRows ==
  {Args(c, Plain({<<"word">>})) : c \in {"exec", "aexec", "pexec", "perl", "aperl", "pperl"}}
    \cup
  {Args("multi", Plain({<<"nop">>, <<"nop", ";", "version">>})),
   Args("(", Plain({<<"nop", ")">>, <<"nop", ";", "version", ")">>})), Void("pop-message")}
    \cup
  {Args(c, Plain({<<"on">>, <<"off">>, <<"toggle">>, <<"word">>})) : c \in {"zaway", "aaway", "away"}}
    \cup
  {Args(c, Plain(One("file"))) : c \in {"load-subs", "loadsubs", "loadloginsubs"}}
    \cup
  {Void("about"), Void("status"), Args("zlocate", With({<<"-d">>}, {<<"user">>, <<"user", "user">>}))}

ViewRows ==
  {Args("filter", {Usage(One("word"), {<<"-c", "red">>, <<"-b", "blue">>}, {<<>>, <<"class", "word">>})}),
   Args("colorview", Plain({<<"red">>, <<"red", "blue">>})),
   Args("colorclass", Plain({<<"class", "red">>, <<"class", "red", "blue">>})),
   Args("view", {Usage(Maybe(One("main")), {f, <<"-s", "style">>}, Bare) :
                   f \in {<<"-f", "filter">>, <<"--home">>, <<"-r">>}}
                \cup Plain({<<"filter">>, <<"-d", "class", "word">>, <<"--home">>})),
   Args("smartnarrow", With({<<o>> : o \in {"-i", "--instance", "-r", "--related"}}, Bare)),
   Args("smartfilter", Plain(Maybe({<<"-i">>, <<"--instance">>}))),
   Args("viewclass", Plain(One("class"))), Alias("vc", <<"viewclass">>),
   Args("viewuser", Plain(One("user")))}
    \cup {Alias(a, <<"viewuser">>) : a \in {"vu", "viewperson", "vp"}}

ShowTopics == {"colors", "commands", "errors", "filters", "keymaps", "license", "quickstart",
               "startup", "status", "styles", "subscriptions", "subs", "terminal", "variables",
               "version", "view", "zpunts"}

MessageRows ==
  {Args("show", Plain({<<t>> : t \in ShowTopics} \cup
                      {<<t, "word">> : t \in {"command", "filter", "keymap", "variable", "view"}})),
   Args("delete", With({<<"-id", "7">>, <<"--no-move">>}, Bare) \cup Plain({<<"view">>, <<"trash">>})),
   Args("undelete", With({<<"-id", "7">>, <<"--no-move">>}, Bare) \cup Plain({<<"view">>})),
   Args("delete-and-expunge",
        UNION {With({<<"-id", "7">>, q}, Bare) : q \in {<<"-q">>, <<"--quiet">>}}),
   Alias("del", <<"delete">>), Alias("delx", <<"delete-and-expunge">>), Alias("undel", <<"undelete">>),
   Void("beep"), Args("with-history", Plain(One("nop"))), Args("debug", Plain(One("word")))}
    \cup {Args(c, Plain(Bare)) : c \in {"getview", "getstyle", "aimlogout"}}
    \cup {Args(c, Plain(One("word"))) : c \in {"getvar", "getfilter", "error", "message",
                                               "add-cmd-history"}}
    \cup
  {Args("search", With({<<"-r">>}, Maybe(One("word")))), Args("setsearch", Plain(Maybe(One("word")))),
   Args("aimlogin", Plain({<<"user">>, <<"user", "word">>})), Void("yes"), Void("no")}

EditRows ==
  {Row("void", "edit", "edit:" \o c, Plain(Bare)) :
      c \in {"move-next-word", "move-prev-word", "move-to-buffer-start", "move-to-buffer-end",
             "move-to-line-end", "move-to-line-start", "move-left", "move-right",
             "delete-next-word", "delete-prev-word", "delete-prev-char", "delete-next-char",
             "delete-to-line-end", "delete-all", "transpose-chars", "fill-paragraph", "recenter",
             "cancel", "history-next", "history-prev", "set-mark", "exchange-point-and-mark",
             "copy-region-as-kill", "kill-region", "yank", "done"}}
    \cup
  {Row("void", "editmulti", "edit:" \o c, Plain(Bare)) :
      c \in {"move-up-line", "move-down-line", "done-or-delete", "forward-paragraph", "backward-paragraph"}}
    \cup
  {Row("args", "edit", "edit:insert-text", Plain(One("word"))),
   Alias("editline:done", <<"edit:done">>), Alias("editresponse:done", <<"edit:done">>)}

PoplessRows ==
  {Row("void", "popless", "popless:" \o c, Plain(Bare)) :
      c \in {"scroll-down-page", "scroll-down-line", "scroll-up-page", "scroll-up-line",
             "scroll-to-top", "scroll-to-bottom", "quit"}}
    \cup
  {Row("int", "popless", "popless:" \o c, Plain(One("7"))) : c \in {"scroll-right", "scroll-left"}}
    \cup
  {Row("args", "popless", "popless:start-command", Plain(Maybe(One("word")))),
   Row("args", "popless", "popless:search", With({<<"-r">>}, Maybe(One("word")))),
   Row("args", "popless", "popless:start-search", With({<<"-r">>}, Maybe(One("word")))),
   Alias("webzephyr", <<"zwrite", "daemon.webzephyr", "-c", "webzephyr", "-i">>)}

(* Commands the Perl modules add, as far as the default keys use them.     *)
PerlRows == {Row("perl", "any", c, Plain(Bare)) : c \in {"recv:shiftleft", "recv:shiftright"}}

CommandTable ==
  SessionRows \cup WriteRows \cup SubscriptionRows \cup MovingRows \cup AwayRows \cup ViewRows
    \cup MessageRows \cup EditRows \cup PoplessRows \cup PerlRows

CommandNames == {row.name : row \in CommandTable}

-----------------------------------------------------------------------------
(* The functions of commands.c: a is what follows the command's name, env  *)
(* says which networks are there and whether debugging is on.              *)

Arity(a, from, to, outcome) == IF Len(a) \in from .. to THEN outcome ELSE Complain

(* A mutant: the tty is set before the arguments are counted.              *)
ZlogTtyFirst(a) ==
  (IF Len(a) = 2 THEN Do("set_tty", Tail(a)) ELSE Nothing)
    \o IF a = <<"in">> \/ (Len(a) = 2 /\ a[1] = "in") THEN Do("zlog_in", <<>>)
       ELSE IF a = <<"out">> THEN Do("zlog_out", <<>>) ELSE Complain

Zlog(a) ==
  IF Len(a) \notin 1 .. 2 THEN Complain
  ELSE CASE a[1] = "in"  -> (IF Len(a) = 2 THEN Do("set_tty", Tail(a)) ELSE Nothing) \o Do("zlog_in", <<>>)
         [] a[1] = "out" -> Arity(a, 1, 1, Do("zlog_out", <<>>))
         [] OTHER        -> Complain

Subcommand(a, known) ==
  IF a = <<>> \/ a[1] \notin known THEN Complain ELSE Do(a[1], Tail(a))

Bindkey(a) ==
  IF Len(a) < 4 \/ a[3] # "command" \/ a[1] \notin KeymapNames THEN Complain
  ELSE Do("create_binding", a)

Unbindkey(a) ==
  IF Len(a) < 2 \/ a[1] \notin KeymapNames THEN Complain ELSE Do("remove_binding", a)

(* owl_zwrite_create.                                                      *)
NoZwrite == [c |-> "", i |-> "", r |-> "", O |-> "", s |-> "", C |-> FALSE, n |-> FALSE,
             recips |-> <<>>, message |-> <<>>, bad |-> FALSE]

RECURSIVE ReadZwrite(_, _)
ReadZwrite(z, a) ==
  IF a = <<>> THEN z
  ELSE LET rest == IF Len(a) < 2 THEN <<>> ELSE Tail(Tail(a))
           bad  == [z EXCEPT !.bad = TRUE]
       IN  CASE a[1] \in {"-c", "-i", "-r", "-O", "-s"} /\ Len(a) < 2 -> bad
             [] a[1] = "-c" -> ReadZwrite([z EXCEPT !.c = a[2]], rest)
             [] a[1] = "-i" -> ReadZwrite([z EXCEPT !.i = a[2]], rest)
             [] a[1] = "-r" -> ReadZwrite([z EXCEPT !.r = a[2]], rest)
             [] a[1] = "-O" -> ReadZwrite([z EXCEPT !.O = a[2]], rest)
             [] a[1] = "-s" -> ReadZwrite([z EXCEPT !.s = a[2]], rest)
             [] a[1] = "-C" -> ReadZwrite([z EXCEPT !.C = TRUE], Tail(a))
             [] a[1] = "-n" -> ReadZwrite([z EXCEPT !.n = TRUE], Tail(a))
             [] a[1] = "-m" -> IF Len(a) < 2 \/ (z.recips = <<>> /\ z.c = "" /\ z.i = "") THEN bad
                               ELSE [z EXCEPT !.message = Tail(a)]
             [] OTHER       -> ReadZwrite([z EXCEPT !.recips = Append(@, a[1])], Tail(a))

Zwrite(a, env) ==
  LET z == ReadZwrite(NoZwrite, a)
  IN  IF ~env.zephyr \/ z.bad \/ (z.recips = <<>> /\ z.c = "" /\ z.i = "") THEN Complain
      ELSE Do(IF z.message # <<>> THEN "zwrite" ELSE "zwrite_setup", z)

(* Everything before -m is one screen name.                                *)
Aimwrite(a, env) ==
  LET m == {j \in DOMAIN a : a[j] = "-m"}
      users == IF m = {} THEN a ELSE SubSeq(a, 1, Min(m) - 1)
  IN  IF ~env.aim \/ (m # {} /\ Min(m) = Len(a)) \/ users = <<>> THEN Complain
      ELSE IF m = {} THEN Do("aimwrite_setup", users)
      ELSE Do("aimwrite", <<users, SubSeq(a, Min(m) + 1, Len(a))>>)

Reply(a) ==
  LET edit == a # <<>> /\ a[1] = "-e"
      rest == IF edit THEN Tail(a) ELSE a
  IN  CASE rest \in {<<>>, <<"all">>} -> Do("reply", <<"all", edit>>)
        [] rest = <<"sender">>        -> Do("reply", <<"sender", edit>>)
        [] rest = <<"zaway">>         -> Do("zaway", <<>>)
        [] OTHER                      -> Complain

(* An unknown variable is complained about unless -q is given.             *)
SetVariable(a, value) ==
  LET silent == a # <<>> /\ a[1] = "-q"
      rest   == IF silent THEN Tail(a) ELSE a
  IN  CASE Len(rest) = 1 -> IF rest[1] \in Booleans THEN Do("set_fromstring", <<rest[1], value, silent>>)
                            ELSE IF silent THEN Nothing ELSE Complain
        [] Len(rest) = 2 /\ value = "on" ->
              IF rest[1] \in Booleans THEN Do("set_fromstring", rest \o <<silent>>)
              ELSE IF silent THEN Nothing ELSE Complain
        [] OTHER -> Complain

Subscription(a, function) ==
  LET temp == a # <<>> /\ a[1] = "-t"
      rest == IF temp THEN Tail(a) ELSE a
      triplet == <<rest[1], IF Len(rest) = 1 THEN "*" ELSE rest[2], IF Len(rest) < 3 THEN "" ELSE rest[3]>>
  IN  IF Len(rest) \notin 1 .. 3 THEN Complain
      ELSE Do(function, triplet) \o IF temp THEN Nothing ELSE Do("file " \o function, triplet)

Buddy(a, env, function) ==
  IF Len(a) # 2 \/ a[1] \notin {"aim", "zephyr"} \/ (a[1] = "aim" /\ ~env.aim) THEN Complain
  ELSE Do(function, a)

Join(a, env) ==
  IF Len(a) \notin 2 .. 3 \/ a[1] # "aim" \/ ~env.aim THEN Complain
  ELSE Do("chat_join", <<a[2], IF Len(a) = 2 THEN "4" ELSE a[3]>>)

Instanced(a, function) ==
  CASE a = <<>> -> Do(function, <<"class">>)
    [] a \in {<<"-i">>, <<"--instance">>} -> Do(function, <<"instance">>)
    [] OTHER -> Complain

Zpunt(a, function) ==
  CASE a = <<>>   -> Do("show_zpunts", <<>>)
    [] Len(a) = 1 -> Do(function, <<"message", a[1], "*">>)
    [] Len(a) = 2 -> Do(function, a \o <<"*">>)
    [] Len(a) = 3 -> Do(function, a)
    [] OTHER      -> Complain

(* A number that no punt has is complained of and then taken for a name.   *)
PuntUnpunt(a, env, unpunt) ==
  CASE a = <<>> -> Do("show_zpunts", <<>>)
    [] Len(a) = 1 /\ unpunt /\ a[1] \in Numbers ->
          IF env.punts THEN Do("remove_punt", a) ELSE Complain \o Do("unpunt", <<"filter">> \o a)
    [] OTHER -> Do(IF unpunt THEN "unpunt" ELSE "punt", IF Len(a) = 1 THEN <<"filter">> \o a ELSE a)

(* owl_command_next and _prev.  A smart filter takes the word after it     *)
(* along, and a filter that is not named counts as none.                   *)
RECURSIVE Move(_, _, _, _)
Move(a, last, function, heard) ==
  IF a = <<>> THEN Do(function, heard)
  ELSE LET rest2 == IF Len(a) < 2 THEN <<>> ELSE Tail(Tail(a))
       IN  CASE a[1] = "--skip-deleted" -> Move(Tail(a), last, function, [heard EXCEPT !.skip = TRUE])
             [] a[1] = last -> Move(Tail(a), last, function, [heard EXCEPT !.end = TRUE])
             [] a[1] = "--filter" ->
                  Move(rest2, last, function, [heard EXCEPT !.filter = IF Len(a) < 2 THEN "" ELSE a[2]])
             [] a[1] \in {"--smart-filter", "--smart-filter-instance"} ->
                  Do("smartfilter", <<a[1]>>)
                    \o Move(rest2, last, function, [heard EXCEPT !.filter = a[1]])
             [] OTHER -> Complain

(* getopt_long takes options of one letter together and passes words by.   *)
Smartnarrow(a) ==
  LET options == {j \in DOMAIN a : a[j] \in {"-i", "-r", "-ri", "--instance", "--related", "-x"}}
      given(words) == \E j \in options : a[j] \in words
  IN  IF given({"-x"}) THEN Complain
      ELSE Do("smartnarrow", <<given({"-i", "-ri", "--instance"}), given({"-r", "-ri", "--related"})>>)

(* owl_command_view, of the general form.                                  *)
RECURSIVE SetView(_)
SetView(a) ==
  CASE a = <<>> -> Nothing
    [] a # <<>> /\ a[1] \in {"-f", "-s"} /\ Len(a) > 1 ->
         Do("view" \o a[1], <<a[2]>>) \o SetView(Tail(Tail(a)))
    [] a # <<>> /\ a[1] = "--home" -> Do("view-f", <<"home">>) \o SetView(Tail(a))
    [] OTHER -> Complain

View(a) ==
  CASE a = <<"--home">> -> Do("view-f", <<"home">>)
    [] a = <<"-r">>     -> Do("view-r", <<>>)
    [] Len(a) = 1       -> Do("view-f", a)
    [] Len(a) > 1 /\ a[1] = "-d" -> Do("view-d", Tail(a))
    [] Len(a) > 1 /\ a[1] # "-d" -> SetView(IF a[1] = "main" THEN Tail(a) ELSE a)
    [] OTHER -> Complain

(* owl_filter_new: the colors come first, and one that is not there is     *)
(* complained of and passed over.                                          *)
RECURSIVE NewFilter(_, _)
NewFilter(colors, a) ==
  CASE Len(a) >= 2 /\ a[1] \in {"-c", "-b"} ->
         IF a[2] \in Colors THEN NewFilter([colors EXCEPT ![a[1]] = a[2]], Tail(Tail(a)))
         ELSE Complain \o NewFilter(colors, Tail(Tail(a)))
    [] OTHER -> IF ParseFilter(a) = NoElement THEN Complain ELSE Do("add_filter", <<colors, a>>)

(* owl_function_create_filter: a color and nothing else is given to the    *)
(* filter of that name.                                                    *)
Filter(a) ==
  IF a = <<>> \/ (a # <<>> /\ a[1] = "all") THEN Complain
  ELSE IF Len(a) = 3 /\ a[2] \in {"-c", "-b"}
  THEN IF a[1] \in DefinedFilters /\ a[3] \in Colors THEN Do("set color", a) ELSE Complain
  ELSE NewFilter([o \in {"-c", "-b"} |-> ""], Tail(a))

(* A singular topic without a name and a plural with one do as well.       *)
ShowCommand(a) ==
  LET named == {"filter", "filters", "command", "commands", "variable", "variables", "keymap",
                "keymaps", "view"}
      alone == (ShowTopics \cup {"zpunted", "term"}) \ (named \cup {"zpunts", "zpunted"})
  IN  CASE a = <<>> -> Do("help_for_command", <<"show">>)
        [] a # <<>> /\ a[1] \in named -> Do("show", a)
        [] a # <<>> /\ a[1] \in alone -> Do("show", <<a[1]>>)
        [] a \in {<<"zpunts">>, <<"zpunted">>} -> Do("show_zpunts", <<>>)
        [] OTHER -> Complain

(* owl_command_delete and _undelete: --no-move is heard in front only.     *)
DeleteCommand(a, function, sets) ==
  LET stay == a # <<>> /\ a[1] = "--no-move"
      rest == IF stay THEN Tail(a) ELSE a
  IN  CASE rest = <<>> -> Do(function, <<"current", stay>>)
        [] Len(rest) = 1 /\ rest[1] \in sets -> Do(function, rest)
        [] Len(rest) = 2 /\ rest[1] \in {"-id", "--id"} -> Do(function, rest)
        [] OTHER -> Complain

DeleteAndExpunge(a) ==
  LET q == {"-q", "--quiet"}
      front == a # <<>> /\ a[1] \in q
      back  == a # <<>> /\ Last(a) \in q
      rest  == IF front THEN Tail(a) ELSE IF back THEN Front(a) ELSE a
  IN  IF rest = <<>> \/ (Len(rest) = 2 /\ rest[1] \in {"-id", "--id"})
      THEN Do("delete_and_expunge", <<rest, front \/ back>>) ELSE Complain

Search(a, function) ==
  LET up   == a # <<>> /\ a[1] = "-r"
      rest == IF up THEN Tail(a) ELSE a
  IN  (IF rest = <<>> THEN Nothing ELSE Do("set_search", rest)) \o Do(function, <<up>>)

Away(a, function) ==
  IF a \in {<<"off">>, <<"toggle">>} THEN Do(function, a)
  ELSE Do("set_message", IF a = <<"on">> THEN <<>> ELSE a) \o Do(function, <<"on">>)

Zlocate(a) ==
  IF a = <<>> \/ a = <<"-d">> THEN Complain
  ELSE Do("zlocate", IF a[1] = "-d" THEN Tail(a) ELSE a)

Zlist(a) ==
  IF a = <<>> \/ (Len(a) % 2 = 0 /\ \A j \in DOMAIN a : j % 2 = 1 => a[j] = "-f")
  THEN Do("buddylist", IF a = <<>> THEN <<>> ELSE <<Last(a)>>)
  ELSE Complain

-----------------------------------------------------------------------------
(* The dispatch of cmd.c.  aliases are those of the user, which come       *)
(* before the table; a line with ; in it runs as the lines between.        *)

(* A mutant: OWL_CTX_EDIT is the bit of one of the editors only.           *)
MatchesExactly(context, current) == context \in {"any", current}

Matches(context, current) ==
  \/ context \in {"any", current}
  \/ context = "edit" /\ current \in {"editline", "editmulti", "editresponse"}

(* The lines between the semicolons.                                       *)
SplitAtSemicolons(words) ==
  LET ends == {0, Len(words) + 1} \cup {j \in DOMAIN words : words[j] = ";"}
      cuts == SetToSortSeq(ends, <)
  IN  [k \in 1 .. Len(cuts) - 1 |-> SubSeq(words, cuts[k] + 1, cuts[k + 1] - 1)]

(* owl_dict_find_element.                                                  *)
TableRow(name) ==
  IF name \in CommandNames THEN CHOOSE row \in CommandTable : row.name = name
  ELSE Row("none", "any", "", {})


AliasLine(row, a) == row.line \o a

RECURSIVE Run(_, _, _, _)
RECURSIVE RunAll(_, _, _, _)

RunAll(lines, current, env, depth) ==
  IF lines = <<>> THEN Nothing
  ELSE Run(Head(lines), current, env, depth) \o RunAll(Tail(lines), current, env, depth)

(* owl_command_multi: ( wants its ) and drops it.                          *)
Multi(name, a, current, env, depth) ==
  IF a = <<>> \/ (name = "(" /\ Last(a) # ")") THEN Complain
  ELSE RunAll(SplitAtSemicolons(IF name = "(" THEN Front(a) ELSE a), current, env, depth)

(* The functions of OWLCMD_ARGS commands.                                  *)
HandleArgs(name, a, current, env, depth) ==
  CASE name = "zlog"          -> Zlog(a)
    [] name = "term"          -> Subcommand(a, {"raise", "deiconify"})
    [] name \in {"start-command", "echo", "error", "message", "setsearch", "popless:start-command",
                 "edit:insert-text", "loopwrite", "aimlogout"} -> Do(name, a)
    [] name = "alias"         -> Arity(a, 2, Len(a), Do(name, a))
    [] name = "bindkey"       -> Bindkey(a)
    [] name = "unbindkey"     -> Unbindkey(a)
    [] name \in {"zwrite", "zcrypt"} -> Zwrite(a, env)
    [] name = "aimwrite"      -> Aimwrite(a, env)
    [] name = "reply"         -> Reply(a)
    [] name = "set"           -> IF a = <<>> THEN Do("printallvars", <<>>) ELSE SetVariable(a, "on")
    [] name = "unset"         -> SetVariable(a, "off")
    [] name = "print"         -> Arity(a, 0, 1, IF a = <<>> THEN Do("printallvars", <<>>)
                                                ELSE IF a[1] \in Booleans THEN Do(name, a) ELSE Complain)
    [] name \in {"startup", "with-history"} ->
         IF a = <<>> THEN Complain
         ELSE IF name = "startup" THEN Run(a, current, env, depth) \o Do("addstartup", a)
         ELSE Do("history_store", a) \o Run(a, current, env, depth)
    [] name \in {"unstartup", "add-cmd-history", "exec", "aexec", "pexec", "perl", "aperl", "pperl"} ->
         Arity(a, 1, Len(a), Do(name, a))
    [] name \in {"subscribe", "unsubscribe"} -> Subscription(a, name)
    [] name \in {"dump", "source", "viewclass", "viewuser", "getvar", "getfilter"} ->
         Arity(a, 1, 1, Do(name, a))
    [] name = "aim"           -> IF Len(a) = 2 /\ a[1] = "search" THEN Do("aim_search", Tail(a)) ELSE Complain
    [] name \in {"addbuddy", "delbuddy"} -> Buddy(a, env, name)
    [] name = "join"          -> Join(a, env)
    [] name \in {"smartzpunt", "smartfilter"} -> Instanced(a, name)
    [] name \in {"zpunt", "zunpunt"} -> Zpunt(a, name)
    [] name \in {"punt", "unpunt"} -> PuntUnpunt(a, env, name = "unpunt")
    [] name = "help"          -> IF Len(a) = 1 THEN Do("help_for_command", a) ELSE Do("help", <<>>)
    [] name = "zlist"         -> Zlist(a)
    [] name \in {"recv:getshift", "getview", "getstyle"} -> Arity(a, 0, 0, Do(name, <<>>))
    [] name \in {"next", "prev"} ->
         Move(a, IF name = "next" THEN "--last-if-none" ELSE "--first-if-none", name,
              [filter |-> "", skip |-> FALSE, end |-> FALSE])
    [] name \in {"multi", "("} -> Multi(name, a, current, env, depth)
    [] name \in {"zaway", "aaway"} -> Away(a, name)
    [] name = "away"          -> Away(a, "aaway") \o Away(a, "zaway")
    [] name \in {"load-subs", "loadsubs", "loadloginsubs"} -> Arity(a, 0, 1, Do(name, a))
    [] name = "zlocate"       -> Zlocate(a)
    [] name = "filter"        -> Filter(a)
    [] name \in {"colorview", "aimlogin"} -> Arity(a, 1, 2, Do(name, a))
    [] name = "colorclass"    -> Arity(a, 2, 3, Do(name, a))
    [] name = "view"          -> View(a)
    [] name = "smartnarrow"   -> Smartnarrow(a)
    [] name = "show"          -> ShowCommand(a)
    [] name = "delete"        -> DeleteCommand(a, name, {"view", "trash"})
    [] name = "undelete"      -> DeleteCommand(a, name, {"view"})
    [] name = "delete-and-expunge" -> DeleteAndExpunge(a)
    [] name = "debug"         -> IF a = <<>> \/ ~env.debug THEN Complain ELSE Do(name, a)
    [] name \in {"search", "popless:search"} -> Search(a, name)
    [] name = "popless:start-search" -> Do(name, a)

(* owl_cmd_execute.  Functions without arguments have the name of their    *)
(* command here.                                                           *)
ExecuteLine(row, a, current, env, depth) ==
  CASE row.kind = "alias" ->
         IF depth > MaxAliasDepth THEN Complain ELSE Run(AliasLine(row, a), current, env, depth + 1)
    [] row.kind # "alias" /\ ~Matches(row.context, current) -> Complain
    [] row.kind = "void" /\ Matches(row.context, current) -> Arity(a, 0, 0, Do(row.name, <<>>))
    [] row.kind = "int" /\ Matches(row.context, current) ->
         IF Len(a) = 1 /\ a[1] \in Numbers THEN Do(row.name, a) ELSE Complain
    [] row.kind = "perl"  -> Do(row.name, a)
    [] row.kind = "args" /\ Matches(row.context, current) -> HandleArgs(row.name, a, current, env, depth)

Run(line, current, env, depth) ==
  IF line = <<>> THEN Nothing
  ELSE LET row == IF line[1] \in DOMAIN env.aliases THEN Alias(line[1], env.aliases[line[1]])
                  ELSE TableRow(line[1])
       IN  IF row.name = "" THEN Complain ELSE ExecuteLine(row, Tail(line), current, env, depth)

-----------------------------------------------------------------------------
(* What is checked.                                                        *)

Everything == [zephyr |-> TRUE, aim |-> TRUE, debug |-> TRUE, punts |-> TRUE, aliases |-> <<>>]
ContextOf(row) == IF row.context = "any" THEN "recv" ELSE IF row.context = "popless" THEN "popless" ELSE "editmulti"
RunAlone(line, current) == Run(line, current, Everything, 0)

Orders(options) == {FlattenSeq(p) : p \in SetToSeqs(options)}

(* The usage lines that are known to be refused, or to mean something      *)
(* else when their options change places.                                  *)
KnownRefusal(name, first, chosen, rest) ==
  \/ name \in {"delete", "undelete"} /\ Cardinality(chosen) = 2
  \/ name = "unset" /\ rest = <<>>
  \/ name = "filter" /\ rest = <<>> /\ Cardinality(chosen) # 1
  \/ name = "view" /\ <<first, chosen, rest>> = <<<<>>, {}, <<>>>>
  \/ name = "view" /\ <<"-r">> \in chosen /\ <<first, chosen>> # <<<<>>, {<<"-r">>}>>
  \/ name \in {"zwrite", "zcrypt"} /\ rest \in {<<>>, <<"-m", "word">>}
       /\ chosen \cap {<<"-c", "class">>, <<"-i", "inst">>} = {}

(* Every line that a command's usage allows is taken, whatever order its   *)
(* options come in, and the order makes no difference to what is done.     *)
UsageIsAccepted(name) ==
  \A usage \in TableRow(name).usages :
    \A first \in usage.first, rest \in usage.rest,
        chosen \in {c \in SUBSET usage.options : Cardinality(c) <= 3} :
      ~KnownRefusal(name, first, chosen, rest) =>
        LET outcomes == {RunAlone(<<name>> \o first \o order \o rest, ContextOf(TableRow(name))) :
                           order \in Orders(chosen)}
        IN  /\ \A outcome \in outcomes : ~Refused(outcome)
            /\ Cardinality({ToSet(outcome) : outcome \in outcomes}) = 1

(* A line that is complained of has done nothing else, but for "view" and  *)
(* the motions, which act on their arguments one by one, for the number of *)
(* a punt that is not there, and for commands that run others.             *)
RefusedLineDoesNothing(name) ==
  LET row == TableRow(name)
      words == UNION {UNION {ToSet(first \o rest) \cup UNION {ToSet(o) : o \in usage.options} :
                               first \in usage.first, rest \in usage.rest} : usage \in row.usages}
  IN  name \notin {"view", "next", "prev", "unpunt", "multi", "(", "startup", "with-history"} =>
        \A a \in BoundedSeq(words \cup {"x"}, 2), network \in BOOLEAN :
          LET outcome == Run(<<name>> \o a, ContextOf(row),
                             [Everything EXCEPT !.zephyr = network, !.aim = network], 0)
          IN  Refused(outcome) => outcome = Complain

(* What is typed for a default binding, in any context whose keymap has or *)
(* inherits it and none nearer that takes its keys, waits for its last key *)
(* and then runs a command that is there, in that context, with arguments  *)
(* it takes.                                                               *)
DefaultKeysWork(map) ==
  \A above \in ToSet(Chain(DefaultKeymaps, map)) :
    \A b \in ToSet(DefaultKeymaps[above].bindings) :
      LET typed(n) == FindBinding(DefaultKeymaps, map, SubSeq(b.keys, 1, n))
          found    == typed(Len(b.keys))
      IN  /\ \A n \in 1 .. Len(b.keys) - 1 : typed(n) = Waiting
          /\ found.kind = "bound"
          /\ ~Refused(RunAlone(found.command, ActiveIn[map]))

=============================================================================
