---------------------------- MODULE MCInterface ----------------------------
(***************************************************************************)
(* What the user types and where it goes, and what is shown of messages    *)
(* and kept of them: the table of filters, the contexts and keymaps, the   *)
(* text editor, the settings, the startup file, the cache of formatted     *)
(* messages and the tree of windows side by side, and the pure parts of    *)
(* the interface over all small inputs.  input.what says which machine     *)
(* runs, or what is computed from the input.                               *)
(***************************************************************************)
EXTENDS Filters, Contexts, EditWin, Commands, Variables, StartupFile,
        FmtextCache, Window, MessageList, Logging, Fmtext, Tlvs, AimMessages, Zcrypt,
        DefaultSettings

CONSTANTS MaxWords, MaxId, MaxMessages, LineCounts, MaxWin, screen, panel, border, content

VARIABLE input

interfaceVars ==
  <<input, filterVars, ui, ed, settings, startupVars, vars, windowVars>>

-----------------------------------------------------------------------------
MCWords == {"(", ")", "not", "and", "true", "class", "x", "", "it's", "true and class"}
MCSpelling ==
  ("" :> <<>>) @@ ("it's" :> <<"it", "'", "s">>)
    @@ ("true and class" :> <<"true", " ", "and", " ", "class">>)
MCNames == {"personal", "user-x", "not-personal"}
MCExpressions ==
  {<<"class", "help">>, <<"filter", "user-x">>, <<"not", "filter", "not-personal">>,
   <<"class", "help", "or", "filter", "personal">>}
MCSmart == "user-x" :> <<"class", "sipb", "and", "filter", "personal">>
MCPunts == {<<"class", "help">>, <<"filter", "user-x">>}

Map(parent, bindings) == [parent |-> parent, bindings |-> bindings]
History2 == <<Binding(<<"M-p">>, "edit:history-prev"), Binding(<<"M-n">>, "edit:history-next")>>
Done == <<Binding(<<"CR">>, "edit:done")>>
MCKeymaps ==
  [global |-> Map(NoMap, <<Binding(<<"C-z">>, "message")>>),
   recv |-> Map("global", <<Binding(<<":">>, "start-command"), Binding(<<"r">>, "reply"),
                            Binding(<<"h">>, "help"), Binding(<<"C-x", "C-c">>, "start-command")>>),
   edit |-> Map("global", <<Binding(<<"C-c">>, "edit:cancel"),
                            Binding(<<"C-x", "C-x">>, "edit:exchange-point-and-mark")>>),
   editmulti    |-> Map("edit", History2),
   editline     |-> Map("edit", History2 \o Done),
   editresponse |-> Map("edit", Done),
   popless |-> Map("global", <<Binding(<<"q">>, "popless:quit"), Binding(<<"C-c">>, "popless:quit"),
                               Binding(<<"/">>, "popless:start-search")>>)]

MCCharacters == {"a", " "}
MCPrompt == <<"\n">>

(* Texts longer than what is typed in a run, with the point anywhere.      *)
EditorWith(chars, i) ==
  SetIndex([SetLocktext(Editor(<<>>, 0), MCPrompt) EXCEPT !.text = MCPrompt \o chars], i)
LongEditors ==
  {EditorWith(chars, i) : chars \in [1 .. 4 -> MCCharacters \cup {".", "\n"}], i \in 1 .. 5}
    \cup {EditorWith([j \in 1 .. 9 |-> "a"], i) : i \in 1 .. 10}

(* Words to be quoted, and the lines of the startup file.                  *)
MCArgCharacters == {"a", " ", "'", "\"", "\n", "\t"}
MCArgvs == BoundedSeq(BoundedSeq(MCArgCharacters, 2), 2) \cup BoundedSeq(BoundedSeq(MCArgCharacters, 4), 1)

MCLowerCase(line) == IF line = "BIND" THEN "bind" ELSE line
MCFile == <<"set", "bind", "alias">>

(* The screen with the panel of the message list and, above it, a pop-up   *)
(* whose border holds its content, as mainpanel.c and popwin.c make them.  *)
MCWindows == {screen, panel, border, content}
MCChildren ==
  [w \in MCWindows |-> CASE w = screen -> <<border, panel>>
                         [] w = border -> <<content>>
                         [] OTHER -> <<>>]

(* Names as they are typed, zwrite lines with them, and the writers.       *)
MCRecipients ==
  {Name("bob", "", NoAt), Name("bob", "", "ATHENA"), Name("bob", "", ""), Name("cat", "", NoAt),
   Name("cat", "", "OTHER"), Name("dan", "", "OTHER"), Name("ann", "/root", NoAt),
   Name("rcmd", ".root", NoAt)}
MCZwrites ==
  {[Zwrite0 EXCEPT !.cmd = cmd, !.class = class, !.inst = inst, !.realm = realm, !.cc = cc,
                   !.recips = recips] :
     cmd \in {"zwrite", "zcrypt"}, class \in {"message", "help.d"}, inst \in {"personal", "x"},
     realm \in {"", "OTHER"}, cc \in BOOLEAN, recips \in BoundedSeq(MCRecipients, 2)}
MCWriters == {Name("ann", "", "ATHENA"), Name("ann", "/root", "ATHENA"), Name("ann", "", "OTHER")}

(* Instant messages: two networks, of which the second may be down, and    *)
(* two accounts of one JID or of two.                                      *)
MCChans == {"#x", "#y"}
MCNets ==
  {("n1" :> [registered |-> TRUE, channels |-> c1]) @@
   ("n2" :> [registered |-> up, channels |-> IF up THEN c2 ELSE {}]) :
     c1 \in SUBSET MCChans, c2 \in SUBSET MCChans, up \in BOOLEAN}
MCIrcMessages ==
  UNION {{IrcMessage(n, "cat", "ann", "in", MCChans), IrcMessage(n, "ann", "cat", "out", MCChans)}
           \cup {IrcMessage(n, "cat", c, "in", MCChans) : c \in MCChans} : n \in {"n1", "n2"}}
MCArgs == {<<>>, <<"#x">>, <<"#y", "hello">>, <<"hello">>}
MCMucs == {"room@b"}
MCJids == {"ann@a", "bob@a", "dan@a"} \cup MCMucs
MCRoster == <<[name |-> "dan", base |-> "dan@a"]>>
MCAccounts == {{Jid("ann@a", r)} \cup S : r \in {"1", "2"}, S \in SUBSET {Jid("ann@a", "3"), Jid("bob@a", "1")}}
MCPeers == {<<Jid("room@b", "dan"), "groupchat">>, <<Jid("room@b", "dan"), "chat">>,
            <<Jid("dan@a", "9"), "chat">>, <<Jid("dan@a", ""), "chat">>}

(* Texts with their looks, and the marks of zephyrs.                       *)
MCLooks == {Char("a"), Char("W"), Char("\t"), Newline, Attr({"bold"}), Attr({}), Color("red")}
MCTexts == BoundedSeq(MCLooks, 3)
             \cup BoundedSeq({Char("a"), Char("W"), Newline, Attr({"bold"})}, 4)
MCMarks == {"@", "b", "color", "red", "(", ")", " ", "<", ">"}

(* Chains of TLVs, with values at and above what a length can hold.        *)
MCTypes  == {1, 2}
MCValues == {<<>>, <<0>>, <<1, 3>>, [i \in 1 .. Words16 |-> 2], [i \in 1 .. Words16 + 1 |-> 2]}
MCChains == BoundedSeq({Tlv(t, v) : t \in MCTypes, v \in MCValues}, 3)

(* Instant messages of up to two sections with every set of flags; texts   *)
(* of every kind of character, and with markup; users of whom some is told.*)
MCSections ==
  ToSet(AddUnicode(AddAscii(<<>>, <<97>>), <<8364>>)) \cup {Section(3, 11, <<233, 97>>), Section(9, 0, <<1>>)}
MCImFlags == SUBSET {"away", "ack", "offline", "hasicon", "buddyreq", "customfeatures", "multipart"}
MCTyped == BoundedSeq({97, 233, 8364, 70000}, 5) \cup BoundedSeq({97, Lt, Gt, Amp, Br, Font, 203, 34}, 4)
MCUser(present) ==
  [NoInfo(<<98, 99>>) EXCEPT !.present = present, !.warnlevel = 1, !.flags = 4, !.membersince = 2, !.onlinesince = 3,
                             !.idletime = 4, !.sessionlen = 5, !.capabilities = {"chat"}]
MCParts == {"flags", "membersince", "onlinesince", "idletime", "capabilities", "sessionlen"}
MCKnown == [NoInfo(<<98, 99>>) EXCEPT !.flags = 8, !.createtime = 9, !.onlinesince = 9, !.idletime = 9,
                                      !.capabilities = {"sendfile"}, !.info = <<<<1>>>>, !.away = <<<<1, 2>>>>]
MCMoreFields ==
  {<<>>, <<Field(30, <<0, 1, 0>>), Field(25, ShortBytes[2])>>,
   <<Field(29, Word(7) \o <<1, 1, 5>> \o Word(1) \o <<1, 2, 8, 8>>)>>}

(* Texts around the sizes of a block and of the input, and tables of keys. *)
MCSpecs  == {NoSpec, [prefix |-> "", file |-> "k"], [prefix |-> "AES", file |-> "k"]}
MCTables ==
  BoundedSeq([name : {<<"a">>, <<"a", "b">>, <<"default">>}, spec : MCSpecs], 2)
MCCiphers == {CryptSpec(s) : s \in MCSpecs \ {NoSpec}}
MCOneKey == {<<[name |-> <<"a">>, spec |-> s]>> : s \in MCSpecs}
MCPlain  == BoundedSeq({"a", "\n", "."}, 3) \cup BoundedSeq({"a", "\n"}, 6)

-----------------------------------------------------------------------------
(* The ids of S, in order. *)
Growing(S) ==
  LET all == [i \in 1 .. MaxId + 1 |-> i - 1] IN SelectSeq(all, LAMBDA id : id \in S)

Computed ==
  \/ \E words \in BoundedSeq(MCWords, MaxWords) : input = [what |-> "words", words |-> words]
  \/ \E name \in CommandNames : input = [what |-> "command", name |-> name]
  \/ input = [what |-> "defaults"]
  \/ \E map \in DOMAIN ActiveIn : input = [what |-> "keymap", map |-> map]
  \/ \E argv \in MCArgvs : input = [what |-> "argv", argv |-> argv]
  \/ \E line \in BoundedSeq({"a", " ", "'", "\""}, 5) : input = [what |-> "line", line |-> line]
  \/ \E S \in SUBSET (0 .. MaxId), target \in -1 .. MaxId + 1 :
       input = [what |-> "search", list |-> Growing(S), target |-> target]
  \/ \E mode \in Modes, dir \in Directions, win \in 1 .. MaxWin,
        ls \in SeqOf(LineCounts, MaxMessages) \ {<<>>} :
       \E c \in 0 .. Len(ls) - 1, t \in 0 .. Len(ls) :
         input = [what |-> "scroll", mode |-> mode, direction |-> dir, ls |-> ls,
                  cur |-> c, top |-> t, win |-> win]
  \/ \E z \in MCZwrites, from \in MCWriters : input = [what |-> "zwrite", z |-> z, from |-> from]
  \/ \E u, v \in {"ann", "bob", "cat"}, d, e \in {"in", "out"} :
       input = [what |-> "aim", me |-> "ann", user |-> u, dir |-> d, other |-> v, otherDir |-> e]
  \/ \E nets \in MCNets, m, current \in MCIrcMessages \cup {NoMessage}, args \in MCArgs :
       input = [what |-> "irc", nets |-> nets, m |-> m, current |-> current, args |-> args]
  \/ \E p \in MCPeers, dir \in {"in", "out"}, accounts \in MCAccounts, alone \in BOOLEAN :
       /\ p[2] = "groupchat" => dir = "in"
       /\ input = [what |-> "jabber", accounts |-> accounts, alone |-> alone, m |->
                    IF dir = "in" THEN JabberMessage(p[1], Jid("ann@a", "1"), dir, p[2], MCMucs)
                    ELSE JabberMessage(Jid("ann@a", "1"), p[1], dir, p[2], MCMucs)]
  \/ \E f \in MCTexts : input = [what |-> "text", text |-> f]
  \/ \E t \in BoundedSeq(MCMarks, 4) : input = [what |-> "ztext", text |-> t]
  \/ \E list \in MCChains : input = [what |-> "chain", list |-> list]
  \/ \E imflags \in MCImFlags, sections \in BoundedSeq(MCSections, 2), len \in {0, 6} :
       /\ "multipart" \in imflags \/ Len(sections) = 1
       /\ input = [what |-> "im", args |->
                    SendArgs(<<98>>, imflags, sections, <<1>>, [len |-> len, sum |-> 2, stamp |-> 3])]
  \/ \E typed \in MCTyped, imflags \in {{}, {"away"}} :
       input = [what |-> "typed", text |-> typed, flags |-> imflags]
  \/ \E present \in SUBSET MCParts, more \in MCMoreFields :
       input = [what |-> "user", info |-> MCUser(present), more |-> more]
  \/ \E plain \in MCPlain, inst \in {<<>>, <<"b">>} :
       input = [what |-> "zcrypt", text |-> plain, inst |-> inst]

Machines == {"filters", "contexts", "editor", "settings", "startup", "texts", "windows"}

InterfaceInit ==
  /\ FilterInit /\ ContextInit /\ SettingsInit /\ StartupInit /\ Init /\ WindowInit
  /\ \/ EditInit /\ Computed
     \/ EditInit /\ \E m \in Machines : input = [what |-> m]
     \/ ed \in LongEditors /\ input = [what |-> "editor"]
  /\ input.what # "texts" => style = CHOOSE s \in Styles : TRUE

InterfaceNext ==
  /\ UNCHANGED input
  /\ \/ /\ input.what = "filters" /\ FilterNext
        /\ UNCHANGED <<ui, ed, settings, startupVars, vars, windowVars>>
     \/ /\ input.what = "contexts" /\ ContextNext
        /\ UNCHANGED <<filterVars, ed, settings, startupVars, vars, windowVars>>
     \/ /\ input.what = "editor" /\ EditNext
        /\ UNCHANGED <<filterVars, ui, settings, startupVars, vars, windowVars>>
     \/ /\ input.what = "settings" /\ SettingsNext
        /\ UNCHANGED <<filterVars, ui, ed, startupVars, vars, windowVars>>
     \/ /\ input.what = "startup" /\ StartupNext
        /\ UNCHANGED <<filterVars, ui, ed, settings, vars, windowVars>>
     \/ /\ input.what = "texts" /\ Next
        /\ UNCHANGED <<filterVars, ui, ed, settings, startupVars, windowVars>>
     \/ /\ input.what = "windows" /\ WindowNext
        /\ UNCHANGED <<filterVars, ui, ed, settings, startupVars, vars>>

(* The main loop dispatches the redraw source while the screen is marked.  *)
InterfaceSpec ==
  /\ InterfaceInit /\ [][InterfaceNext]_interfaceVars
  /\ WF_windowVars(input.what = "windows" /\ Pass)

-----------------------------------------------------------------------------
(* A filter is accepted exactly when the grammar allows it.  What is       *)
(* printed of it, and shown or returned for it, is the definition that it  *)
(* has: typed again it gives the same filter, unless a condition is on a   *)
(* field whose name would have to be quoted, which printing does not do.   *)
FilterTextIsExact ==
  input.what = "words" =>
    LET fe == ParseFilter(input.words)
    IN  /\ fe # NoElement <=> IsExpression(input.words)
        /\ fe # NoElement =>
             (ParseFilter(WordsOf(PrintElement(fe))) = fe
                <=> \A field \in FieldsOf(fe) : QuotedArg(Spelled(field)) = Spelled(field))

(* Words that are quoted for a command line are the words that the line is *)
(* split into, and so are those that are left when some are skipped, as    *)
(* aliases and the commands that take the rest of a line do.               *)
QuotedWordsAreExact ==
  CASE input.what = "argv" -> QuotedIsReadBack(input.argv)
    [] input.what = "line" -> SkippedAsSplit(input.line)
    [] OTHER -> TRUE

(* A chain of TLVs is read back as it was written, and changing one of a   *)
(* type leaves the others alone and is seen by the next comparison.        *)
ChainsAreExact ==
  input.what = "chain" =>
    /\ \A more \in {<<>>, <<Tlv(1, <<1>>)>>} : ChainIsReadBack(input.list, more)
    /\ \A type \in MCTypes, value \in MCValues : ChangeIsMeant(input.list, type, value)

(* An encrypted zephyr is read as what was typed: for one text with every  *)
(* two tables, and for every text with one key on each side and whatever   *)
(* can be used there.                                                      *)
CryptedIsExact ==
  input.what = "zcrypt" =>
    LET readBack(mine, theirs, here, there) ==
          CryptedIsReadBack(<<"a">>, input.inst, input.text, mine, theirs, here, there)
    IN  /\ input.text = <<"a">> =>
             \A mine, theirs \in MCTables : readBack(mine, theirs, MCCiphers, MCCiphers)
        /\ \A mine, theirs \in MCOneKey, here, there \in SUBSET MCCiphers :
             readBack(mine, theirs, here, there)

(* What goes through the AIM server to a peer like the program is read     *)
(* there as what it was: messages and what is typed in them, what is told  *)
(* of users, and away messages.                                            *)
AimIsExact ==
  CASE input.what = "im" -> MessageIsReadBack(input.args, MCUser(MCParts))
    [] input.what = "typed" ->
         /\ TypedIsShown(input.text, input.flags, MCUser({"flags"}))
         /\ EscapedIsShown(input.text) \/ 203 \in ToSet(input.text)
         /\ \A profile \in {<<>>, <<7>>} :
              AwayIsReadBack(MCKnown, MCUser(MCParts), profile, input.text)
    [] input.what = "user" ->
         \A old \in {NoInfo(<<98, 99>>), MCKnown}, behind \in {<<>>, Field(2, <<1>>)} :
           InfoIsReadBack(old, input.info, input.more, behind)
    [] OTHER -> TRUE

(* What the program writes for itself, or for a peer like it, to read is   *)
(* read as what it was.                                                    *)
WrittenIsReadBack ==
  FilterTextIsExact /\ QuotedWordsAreExact /\ ChainsAreExact /\ CryptedIsExact /\ AimIsExact

(* What the table of commands says of one holds: the usages it prints are  *)
(* lines its handler accepts, and a line the handler complains of has done *)
(* nothing before.                                                         *)
CommandsAreChecked ==
  input.what = "command" => UsageIsAccepted(input.name) /\ RefusedLineDoesNothing(input.name)

(* Every key bound by default runs a command that there is, that accepts   *)
(* the line and that is meant for the contexts the keymap is active in.    *)
KeysAreServed == input.what = "keymap" => DefaultKeysWork(input.map)

(* The settings and filters BarnOwl starts with mean what the code that    *)
(* reads them takes them for, and name what there is.                      *)
DefaultsMeanIt ==
  input.what = "defaults" => WordsMeanNumbers /\ NamesAreThere /\ FiltersMeanIt

(* The tables that say what can be typed, and what is there before         *)
(* anything is, agree with the code they name.                             *)
TablesKeepTheirWord == CommandsAreChecked /\ KeysAreServed /\ DefaultsMeanIt

(* What a pager or the message list shows of a text, through any window of *)
(* lines and columns, is that part of it with the looks it has as a whole; *)
(* paging leaves nothing out, and a search ends at the nearest line found; *)
(* in a zephyr, markup that is quoted is text like any other.              *)
TextIsShownExactly ==
  CASE input.what = "text" ->
         LET f == input.text
             tops == 0 .. Max({0, Len(LinesOf(ViewwinNewText(f).text)) - 2})
         IN  /\ \A aline \in 0 .. 1, n \in 1 .. 2, acol \in 0 .. 2, cols \in 1 .. 3 :
                  WindowShowsText(f, aline, n, acol, cols)
             /\ \A top \in tops, n \in 1 .. 2 : PagingShowsAll(f, top, n)
             /\ \A top \in tops, current \in BOOLEAN, dir \in {"upwards", "downwards"} :
                  SearchFindsNearest(f, top, "a", current, dir)
    [] input.what = "ztext" ->
         QuotedShowsItself(input.text) /\ WindowShowsText(Ztext(input.text), 0, 1, 1, 4)
    [] OTHER -> TRUE

(* Whoever replies to a zephyr, in whatever realm, reaches those it was    *)
(* between, and all of them keep it under the same conversation.           *)
RepliesReachTheCircle == input.what = "zwrite" => RepliesReach(input.z, input.from)

(* Over AIM, IRC and Jabber too an answer goes out on the connection the   *)
(* message came from, to whom it came from, and is in the view that is     *)
(* narrowed to the conversation.                                           *)
AnswersStayTogether ==
  CASE input.what = "aim" -> AimTogether(input.me, input.user, input.dir, input.other, input.otherDir)
    [] input.what = "irc" ->
         /\ input.m # NoMessage => IrcTogether(input.nets, input.m, input.current, "ann", MCChans)
         /\ IrcCommandIsClear(input.nets, input.args, input.current, MCChans)
    [] input.what = "jabber" ->
         JabberTogether(input.m, input.accounts, MCRoster, MCMucs, MCJids, "ann", input.alone)
    [] OTHER -> TRUE

(* What is logged of a conversation is together in the files of those it   *)
(* is held with, on every side of it.                                      *)
LogFollowsConversations ==
  CASE input.what = "zwrite" -> CircleIsLogged(input.z, input.from)
    [] input.what = "aim" -> AimIsLogged(input.me, input.user, input.dir, input.other, input.otherDir)
    [] input.what = "jabber" -> JabberIsLogged(input.m, MCMucs)
    [] OTHER -> TRUE

(* A conversation stays together when it is answered, when the view is     *)
(* narrowed to it, and in the log.                                         *)
ConversationsStayTogether ==
  RepliesReachTheCircle /\ AnswersStayTogether /\ LogFollowsConversations

-----------------------------------------------------------------------------
(* Both searches over the ids of a list, the exact and the nearest one,    *)
(* land where their comments say.                                          *)
SearchesAreExact ==
  input.what = "search" =>
    IndexByIdIsExact(input.list, input.target) /\ NearestIsClosest(input.list, input.target)

(* The scroll modes show the current message, and those that page come to  *)
(* rest.                                                                   *)
ScrollingIsExact ==
  input.what = "scroll" =>
    /\ CurrentIsShown(input.mode, input.direction, input.ls, input.cur, input.top, input.win)
    /\ PageIsKept(input.mode, input.direction, input.ls, input.cur, input.top, input.win)

(* Where the cursor and the top of the screen are put is where the         *)
(* comments on the searches and on scrolling say.                          *)
PositionsAreExact == SearchesAreExact /\ ScrollingIsExact

(* Window's property, of the behaviours in which the windows change.       *)
RedrawEnds == input.what = "windows" => RedrawComesToRest
=============================================================================
