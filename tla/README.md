# A verification project for BarnOwl

BarnOwl is a curses client for instant messaging (Zephyr, AIM and, through Perl
modules, Jabber, IRC, Twitter and Facebook). It is a C program around a GLib
main loop with an embedded Perl interpreter, and two more threads: one waits
for signals, one writes the logs. This directory holds TLA+ modules translated
from the source, the TLC configurations that check them on small instances,
and proofs that the TLA+ proof system checks for every instance.

Contents: [the system](#the-system), [the modules](#the-modules),
[the runs](#the-runs-and-their-bounds), [fairness](#fairness),
[the proofs](#the-proofs), [where the code disagrees](#where-the-code-disagrees-with-its-own-texts),
[what is not modelled](#what-is-not-modelled), [the plan](#the-plan),
[how to run it](#how-to-run-it).

## The system

Nearly everything happens on the main thread, one callback of the main loop at
a time. So the hard behaviours are seldom data races. They are: commands run
by Perl hooks in the middle of an operation; positions, flags and cached texts
that outlive what they were computed from; the order of asynchronous requests
(tasks, redraws, watches); text that is written in one place and read back in
another; and the outside world: signals, child processes, and servers that
answer late, twice, out of order or not at all.

| Component | Sources | State it keeps | Used by, uses |
|---|---|---|---|
| Main loop, signals | `owl.c`, `select.c`, `signal.c` | the GLib loop, posted tasks, `interrupt_count` | calls every callback below |
| Logging | `logging.c` | its own thread, loop and entries | message processing; posts errors back |
| Message queue | `owl.c`, `global.c` | `messagequeue` | fed by all protocols; calls Perl hooks |
| Message list, view | `messagelist.c`, `view.c` | `msglist`; the filter and what it matches | queue, commands |
| Cursor, scrolling, main window | `functions.c`, `mainwin.c` | `curmsg`, `topmsg`, `vertoffset` | reads list and view |
| Format cache | `message.c`, `style.c` | a ring of formatted texts | redraws, searches |
| Formatted text | `fmtext.c`, `viewwin.c` | attribute runs | everything shown |
| Windows | `window.c` | a tree; realized, `dirty`, `dirty_subtree` | everything drawn |
| Filters | `filter.c`, `filterelement.c` | expressions that refer to each other by name | view, punts, alerts |
| Editors, history | `editwin.c`, `history.c` | a text with marks; a bounded list | keys, commands, scripts |
| Keys, contexts | `keymap.c`, `keybinding.c`, `keys.c`, `context.c` | stack of contexts, keymaps, a prefix | run commands |
| Commands | `commands.c`, `cmd.c` | a table of names, aliases, contexts | keys, startup file, Perl |
| Variables | `variable.c` | settings, some copied elsewhere | everything |
| Startup file, quoting | `util.c`, `functions.c` | `~/.owl/startup` and its backup | commands |
| Pop-up commands, filter processes, the new-message process | `popexec.c`, `filterproc.c`, `functions.c` | a counted object and a watch; two pipes; a process number | child processes |
| Zephyr | `zephyr.c`, `zwrite.c`, `zbuddylist.c`, `zcrypt.c` | subscriptions, buddies, deferred requests | queue |
| AIM | `aim.c`, `libfaim/` | session, connections, frames, buddy-list copies | queue, main loop |
| IRC, Jabber | `perl/modules/IRC`, `perl/modules/Jabber` | connections, timers, rooms, rosters | queue; Jabber's questions are answered by commands |
| Twitter, Facebook | `perl/modules/Twitter`, `perl/modules/Facebook` | the last id or time seen | queue |

What makes them correct:

- *Format cache*: a slot and its message point to each other, never to a freed
  one; a cached text is what formatting would give now.
- *List, view, cursor*: the view is the list, narrowed; a search by id finds
  what is listed; what is removed leaves the cursor on its message or next to
  it; every movement, restyling and resize keeps it on the screen.
- *Queue*: what is queued is processed although hooks run commands in between;
  every change of what is shown asks for a redraw.
- *Threads*: an interrupt ends only what was running when it came; a SIGTERM
  quits whenever it comes; the shutdown joins both threads and loses no entry.
- *Windows*: a request to redraw survives until it is served; no curses window
  outlives its parent; the screen comes to rest.
- *Filters*: no filter refers to itself by any path, whatever is redefined;
  what is printed is read back, as far as it is quoted; reversing a view
  complements it.
- *Keys and editors*: every key does what its keymap says, once; no key sticks
  the client; an editor's callback is called once; marks follow edits.
- *Child processes*: no output is lost, no process or watch is left, nobody
  waits for each other.
- *Conversations*: a reply goes to where its message came from, a filter
  gathers a conversation, a log keeps it in its own file.
- *Protocols*: what the user has asked for (subscriptions, buddies, channels,
  accounts) is what the server ends up with; a loss is noticed and tried again,
  but not against the user; a copy of a list on a server is that list; no
  automatic answer is answered, and no question twice.

`PROJECT.json` lists the components with their status, and under `hazards`
where in the code each of these can go wrong.

## The modules

Messages and what is shown of them:

| Module | Code | State and actions |
|---|---|---|
| `FmtextCache` | `message.c`, `style.c` | `fmtext[m]` is `m->fmtext`; `message[s]`, `text[s]` are the slot. A message is an address, so that one freed and allocated again is the same element. |
| `MessageList`, `Subsequences` | `messagelist.c`, `view.c`, `functions.c` | Operators: the binary searches by id, the six scroll modes; what a filter leaves of a list. |
| `MessageView` | `owl.c`, `functions.c`, `view.c`, `mainwin.c`, `global.c` | Composes list, view, cursor and window with the queue. One action per command and handler; `proc` is the control state of `owl_process_messages_dispatch`, where hooks may run any command. |
| `Fmtext` | `fmtext.c`, `viewwin.c` | Operators on texts: a text is a sequence of characters and attribute marks. |
| `Window` | `window.c` | The tree with its flags; the redraw pass is one step per window and signal, as handlers may dirty windows on the way. |
| `Logging` | `logging.c` | Which messages are logged and to which files. |

What the user drives:

| Module | Code | State and actions |
|---|---|---|
| `FilterSyntax`, `Filters` | `filter.c`, `filterelement.c`, `util.c`, `functions.c` | Splitting a line into words and quoting a word; the parser and printer of filters, from words and to a line, as recursive operators; the table of filters as `filters` (name to object), with every command that defines, negates, narrows or punts. |
| `Keymaps` | `keymap.c`, `keybinding.c`, `keys.c` | The search for a binding; the tables that BarnOwl starts with. |
| `Contexts` | `context.c`, `editcontext.c`, `keymap.c`, `functions.c`, `viewwin.c`, `history.c` | A key is handled before the next one, so it is a function on one record, `ui`: the stack, the editors with their references, prefix, histories. |
| `EditWin` | `editwin.c` | The editor as the record `ed`, one action per editing command. |
| `Commands` | `commands.c`, `cmd.c` | The table of commands; an operator per command says what its parsing of the arguments calls or complains of. |
| `DefaultSettings` | `variable.c`, `global.c`, `owl.h` | Tables: the settings and filters that are there at the start, the numbers behind the words; read with the parser of filters, the commands and the keys. |
| `Variables` | `variable.c`, `mainpanel.c`, `global.c` | `settings`: the values of a setting of each type, and where they are copied to. |
| `StartupFile` | `util.c`, `functions.c` | The file, its new version and its backup, a step per system call, with the death of the client between any two. |
| `Replies`, `Conversations` | `zwrite.c`, `message.c`, `functions.c`, `Message/*.pm`, `IRC.pm`, `Jabber.pm` | Operators: messages as they are made at both ends, the reply line to each, the smart filter for each. |
| `AimMessages` | `libfaim/im.c`, `libfaim/locate.c`, `text.c`, `aim.c` | Operators on bytes: an instant message from the words that were typed to those that are shown, what the server says of a buddy and how it is merged, an away message. |
| `Tlvs`, `Zcrypt` | `libfaim/tlv.c`, `libfaim/bstream.c`, `zcrypt.c` | Operators on bytes and blocks: what is written and what is read of it. |

What other processes and servers do:

| Module | Code | State and actions |
|---|---|---|
| `MainLoop` | `owl.c`, `select.c`, `signal.c`, `logging.c`, `global.c` | The three threads from the creation of the signal thread to the end of `main`. |
| `Popexec` | `popexec.c` | The handler in its three system calls; the command and its descendants write, close and exit between any two of them. |
| `OutputStream` | `popexec.c` | What a pop-up promises of a command's output, without pipe, watch and process. `Popexec` implements it: `StreamState` maps an open window with its watch to an open stream. |
| `FilterProc` | `filterproc.c` | `caller` is the loop of `send_receive`, `stdin` and `stdout` are pipes of bounded size, `filter` a child that reads and writes in any order. |
| `NewMsgProc` | `functions.c` | The program run when messages come in, one at a time, with the process number that is asked for and the fate of each child. |
| `AimSession` | `aim.c`, `libfaim/conn.c`, `libfaim/rxqueue.c` | `connlist` in the program's order, `polled` the event source, `loggedin`, the buddy list and the timers of a login; servers that accept, refuse, redirect or close at any time. |
| `Frames` | `libfaim/txqueue.c`, `libfaim/conn.c` | The numbers and the outgoing queue of a session with two connections. |
| `Ssi` | `libfaim/ssi.c` | The official and the local copy, the diff that is underway, the server's list, another client of the same user. |
| `Locate` | `libfaim/locate.c`, `libfaim/snac.c`, `libfaim/buddylist.c` | `torequest`, `requested` and `waiting`: the buddies that the server is asked about one by one, with the cache in which an error is looked up. |
| `ZephyrClient` | `zephyr.c`, `zbuddylist.c`, `functions.c`, `message.c` | Two machines. Subscriptions: `zephyr` waiting, ready or failed, the deferred requests, the server's subscriptions, the file. Buddies: who is there, the datagrams flying, in the socket and in libzephyr's queue, the list of buddies, the message queue. |
| `AutoReplies` | `owl.c`, `zephyr.c`, `aim.c`, `libfaim/im.c` | Two whole clients that answer by themselves over two networks. |
| `Irc` | `IRC.pm`, `IRC/Connection.pm` | A network's connection, its timer, channels and lists of names. |
| `Jabber` | `Jabber.pm`, `Jabber/ConnectionManager.pm`, `BarnOwl.pm`, `Net/XMPP/Roster.pm`, `commands.c` | Two machines. Connections: accounts, sockets with the numbers that were kept of them, dispatches, the prompt for a password, the keep-alive timer. Rosters: the one on the server and the copy of each connection, with what is underway between them; the `jroster` command; questions and their answers. |
| `Feeds` | `Twitter/Handle.pm`, `Facebook/Handle.pm` | The servers' posts and what each poll shows of them. |

The modules named `...Proofs` hold the theorems. The `MC` modules give
constants their values. `MCInterface` and `MCSources` set components side by
side: one variable chooses which of them runs in a behaviour, so that the
properties of each are checked over exactly its own states, in one run.
`MCInterface` also has every small input of the operators as an initial state;
`input` holds it. `MCMessageView` and `MainLoop` are the compositions whose
parts interact.

The properties of the two composed runs gather what the modules state:
`WrittenIsReadBack` and `TablesKeepTheirWord` are in `MCInterface`; in
`MCSources`, `AimIsServed`, `JabberIsServed`, `ShownOnceAndInOrder`,
`ChildrenAreServed`, `ListsSettle` and `LossesAreServed` are conjunctions of
the properties of one protocol or of one kind.

Conventions. Operators have the names of the functions they translate, without
the `owl_` or `aim_` prefix where that is unambiguous; fields keep theirs.
"Broken variant" or "A mutant" marks a definition that is not part of any
specification: it is a plausible mistake in the definition that follows it,
and with it in place TLC finds a property violated.

Abstractions that matter:

- A message in `MessageView` is its id and a *kind*: the class that filters
  see, whether it is punted, its lines in each layout. Messages have more of
  their fields where replies, filters and logs read them.
- Records of what happened are not variables of the program: `stale` in
  `MessageView` says whether a redraw would show something else, `asked` in
  `Window` what was requested, `strayed` and `reached` in `Popexec`, `typed` in
  `AutoReplies`, `wanted` in `StartupFile`, `ircseen` in `Irc` (its field `lapsed`
  says that a ping of the present connection went unanswered).
- Undefined behaviour is a choice: reading outside of an array sets `crashed`
  or does not; `owl_mainwin_new` leaves `lasttruncated` either way.
- Names, classes and regular expressions are model values or sequences of a few
  characters; names that only differ in case are one where the code compares
  them so. The words of a filter are strings; those with blanks or quotes in
  them, for which quoting matters, are spelled out in the constant `Spelling`.
- Numbers wrap where the code's do: frame numbers (`SeqNumbers` for 2^16) and
  16-bit lengths (`Base` for 256, so that a length is less than 16).
- In `EditWin` a character is one byte and one column. In `Fmtext` there are
  characters of one and two columns, newlines and tabs.
- DES, GnuPG, libzephyr, AnyEvent::IRC, curses and the kernel are external:
  modelled as the code uses them.

## The runs and their bounds

| Run | Distinct states | Question |
|---|---|---|
| `interface` | 227 421 | Do the parts the user drives keep their word, as machines and on all small inputs? |
| `sources` | 151 095 | Is what other processes and servers do taken in without loss, repetition or waiting for ever? |
| `view_life` | 891 010 | Do view, list, cursor and redraw requests stay consistent while messages come and go? |
| `view_scroll` | 207 678 | Does every movement, restyling and resizing keep the current message on the screen? |
| `view_progress` | 76 178 | Is what is queued processed, in order, and what has changed drawn? |
| `main_loop` | 320 950 | Do the three threads lose nothing and end? |
| `delete_narrowed`, `delete_past_end`, `quit_at_startup`, `ssi`, `aim`, `irc` | few | Violations, see below. |

Why the bounds are enough to meet the interesting cases.

`interface`, the machines:

- *filters*: three names, one of them the name that reversing the view makes;
  expressions that refer to two of the others; four objects, so that a name is
  defined, redefined and referred to by a filter that is defined again. Smart
  filters and punts share the names.
- *contexts*: a stack of two pop-ups or editors above the main window, a
  history of two lines with two editors to fill it and browse it, and a key of
  each kind: bound, inherited, a prefix, text, unbound.
- *editor*: three typed characters in a window of three by three, and, as
  further initial states, every text of four characters with blanks, dots and
  newlines and the point at each place: enough to wrap, fill, frame and yank.
  A line longer than the window is among them.
- *settings*: two settings made, of every type and of each that has an effect,
  and a typing window opened and closed between them.
- *startup*: three commands on a file with two lines that differ only in case
  from one that is added; the client may die, and each call may fail, anywhere.
- *texts*: four addresses for three slots, so that the ring wraps, evicts and
  meets addresses that are used again; two styles.
- *windows*: the screen, the panel and a pop-up with its content (three
  levels, siblings at one of them), five steps of their users. A size is zero
  or not, which is what being realized depends on.

`interface`, the inputs:

- all sequences of up to four words as filters, among the words one with a
  quote, one with blanks between words of the language, and the empty one; all words of up to two
  characters of six kinds, and single ones of four, as quoted arguments;
- every row of the command table with each way its parsing tells apart, and
  every default binding of every keymap with the lines it runs; the defaults,
  with 192 messages that differ in all that the default filters look at;
- all growing lists of ids 0 to 6 for every target (all paths of a binary
  search of depth three) and views of up to three messages of one line, of
  several and of more than the window, from every former top and direction;
- zephyrs of two classes and realms to up to two of eight recipients by three
  writers; IRC messages of two networks with every set of channels; Jabber
  messages in a room and to contacts, of accounts that share a JID or not;
- texts of up to four characters and attributes in every window of up to
  three columns; ztext of up to four tokens; chains of up to three records with
  values up to and above what a length holds; texts of up to three blocks to
  encrypt, with every set of keys that can be used on either side;
- instant messages in each of three encodings, of up to two sections and with
  every set of marks, up to the length that is refused (`MAXMSGLEN` is 5 here);
  typed texts of up to three characters with markup and entities; buddies'
  information with and without each field, read, written, read again and merged
  with what was known; away messages up to one that is cut (`MaxAway` is 3).

`sources`, the machines:

- *popexec*: two commands one after the other, as one may leave traces to the
  next; four blocks through a pipe of three, read by two.
- *filter*: up to four blocks through pipes of two.
- *ssi*: three edits of two buddies, one with an alias, over two logins.
- *aim*, *frames*: three commands and four frames of the servers; two
  connections, three frames each, numbers that wrap after three.
- *locate*: three buddies, four arrivals, so that one comes back while he is
  waited for, asked about or answered, with errors in time and too late.
- *subs*: four commands in two sessions, each with a server that answers late
  or badly, and files that have doubled lines, punts and comments.
- *buddies*: one buddy, two moves, two notices taken at a time and three
  waiting: a backlog that a single dispatch does not clear.
- *talk*: two people, two things said, two messages underway to each.
- *news*: four times messages, with programs that end in between.
- *roster*: the same account twice, another whose name contains the former's
  name, one contact, one group, five steps of users, contacts and connections.
- *irc*, *jabber*: two channels and rooms, two accounts that may get each
  other's descriptors, two losses.
- *tweets*, *posts*: three tweets, two posts or comments; two polls underway.

The others:

- `view_life`: three messages give a removal at the start, in the middle and at
  the end; two classes, one filter that narrows and one that depends on
  deletion marks. Scrolling is left to the next run.
- `view_scroll`: one message of one line and one of several, whose heights
  change with the layout; windows of two sizes and two widths; scroll modes
  `normal`, `paged` and `center`, which have the most state.
- `view_progress`: two messages of three kinds (one is punted): enough for one
  to arrive while the other is processed. Admin messages are among the
  commands, so lists out of order are met.
- `main_loop`: three signals of four kinds and two keys: two interrupts with a
  terminating signal, or a signal in every phase with another merged into it.

`CHECK_DEADLOCK FALSE` stands where the system may stop: the program exits
(`main_loop`), or the bounded steps of users and servers are used up and an
input is a state by itself (`interface`, `sources`).

Properties are named where they are defined, at the end of each module; those
of the composed runs are conjunctions of what the modules state, and are
defined in the `MC` module or the last of the modules concerned. Each has one
or more broken variants of the code that violate it (`mutants` in
`PROJECT.json`). Type invariants are parts of the inductive invariants of the
proofs.

Some properties name an exception, which is what the code does:

- `IdsGrow`, `CursorStays`: an admin message takes the next id and is listed at
  once, while earlier ids wait in the queue. The list is then out of order for
  good, and the binary search promises nothing (hazard at `functions.c:202`).
- `CurmsgStaysOnScreen`: a message that arrives under a cursor past the end.
- `QuestionsAreAnsweredOnce`: speaks of an account that is connected, and once,
  when its question is answered. Otherwise the question is marked although
  nothing went out, or another account answers whose name contains its name.
- `GroupsAreKept`: speaks of a copy that is current. An edit made before a
  change by another connection has been read takes that change back.
- `FeedsAreShownOnce`: a tweet that is sent between the two requests of a poll
  and a Facebook post of the second that was already seen may be missed; none
  is shown twice. Answers are taken to be complete: `Facebook/Handle.pm:251` asks
  for 200 posts at most and Twitter sends a page, so that what goes beyond that
  between two polls is missed by the program and not by the model.
- `FilterTextIsExact` (in `WrittenIsReadBack`): what is printed of a filter is
  read back exactly if no condition is on a field that would need quotes, as
  names and regular expressions are quoted and fields are not
  (`filterelement.c:142`).
- `CryptedIsReadBack`: speaks of keys that can be used. Where the file of a key
  cannot be read, or gpg fails, nothing is sent, and the receiver is shown the
  text as it came, marked as not decrypted.
- `IrcIsOrderly`: a reconnection timer may be pending beside a registered
  connection, but only after a ping of that very connection went unanswered: the
  socket is not closed before the timer fires (`IRC/Connection.pm:449`), and if
  the server answers again in between, its connection is dropped all the same.

## Fairness

- `MessageView`: weak fairness of `Process` (the queue's source is ready while
  something is queued, and GLib dispatches every ready source of the same
  priority in each iteration) and of `Redraw`. Users and hooks owe nothing.
- `MainLoop`: weak fairness of each thread for the steps it can take without
  input. Strong fairness of `Redraw`: iterations come and go, each of them
  dispatches the redraw source if it is ready, but it is enabled only inside
  an iteration. Signals and keys are never forced.
- `Window`: weak fairness of the pass.
- `Popexec`, `FilterProc`: weak fairness of the handler or the loop, of
  `waitpid` when the child has exited, of a filter's steps, and of the exit of a
  child that has been sent SIGTERM and does not ignore it. A command in a
  pop-up need never write or exit.
- `Ssi`, `AimSession`: a source that is ready is dispatched, and the server
  answers what it is sent. `AimFairness` forces nothing of the servers.
- `Locate`: what has come in is read, and the server answers or passes over
  what it is asked; `AllAreAnswered` excepts what it passes over.
- `ZephyrClient`: the timer fires, datagrams asked for over and over come
  through, ready sources are dispatched; who moves is free.
- `Irc`, `Jabber`: timers fire and attempts end, and a server that is reached
  time and again lets the user in once (strong fairness of `IrcConnected`).

Where an action's condition is costly to evaluate, weak fairness is written as
`[]<>(not enabled) \/ []<><<A>>_vars`, with the condition spelled out.

## The proofs

`InterfaceProofs`, first part: the format cache (`FmtextCache`), for all sets of
messages and styles and every ring size above zero:

- `TypeCorrect`, `PointersAgree` (`BackPointers`), `CacheIsCurrent`
  (`TextIsCurrent`).
- Assumptions: the ring is not empty, the null pointer is no message.
- Argument: `IInv` is the conjunction of `TypeOK`, `BackPointers`,
  `CachedAreListed` and `TextIsCurrent`. The last alone is not inductive: a
  change of style invalidates the *listed* messages only, so that every cached
  message must be listed; and invalidation empties a slot through the message's
  pointer, so that pointers must agree. One lemma says what invalidating a set
  of messages leaves behind. Each action then uses it with its set: the evicted
  message, the freed one, the listed ones.

`ChildrenProofs`, first part: pop-ups (`Popexec`), for any number of commands
and blocks and all positive sizes of the pipe and of a read:

- `TypeCorrect`, `CountIsExact` (`RefcountIsExact`), `NoOutputIsLost`
  (`OutputIsComplete`), `PointIsNotReached`, `ClosingIsClean`
  (`ClosedIsClean`), and `OutputIsAStream` (`ImplementsStream`): every
  behaviour of `Popexec` is one of `OutputStream`.
- Assumptions: the bounds are numbers, pipe and reads are not of size zero.
- Argument: `Ownership` ties window, watch, id and child to each other; `Flow`
  says that what was written is in the window or in the pipe, and that the
  handler's look at the pipe stays true of it until it acts. The last conjunct
  of `Flow` is the one the result turns on: the handler finds *nothing* to read
  only if it was woken by a hang-up, and then nobody is left to write, so that
  nothing can arrive before the child is reaped. `OutputIsComplete` is not
  inductive without it.

`ChildrenProofs`, second part: the program for new messages (`NewMsgProc`), for
any number of messages, changes of the setting and processes, without
assumptions:

- `OneProgramRuns` (`OneInstanceRuns`), `NewsTypeCorrect` and `MessagesAreTold`
  (`NewsAreTold`, an action property).
- Argument: the invariant adds that the number kept is that of a process that
  was started. The program is started where the last call of `waitpid` says
  that there is no such child; `CheckedAnswers` shows that only a reaped process
  is answered so, whatever the two calls before it have found and reaped. Since
  every other process has been reaped before, all have then. A new setting, an
  empty one included, leaves number and processes alone: nothing is forgotten
  by it. The third theorem: a message that comes in when no program runs, or
  whose program has ended, starts one, in the same step.

`ChildrenProofs`, third part: a text piped through a command (`FilterProc`), for
texts of any length, any kind of child of the model, any size of the pipes and
of the reads:

- `FiltersReturnAll` (`AllIsReturned`, the safety half of `FilterReturnsAll`):
  whenever `send_receive` returns it has all that the child made of the text, in
  order; the child has been reaped and no end of a pipe is left open.
- Assumptions: a pipe holds a block at least, and a read takes one at least.
- Argument: `InputFlows` says that what the child has not read is in its pipe
  followed by what is still to be written, `OutputFlows` that what has been
  returned, what is in the other pipe and what the child has still to say are
  together all that it makes of what it has read. `HangupIsTrue` carries what
  `poll` said to the step that acts on it: a hang-up without anything to read
  leaves the pipe empty for good, so the loop that ends there has lost nothing.

`MainLoopProofs`, for any number of signals and keys and every pattern of
failing writes:

- `LogIsKept` (`LogIsFaithful`) and `NoStaleInterrupt` (`InterruptIsFresh`).
- Assumptions: the bounds are numbers, and the terminal has a size.
- Argument of the first: `LogOrder` numbers the entries that wait and says that
  all before them are in the file or failed. `LogPhases` ties the two threads'
  states: nothing is posted behind the quit, and the logging thread reads its
  quit last. So nothing waits when it has read it, and the shutdown joins it.
- Argument of the second: a flag that is set has a task of its own that is
  still to run, counted between the steps of the signal thread. Whoever takes
  the interrupt early leaves a task that finds nothing.

`SubsequencesProofs` states what is known of the elements and the order of a
subsequence, of appending and of leaving out, for sequences of any length. The
library of the prover has nothing of the kind, and the other modules of this
section that follow rest on it. `SubsequenceIgnoresEnd` and `SubsequenceTakesEnd` say what a filter
leaves of a list when a message is appended that it rejects or accepts: they
are proved with ranks of positions. The library's theorems on induction take an
operator, which the provers cannot instantiate; `LeastNumber` does without: a
set of numbers that is not empty has a least one, so that the least
counterexample can be refuted. `SearchesExist` builds on it: a function that
calls itself with less each time has a value everywhere, and `RunsExist` says
the same of one that goes through a sequence once, which is how the models write
the loops that they are proved about. `GreatestNumber` is the last of a bounded
set.

`MessageViewProofs`, for any messages, filters and heights, whatever hooks do
while messages are processed:

- `ViewIsNarrowed` (`ViewIsNarrowedList`), `NoRedisplayIsMissed`
  (`NoMissedRedisplay`), and of action properties `IdsKeepGrowing` (`IdsGrow`),
  `CursorStaysPut` (`CursorStays`) and `CurrentStaysShown`
  (`CurmsgStaysOnScreen`).
- Assumptions: the bound on messages is a number; the height of a window is one
  (`HeightsAssumption`), and that of a message is at least one line, since
  `owl_style_get_formattext` ends every text with a newline; the scroll modes
  are those there are. `NoRedisplayIsMissed` has one hypothesis more, that
  `delete --no-move` is not among the commands: it asks for no redraw
  (`functions.c:706`), so that the statement is false with it, and no run has it
  among its commands either. All others are there. `CurrentStaysShown` has the
  hypothesis that windows have a line: `mainpanel.c:34` leaves none when
  the terminal is no higher than the editor and two lines, and nothing is shown
  in a window without lines.
- Argument: the view is what the filter leaves of the list only if a message
  is considered once. So the invariant says that queued and listed messages are
  disjoint, that none is queued twice, and that ids are the numbers given so
  far. The list need not be sorted for it, which it is not after an admin
  message. For the redraw: `stale` implies a request, and each handler that
  makes it so asks in the same step, whatever the hooks have run.
- The binary searches: `IndexIsExact` and `NearestIsExact`, for growing lists of
  any length. The probes are a function on ranges of positions; `StaysAround`
  says that what is left out of a range is less, or more, than the target,
  `StopsWell` what that means where the search ends. `owl_view_get_nearest_to_msgid`
  compares with the next message only if `mid + 1 < max`, which looks like one
  too few. It is right: a search never ends at the last position but one below
  its target, as it would go on to the last.
- The scroll modes: `ScrollingShowsCurrent` and `PagesAreKept`, for views and
  windows of any height. `Sums` are the lines before each position, so that the
  lines between two are a difference, and grow; each mode has a lemma
  (`CenterIsSeen`, `PagedIsSeen`, `ScrolledUpIsSeen`, ...). A top below which
  everything up to the current message fits shows it (`FittingIsSeen`).
- The cursor: `Outcome` says what a step of the program may do to it: the top
  is calculated from where it is now; cursor and top stay and at most one
  message is added at the end; it goes past the end; or it goes to the first
  message with the top. `CursorStep` shows that every action does one of these,
  `ScreenStep` that each shows the current message. The one case left out in
  `CurmsgStaysOnScreen` is the one where the argument fails: a cursor past the
  end, with the top on it or above, under which a message arrives.
  `CursorStaysPut` is `NearestIsExact` at each place that puts the cursor.

`InterfaceProofs`, second part, for any lines, file, tree of windows, keymaps, settings and
number of commands:

- `NoLineIsLost` (`LinesSurvive`): wherever the client dies and whichever call
  fails, each line that is to stay is in the file or in its backup.
- Assumption: the mark of a file that does not exist is not itself a line.
- Argument: `FileInv` says what the three files have at each step of a command.
  The step that matters is the link of the backup: it is made before the
  rename, while the file itself is still whole.

- `NoRedrawIsLost` (`MarksLeadTheRedraw`), for any tree of windows, with
  handlers that dirty windows in the middle of a pass. Assumptions: each window
  but the screen is a child of one other, and the way up from each ends at the
  screen, which is what `_owl_window_link` makes.
- Argument: what a window is in, `Above`, is the least set closed under the
  parent, so that facts on the way up need no induction: a set that has the
  window and the parents of its members has all of `Above`. The lemmas on the
  tree say that there is one way up and that it never comes back. The marks go
  up only as far as they are not set, so `RequestIsFound` is not inductive: the
  invariant (`FlagsInv`) says of each marked window, in a realized one, that
  the latter is marked too, and of each that could be realized and is not that
  it is dirty, also in the middle of a pass. `HandlerInv` is why a handler that
  returns may take its window for clean. Each operation has a lemma about the
  flags (`DirtyMarks`, `RealizeKeeps`, `UnrealizeKeeps`), each action one that
  cites it.

- `ContextsServe` (`ContextsServeKeys`) and `KeysCloseOnce` (`OneEditPerKey`),
  for any keymaps that keep to their contexts and a history of any size.
- Assumptions: `ContextAssumption` says that the bounds are numbers.
  `KeymapAssumption` says what `owl_keys_setup_keymaps` sees to, and a user's
  `bindkey` may undo: a chain of keymaps ends; no keymap binds a command of
  another context; C-c leaves an editor and the viewer and begins no longer
  sequence there. Without it a `popless:quit` bound in an editor would pop the
  wrong context, or C-c wait for another key. The hypothesis `~NestedEdits`
  leaves out the script that opens an editor while the typing window has one:
  `owl_global_set_typwin_active` puts the new one in its place without letting
  go of the former (`global.c:318`), and with `NestedEdits` TRUE TLC finds
  `ContextsServeKeys` violated. The run makes the same assumption.
- Argument: a key is a long way through the code, so each function on that way
  has a lemma of what it leaves. They speak of `Sound(s, held, open)`: the stack
  has its shape, down to the message list, with each editor that is in the
  typing window or under the viewer on it once (`Shaped`); each editor is
  referred to by just these places, and by whoever is closing it (`held`), and
  has been closed unless it is in one of them or its callback is still to come
  (`Edited`, `open`); what was typed is the last line of the history that is
  browsed (`Browsed`); histories are tidy and bounded (`HistoryKept`). Between
  two keys nobody holds an editor: `Sound(ui, NoEdit, NoEdit)` is the invariant,
  with the fact that waiting keys lead to a binding of the active keymap
  (`KeysLead`), which is lost if a context changes and the keys are not
  forgotten (`owl_keyhandler_activate`). `PlacesAreCounted` turns the shape into
  the number of references, and `FittingKeys` the assumption into the way out.
- `SettingsAreKept` (`SettingsKeepTheirWord`), on a terminal of any height and
  for any number of settings, taken or refused. Assumptions: the terminal has
  more than two lines, as `mainpanel.c:34` would otherwise give the typing window
  none, and the typing windows that are opened have fewer than ten, so that
  their sizes are among the numerals of the model (`Numerals`). The words that
  are set are the model's; they have one of each way `strtol` and the tables of
  words take or refuse a text.
- Argument: `Kept` says that each setting has a value of its kind and that
  everything which follows a setting agrees with it; of the windows, that laying
  them out again would change nothing (`LaidOut`), which is more than the sum of
  their lines that the property speaks of, and what undoing needs. `ValueIsSet`
  shows it for each setting's own function, `ExposureIsSet` for the one that may
  be refused by a server. `PrintedIsRead` says of each kind that parsing undoes
  printing; with `SetAgain`, that a value that is there already changes nothing,
  it makes what is printed what can be set again.

`NetworksProofs`, for any people, subscriptions, channels and buddies:

- `NoAnswerIsAnswered` (`AnswersAreNotAnswered`) and `MarksAreKept`, without
  assumptions. The two marks of Zephyr (signature, opcode) and the one of AIM
  (TLV 4) are written by one client and read by another. The invariant says of
  each message underway that it bears a mark exactly when it is an answer to a
  message that is none, and of each queued one that the queue took the mark
  over. `ZephyrForms` and `SendImForms` show it of what is made,
  `AnswersAreMessages` that only unmarked messages give rise to answers.
- `SubscriptionsKept` (`SubscriptionsAreKept`). Assumption: files consist
  of lines of the four kinds there are. The invariant adds, while Zephyr has not answered
  yet, that what will be asked for of the deferred requests is what the user
  was told, and of the file that it is one of such lines.
- `IrcStaysOrderly` (`IrcIsOrderly`). Assumption: there are finitely many
  channels. The timer is set by a loss, or by a ping that went unanswered, and
  making a connection ends it: pending beside a registered connection, it is that
  connection's own (`lapsed`). The invariant has the timer and the interval together, and that the
  names that were gathered, and those still on the way, come in groups of one
  channel each, unless a loss or a second request tore them apart.
- `SessionsAreServed` (`SessionIsServed`, a part of `AimIsServed`), without
  assumptions, of `AimSafetySpec`: no fairness is needed. The buddy list is not yet what the server says: frames are on the
  way. `LeadsToOnline` says of each buddy that the last of the frames still to
  be read about him tells how he is, and with none left the list is right about
  him, unless the connection has moved. `SessionOf` adds what connections there
  can be: one to the authorizer and no buddies, or at most one to the main
  server.
- `BuddiesAreAskedInTurn` (`EachIsAskedInTurn`, a part of `AimIsServed`).
  Assumption: the bound is a number, which the proof never uses.
  That all who came online are answered or queued is not inductive: an error
  is understood through the cache of requests, and an answer frees the way for
  the next one whomever it is about. `LocateInv` adds that one thing at most is
  underway, a request or its answer, that it is about the one who was asked
  about, and that what is found in the cache under its number is that request.
  The numbers of requests grow, so that no other entry has it.
- `FramesStayInOrder` (`FramesArriveInOrder`, a part of `ShownOnceAndInOrder`),
  for any connections, killed and broken beside each other, and numbers that
  wrap anywhere. Assumption: there is at least one number. That what has arrived
  is in order is not inductive, as a frame may be kept waiting while its
  connection is being made. The invariant says of each connection that what has
  arrived and what waits in the one queue for all, taken together, are the
  numbers it was given: all wait while it is being made, none does afterwards,
  and of one that broke an initial part has arrived. `OneMore` is the step that
  numbers a frame, `FlushKeepsOrder` the one that sends what waited; that a
  flush of one connection leaves the frames of the others where they are is
  `OnlyTwice` of `SubsequencesProofs`.
- `SilentChecksStaySilent` (`SilentChecksAreSilent`, a part of
  `ShownOnceAndInOrder`). Assumption: the number of notices that are read at once
  is a number. There is one flag for all checks, and answers of earlier ones are
  late: the invariant says that whatever is underway of a buddy who is still
  listed as asked for was asked for by the last check, so that it is as loud as
  the flag. A new check forgets the former one's list, so that a late answer to
  that is passed over.

`SourcesProofs`, for any number of tweets, posts and polls, of accounts, rooms,
connections, contacts and groups:

- `TweetsStayInOrder` (`TweetsAreShownOnce`). The invariant adds that what was
  shown counts as seen, that what is taken does not, and that of the timeline,
  between the two requests of a poll, all is taken that came before the first.
- `PostsStayInOrder` (`PostsAreShownOnce`). An answer is the wall as it was when
  Facebook was asked, however late it comes. Times have the grain of a second, so
  the invariant has to say what an answer lacks: entries later than those it has,
  or written in a second in which Facebook was asked, which `late` marks.
- `JabberStaysOrderly` (`JabberIsOrderly`). Assumption: there are finitely many
  accounts. A number is given out again once its socket is closed, and what was
  kept of the old one may take away the dispatch of another account. So the
  invariant is about the whole table, `TableIsSound`: a dispatch leads to an
  account that is connected on that number and no other; an account that is not
  connected holds no socket, which is why a number is free when one is needed
  (`FreeFd`: no injection of the numbers into the other accounts); what is
  broken is connected still. One step of the code may change many accounts, in
  the order of a hash: `RemovingPasses`, `TryingPasses` and `ProcessingPasses`
  carry the invariant through the loop for every order, by `RunsExist` and
  `RunStays` of `SubsequencesProofs`. Of the prompt it adds that whose password
  is asked for is not logged in, and that `havepass` outlives a prompt only
  after one was cancelled.
- `RostersAgree` (`RostersAreCurrent`, `GroupsAreKept`,
  `QuestionsAreAnsweredOnce`). Assumptions: finitely many connections and
  contacts, and no JID is empty. Neither a copy nor what waits to be read says
  what the server has; together they do. `BecomesRoster` says how, contact by
  contact: the last thing that waits of a contact is how the server has it, and
  of whom nothing waits the copy agrees. `ChangeIsTold` keeps it when a change is
  appended for every connection, `ReadingTakesIn` when the first is read, and
  with nothing waiting it says that the two are the same (`NothingWaits`), from
  which no group is dropped. `OneAnswers` is the lemma about the lookup of an
  account: it finds one or none, and the one that was asked if it is logged in
  once.
- `AllIsShownOnce` (`ShownOnceAndInOrder`) and `JabberStaysServed`
  (`JabberIsServed`), properties of the run. They rest on the theorems about
  their parts: a step of the composition is one of each machine or leaves it
  alone (`SourcesTakeTurns`), so that each machine's theorem holds of any run of
  all of them.
- `AimStaysServed` (`AimIsServed`), likewise, from `SessionsAreServed`, `SsiSafe` and
  `BuddiesAreAskedInTurn`, with the hypothesis of the second.

`SsiProofs`, the buddy list that the AIM server keeps (`Ssi`), for any list to
begin with, any names, refusals, logins and edits:

- `SsiSafe` (`CopiesAreExact`, a part of `AimIsServed`). Assumptions
  (`SsiAssumption`): names are strings; the server's list is in the order of its
  numbers, has each once, and only groups have no number within their group. The
  hypothesis `~Impatient` says that edits, of the user and of another client, are
  made when those before have been answered. Without it the statement is false:
  that is the run `ssi`. The other client adds
  nothing to a list without a master group, since a permit would get the number
  that the group is made under.
- Argument: a session goes through phases (`Phase`). It asks for rights and for
  the list in a fixed order, and what is underway, one thing after the other, tells
  how far it is (`StillLoading`); a list that comes in parts is put in item by
  item, and as it is in order, so is what is put in, and equal to what was sent.
  Then it is `Idle`: both copies have the contents of the server's list. An edit
  is made of copies that are equal, so that what `aim_ssi_sync` finds to send is
  what the edit changed (`EditAsked`); the server takes some of it and refuses the
  rest; the answers lead the official copy to what the server made of it, and the
  local copy back where it was refused (`EditAnswered`), whereupon the next
  kind of change is sent or none is left. What the other client does arrives as a
  message of its own (`ChangeTold`). Addresses (`ref`) differ between the copies
  and are given out again, so the lemmas speak of contents; those named
  `ContentsOf...` say that each operation on a list does to the contents what it
  does to the list. Lists that are built one item after the other are recursive
  functions (`PutAll`, `ApplyAll`), which `RunsExist` covers.

Beyond the prover:

- Liveness: `ArrivalsAreShown`, `SignalsAreServed`, `RedrawEnds`,
  `ChildrenAreServed`, `ListsSettle`, `LossesAreServed`, `QuitExits`.
- What `RECURSIVE` operators compute for every input: `WrittenIsReadBack`,
  `TablesKeepTheirWord`, `TextIsShownExactly` and `ConversationsStayTogether`
  are about parsers and encoders, which `FilterSyntax`, `Commands`, `Fmtext`,
  `EditWin`, `AimMessages`, `Tlvs` and `Zcrypt` define by recursion or by folds;
  so are `EditorIsSound`, the filling of lines, and `FilterTablesAreSound`,
  which depends on the parser.
- `PositionsAreExact` as a property of a run: its four parts are the theorems
  `IndexIsExact`, `NearestIsExact`, `ScrollingShowsCurrent` and `PagesAreKept`
  about the operators, for every input; the run's machine is in a module that
  uses the parsers.

## Where the code disagrees with its own texts

Each is a run that TLC must find violated, and an entry under `findings`.

1. `delete_narrowed`: delete-and-expunge of the current message removes another
   message when the view is narrowed. `functions.c:685` passes a position in the
   view to a function that takes a position in the list.
2. `delete_past_end`: `delete` with the cursor past the end reads outside of the
   view's array (`functions.c:706`).
3. `quit_at_startup`: `quit` in the startup file runs the shutdown hooks, and
   the program starts its main loop all the same (`select.c:17`).
4. `ssi`: a buddy added before the server offers its buddy-list service is never
   sent, nor is any later edit of that session (`libfaim/ssi.c:457`).
5. `aim`: once the main connection has been killed no descriptor is polled, so
   nobody notices, and the client stays logged in (`aim.c:1818`).
6. `irc`: after a reconnection no channel is joined again, since the list is
   read from the wrong object (`IRC/Connection.pm:460`).

Also met while modelling, but contradicting no text of the repository clearly
enough to be kept as runs:

- messages: a listed message that the search by id misses after an admin
  message (`functions.c:202`); `delete --no-move` that asks for no redraw
  (`functions.c:706`); a vertical offset kept when a message becomes shorter
  (`functions.c:3347`); following the last message out of a narrowed view
  (`owl.c:263`); a hook that expunges the message it is told of (`owl.c:180`);
  a style redefined while its texts are cached (`global.c:762`);
- editing: a lone character wrapped to a line of its own (`editwin.c:1339`);
  browsing a full history loses its oldest line (`history.c`); the callback of
  an editor that opens another one (`global.c:342`); a viewwin's `bottom` above
  the first line of a short text (`viewwin.c`);
- filters: the field of a condition is printed without quotes, names and regular
  expressions with them (`filterelement.c:142`), so that a filter on a field with
  a blank in its name is shown, returned and compared as another;
- settings and files: changing `typewindelta` while typing makes the size drift
  (`global.c:307`); the exposure stays set after `zlog out`; write errors of the
  startup file are not looked at (`util.c:500`); `startup` compares without
  regard to case;
- children: closing a pop-up waits for a child that ignores SIGTERM
  (`popexec.c:167`); the last line of an output without a newline is not
  shown; encrypted text above the size of the buffer is cut (`zcrypt.c:598`);
- Zephyr and AIM: a failed initialisation is never tried again
  (`zephyr.c:100`); an error about a buddy that comes when its request has been
  cleaned from the cache, or no answer at all, and nobody else is asked about
  in that session (`libfaim/locate.c:830`; `snac.c:9` wants it handled);
  `aim_putuserinfo` writes the date of membership in the field that
  `aim_info_extract` reads as the date of creation (`libfaim/locate.c:786`);
  entities are put in one after the other, so that `&amp;quot;` becomes a
  quotation mark (`text.c:108`), and typed markup goes out as markup
  (`aim.c:255`); AIM messages are answered with the Zephyr away message
  (`owl.c:189`); a second login while one is underway forgets a timer
  (`aim.c:184`); a partial frame blocks the client (`libfaim/rxqueue.c`);
- Perl modules: an IRC server that answers again after a ping timeout is
  disconnected when the timer fires (`IRC/Connection.pm:449`); private messages of IRC are all logged in a file `unknown`, those
  from a Jabber room's occupants in `weird` (`logging.c:363`); a
  tweet between two requests and a Facebook post of the same second are missed
  (`Twitter/Handle.pm:263`, `Facebook/Handle.pm`); a question of Jabber that is
  marked as answered though its command failed (`commands.c:2746`); groups of a
  contact taken from a copy that is behind (`Jabber.pm:929`).

## What is not modelled

- The AIM families that BarnOwl does not use (`ft.c`, `chatnav.c`, ICQ and the
  rendezvous channel of `im.c`), `oscar.c`, which is not built, and the handshake
  of a login in `auth.c` and `service.c`: `AimSession` has its outcome.
- Wrapping of lines in `text.c`, which is layout.
- Search and chat rooms of AIM; whois and lists of IRC;
  registration, room configuration and short names of contacts of Jabber; posting to Twitter and
  Facebook, and answers of theirs that are cut at a number of posts.
- The Perl interpreter and its glue: a hook is any sequence of commands.
- Wording, colours, help texts, the names of key codes, the layout of pop-ups,
  `errqueue.c`, completion, UTF-8 itself.
- Option parsing and the setting up of curses at startup.
- The bell.

## The plan

Done: the message list, view and cache; the threads; windows; child processes;
filters; keys, contexts and editors; commands and settings; the startup file;
conversations; every protocol's session and its timers; AIM messages;
encryption and TLVs. Proved: what the section above lists.

Next are theorems, in this order; a module for a new one joins an existing
module of proofs.

1. `MainLoop`: `SignalsAreServed`'s safety part, that both threads are joined.
2. `Ssi`: what of `CopiesAreExact` is left when edits are made at any time after
   the list has come.

Worth adding to the models: the handshake of an AIM login; errors that make admin messages whose formatting
makes errors (`functions.c:3398`); styles redefined while in use.

## How to run it

In this directory, `tlc -config MCSources.cfg MCSources.tla` checks a run (the
names are in `PROJECT.json`), `tlapm ChildrenProofs.tla` the proofs of a module.
The longest runs take about two minutes with two workers.
