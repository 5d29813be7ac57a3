---- MODULE MCMessageView ----
(* Instances of MessageView.  Kinds differ in what the filters see, and in *)
(* the lines a message takes in each layout (a width and a style).         *)
EXTENDS MessageView

KindOf(class, ignored, lines) == [class |-> class, ignored |-> ignored, lines |-> lines]
FilterOf(classes, undeleted) == [classes |-> classes, undeleted |-> undeleted]
WindowOf(win, layout) == [win |-> win, layout |-> layout]

All       == FilterOf({"help", "sipb"}, FALSE)
Help      == FilterOf({"help"}, FALSE)
Undeleted == FilterOf({"help", "sipb"}, TRUE)
OneWindow == {WindowOf(2, 1)}

(* The life of messages: of two classes, they arrive, queued or as admin   *)
(* messages, are narrowed to, deleted and expunged, by the user and from   *)
(* hooks; one filter leaves out what is marked deleted.                    *)
LifeKinds    == {KindOf("help", FALSE, <<1>>), KindOf("sipb", FALSE, <<1>>)}
LifeFilters  == {Help, Undeleted}
LifeCommands == {"enqueue", "adminmsg", "prev", "last", "delete",
                 "undelete", "expunge", "deleteexpungebyid", "filter"}

(* Scrolling: messages of one line or of several, in windows of two sizes. *)
ScrollKinds    == {KindOf("help", FALSE, <<1, 2>>), KindOf("help", FALSE, <<5, 3>>)}
ScrollFilters  == {Help}
ScrollWindows  == {WindowOf(4, 1), WindowOf(2, 1), WindowOf(4, 2)}
ScrollCommands == {"enqueue", "next", "prev", "first", "last", "page", "scroll", "style",
                   "resize", "set", "search"}

(* Progress: what arrives, is punted, shown, removed, on fewer messages.   *)
ProgressKinds    == {KindOf("help", FALSE, <<1>>), KindOf("sipb", FALSE, <<3>>),
                     KindOf("sipb", TRUE, <<1>>)}
ProgressFilters  == {All, Help}
ProgressCommands == {"enqueue", "adminmsg", "last", "scroll", "mark", "delete", "expunge",
                     "deleteexpungecur", "deleteview", "deletebyid", "filter"}
====
