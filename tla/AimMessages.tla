----------------------------- MODULE AimMessages -----------------------------
(***************************************************************************)
(* Instant messages, and what the AIM server tells of users, as the bytes  *)
(* they are sent in and read from (aim.c, im.c, locate.c).  A number takes *)
(* as many bytes as in the code, of which the last holds it: what 16 bits  *)
(* do not hold is the matter of Tlvs.  Text is made of code points.  The   *)
(* server, which passes on what it is sent, is external.                   *)
(***************************************************************************)
EXTENDS Integers, Sequences, SequencesExt

CONSTANTS
  MAXMSGLEN,  \* the longest message, plus one: 7987
  MaxAway     \* what an away message is cut at: 500

Word(n) == <<0, n>>
Long32(n) == <<0, 0, 0, n>>
ByteAt(bs, i) == IF i \in DOMAIN bs THEN bs[i] ELSE 0
WordAt(bs, i) == ByteAt(bs, i + 1)
LongAt(bs, i) == ByteAt(bs, i + 3)
Part(bs, first, last) == SubSeq(bs, first, IF last > Len(bs) THEN Len(bs) ELSE last)
Raw(bs, n)  == Part(bs, 1, n)
Past(bs, n) == Part(bs, n + 1, Len(bs))
When(said, bs) == IF said THEN bs ELSE <<>>

Field(type, value) == Word(type) \o Word(Len(value)) \o value
FieldValue(bs) == Raw(Past(bs, 4), WordAt(bs, 3))
BehindField(bs) == Past(bs, 4 + WordAt(bs, 3))

(* The first field of a type in a chain of them: there or not.             *)
RECURSIVE FieldOf(_, _)
FieldOf(bs, type) ==
  CASE bs = <<>> -> <<>>
    [] bs # <<>> /\ WordAt(bs, 1) = type -> <<FieldValue(bs)>>
    [] OTHER -> FieldOf(BehindField(bs), type)

-----------------------------------------------------------------------------
(* The text of a message (aim.c, text.c).                                  *)
ASCII == 0
UNICODE == 2
ISO_8859_1 == 3

(* owl_aim_do_send: "UNICODE" is UCS-2BE, which has no code points beyond  *)
(* 16 bits.                                                                *)
CanEncode(text, charset) ==
  \A i \in DOMAIN text : text[i] < IF charset = ISO_8859_1 THEN 256 ELSE 65536
CharsetFor(text) ==
  IF CanEncode(text, ISO_8859_1) THEN <<ISO_8859_1>>
  ELSE IF CanEncode(text, UNICODE) THEN <<UNICODE>> ELSE <<>>
Encoded(text, charset) ==
  IF charset = UNICODE THEN FlattenSeq([i \in DOMAIN text |-> Word(text[i])]) ELSE text
Decoded(data, charset) ==
  IF charset = UNICODE THEN [i \in 1 .. Len(data) \div 2 |-> data[2 * i]] ELSE data

(* owl_text_htmlstrip, for text in which a word that markup is made of is  *)
(* one code point: "br", "font" for all tags that are dropped, and what    *)
(* follows the "&" of an entity.                                           *)
Lt == 60
Gt == 62
Amp == 38
Br == 200
Font == 201
AmpWord == 204
Entities == <<<<202, <<Lt>>>>, <<203, <<Gt>>>>, <<AmpWord, <<Amp>>>>, <<205, <<34>>>>, <<206, <<32>>>>>>
NewlineChar == 10

RECURSIVE StripTags(_), SubstituteText(_, _, _)
StripTags(text) ==
  LET open  == SelectInSeq(text, LAMBDA c : c = Lt)
      close == SelectInSeq(Past(text, open), LAMBDA c : c = Gt) + open
      tag   == Part(text, open, close)
      shown == CASE tag[2] = Font -> <<>>
                 [] tag = <<Lt, Br, Gt>> -> <<NewlineChar>>
                 [] OTHER -> tag
  IN  IF open = 0 \/ close = open THEN text
      ELSE Raw(text, open - 1) \o shown \o StripTags(Past(text, close))

SubstituteText(text, from, to) ==
  CASE Len(text) < Len(from) -> text
    [] Len(text) >= Len(from) /\ Raw(text, Len(from)) = from ->
         to \o SubstituteText(Past(text, Len(from)), from, to)
    [] OTHER -> <<Head(text)>> \o SubstituteText(Tail(text), from, to)

(* The entities one after the other.                                       *)
HtmlStrip(text) ==
  FoldLeft(LAMBDA t, e : SubstituteText(t, <<Amp, e[1]>>, e[2]), StripTags(text), Entities)

-----------------------------------------------------------------------------
(* Messages of channel 1 (im.c).                                           *)
Section(charset, charsubset, data) ==
  [charset |-> charset, charsubset |-> charsubset, data |-> data]
NoIcon == [len |-> 0, sum |-> 0, stamp |-> 0]

(* struct aim_sendimext_args; a multipart message has sections, else there *)
(* is one, of the text given.                                              *)
SendArgs(destsn, flags, sections, features, icon) ==
  [destsn |-> destsn, flags |-> flags, sections |-> sections, features |-> features, icon |-> icon]

(* aim_mpmsg_addascii and aim_mpmsg_addunicode.                            *)
AddAscii(sections, text)   == Append(sections, Section(ASCII, 0, text))
AddUnicode(sections, text) == Append(sections, Section(UNICODE, 0, Encoded(text, UNICODE)))

FeaturesSent(args) == IF "customfeatures" \in args.flags THEN args.features ELSE <<1, 1, 1, 2>>

SendRefused(args) ==
  IF "multipart" \in args.flags THEN args.sections = <<>>
  ELSE LET length == Len(args.sections[1].data) IN length = 0 \/ length >= MAXMSGLEN

(* A mutant: the character sets are not counted.                           *)
MsgTlvLenOfTexts(args) ==
  FoldLeft(LAMBDA n, sec : n + 4 + Len(sec.data), 4 + Len(FeaturesSent(args)), args.sections)

(* "Painfully calculate the size of the message TLV".                      *)
MsgTlvLen(args) ==
  FoldLeft(LAMBDA n, sec : n + 8 + Len(sec.data), 4 + Len(FeaturesSent(args)), args.sections)

SectionBytes(sec) ==
  Word(257) \o Word(Len(sec.data) + 4) \o Word(sec.charset) \o Word(sec.charsubset) \o sec.data

(* An answer does not ask for an acknowledgement.                          *)
FlagFields(args) ==
  CASE "away" \in args.flags -> Field(4, <<>>)
    [] "away" \notin args.flags /\ "ack" \in args.flags -> Field(3, <<>>)
    [] OTHER -> <<>>

PutIcbm(cookie, channel, sn) == cookie \o Word(channel) \o <<Len(sn)>> \o sn
Cookie == [i \in 1 .. 8 |-> 7]

(* What aim_im_sendch1_ext puts behind the address: the message block, the *)
(* length of which it has calculated before, then the flags.               *)
MessageFields(args) ==
  Word(2) \o Word(MsgTlvLen(args))
    \o Word(1281) \o Word(Len(FeaturesSent(args))) \o FeaturesSent(args)
    \o FlattenSeq([i \in DOMAIN args.sections |-> SectionBytes(args.sections[i])])
    \o FlagFields(args)
    \o When("offline" \in args.flags, Field(6, <<>>))
    \o When("hasicon" \in args.flags,
            Word(8) \o Word(12) \o Long32(args.icon.len) \o Word(1) \o Word(args.icon.sum)
              \o Long32(args.icon.stamp))
    \o When("buddyreq" \in args.flags, Field(9, <<>>))

SendCh1Ext(args) ==
  IF SendRefused(args) THEN <<>> ELSE PutIcbm(Cookie, 1, args.destsn) \o MessageFields(args)

(* aim_im_sendch1: what needs more arguments is not asked for by accident. *)
SendCh1(destsn, flags, text) ==
  SendCh1Ext(SendArgs(destsn, flags \ {"customfeatures", "hasicon", "multipart"},
                      <<Section(ASCII, 0, text)>>, <<>>, NoIcon))

(* owl_aim_do_send: a text that cannot be encoded is not sent.             *)
DoSend(to, text, flags) ==
  LET charset == CharsetFor(text) IN
  IF charset = <<>> THEN <<>>
  ELSE SendCh1Ext(SendArgs(to, flags, <<Section(charset[1], 0, Encoded(text, charset[1]))>>,
                           <<>>, NoIcon))

(* incomingim_ch1_parsemsgs: the sections, whatever they are.              *)
RECURSIVE SectionsIn(_)
SectionsIn(bs) ==
  IF bs = <<>> THEN <<>>
  ELSE <<Section(WordAt(bs, 5), WordAt(bs, 7), Part(bs, 9, 4 + WordAt(bs, 3)))>>
         \o SectionsIn(Past(bs, 4 + WordAt(bs, 3)))

(* A mutant: the first section, whatever its character set.                *)
FirstSection(sections) == IF sections = <<>> THEN <<>> ELSE <<sections[1]>>

(* "Pick the first human-readable section": ASCII before ISO-8859-1 before *)
(* UNICODE.                                                                *)
ChosenSection(sections) ==
  LET of(charset)  == SelectSeq(sections, LAMBDA sec : sec.charset = charset)
      inOrder == of(ASCII) \o of(ISO_8859_1) \o of(UNICODE)
  IN  IF inOrder = <<>> THEN <<>> ELSE <<inOrder[1]>>

SectionFlags(sec) ==
  (IF sec.charset = UNICODE THEN {"unicode"} ELSE IF sec.charset = ISO_8859_1 THEN {"iso_8859_1"} ELSE {})
    \cup (IF sec.charsubset = 11 THEN {"macintosh"} ELSE {})

IncomingArgs0 ==
  [flags |-> {}, features |-> <<>>, sections |-> <<>>, msg |-> <<>>, icon |-> NoIcon, extdata |-> <<>>]

ParseMsgs(args, value) ==
  LET flen == WordAt(value, 3)
      sections == args.sections \o SectionsIn(Past(value, 4 + flen))
      chosen == ChosenSection(sections)
  IN  [args EXCEPT !.features = Part(value, 5, 4 + flen), !.sections = sections, !.msg = chosen,
                   !.flags = @ \cup {"customfeatures", "multipart"}
                               \cup (IF chosen = <<>> THEN {} ELSE SectionFlags(chosen[1]))]

(* incomingim_ch1: one field after the other, each read to the end that    *)
(* its length gives it.                                                    *)
FlagOf(type) ==
  CASE type = 3 -> {"ack"} [] type = 4 -> {"away"} [] type = 6 -> {"offline"}
    [] type = 9 -> {"buddyreq"} [] type = 11 -> {"typingnot"} [] OTHER -> {}

WithField(args, type, value) ==
  CASE type = 2 -> ParseMsgs(args, value)
    [] type = 8 -> [args EXCEPT !.icon = [len |-> LongAt(value, 1), sum |-> WordAt(value, 7),
                                          stamp |-> LongAt(value, 9)],
                                !.flags = @ \cup IF LongAt(value, 1) # 0 THEN {"hasicon"} ELSE {}]
    [] type = 23 -> [args EXCEPT !.extdata = value]
    [] OTHER -> [args EXCEPT !.flags = @ \cup FlagOf(type)]

RECURSIVE IncomingCh1(_, _)
IncomingCh1(bs, args) ==
  IF bs = <<>> THEN args
  ELSE IncomingCh1(BehindField(bs), WithField(args, WordAt(bs, 1), FieldValue(bs)))

(* faimtest_parse_incoming_im_chan1, but for the width of the lines.       *)
ShownIm(args) ==
  [text |-> IF args.msg = <<>> THEN <<>>
            ELSE HtmlStrip(Decoded(args.msg[1].data, IF "unicode" \in args.flags THEN UNICODE ELSE ASCII)),
   isauto |-> "away" \in args.flags]

(* outgoingim, of the copy of a message that a server might send back: its *)
(* first section.                                                          *)
OutgoingIm(bs) ==
  LET fields == Past(bs, 11 + ByteAt(bs, 11))
      block  == FieldOf(fields, 2)
      text   == Past(block[1], 4 + WordAt(block[1], 3))
  IN  IF WordAt(bs, 9) # 1 THEN <<"ignored">>
      ELSE <<Part(bs, 12, 11 + ByteAt(bs, 11)),
             IF block = <<>> THEN <<>> ELSE Part(text, 9, 4 + WordAt(text, 3)),
             {f \in {"ack", "away"} : FieldOf(fields, IF f = "ack" THEN 3 ELSE 4) # <<>>}>>

-----------------------------------------------------------------------------
(* What is told of users (locate.c).  A capability is 16 bytes, of which   *)
(* the third and fourth are its short form; the table has CapTable, and    *)
(* there are others.                                                       *)
CapTable == <<"chat", "sendfile">>
CapBytes   == [i \in DOMAIN CapTable |-> [k \in 1 .. 16 |-> IF k = 4 THEN i ELSE 9]]
ShortBytes == [i \in DOMAIN CapTable |-> <<9, i>>]

GetCaps(bs, bytes, size) ==
  {CapTable[i] : i \in {c \in DOMAIN CapTable :
     \E k \in 1 .. Len(bs) \div size : Part(bs, size * (k - 1) + 1, size * k) = bytes[c]}}
PutCap(caps) ==
  FlattenSeq([i \in DOMAIN CapTable |-> When(CapTable[i] \in caps, CapBytes[i])])

(* aim_userinfo_t; present says what has been told.  Away and profile come *)
(* in a reply only.                                                        *)
NoInfo(sn) ==
  [sn |-> sn, warnlevel |-> 0, present |-> {}, flags |-> 0, createtime |-> 0, membersince |-> 0,
   onlinesince |-> 0, idletime |-> 0, status |-> 0, ipaddr |-> 0, sessionlen |-> 0,
   capabilities |-> {}, iconcsum |-> <<>>, avail |-> <<>>, info |-> <<>>, away |-> <<>>]
AOL == 4

(* The entries of a field of type 0x1d, up to the end of the field: the    *)
(* checksum of an icon and the message of who is available.                *)
RECURSIVE WithIconData(_, _)
WithIconData(info, bs) ==
  IF bs = <<>> THEN info
  ELSE LET kind == WordAt(bs, 1)  number == ByteAt(bs, 3)  len == ByteAt(bs, 4)
           value == Part(bs, 5, 4 + len)
       IN  WithIconData(
             CASE kind = 1 /\ number = 1 /\ len > 0 -> [info EXCEPT !.iconcsum = value]
               [] kind = 2 /\ len > 4 -> [info EXCEPT !.avail = Part(value, 3, 2 + WordAt(value, 1))]
               [] OTHER -> info,
             Past(bs, 4 + len))

Told(info, part) == [info EXCEPT !.present = @ \cup {part}]

WithInfoField(info, type, value) ==
  CASE type = 1 -> Told([info EXCEPT !.flags = WordAt(value, 1)], "flags")
    [] type = 2 -> Told([info EXCEPT !.createtime = LongAt(value, 1)], "createtime")
    [] type = 3 -> Told([info EXCEPT !.onlinesince = LongAt(value, 1)], "onlinesince")
    [] type = 4 -> Told([info EXCEPT !.idletime = WordAt(value, 1)], "idletime")
    [] type = 5 -> Told([info EXCEPT !.membersince = LongAt(value, 1)], "membersince")
    [] type = 6 -> Told([info EXCEPT !.status = WordAt(value, 3)], "status")
    [] type = 10 -> Told([info EXCEPT !.ipaddr = LongAt(value, 1)], "ipaddr")
    [] type = 12 -> Told(info, "icqdata")
    [] type = 13 -> Told([info EXCEPT !.capabilities = @ \cup GetCaps(value, CapBytes, 16)], "capabilities")
    [] type \in {15, 16} -> Told([info EXCEPT !.sessionlen = LongAt(value, 1)], "sessionlen")
    [] type = 25 -> Told([info EXCEPT !.capabilities = @ \cup GetCaps(value, ShortBytes, 2)], "capabilities")
    [] type = 29 -> WithIconData(info, value)
    [] OTHER -> info

(* A mutant: a field that is not known is taken for an empty one.          *)
BehindKnownField(bs) == Past(bs, 4 + IF WordAt(bs, 1) < 30 THEN WordAt(bs, 3) ELSE 0)

(* "Save ourselves": the next field is where the length of this one says.  *)
BehindInfoField(bs) == BehindField(bs)

RECURSIVE InfoFields(_, _, _)
InfoFields(bs, count, info) ==
  IF count = 0 THEN [info |-> info, rest |-> bs]
  ELSE InfoFields(BehindInfoField(bs), count - 1, WithInfoField(info, WordAt(bs, 1), FieldValue(bs)))

(* aim_info_extract, as far as the stream goes.                            *)
InfoExtract(bs) ==
  LET named == Past(bs, 1 + ByteAt(bs, 1)) IN
  InfoFields(Past(named, 4), WordAt(named, 3),
             [NoInfo(Part(bs, 2, 1 + ByteAt(bs, 1))) EXCEPT !.warnlevel = WordAt(named, 1)])

(* aim_putuserinfo: who is a member since when is written as the time the  *)
(* account was created.                                                    *)
InfoFieldsOf(info) ==
  LET has(part) == part \in info.present IN
  SelectSeq(<<When(has("flags"), Field(1, Word(info.flags))),
              When(has("membersince"), Field(2, Long32(info.membersince))),
              When(has("onlinesince"), Field(3, Long32(info.onlinesince))),
              When(has("idletime"), Field(4, Word(info.idletime))),
              When(has("capabilities") /\ info.capabilities # {}, Field(13, PutCap(info.capabilities))),
              When(has("sessionlen"), Field(IF info.flags = AOL THEN 16 ELSE 15, Long32(info.sessionlen)))>>,
            LAMBDA field : field # <<>>)
PutInfo(info, more) ==
  LET fields == InfoFieldsOf(info) \o more IN
  <<Len(info.sn)>> \o info.sn \o Word(info.warnlevel) \o Word(Len(fields)) \o FlattenSeq(fields)

(* aim_locate_adduserinfo: what is kept of a user, of whom infos were      *)
(* known.                                                                  *)
Newer(old, new, none) == IF new = none THEN old ELSE new
AddUserinfo(old, new) ==
  [new EXCEPT !.flags = Newer(old.flags, @, 0), !.createtime = Newer(old.createtime, @, 0),
              !.membersince = Newer(old.membersince, @, 0), !.onlinesince = Newer(old.onlinesince, @, 0),
              !.sessionlen = Newer(old.sessionlen, @, 0),
              !.capabilities = Newer(old.capabilities, @, {}), !.present = @ \cup old.present,
              !.iconcsum = Newer(old.iconcsum, @, <<>>), !.info = Newer(old.info, @, <<>>),
              !.away = Newer(old.away, @, <<>>),
              !.status = old.status, !.ipaddr = old.ipaddr, !.avail = old.avail]

(* aim_locate_setprofile, for the away message that owl_aim_set_awaymsg    *)
(* cuts: one that is empty says that the user is back.                     *)
AwayText(text) == IF Len(text) > MaxAway THEN Raw(text, MaxAway - 1) ELSE text
UsAscii == <<7, 7>>
ProfileFields(encoding, text) == Field(encoding, UsAscii) \o Field(encoding + 1, text)
SetAway(text) == IF text = <<>> THEN Field(4, <<>>) ELSE ProfileFields(3, text)
SetAwaymsg(text) == SetAway(AwayText(text))

(* userinfo, the answer to a request for what is known of a user: the info *)
(* itself is added to what was known, then the profile, the away message   *)
(* and the capabilities behind it.                                         *)
UserinfoReply(known, bs) ==
  LET r    == InfoExtract(bs)
      caps == FieldOf(r.rest, 5)
      read == [r.info EXCEPT !.info = FieldOf(r.rest, 2), !.away = FieldOf(r.rest, 4)]
  IN  AddUserinfo(AddUserinfo(known, r.info),
                  IF caps = <<>> THEN read
                  ELSE [read EXCEPT !.capabilities = GetCaps(caps[1], CapBytes, 16),
                                    !.present = {"capabilities"}])

(* incomingim: whom a message is from, and what it says on channel 1.      *)
IncomingIm(bs) ==
  LET r == InfoExtract(Past(bs, 10)) IN
  [from |-> r.info,
   args |-> IF WordAt(bs, 9) = 1 THEN IncomingCh1(r.rest, IncomingArgs0) ELSE IncomingArgs0]

(* The server puts the info of the sender where the address was.           *)
Relayed(bs, info) == Raw(bs, 10) \o PutInfo(info, <<>>) \o Past(bs, 11 + ByteAt(bs, 11))

-----------------------------------------------------------------------------
(* A message arrives with the sections it was sent with, each in its       *)
(* character set, and marked as it was; one in ASCII is shown before any   *)
(* other; and none arrives in part: what is too long is not sent.          *)
MessageIsReadBack(args, info) ==
  LET bs   == SendCh1Ext(args)
      got  == IncomingIm(Relayed(bs, info)).args
      said == args.flags \ ((IF "away" \in args.flags THEN {"ack"} ELSE {})
                              \cup (IF args.icon.len = 0 THEN {"hasicon"} ELSE {}))
      kept == {"away", "ack", "offline", "hasicon", "buddyreq"}
      sets == {args.sections[i].charset : i \in DOMAIN args.sections}
  IN  bs # <<>> =>
        /\ got.sections = args.sections /\ got.features = FeaturesSent(args)
        /\ got.flags \cap kept = said \cap kept
        /\ "hasicon" \in got.flags => got.icon = args.icon
        /\ sets \cap {ASCII, ISO_8859_1, UNICODE} # {} => LET shown == got.msg[1] IN
             /\ shown \in ToSet(args.sections)
             /\ ASCII \in sets => shown.charset = ASCII
             /\ "unicode" \in got.flags <=> shown.charset = UNICODE
        /\ OutgoingIm(bs) = <<args.destsn, args.sections[1].data, said \cap {"ack", "away"}>>

(* What is typed is shown to the other side, with the mark of an answer if *)
(* it is one, unless it is refused as a whole; markup in it is taken for   *)
(* markup there.  A text in ASCII is shown alike whichever way it is sent, *)
(* also by the simpler call, which asks for no more than it can give.      *)
TypedIsShown(text, flags, info) ==
  LET bs == DoSend(<<98>>, text, flags)
      simple == SendCh1(<<98>>, flags \cup {"multipart", "hasicon"}, text)
      Shown(sent) == ShownIm(IncomingIm(Relayed(sent, info)).args)
      shown == Shown(bs)
  IN  bs # <<>> => /\ (\A i \in DOMAIN text : text[i] < 128) => simple # <<>> /\ Shown(simple) = shown
                   /\ shown.text = HtmlStrip(text) /\ shown.isauto = ("away" \in flags)
                   /\ {Lt, Amp} \cap ToSet(text) = {} => shown.text = text
                   /\ IncomingIm(Relayed(bs, info)).from.sn = info.sn

(* A peer that writes markup for what would be taken as such is shown as   *)
(* it was typed.                                                           *)
Escaped(text) ==
  FlattenSeq([i \in DOMAIN text |->
    LET e == {x \in ToSet(Entities) : x[2] = <<text[i]>> /\ text[i] # 32} IN
    IF e = {} THEN <<text[i]>> ELSE <<Amp, (CHOOSE x \in e : TRUE)[1]>>])
EscapedIsShown(text) == HtmlStrip(Escaped(text)) = text

(* What is told of a user is read, whatever fields are new to the reader,  *)
(* and nothing of what comes after; what has been told before is still     *)
(* known of what is not told now.  The time since when one is a member is  *)
(* read as the time the account was created.                               *)
InfoIsReadBack(old, info, more, behind) ==
  LET r == InfoExtract(PutInfo(info, more) \o behind)
      known == AddUserinfo(old, r.info)
      said  == info.present \ (IF info.capabilities = {} THEN {"capabilities"} ELSE {})
      told  == {IF part = "membersince" THEN "createtime" ELSE part : part \in said}
      Kept(part) == known[part] = old[part]
  IN  /\ r.rest = behind /\ r.info.sn = info.sn /\ told \subseteq r.info.present
      /\ \A part \in {"flags", "onlinesince", "sessionlen"} :
           IF part \in told /\ info[part] # 0 THEN known[part] = info[part] ELSE Kept(part)
      /\ known.idletime = IF "idletime" \in told THEN info.idletime ELSE 0
      /\ IF "createtime" \in told THEN known.createtime = info.membersince ELSE Kept("createtime")
      /\ IF "capabilities" \in told THEN info.capabilities \subseteq known.capabilities
         ELSE known.capabilities # r.info.capabilities => Kept("capabilities")

(* An away message that is set is the one that is read by whoever asks,    *)
(* unless it is too long, and one that is taken back is read as none; the  *)
(* profile is left alone.                                                  *)
AwayIsReadBack(known, info, profile, text) ==
  LET reply == UserinfoReply(known, PutInfo(info, <<>>) \o When(profile # <<>>, ProfileFields(1, profile))
                                      \o SetAwaymsg(text))
  IN  /\ Len(text) <= MaxAway => reply.away = <<text>>
      /\ reply.away # <<>> /\ IsPrefix(reply.away[1], text)
      /\ (text = <<>>) = (reply.away[1] = <<>>)
      /\ reply.info = IF profile = <<>> THEN known.info ELSE <<profile>>
=============================================================================
