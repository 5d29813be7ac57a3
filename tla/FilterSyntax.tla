---------------------------- MODULE FilterSyntax ----------------------------
(***************************************************************************)
(* The words of a command line and the language of filters they spell.     *)
(* owl_parseline (util.c) splits a line into words; of those of a filter   *)
(* command owl_filter_parse_expression (filter.c) makes a tree of filter   *)
(* elements (filterelement.c), and owl_filterelement_print writes a tree   *)
(* as a line again, which "show filter" displays, filter:get returns and   *)
(* punt filters are compared by.                                           *)
(***************************************************************************)
EXTENDS Naturals, Sequences, SequencesExt

CONSTANTS
  InvalidRegexes,  \* words that regcomp refuses
  Spelling         \* word -> its characters, of the words with blanks or quotes
                   \* in them, or nothing; another is taken for one character

-----------------------------------------------------------------------------
(* Command lines as text: how a line is split into words, skipped over and *)
(* quoted so that it is split into the same words again (util.c, and quote *)
(* in BarnOwl.pm).  A word is here a sequence of characters.               *)
Quotes == {"'", "\""}
EndOfText == "NUL"
Unbalanced == <<<<"unbalanced">>>>

(* owl_parseline, one character at a time; between words a newline is not  *)
(* skipped.                                                                *)
RECURSIVE ParseFrom(_, _, _, _, _)
ParseFrom(rest, argv, word, quote, between) ==
  LET c == Head(rest) IN
  CASE rest = <<>> -> IF quote = EndOfText THEN argv ELSE Unbalanced
    [] rest # <<>> /\ between ->
         IF c \in {" ", "\t", EndOfText} THEN ParseFrom(Tail(rest), argv, word, quote, TRUE)
         ELSE ParseFrom(rest, argv, word, quote, FALSE)
    [] rest # <<>> /\ ~between /\ c \in Quotes ->
         (CASE quote = c   -> ParseFrom(Tail(rest), argv, word, EndOfText, FALSE)
            [] quote = EndOfText -> ParseFrom(Tail(rest), argv, word, c, FALSE)
            [] OTHER       -> ParseFrom(Tail(rest), argv, Append(word, c), quote, FALSE))
    [] rest # <<>> /\ ~between /\ c \in {" ", "\t", "\n", EndOfText} /\ quote = EndOfText ->
         ParseFrom(Tail(rest), Append(argv, word), <<>>, EndOfText, TRUE)
    [] OTHER -> ParseFrom(Tail(rest), argv, Append(word, c), quote, FALSE)

ParseLine(line) == ParseFrom(Append(line, EndOfText), <<>>, <<>>, EndOfText, TRUE)

SkipSpaces(buff) ==
  LET some == {i \in DOMAIN buff : buff[i] # " "} IN
  IF some = {} THEN <<>> ELSE SubSeq(buff, CHOOSE i \in some : \A j \in some : i <= j, Len(buff))
RECURSIVE SkipWord(_, _), SkipTokens(_, _)
SkipWord(buff, quote) ==
  CASE buff = <<>> \/ (quote = EndOfText /\ Head(buff) = " ") -> buff
    [] buff # <<>> /\ quote # EndOfText -> SkipWord(Tail(buff), IF Head(buff) = quote THEN EndOfText ELSE quote)
    [] OTHER -> SkipWord(Tail(buff), IF Head(buff) \in Quotes THEN Head(buff) ELSE EndOfText)
SkipTokens(buff, n) ==
  IF buff = <<>> \/ n = 0 THEN buff
  ELSE SkipTokens(SkipSpaces(SkipWord(SkipSpaces(buff), EndOfText)), n - 1)

QuotedOnce(arg) == <<"'">> \o arg \o <<"'">>
QuotedArg(arg) ==
  CASE arg = <<>> -> <<"'", "'">>
    [] arg # <<>> /\ ToSet(arg) \cap (Quotes \cup {" ", "\n", "\t"}) = {} -> arg
    [] ToSet(arg) \cap (Quotes \cup {" ", "\n", "\t"}) # {} /\ "'" \notin ToSet(arg) -> QuotedOnce(arg)
    [] OTHER -> <<"\"">> \o
                FlattenSeq([i \in DOMAIN arg |->
                   IF arg[i] = "\"" THEN <<"\"", "'", "\"", "'", "\"">> ELSE <<arg[i]>>]) \o <<"\"">>

ArgvQuote(argv) ==
  FlattenSeq([i \in DOMAIN argv |-> (IF i > 1 THEN <<" ">> ELSE <<>>) \o QuotedArg(argv[i])])

(* Quoted words are read back as they were, and the text left after        *)
(* skipping some of them is the rest.                                      *)
QuotedIsReadBack(argv) ==
  /\ ParseLine(ArgvQuote(argv)) = argv
  /\ \A n \in 0 .. Len(argv) :
       (\A i \in DOMAIN argv : "\t" \notin ToSet(argv[i]) /\ "\n" \notin ToSet(argv[i])) =>
         ParseLine(SkipTokens(ArgvQuote(argv), n)) = SubSeq(argv, n + 1, Len(argv))

(* Skipping words, in a line without tabs, skips those it is split into.   *)
SkippedAsSplit(line) ==
  ParseLine(line) # Unbalanced =>
    \A n \in 0 .. Len(ParseLine(line)) :
      ParseLine(SkipTokens(line, n)) = SubSeq(ParseLine(line), n + 1, Len(ParseLine(line)))

-----------------------------------------------------------------------------
(* Filters.  Their words are strings, which Spelling takes apart.          *)
Spelled(word) == IF word \in DOMAIN Spelling THEN Spelling[word] ELSE <<word>>
SpelledBy(chars) == {w \in DOMAIN Spelling : Spelling[w] = chars}
WordOf(chars) ==
  CASE SpelledBy(chars) # {} -> CHOOSE w \in SpelledBy(chars) : TRUE
    [] SpelledBy(chars) = {} /\ Len(chars) = 1 -> chars[1]
    [] OTHER -> "?"
WordsOf(line) == LET argv == ParseLine(line) IN [i \in DOMAIN argv |-> WordOf(argv[i])]

NoElement == [op |-> "none"]
Leaf(op)           == [op |-> op]
Named(op, name)    == [op |-> op, arg |-> name]
Regex(field, re)   == [op |-> "re", field |-> field, arg |-> re]
Unary(op, fe)      == [op |-> op, left |-> fe]
Binary(op, fe, ff) == [op |-> op, left |-> fe, right |-> ff]

Parsed(fe, next) == [fe |-> fe, next |-> next]
ParseError == Parsed(NoElement, 0)
IsParsed(result) == result.fe # NoElement

(* A condition of two words: a reference to a filter, a Perl function, or  *)
(* a field and the regular expression it must match.                       *)
ParseCondition(argv) ==
  IF Len(argv) < 2 THEN ParseError
  ELSE IF argv[1] \in {"filter", "perl"} THEN Parsed(Named(argv[1], argv[2]), 2)
  ELSE IF argv[2] \in InvalidRegexes THEN ParseError
  ELSE Parsed(Regex(argv[1], argv[2]), 2)

From(argv, i) == SubSeq(argv, i + 1, Len(argv))

RECURSIVE ParsePrimitive(_), ParseRest(_, _)

(* One operand and the conjunctions and disjunctions that follow it, from  *)
(* left to right; "and" does not bind tighter than "or".  op1 is what has  *)
(* been read of argv.                                                      *)
ParseRest(argv, op1) ==
  IF ~IsParsed(op1) \/ op1.next >= Len(argv) THEN op1
  ELSE IF argv[op1.next + 1] \notin {"and", "or"} THEN op1
  ELSE LET i   == op1.next + 1
           op2 == ParsePrimitive(From(argv, i))
       IN  IF ~IsParsed(op2) THEN ParseError
           ELSE ParseRest(argv, Parsed(Binary(argv[i], op1.fe, op2.fe), i + op2.next))

ParseExpression(argv) == ParseRest(argv, ParsePrimitive(argv))

(* A mutant: a group that does not insist on its closing bracket.          *)
ParseOpenGroup(argv) ==
  LET op == ParseExpression(From(argv, 1))
  IN  IF ~IsParsed(op) THEN ParseError
      ELSE Parsed(Unary("group", op.fe), IF op.next + 2 <= Len(argv) THEN op.next + 2
                                                                     ELSE op.next + 1)

ParseGroup(argv) ==
  LET op == ParseExpression(From(argv, 1))
  IN  IF ~IsParsed(op) \/ op.next + 2 > Len(argv) THEN ParseError
      ELSE IF argv[op.next + 2] # ")" THEN ParseError
      ELSE Parsed(Unary("group", op.fe), op.next + 2)

(* A mutant: "not" denies all that follows it.                             *)
ParseNotGreedy(argv) ==
  LET op == ParseExpression(From(argv, 1))
  IN  IF IsParsed(op) THEN Parsed(Unary("not", op.fe), op.next + 1) ELSE ParseError

ParseNot(argv) ==
  LET op == ParsePrimitive(From(argv, 1))
  IN  IF IsParsed(op) THEN Parsed(Unary("not", op.fe), op.next + 1) ELSE ParseError

ParsePrimitive(argv) ==
  IF argv = <<>> THEN ParseError
  ELSE CASE argv[1] = "(" -> ParseGroup(argv)
         [] argv[1] = "not" -> ParseNot(argv)
         [] argv[1] \in {"true", "false"} -> Parsed(Leaf(argv[1]), 1)
         [] OTHER -> ParseCondition(argv)

(* owl_filter_new accepts an expression only if it takes every word.       *)
ParseFilter(argv) ==
  LET result == ParseExpression(argv)
  IN  IF result.next = Len(argv) THEN result.fe ELSE NoElement

(* The print methods: names and regular expressions are quoted for a       *)
(* command line, and the field of a condition is written as it is.         *)
RECURSIVE PrintElement(_)
PrintElement(fe) ==
  CASE fe.op \in {"true", "false"}  -> <<fe.op>>
    [] fe.op \in {"filter", "perl"} -> <<fe.op, " ">> \o QuotedArg(Spelled(fe.arg))
    [] fe.op = "re"    -> Spelled(fe.field) \o <<" ">> \o QuotedArg(Spelled(fe.arg))
    [] fe.op = "group" -> <<"(", " ">> \o PrintElement(fe.left) \o <<" ", ")">>
    [] fe.op = "not"   -> <<" ", "not", " ">> \o PrintElement(fe.left)
    [] OTHER -> PrintElement(fe.left) \o <<" ", fe.op, " ">> \o PrintElement(fe.right)

(* The fields a filter looks at.                                           *)
RECURSIVE FieldsOf(_)
FieldsOf(fe) ==
  CASE fe.op = "re" -> {fe.field}
    [] fe.op \in {"group", "not"} -> FieldsOf(fe.left)
    [] fe.op \in {"and", "or"} -> FieldsOf(fe.left) \cup FieldsOf(fe.right)
    [] OTHER -> {}

(* Reference: the grammar, as the splittings of a sequence of words.       *)
IsCondition(argv) ==
  /\ Len(argv) = 2
  /\ argv[1] \notin {"(", "not", "true", "false"}
  /\ argv[1] \in {"filter", "perl"} \/ argv[2] \notin InvalidRegexes

RECURSIVE IsExpression(_), IsPrimitive(_)
IsPrimitive(argv) ==
  \/ argv \in {<<"true">>, <<"false">>}
  \/ IsCondition(argv)
  \/ Len(argv) > 1 /\ argv[1] = "not" /\ IsPrimitive(Tail(argv))
  \/ /\ Len(argv) > 2 /\ argv[1] = "(" /\ argv[Len(argv)] = ")"
     /\ IsExpression(SubSeq(argv, 2, Len(argv) - 1))
IsExpression(argv) ==
  \/ IsPrimitive(argv)
  \/ \E i \in 2 .. Len(argv) - 1 :
       /\ argv[i] \in {"and", "or"}
       /\ IsExpression(SubSeq(argv, 1, i - 1))
       /\ IsPrimitive(SubSeq(argv, i + 1, Len(argv)))
=============================================================================
