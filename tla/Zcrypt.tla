-------------------------------- MODULE Zcrypt --------------------------------
(***************************************************************************)
(* The zcrypt program (zcrypt.c) and its two callers: the zephyrs that are *)
(* sent through it and those that are shown through it.  Ciphers are       *)
(* boxes that the same key opens; what zcrypt does around them, finding    *)
(* the key, cutting the text into blocks and putting it together again, is *)
(* modelled.  A class or an instance is a sequence of the parts between    *)
(* its dashes, and <<>> when it is not given.                              *)
(***************************************************************************)
EXTENDS Integers, Sequences, SequencesExt

CONSTANTS BlockSize, \* the bytes of a block: 8
          MaxResult, \* no line is read behind this many characters: 3948
          MaxChunk   \* the characters read at a time: 127

Padding == "NUL"
Failure == [ok |-> FALSE, out |-> <<>>]   \* an exit code that is not 0
NoSpec == [prefix |-> "", file |-> ""]

(* ParseCryptSpec: what stands before a colon is a cipher or is no prefix. *)
CryptSpec(spec) ==
  IF spec.prefix \in {"AES", "DES"}
    THEN [cipher |-> spec.prefix, key |-> [NoSpec EXCEPT !.file = spec.file]]
  ELSE [cipher |-> "DES", key |-> spec]

(* GetZephyrVarKeyFile: the names to look for in ~/.crypt-table, and of    *)
(* each the last line, which may be empty.                                 *)
TableNames(class, inst) ==
  (IF inst # <<>> THEN <<(IF class # <<>> THEN class ELSE <<"message">>) \o inst>> ELSE <<>>)
    \o (IF class # <<>> THEN <<class>> ELSE <<>>) \o <<<<"default">>>>
LastSpec(table, name) ==
  LET i == SelectLastInSeq(table, LAMBDA line : line.name = name) IN
  IF i = 0 THEN NoSpec ELSE table[i].spec
KeySpec(table, class, inst) ==
  LET names == TableNames(class, inst)
      found == SelectSeq([i \in DOMAIN names |-> LastSpec(table, names[i])], LAMBDA s : s # NoSpec)
  IN  IF found = <<>> THEN NoSpec ELSE found[1]

-----------------------------------------------------------------------------
(* slurp_stdin: a line at a time, or as much of it as is read at once; a   *)
(* dot on a line by itself ends what is typed at a terminal.               *)
Chunk(text) ==
  LET nl == SelectInSeq(text, LAMBDA c : c = "\n") IN
  SubSeq(text, 1, Min({MaxChunk, IF nl = 0 THEN Len(text) ELSE nl}))
RECURSIVE Slurp(_, _, _)
Slurp(text, taken, ignoredot) ==
  IF Len(taken) >= MaxResult \/ text = <<>> \/ (~ignoredot /\ Chunk(text) = <<".", "\n">>)
    THEN taken
  ELSE Slurp(SubSeq(text, Len(Chunk(text)) + 1, Len(text)), taken \o Chunk(text), ignoredot)

(* GetInputBuffer, without a message on the command line.                  *)
InputOf(options, text, tty) == Slurp(text, <<>>, ~tty \/ options.ignoredot)

Block(key, bytes) == [key |-> key, bytes |-> bytes]
LineEnd == Block([cipher |-> "none", key |-> NoSpec], <<>>)
Opened(key, block) == IF block.key = key THEN block.bytes ELSE [i \in 1 .. BlockSize |-> "?"]

(* Broken variant: the rest of the division, which is 0 for whole blocks.  *)
LastBlockSizeOfRest(length) == length % BlockSize
LastBlockSize(length) == ((length + BlockSize - 1) % BlockSize) + 1

(* do_encrypt_des, and block_to_ascii with the line end behind it.         *)
EncryptDes(key, text) ==
  LET num_blocks == (Len(text) + BlockSize - 1) \div BlockSize
      size(i) == IF i < num_blocks THEN BlockSize ELSE LastBlockSize(Len(text))
      input(i) == [j \in 1 .. BlockSize |->
                     IF j <= size(i) THEN text[BlockSize * (i - 1) + j] ELSE Padding]
  IN  [i \in 1 .. num_blocks |-> Block(key, input(i))] \o <<LineEnd>>

(* read_ascii_block, until there is none: other characters are skipped.    *)
ReadBlocks(text) == SelectSeq(text, LAMBDA b : b # LineEnd)

UpToPadding(bytes) ==
  LET i == SelectInSeq(bytes, LAMBDA c : c = Padding) IN
  IF i = 0 THEN bytes ELSE SubSeq(bytes, 1, i - 1)

(* do_decrypt_des: the last block, as a string, says whether a line ends.  *)
DecryptDes(key, text) ==
  LET blocks == ReadBlocks(text)
      parts  == [i \in DOMAIN blocks |-> UpToPadding(Opened(key, blocks[i]))]
      tmp    == IF parts = <<>> THEN <<>> ELSE Last(parts)
  IN  FlattenSeq(parts) \o (IF tmp = <<>> \/ Last(tmp) # "\n" THEN <<"\n">> ELSE <<>>)

(* gpg: a text as a whole, which another key does not open.  What it makes *)
(* of a text is taken to be short enough to be read again.                 *)
EncryptAes(key, text) == <<Block(key, text)>>
DecryptAes(key, text) ==
  IF Len(text) = 1 /\ text[1].key = key THEN [ok |-> TRUE, out |-> text[1].bytes]
  ELSE Failure

-----------------------------------------------------------------------------
(* main: -E or -D of what is piped in, -c and -i; an exit code of 0 and    *)
(* what is printed.  works is what can be encrypted and decrypted with on  *)
(* this side: for DES the file of the key can be read, for AES gpg ends    *)
(* well.  The mark of the end is printed even if decrypting fails.         *)
EndMark == <<"**END**\n">>
Options(mode, class, inst) ==
  [mode |-> mode, class |-> class, inst |-> inst, ignoredot |-> FALSE]
CryptedWith(options, c, text) ==
  LET in == InputOf(options, text, FALSE) IN
  CASE options.mode = "E" /\ c.cipher = "AES" -> [ok |-> TRUE, out |-> EncryptAes(c, in)]
    [] options.mode = "E" /\ c.cipher = "DES" -> [ok |-> TRUE, out |-> EncryptDes(c, in)]
    [] options.mode = "D" /\ c.cipher = "DES" -> [ok |-> TRUE, out |-> DecryptDes(c, text)]
    [] options.mode = "D" /\ c.cipher = "AES" -> DecryptAes(c, text)

(* A mutant: what read_keystring and gpg return is not looked at.          *)
CryptedAnyway(options, c, text, works) == CryptedWith(options, c, text)

Crypted(options, c, text, works) ==
  IF c \in works THEN CryptedWith(options, c, text) ELSE Failure

ZcryptMain(options, table, text, works) ==
  LET spec == KeySpec(table, options.class, options.inst)
      r    == Crypted(options, CryptSpec(spec), text, works)
  IN  IF spec = NoSpec THEN Failure
      ELSE [r EXCEPT !.out = @ \o (IF options.mode = "D" THEN EndMark ELSE <<>>)]

(* owl_function_zcrypt: sent, under the opcode crypt, or not.              *)
ZcryptSend(class, inst, text, table, works) ==
  ZcryptMain(Options("E", class, inst), table, text, works)

(* owl_message_create_from_znotice: the message that is shown.             *)
Undecrypted(body) == [opcode |-> "failed-decrypt", body |-> body]
ZcryptShown(class, inst, body, table, works) ==
  LET r == ZcryptMain(Options("D", class, inst), table, body, works)
      end == Len(r.out) - 1
      marked == r.out # <<>> /\ <<Last(r.out)>> = EndMark
  IN  IF r.ok THEN [opcode |-> "crypt", body |-> IF marked THEN SubSeq(r.out, 1, end) ELSE r.out]
      ELSE Undecrypted(body)

-----------------------------------------------------------------------------
(* A zephyr that is sent encrypted, to people with these lines in their    *)
(* tables, is the text that was typed to those who find the same key and   *)
(* can use it, with an end of line at most added, whatever its length is   *)
(* beside the size of a block; who finds none, or cannot use it, is told;  *)
(* and nothing is sent without a key that can be used.                     *)
CryptedIsReadBack(class, inst, text, mine, theirs, worksHere, worksThere) ==
  \A sent \in {ZcryptSend(class, inst, text, mine, worksHere)} :
    \A shown \in {ZcryptShown(class, inst, sent.out, theirs, worksThere)},
       ours \in {KeySpec(mine, class, inst)}, other \in {KeySpec(theirs, class, inst)} :
      /\ sent.ok <=> ours # NoSpec /\ CryptSpec(ours) \in worksHere
      /\ sent.ok /\ other = ours /\ CryptSpec(other) \in worksThere /\ Len(text) <= MaxResult =>
           /\ shown.opcode = "crypt"
           /\ shown.body \in {text, Append(text, "\n")}
      /\ sent.ok /\ (other = NoSpec \/ CryptSpec(other) \notin worksThere) =>
           shown = Undecrypted(sent.out)
      /\ \A i \in DOMAIN mine :
           /\ inst # <<>> /\ mine[i].name = class \o inst /\ mine[i].spec # NoSpec
           /\ \A j \in i + 1 .. Len(mine) : mine[j].name # mine[i].name
           => ours = mine[i].spec
=============================================================================
