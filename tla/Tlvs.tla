-------------------------------- MODULE Tlvs --------------------------------
(***************************************************************************)
(* The streams of bytes that AIM frames are made of and read from          *)
(* (bstream.c), and the chains of typed values in them (tlv.c).  A stream  *)
(* that is read is what is left of it; one that is written has room.  What *)
(* is read here ends where a chain ends.                                   *)
(***************************************************************************)
EXTENDS Integers, Sequences, SequencesExt

CONSTANT Base  \* the values of a byte: 256

ASSUME BaseAssumption == Base \in Nat /\ Base > 1

Words16 == Base * Base
Put8(v)  == <<v % Base>>
Put16(v) == Put8(v \div Base) \o Put8(v)
Get16(bs) == IF Len(bs) < 2 THEN 0 ELSE Base * bs[1] + bs[2]
Advance(bs, n) == IF Len(bs) < n THEN bs ELSE SubSeq(bs, n + 1, Len(bs))

-----------------------------------------------------------------------------
(* A chain is a sequence of TLVs, whose lengths have 16 bits: what is      *)
(* added is cut.                                                           *)
Tlv(type, value) == [type |-> type, value |-> SubSeq(value, 1, Len(value) % Words16)]
SizeOf(tlv)  == 4 + Len(tlv.value)
Size(list)   == FoldLeft(LAMBDA n, tlv : n + SizeOf(tlv), 0, list)
AddRaw(list, type, value) == Append(list, Tlv(type, value))

WriteChain(list, room) ==
  IF Size(list) > room THEN <<>>
  ELSE FlattenSeq([i \in DOMAIN list |->
         Put16(list[i].type) \o Put16(Len(list[i].value)) \o list[i].value])
Written(list) == WriteChain(list, Size(list))

(* A chain within a TLV; of an empty one there is none.                    *)
AddFrozen(list, type, tl) == IF Size(tl) <= 0 THEN list ELSE AddRaw(list, type, Written(tl))

NoChain == <<"cut short">>

(* One TLV off the front of a stream; what is read last is first in the    *)
(* chain.                                                                  *)
LengthAhead(bs) == Get16(Advance(bs, 2))
CutShort(bs)  == LengthAhead(bs) > Len(Advance(bs, 4))
TlvAhead(bs)  == [type |-> Get16(bs), value |-> SubSeq(bs, 5, 4 + LengthAhead(bs))]
Behind(bs)    == Advance(bs, SizeOf(TlvAhead(bs)))

RECURSIVE ReadChain(_, _), ReadNum(_, _, _), ReadLen(_, _, _), ReadLenOfValues(_, _, _)
ReadChain(bs, list) ==
  CASE bs = <<>> -> list
    [] bs # <<>> /\ CutShort(bs) -> NoChain
    [] OTHER -> ReadChain(Behind(bs), <<TlvAhead(bs)>> \o list)

(* The first num TLVs, and those in the first len bytes; with what is left *)
(* of the stream.                                                          *)
ReadNum(bs, list, num) ==
  CASE bs = <<>> \/ num = 0 -> [list |-> list, rest |-> bs]
    [] bs # <<>> /\ num # 0 /\ CutShort(bs) -> [list |-> NoChain, rest |-> Advance(bs, 4)]
    [] OTHER -> ReadNum(Behind(bs), <<TlvAhead(bs)>> \o list, num - 1)

(* Broken variant: the headers are not counted.                            *)
ReadLenOfValues(bs, list, len) ==
  CASE bs = <<>> \/ len = 0 -> [list |-> list, rest |-> bs]
    [] bs # <<>> /\ len # 0 /\ CutShort(bs) -> [list |-> NoChain, rest |-> Advance(bs, 4)]
    [] OTHER -> ReadLenOfValues(Behind(bs), <<TlvAhead(bs)>> \o list,
                                (len - LengthAhead(bs)) % Words16)

ReadLen(bs, list, len) ==
  CASE bs = <<>> \/ len = 0 -> [list |-> list, rest |-> bs]
    [] bs # <<>> /\ len # 0 /\ CutShort(bs) -> [list |-> NoChain, rest |-> Advance(bs, 4)]
    [] OTHER -> ReadLen(Behind(bs), <<TlvAhead(bs)>> \o list,
                        (len - SizeOf(TlvAhead(bs))) % Words16)

-----------------------------------------------------------------------------
OfType(list, type) == SelectSeq(list, LAMBDA tlv : tlv.type = type)
FirstOf(list, type) == SelectInSeq(list, LAMBDA tlv : tlv.type = type)

(* aim_tlv_gettlv of the first of a type: there or not. *)
GetTlv(list, type) == LET i == FirstOf(list, type) IN IF i = 0 THEN <<>> ELSE <<list[i].value>>
ReplaceTlv(list, type, value) ==
  LET i == FirstOf(list, type) IN
  IF i = 0 THEN AddRaw(list, type, value) ELSE [list EXCEPT ![i] = Tlv(type, value)]
RemoveTlv(list, type) == LET i == FirstOf(list, type) IN IF i = 0 THEN list ELSE RemoveAt(list, i)

(* aim_tlvlist_cmp says 0 of two chains that are written alike. *)
SameChain(one, two) == Size(one) = Size(two) /\ Written(one) = Written(two)

-----------------------------------------------------------------------------
(* A chain that was written is read back turned round, whole, by its       *)
(* number, by its length or out of a TLV, and whatever follows is left to  *)
(* be read; a length that 16 bits do not hold is another one.              *)
ChainIsReadBack(list, more) ==
  LET bs == Written(list) \o Written(more)
      once == [list |-> Reverse(list), rest |-> Written(more)]
  IN  /\ ReadChain(Written(list), <<>>) = Reverse(list)
      /\ ReadNum(bs, <<>>, Len(list)) = once
      /\ Size(list) < Words16 =>
           /\ ReadLen(bs, <<>>, Size(list)) = once
           /\ LET box == ReadChain(Written(AddFrozen(more, 1, list)), <<>>) IN
              list # <<>> => ReadChain(GetTlv(box, 1)[1], <<>>) = Reverse(list)
      /\ WriteChain(list, Size(list) - 1) = <<>>

(* What a change does to a chain, it does to that type alone, and the next *)
(* comparison tells the chains apart just when their values differ.        *)
ChangeIsMeant(list, type, value) ==
  LET others(l) == SelectSeq(l, LAMBDA tlv : tlv.type # type)
      put == ReplaceTlv(list, type, value)
      cut == RemoveTlv(list, type)
  IN  /\ others(put) = others(list) /\ others(cut) = others(list)
      /\ GetTlv(put, type) = <<Tlv(type, value).value>>
      /\ Len(OfType(put, type)) <= 1 \/ Tail(OfType(put, type)) = Tail(OfType(list, type))
      /\ Len(OfType(list, type)) = 1 => GetTlv(cut, type) = <<>>
      /\ SameChain(put, list) <=> GetTlv(list, type) = GetTlv(put, type)
      /\ SameChain(cut, list) <=> GetTlv(list, type) = <<>>
=============================================================================
