------------------------------ MODULE SsiProofs ------------------------------
(***************************************************************************)
(* The buddy list that the AIM server keeps (Ssi): for any list to begin   *)
(* with, any names, any refusals and any number of logins and edits, both  *)
(* copies that the client has are what the server has, when all is said.   *)
(*                                                                         *)
(* The argument follows a session through its phases.  The list is loaded  *)
(* in a fixed order of requests and answers, of which one is always on its *)
(* way; an edit is made with both copies equal, and sends what it changed; *)
(* and the answers lead both copies to what the server made of it.         *)
(***************************************************************************)
EXTENDS Ssi, SubsequencesProofs

-----------------------------------------------------------------------------
SsiSafetySpec == SsiInit /\ [][SsiNext]_ssiVars

(* Items, with the names that the client makes up spelled out.             *)
AnyItems ==
  [ref : Nat, name : STRING \cup {NoName, Buddies0}, gid : Nat, bid : Nat,
   type : STRING \cup {"group", "buddy", "permit"}, members : Seq(Nat), alias : STRING \cup {""}]

-----------------------------------------------------------------------------
(* Numbers: the least of a set, and one that is still free.                *)
LEMMA LeastIsMin ==
  ASSUME NEW T \in SUBSET Nat, T # {}
  PROVE  Min(T) \in T /\ \A x \in T : Min(T) <= x
<1>1. PICK m \in T : \A n \in T : m <= n  BY LeastNumber
<1>. QED  BY <1>1 DEF Min

LEMMA ImagesAreSmall ==
  ASSUME NEW n \in Nat, NEW f, NEW U, U = {f[i] : i \in 1 .. n}
  PROVE  IsFiniteSet(U) /\ Cardinality(U) \in Nat /\ Cardinality(U) <= n
<1>1. PICK g : g = [i \in 1 .. n |-> f[i]]  OBVIOUS
<1>2. g \in Surjection(1 .. n, U)  BY <1>1 DEF Surjection
<1>3. IsFiniteSet(1 .. n) /\ Cardinality(1 .. n) = n  BY FS_Interval
<1>4. IsFiniteSet(U) /\ Cardinality(U) <= n  BY <1>2, <1>3, FS_Surjection
<1>. QED  BY <1>4, FS_CardinalityType

LEMMA SomeIsFree ==
  ASSUME NEW U, IsFiniteSet(U), NEW n \in Nat, Cardinality(U) <= n, NEW a \in Nat
  PROVE  /\ (a .. a + n) \ U # {}
         /\ Min((a .. a + n) \ U) \in (a .. a + n) \ U
<1>1. (a .. a + n) \ U # {}
  <2>1. SUFFICES ASSUME (a .. a + n) \subseteq U PROVE FALSE  OBVIOUS
  <2>2. Cardinality(a .. a + n) = n + 1  BY FS_Interval
  <2>3. Cardinality(a .. a + n) <= Cardinality(U)  BY <2>1, FS_Subset
  <2>4. Cardinality(U) \in Nat  BY FS_CardinalityType
  <2>. QED  BY <2>2, <2>3, <2>4
<1>2. (a .. a + n) \ U \in SUBSET Nat  OBVIOUS
<1>. QED  BY <1>1, <1>2, LeastIsMin

-----------------------------------------------------------------------------
(* Lists with one item more or less.                                       *)
WithAt(list, p, x) ==
  [i \in 1 .. Len(list) + 1 |-> IF i < p THEN list[i] ELSE IF i = p THEN x ELSE list[i - 1]]
WithoutAt(list, p) == [i \in 1 .. Len(list) - 1 |-> IF i < p THEN list[i] ELSE list[i + 1]]

LEMMA WithAtForm ==
  ASSUME NEW S, NEW list \in Seq(S), NEW p \in 1 .. Len(list) + 1, NEW x \in S
  PROVE  /\ WithAt(list, p, x) \in Seq(S) /\ Len(WithAt(list, p, x)) = Len(list) + 1
         /\ DOMAIN WithAt(list, p, x) = 1 .. Len(list) + 1
         /\ \A i \in 1 .. Len(list) + 1 :
              WithAt(list, p, x)[i] = IF i < p THEN list[i] ELSE IF i = p THEN x ELSE list[i - 1]
<1>1. PICK n \in Nat : n = Len(list) /\ \A i \in 1 .. n : list[i] \in S
  BY LenProperties, ElementOfSeq
<1>2. PICK w : w = WithAt(list, p, x)  OBVIOUS
<1>3. w = [i \in 1 .. n + 1 |-> IF i < p THEN list[i] ELSE IF i = p THEN x ELSE list[i - 1]]
  BY <1>1, <1>2 DEF WithAt
<1>4. w \in [1 .. n + 1 -> S]
  <2>1. \A i \in 1 .. n + 1 : (IF i < p THEN list[i] ELSE IF i = p THEN x ELSE list[i - 1]) \in S
    BY <1>1
  <2>. QED  BY <1>3, <2>1
<1>5. w \in Seq(S)  BY <1>1, <1>4, SeqDef
<1>6. Len(w) = n + 1  BY <1>1, <1>4, <1>5, LenProperties
<1>. QED  BY <1>1, <1>2, <1>3, <1>5, <1>6

LEMMA WithoutAtForm ==
  ASSUME NEW S, NEW list \in Seq(S), NEW p \in 1 .. Len(list)
  PROVE  /\ WithoutAt(list, p) \in Seq(S) /\ Len(WithoutAt(list, p)) = Len(list) - 1
         /\ DOMAIN WithoutAt(list, p) = 1 .. Len(list) - 1
         /\ \A i \in 1 .. Len(list) - 1 : WithoutAt(list, p)[i] = IF i < p THEN list[i] ELSE list[i + 1]
<1>1. PICK n \in Nat : n = Len(list) /\ n - 1 \in Nat /\ \A i \in 1 .. n : list[i] \in S
  BY LenProperties, ElementOfSeq
<1>2. PICK w : w = WithoutAt(list, p)  OBVIOUS
<1>3. w = [i \in 1 .. n - 1 |-> IF i < p THEN list[i] ELSE list[i + 1]]
  BY <1>1, <1>2 DEF WithoutAt
<1>4. w \in [1 .. n - 1 -> S]
  <2>1. \A i \in 1 .. n - 1 : (IF i < p THEN list[i] ELSE list[i + 1]) \in S
    BY <1>1
  <2>. QED  BY <1>3, <2>1
<1>5. w \in Seq(S)  BY <1>1, <1>4, SeqDef
<1>6. Len(w) = n - 1  BY <1>1, <1>4, <1>5, LenProperties
<1>. QED  BY <1>1, <1>2, <1>3, <1>5, <1>6

LEMMA RemoveAtForm ==
  ASSUME NEW S, NEW list \in Seq(S), NEW p \in 1 .. Len(list)
  PROVE  RemoveAt(list, p) = WithoutAt(list, p)
<1>1. PICK n \in Nat : n = Len(list) /\ \A i \in 1 .. n : list[i] \in S
  BY LenProperties, ElementOfSeq
<1>2. PICK a : a = SubSeq(list, 1, p - 1)  OBVIOUS
<1>3. PICK b : b = SubSeq(list, p + 1, n)  OBVIOUS
<1>4. p - 1 \in Int /\ p + 1 \in Int /\ p \in Int /\ p <= n  BY <1>1
<1>5. a \in Seq(S) /\ Len(a) = p - 1 /\ \A i \in 1 .. p - 1 : a[i] = list[i]
  <2>1. \A i \in 1 .. p - 1 : list[i] \in S  BY <1>1
  <2>2. /\ a \in Seq(S) /\ Len(a) = (IF 1 <= p - 1 THEN p - 1 - 1 + 1 ELSE 0)
        /\ \A i \in 1 .. p - 1 - 1 + 1 : a[i] = list[1 + i - 1]
    BY <1>2, <1>4, <2>1, SubSeqProperties
  <2>. QED  BY <1>4, <2>2
<1>6. b \in Seq(S) /\ Len(b) = n - p /\ \A i \in 1 .. n - p : b[i] = list[p + i]
  <2>1. \A i \in p + 1 .. n : list[i] \in S  BY <1>1
  <2>2. /\ b \in Seq(S) /\ Len(b) = (IF p + 1 <= n THEN n - (p + 1) + 1 ELSE 0)
        /\ \A i \in 1 .. n - (p + 1) + 1 : b[i] = list[p + 1 + i - 1]
    BY <1>1, <1>3, <1>4, <2>1, SubSeqProperties
  <2>. QED  BY <1>1, <1>4, <2>2
<1>7. PICK c : c = a \o b  OBVIOUS
<1>8. c \in Seq(S) /\ Len(c) = n - 1
      /\ \A i \in 1 .. n - 1 : c[i] = IF i <= p - 1 THEN a[i] ELSE b[i - (p - 1)]
  <2>1. /\ c \in Seq(S) /\ Len(c) = Len(a) + Len(b)
        /\ \A i \in 1 .. Len(a) + Len(b) : c[i] = IF i <= Len(a) THEN a[i] ELSE b[i - Len(a)]
    BY <1>5, <1>6, <1>7, ConcatProperties
  <2>2. Len(a) + Len(b) = n - 1  BY <1>1, <1>4, <1>5, <1>6
  <2>. QED  BY <1>5, <2>1, <2>2
<1>9. \A i \in 1 .. n - 1 : c[i] = IF i < p THEN list[i] ELSE list[i + 1]
  <2>1. SUFFICES ASSUME NEW i \in 1 .. n - 1 PROVE c[i] = IF i < p THEN list[i] ELSE list[i + 1]
    OBVIOUS
  <2>2. CASE i < p  BY <1>4, <1>5, <1>8, <2>2
  <2>3. CASE ~(i < p)
    <3>1. c[i] = b[i - (p - 1)]  BY <1>4, <1>8, <2>3
    <3>2. i - (p - 1) \in 1 .. n - p  BY <1>1, <1>4, <2>3
    <3>3. b[i - (p - 1)] = list[p + (i - (p - 1))]  BY <1>6, <3>2
    <3>4. p + (i - (p - 1)) = i + 1  BY <1>4
    <3>. QED  BY <2>3, <3>1, <3>3, <3>4
  <2>. QED  BY <2>2, <2>3
<1>10. /\ WithoutAt(list, p) \in Seq(S) /\ Len(WithoutAt(list, p)) = n - 1
       /\ \A i \in 1 .. n - 1 : WithoutAt(list, p)[i] = IF i < p THEN list[i] ELSE list[i + 1]
  BY <1>1, WithoutAtForm
<1>11. c = WithoutAt(list, p)  BY <1>8, <1>9, <1>10, SeqEqual
<1>. QED  BY <1>1, <1>2, <1>3, <1>7, <1>11 DEF RemoveAt

LEMMA InsertAtForm ==
  ASSUME NEW S, NEW list \in Seq(S), NEW p \in 1 .. Len(list) + 1, NEW x \in S
  PROVE  InsertAt(list, p, x) = WithAt(list, p, x)
<1>1. PICK n \in Nat : n = Len(list) /\ \A i \in 1 .. n : list[i] \in S
  BY LenProperties, ElementOfSeq
<1>2. PICK a : a = SubSeq(list, 1, p - 1)  OBVIOUS
<1>3. PICK b : b = SubSeq(list, p, n)  OBVIOUS
<1>4. p - 1 \in Int /\ p \in Int /\ p <= n + 1 /\ 1 <= p  BY <1>1
<1>5. a \in Seq(S) /\ Len(a) = p - 1 /\ \A i \in 1 .. p - 1 : a[i] = list[i]
  <2>1. \A i \in 1 .. p - 1 : list[i] \in S  BY <1>1
  <2>2. /\ a \in Seq(S) /\ Len(a) = (IF 1 <= p - 1 THEN p - 1 - 1 + 1 ELSE 0)
        /\ \A i \in 1 .. p - 1 - 1 + 1 : a[i] = list[1 + i - 1]
    BY <1>2, <1>4, <2>1, SubSeqProperties
  <2>. QED  BY <1>4, <2>2
<1>6. b \in Seq(S) /\ Len(b) = n - p + 1 /\ \A i \in 1 .. n - p + 1 : b[i] = list[p + i - 1]
  <2>1. \A i \in p .. n : list[i] \in S  BY <1>1
  <2>2. /\ b \in Seq(S) /\ Len(b) = (IF p <= n THEN n - p + 1 ELSE 0)
        /\ \A i \in 1 .. n - p + 1 : b[i] = list[p + i - 1]
    BY <1>1, <1>3, <1>4, <2>1, SubSeqProperties
  <2>. QED  BY <1>1, <1>4, <2>2
<1>7. PICK e : e = <<x>>  OBVIOUS
<1>8. e \in Seq(S) /\ Len(e) = 1 /\ e[1] = x  BY <1>7
<1>9. PICK c : c = a \o e  OBVIOUS
<1>10. c \in Seq(S) /\ Len(c) = p /\ \A i \in 1 .. p : c[i] = IF i < p THEN list[i] ELSE x
  <2>1. /\ c \in Seq(S) /\ Len(c) = Len(a) + Len(e)
        /\ \A i \in 1 .. Len(a) + Len(e) : c[i] = IF i <= Len(a) THEN a[i] ELSE e[i - Len(a)]
    BY <1>5, <1>8, <1>9, ConcatProperties
  <2>2. Len(a) + Len(e) = p  BY <1>4, <1>5, <1>8
  <2>3. ASSUME NEW i \in 1 .. p PROVE c[i] = IF i < p THEN list[i] ELSE x
    <3>1. CASE i < p  BY <1>4, <1>5, <2>1, <2>2, <3>1
    <3>2. CASE ~(i < p)
      <4>1. i = p /\ i - (p - 1) = 1  BY <1>4, <3>2
      <4>. QED  BY <1>4, <1>5, <1>8, <2>1, <2>2, <4>1
    <3>. QED  BY <3>1, <3>2
  <2>. QED  BY <2>1, <2>2, <2>3
<1>11. PICK d : d = c \o b  OBVIOUS
<1>12. d \in Seq(S) /\ Len(d) = n + 1
       /\ \A i \in 1 .. n + 1 : d[i] = IF i <= p THEN c[i] ELSE b[i - p]
  <2>1. /\ d \in Seq(S) /\ Len(d) = Len(c) + Len(b)
        /\ \A i \in 1 .. Len(c) + Len(b) : d[i] = IF i <= Len(c) THEN c[i] ELSE b[i - Len(c)]
    BY <1>6, <1>10, <1>11, ConcatProperties
  <2>2. Len(c) + Len(b) = n + 1  BY <1>1, <1>4, <1>6, <1>10
  <2>. QED  BY <1>10, <2>1, <2>2
<1>13. \A i \in 1 .. n + 1 : d[i] = IF i < p THEN list[i] ELSE IF i = p THEN x ELSE list[i - 1]
  <2>1. SUFFICES ASSUME NEW i \in 1 .. n + 1
                 PROVE  d[i] = IF i < p THEN list[i] ELSE IF i = p THEN x ELSE list[i - 1]
    OBVIOUS
  <2>2. CASE i <= p
    <3>1. i \in 1 .. p  BY <1>4, <2>2
    <3>. QED  BY <1>4, <1>10, <1>12, <2>2, <3>1
  <2>3. CASE ~(i <= p)
    <3>1. d[i] = b[i - p]  BY <1>12, <2>3
    <3>2. i - p \in 1 .. n - p + 1  BY <1>1, <1>4, <2>3
    <3>3. b[i - p] = list[p + (i - p) - 1]  BY <1>6, <3>2
    <3>4. p + (i - p) - 1 = i - 1  BY <1>4
    <3>5. ~(i < p) /\ i # p  BY <1>4, <2>3
    <3>. QED  BY <3>1, <3>3, <3>4, <3>5
  <2>. QED  BY <2>2, <2>3
<1>14. /\ WithAt(list, p, x) \in Seq(S) /\ Len(WithAt(list, p, x)) = n + 1
       /\ \A i \in 1 .. n + 1 :
            WithAt(list, p, x)[i] = IF i < p THEN list[i] ELSE IF i = p THEN x ELSE list[i - 1]
  BY <1>1, WithAtForm
<1>15. d = WithAt(list, p, x)  BY <1>12, <1>13, <1>14, SeqEqual
<1>. QED  BY <1>1, <1>2, <1>3, <1>7, <1>9, <1>11, <1>15 DEF InsertAt

-----------------------------------------------------------------------------
(* Where an item is inserted, and what that does to the order.             *)
Behind(list, new) == {i \in 2 .. Len(list) : ~Precedes(list[i], new)}
Place(list, new) ==
  IF list = <<>> \/ (list # <<>> /\ Precedes(new, Head(list))) THEN 1
  ELSE IF Behind(list, new) = {} THEN Len(list) + 1 ELSE Min(Behind(list, new))

LEMMA PlaceForm ==
  ASSUME NEW S, NEW list \in Seq(S), NEW new
  PROVE  /\ Place(list, new) \in 1 .. Len(list) + 1
         /\ Behind(list, new) # {} => Min(Behind(list, new)) \in Behind(list, new)
                                      /\ \A i \in Behind(list, new) : Min(Behind(list, new)) <= i
<1>1. PICK n \in Nat : n = Len(list)  BY LenProperties
<1>2. Behind(list, new) \in SUBSET (2 .. n) /\ Behind(list, new) \in SUBSET Nat  BY <1>1 DEF Behind
<1>3. Behind(list, new) # {} => Min(Behind(list, new)) \in Behind(list, new)
                                /\ \A i \in Behind(list, new) : Min(Behind(list, new)) <= i
  BY <1>2, LeastIsMin
<1>4. Place(list, new) \in {1, n + 1} \cup (2 .. n)  BY <1>1, <1>2, <1>3 DEF Place
<1>5. {1, n + 1} \cup (2 .. n) \subseteq 1 .. n + 1  BY <1>1
<1>. QED  BY <1>1, <1>3, <1>4, <1>5

LEMMA InsertForm ==
  ASSUME NEW S, NEW list \in Seq(S), NEW new \in S
  PROVE  /\ Place(list, new) \in 1 .. Len(list) + 1
         /\ Insert(list, new) = WithAt(list, Place(list, new), new)
         /\ Insert(list, new) \in Seq(S) /\ Len(Insert(list, new)) = Len(list) + 1
         /\ DOMAIN Insert(list, new) = 1 .. Len(list) + 1
<1>5. SUFFICES Insert(list, new) = WithAt(list, Place(list, new), new)  BY PlaceForm, WithAtForm
<1>1. PICK n \in Nat : n = Len(list)  BY LenProperties
<1>2. Place(list, new) \in 1 .. n + 1  BY <1>1, PlaceForm
<1>3. CASE list = <<>> \/ (list # <<>> /\ Precedes(new, Head(list)))
  <2>1. Insert(list, new) = <<new>> \o list /\ Place(list, new) = 1  BY <1>3 DEF Insert, Place
  <2>2. InsertAt(list, 1, new) = <<new>> \o list
    <3>1. SubSeq(list, 1, 0) = <<>>  BY SubSeqEmpty
    <3>2. SubSeq(list, 1, n) = list  BY <1>1, SubSeqFull
    <3>3. <<>> \o <<new>> = <<new>>
      <4>1. <<new>> \in Seq(S)  OBVIOUS
      <4>. QED  BY <4>1, ConcatEmptySeq
    <3>. QED  BY <1>1, <3>1, <3>2, <3>3 DEF InsertAt
  <2>3. InsertAt(list, 1, new) = WithAt(list, 1, new)  BY <1>1, InsertAtForm
  <2>. QED  BY <2>1, <2>2, <2>3
<1>4. CASE ~(list = <<>> \/ (list # <<>> /\ Precedes(new, Head(list))))
  <2>1. Insert(list, new) = InsertAt(list, Place(list, new), new)  BY <1>4 DEF Insert, Place, Behind
  <2>. QED  BY <1>1, <1>2, <2>1, InsertAtForm
<1>. QED  BY <1>3, <1>4

(* No item of the list has these numbers.                                  *)
Lacks(list, gid, bid) == \A i \in DOMAIN list : ~(list[i].gid = gid /\ list[i].bid = bid)

LEMMA ItemNumbers ==
  ASSUME NEW list \in Seq(AnyItems)
  PROVE  /\ Len(list) \in Nat /\ DOMAIN list = 1 .. Len(list)
         /\ \A i \in 1 .. Len(list) : list[i] \in AnyItems /\ list[i].gid \in Nat /\ list[i].bid \in Nat
<1>1. Len(list) \in Nat /\ DOMAIN list = 1 .. Len(list)  BY LenProperties
<1>2. \A i \in 1 .. Len(list) : list[i] \in AnyItems  BY ElementOfSeq
<1>3. \A x \in AnyItems : x.gid \in Nat /\ x.bid \in Nat  BY DEF AnyItems
<1>. QED  BY <1>1, <1>2, <1>3

LEMMA PlaceDivides ==
  ASSUME NEW list \in Seq(AnyItems), NEW new \in AnyItems, ByNumber(list), Lacks(list, new.gid, new.bid)
  PROVE  \A i \in 1 .. Len(list) : IF i < Place(list, new) THEN Precedes(list[i], new)
                                   ELSE Precedes(new, list[i])
<1>1. PICK n \in Nat : n = Len(list) /\ DOMAIN list = 1 .. n
                       /\ \A i \in 1 .. n : list[i].gid \in Nat /\ list[i].bid \in Nat
  BY ItemNumbers
<1>2. new.gid \in Nat /\ new.bid \in Nat  BY DEF AnyItems
<1>3. \A i \in 1 .. n : Precedes(list[i], new) <=> ~Precedes(new, list[i])
  BY <1>1, <1>2 DEF Lacks, Precedes
<1>4. ASSUME NEW i \in 1 .. n, NEW j \in 1 .. n, i < j, Precedes(new, list[i])
      PROVE  Precedes(new, list[j])
  <2>1. Precedes(list[i], list[j])  BY <1>1, <1>4 DEF ByNumber
  <2>. QED  BY <1>1, <1>2, <1>4, <2>1 DEF Precedes
<1>5. PICK p : p = Place(list, new)  OBVIOUS
<1>6. CASE list = <<>>
  <2>1. n = 0  BY <1>1, <1>6
  <2>. QED  BY <1>1, <2>1
<1>7. CASE list # <<>> /\ Precedes(new, Head(list))
  <2>1. Head(list) = list[1] /\ 1 \in 1 .. n  BY <1>1, <1>7, EmptySeq
  <2>2. Place(list, new) = 1  BY <1>7 DEF Place
  <2>3. \A i \in 1 .. n : Precedes(new, list[i])
    <3>1. SUFFICES ASSUME NEW i \in 1 .. n PROVE Precedes(new, list[i])  OBVIOUS
    <3>2. i = 1 \/ 1 < i  OBVIOUS
    <3>. QED  BY <1>4, <1>7, <2>1, <3>2
  <2>4. \A i \in 1 .. n : ~(i < 1)  OBVIOUS
  <2>. QED  BY <1>1, <2>2, <2>3, <2>4
<1>8. CASE list # <<>> /\ ~Precedes(new, Head(list))
  <2>1. Head(list) = list[1] /\ 1 \in 1 .. n  BY <1>1, <1>8, EmptySeq
  <2>2. Precedes(list[1], new)  BY <1>3, <1>8, <2>1
  <2>3. CASE Behind(list, new) = {}
    <3>1. p = n + 1  BY <1>1, <1>5, <1>8, <2>3 DEF Place
    <3>2. ASSUME NEW i \in 1 .. n PROVE Precedes(list[i], new)
      <4>1. CASE i = 1  BY <2>2, <4>1
      <4>2. CASE i # 1
        <5>1. i \in 2 .. n  BY <4>2
        <5>. QED  BY <1>1, <2>3, <5>1 DEF Behind
      <4>. QED  BY <4>1, <4>2
    <3>3. \A i \in 1 .. n : i < n + 1  OBVIOUS
    <3>. QED  BY <1>1, <1>5, <3>1, <3>2, <3>3
  <2>4. CASE Behind(list, new) # {}
    <3>1. p = Min(Behind(list, new))  BY <1>5, <1>8, <2>4 DEF Place
    <3>2. p \in Behind(list, new) /\ \A i \in Behind(list, new) : p <= i  BY <2>4, <3>1, PlaceForm
    <3>3. p \in 2 .. n /\ Precedes(new, list[p])  BY <1>1, <1>3, <3>2 DEF Behind
    <3>4. ASSUME NEW i \in 1 .. n, i < p PROVE Precedes(list[i], new)
      <4>1. CASE i = 1  BY <2>2, <4>1
      <4>2. CASE i # 1
        <5>1. i \in 2 .. n /\ ~(p <= i)  BY <3>3, <3>4, <4>2
        <5>. QED  BY <1>1, <3>2, <5>1 DEF Behind
      <4>. QED  BY <4>1, <4>2
    <3>5. ASSUME NEW i \in 1 .. n, ~(i < p) PROVE Precedes(new, list[i])
      <4>1. i = p \/ p < i  BY <3>3, <3>5
      <4>2. p \in 1 .. n  BY <3>3
      <4>. QED  BY <1>4, <3>3, <4>1, <4>2
    <3>. QED  BY <1>1, <1>5, <3>4, <3>5
  <2>. QED  BY <2>3, <2>4
<1>. QED  BY <1>6, <1>7, <1>8

-----------------------------------------------------------------------------
(* A copy of the list: in order, and each item at an address of its own.   *)
RefsDiffer(list) == \A i, j \in DOMAIN list : list[i].ref = list[j].ref => i = j
Copy(list) == list \in Seq(AnyItems) /\ ByNumber(list) /\ OnlyGroupsLead(list) /\ RefsDiffer(list)

LEMMA InsertKeeps ==
  ASSUME NEW list \in Seq(AnyItems), NEW new \in AnyItems, ByNumber(list), OnlyGroupsLead(list),
         Lacks(list, new.gid, new.bid), new.bid = 0 => new.type = "group"
  PROVE  /\ Insert(list, new) \in Seq(AnyItems)
         /\ ByNumber(Insert(list, new)) /\ OnlyGroupsLead(Insert(list, new))
         /\ RefsDiffer(list) /\ (\A i \in DOMAIN list : list[i].ref # new.ref) => RefsDiffer(Insert(list, new))
<1>1. PICK n \in Nat : n = Len(list) /\ DOMAIN list = 1 .. n
                       /\ \A i \in 1 .. n : list[i].gid \in Nat /\ list[i].bid \in Nat
  BY ItemNumbers
<1>2. PICK p : p = Place(list, new)  OBVIOUS
<1>3. PICK t : t = Insert(list, new)  OBVIOUS
<1>4. /\ p \in 1 .. n + 1 /\ t \in Seq(AnyItems) /\ DOMAIN t = 1 .. n + 1
      /\ \A i \in 1 .. n + 1 : t[i] = IF i < p THEN list[i] ELSE IF i = p THEN new ELSE list[i - 1]
  <2>1. p \in 1 .. n + 1 /\ t = WithAt(list, p, new) /\ t \in Seq(AnyItems) /\ DOMAIN t = 1 .. n + 1
    BY <1>1, <1>2, <1>3, InsertForm
  <2>. QED  BY <1>1, <2>1 DEF WithAt
<1>5. \A i \in 1 .. n : IF i < p THEN Precedes(list[i], new) ELSE Precedes(new, list[i])
  BY <1>1, <1>2, PlaceDivides
<1>6. ASSUME NEW i \in 1 .. n + 1 PROVE i < p \/ i = p \/ i > p  BY <1>4
<1>7. \A i \in 1 .. n + 1 : /\ i < p => i \in 1 .. n
                            /\ i > p => i - 1 \in 1 .. n /\ ~(i - 1 < p)
  BY <1>4
<1>8. ByNumber(t)
  <2>1. SUFFICES ASSUME NEW i \in 1 .. n + 1, NEW j \in 1 .. n + 1, i < j  PROVE Precedes(t[i], t[j])
    BY <1>4 DEF ByNumber
  <2>2. CASE j < p
    <3>1. i < p /\ i \in 1 .. n /\ j \in 1 .. n  BY <1>4, <2>1, <2>2
    <3>. QED  BY <1>1, <1>4, <2>1, <2>2, <3>1 DEF ByNumber
  <2>3. CASE j = p
    <3>1. i < p /\ i \in 1 .. n  BY <1>4, <2>1, <2>3
    <3>. QED  BY <1>4, <1>5, <2>3, <3>1
  <2>4. CASE j > p /\ i < p
    <3>1. i \in 1 .. n /\ j - 1 \in 1 .. n /\ i < j - 1  BY <1>4, <2>4
    <3>2. Precedes(list[i], list[j - 1])  BY <1>1, <3>1 DEF ByNumber
    <3>3. t[i] = list[i] /\ t[j] = list[j - 1]  BY <1>4, <2>4
    <3>. QED  BY <3>2, <3>3
  <2>5. CASE j > p /\ i = p
    <3>1. j - 1 \in 1 .. n /\ ~(j - 1 < p)  BY <1>4, <2>5
    <3>2. t[i] = new /\ t[j] = list[j - 1]  BY <1>4, <2>5
    <3>. QED  BY <1>5, <3>1, <3>2
  <2>6. CASE j > p /\ i > p
    <3>1. i - 1 \in 1 .. n /\ j - 1 \in 1 .. n /\ i - 1 < j - 1  BY <1>4, <2>1, <2>6
    <3>2. Precedes(list[i - 1], list[j - 1])  BY <1>1, <3>1 DEF ByNumber
    <3>3. t[i] = list[i - 1] /\ t[j] = list[j - 1]  BY <1>4, <2>6
    <3>. QED  BY <3>2, <3>3
  <2>. QED  BY <1>6, <2>2, <2>3, <2>4, <2>5, <2>6
<1>9. OnlyGroupsLead(t)
  <2>1. SUFFICES ASSUME NEW i \in 1 .. n + 1, t[i].bid = 0  PROVE t[i].type = "group"
    BY <1>4 DEF OnlyGroupsLead
  <2>. QED  BY <1>1, <1>4, <1>6, <1>7, <2>1 DEF OnlyGroupsLead
<1>10. ASSUME RefsDiffer(list), \A i \in DOMAIN list : list[i].ref # new.ref  PROVE RefsDiffer(t)
  <2>1. SUFFICES ASSUME NEW i \in 1 .. n + 1, NEW j \in 1 .. n + 1, i < j  PROVE t[i].ref # t[j].ref
    <3>1. \A i, j \in 1 .. n + 1 : i < j => t[i].ref # t[j].ref  BY <2>1
    <3>2. \A i, j \in 1 .. n + 1 : i < j \/ j < i \/ i = j  OBVIOUS
    <3>. QED  BY <1>4, <3>1, <3>2 DEF RefsDiffer
  <2>2. CASE j < p
    <3>1. i < p /\ i \in 1 .. n /\ j \in 1 .. n  BY <1>4, <2>1, <2>2
    <3>. QED  BY <1>1, <1>4, <1>10, <2>1, <2>2, <3>1 DEF RefsDiffer
  <2>3. CASE j = p
    <3>1. i < p /\ i \in 1 .. n  BY <1>4, <2>1, <2>3
    <3>. QED  BY <1>1, <1>4, <1>10, <2>3, <3>1
  <2>4. CASE j > p /\ i < p
    <3>1. i \in 1 .. n /\ j - 1 \in 1 .. n /\ i # j - 1  BY <1>4, <2>4
    <3>2. list[i].ref # list[j - 1].ref  BY <1>1, <1>10, <3>1 DEF RefsDiffer
    <3>3. t[i] = list[i] /\ t[j] = list[j - 1]  BY <1>4, <2>4
    <3>. QED  BY <3>2, <3>3
  <2>5. CASE j > p /\ i = p
    <3>1. j - 1 \in 1 .. n  BY <1>4, <2>5
    <3>2. t[i] = new /\ t[j] = list[j - 1]  BY <1>4, <2>5
    <3>. QED  BY <1>1, <1>10, <3>1, <3>2
  <2>6. CASE j > p /\ i > p
    <3>1. i - 1 \in 1 .. n /\ j - 1 \in 1 .. n /\ i - 1 # j - 1  BY <1>4, <2>1, <2>6
    <3>2. list[i - 1].ref # list[j - 1].ref  BY <1>1, <1>10, <3>1 DEF RefsDiffer
    <3>3. t[i] = list[i - 1] /\ t[j] = list[j - 1]  BY <1>4, <2>6
    <3>. QED  BY <3>2, <3>3
  <2>. QED  BY <1>6, <2>2, <2>3, <2>4, <2>5, <2>6
<1>. QED  BY <1>3, <1>4, <1>8, <1>9, <1>10

LEMMA RemoveKeeps ==
  ASSUME NEW list \in Seq(AnyItems), ByNumber(list), OnlyGroupsLead(list), NEW p \in 1 .. Len(list)
  PROVE  /\ RemoveAt(list, p) \in Seq(AnyItems)
         /\ ByNumber(RemoveAt(list, p)) /\ OnlyGroupsLead(RemoveAt(list, p))
         /\ RefsDiffer(list) => RefsDiffer(RemoveAt(list, p))
<1>1. PICK n \in Nat : n = Len(list) /\ DOMAIN list = 1 .. n  BY ItemNumbers
<1>2. PICK t : t = RemoveAt(list, p)  OBVIOUS
<1>3. /\ t \in Seq(AnyItems) /\ DOMAIN t = 1 .. n - 1
      /\ \A i \in 1 .. n - 1 : t[i] = IF i < p THEN list[i] ELSE list[i + 1]
  <2>1. /\ WithoutAt(list, p) \in Seq(AnyItems) /\ DOMAIN WithoutAt(list, p) = 1 .. Len(list) - 1
        /\ \A i \in 1 .. Len(list) - 1 : WithoutAt(list, p)[i] = IF i < p THEN list[i] ELSE list[i + 1]
    BY WithoutAtForm
  <2>. QED  BY <1>1, <1>2, <2>1, RemoveAtForm
<1>4. PICK at : at = [i \in 1 .. n - 1 |-> IF i < p THEN i ELSE i + 1]  OBVIOUS
<1>5. \A i \in 1 .. n - 1 : at[i] \in 1 .. n /\ t[i] = list[at[i]]  BY <1>3, <1>4
<1>6. \A i, j \in 1 .. n - 1 : i < j => at[i] < at[j]  BY <1>4
<1>7. \A i, j \in 1 .. n - 1 : at[i] = at[j] => i = j  BY <1>4
<1>8. ByNumber(t)  BY <1>1, <1>3, <1>5, <1>6 DEF ByNumber
<1>9. OnlyGroupsLead(t)  BY <1>1, <1>3, <1>5 DEF OnlyGroupsLead
<1>10. RefsDiffer(list) => RefsDiffer(t)
  <2>1. SUFFICES ASSUME RefsDiffer(list), NEW i \in 1 .. n - 1, NEW j \in 1 .. n - 1, t[i].ref = t[j].ref
                 PROVE  i = j
    BY <1>3 DEF RefsDiffer
  <2>2. at[i] = at[j]  BY <1>1, <1>5, <2>1 DEF RefsDiffer
  <2>. QED  BY <1>7, <2>2
<1>. QED  BY <1>2, <1>3, <1>8, <1>9, <1>10

(* Lists that differ in what is not a number, an address or a kind.        *)
LEMMA AlikeKeeps ==
  ASSUME NEW list \in Seq(AnyItems), NEW t \in Seq(AnyItems), ByNumber(list), OnlyGroupsLead(list),
         Len(t) = Len(list),
         \A i \in 1 .. Len(list) : /\ t[i].gid = list[i].gid /\ t[i].bid = list[i].bid
                                   /\ t[i].type = list[i].type
  PROVE  /\ ByNumber(t) /\ OnlyGroupsLead(t)
         /\ RefsDiffer(list) /\ (\A i \in 1 .. Len(list) : t[i].ref = list[i].ref) => RefsDiffer(t)
         /\ \A gid, bid : Find(t, gid, bid) = Find(list, gid, bid)
<1>1. PICK n \in Nat : n = Len(list) /\ DOMAIN list = 1 .. n /\ DOMAIN t = 1 .. n  BY ItemNumbers
<1>2. \A gid, bid : Find(t, gid, bid) = Find(list, gid, bid)
  <2>1. SUFFICES ASSUME NEW gid, NEW bid PROVE Find(t, gid, bid) = Find(list, gid, bid)  OBVIOUS
  <2>2. {i \in 1 .. Len(t) : t[i].gid = gid /\ t[i].bid = bid}
          = {i \in 1 .. Len(list) : list[i].gid = gid /\ list[i].bid = bid}  BY <1>1
  <2>. QED  BY <2>2 DEF Find, SelectInSeq
<1>3. ByNumber(t)  BY <1>1 DEF ByNumber, Precedes
<1>4. OnlyGroupsLead(t)  BY <1>1 DEF OnlyGroupsLead
<1>5. RefsDiffer(list) /\ (\A i \in 1 .. Len(list) : t[i].ref = list[i].ref) => RefsDiffer(t)
  BY <1>1 DEF RefsDiffer
<1>. QED  BY <1>2, <1>3, <1>4, <1>5

LEMMA FindForm ==
  ASSUME NEW list \in Seq(AnyItems), NEW gid, NEW bid
  PROVE  /\ Find(list, gid, bid) \in 0 .. Len(list)
         /\ Find(list, gid, bid) # 0 => /\ list[Find(list, gid, bid)].gid = gid
                                        /\ list[Find(list, gid, bid)].bid = bid
         /\ Find(list, gid, bid) = 0 <=> Lacks(list, gid, bid)
         /\ ByNumber(list) => \A i \in 1 .. Len(list) : list[i].gid = gid /\ list[i].bid = bid
                                                         => i = Find(list, gid, bid)
<1>1. PICK n \in Nat : n = Len(list) /\ DOMAIN list = 1 .. n
                       /\ \A i \in 1 .. n : list[i].gid \in Nat /\ list[i].bid \in Nat
  BY ItemNumbers
<1>2. PICK I : I = {i \in 1 .. n : list[i].gid = gid /\ list[i].bid = bid}  OBVIOUS
<1>3. Find(list, gid, bid) = IF I # {} THEN Min(I) ELSE 0  BY <1>1, <1>2 DEF Find, SelectInSeq
<1>4. I # {} => Min(I) \in I  BY <1>2, LeastIsMin
<1>5. I = {} <=> Lacks(list, gid, bid)  BY <1>1, <1>2 DEF Lacks
<1>6. ByNumber(list) => \A i, j \in I : i = j
  <2>1. SUFFICES ASSUME ByNumber(list), NEW i \in I, NEW j \in I, i < j PROVE FALSE
    <3>1. ByNumber(list) => \A i, j \in I : ~(i < j)  BY <2>1
    <3>2. \A i, j \in I : i < j \/ j < i \/ i = j  BY <1>2
    <3>. QED  BY <3>1, <3>2
  <2>2. Precedes(list[i], list[j])  BY <1>1, <1>2, <2>1 DEF ByNumber
  <2>. QED  BY <1>1, <1>2, <2>2 DEF Precedes
<1>7. CASE I = {}  BY <1>1, <1>2, <1>3, <1>5, <1>7
<1>8. CASE I # {}
  <2>1. PICK f \in I : f = Find(list, gid, bid)  BY <1>3, <1>4, <1>8
  <2>2. f \in 1 .. n /\ list[f].gid = gid /\ list[f].bid = bid /\ f # 0  BY <1>2, <2>1
  <2>3. ByNumber(list) => \A i \in 1 .. n : list[i].gid = gid /\ list[i].bid = bid => i = f
    BY <1>2, <1>6, <2>1
  <2>. QED  BY <1>1, <1>5, <1>8, <2>1, <2>2, <2>3
<1>. QED  BY <1>7, <1>8

-----------------------------------------------------------------------------
(* What the items say, wherever they are kept.                             *)
Bare(x) == [x EXCEPT !.ref = 0]

LEMMA BareForm ==
  ASSUME NEW x \in AnyItems
  PROVE  /\ Bare(x) \in AnyItems /\ Bare(x).ref = 0 /\ Bare(x).gid = x.gid /\ Bare(x).bid = x.bid
         /\ Bare(x).type = x.type /\ Bare(x).name = x.name /\ Bare(x).members = x.members
         /\ Bare(x).alias = x.alias
         /\ \A r \in Nat : [x EXCEPT !.ref = r] \in AnyItems /\ [x EXCEPT !.ref = r].ref = r
                           /\ [x EXCEPT !.ref = r].gid = x.gid /\ [x EXCEPT !.ref = r].bid = x.bid
                           /\ [x EXCEPT !.ref = r].type = x.type
                           /\ Bare([x EXCEPT !.ref = r]) = Bare(x)
         /\ x.ref = 0 => Bare(x) = x
BY DEF Bare, AnyItems

LEMMA ContentsForm ==
  ASSUME NEW list \in Seq(AnyItems)
  PROVE  /\ Contents(list) \in Seq(AnyItems) /\ Len(Contents(list)) = Len(list)
         /\ DOMAIN Contents(list) = 1 .. Len(list)
         /\ \A i \in 1 .. Len(list) : /\ Contents(list)[i] = Bare(list[i])
                                      /\ Contents(list)[i].gid = list[i].gid
                                      /\ Contents(list)[i].bid = list[i].bid
                                      /\ Contents(list)[i].type = list[i].type
<1>1. PICK n \in Nat : n = Len(list) /\ DOMAIN list = 1 .. n /\ \A i \in 1 .. n : list[i] \in AnyItems
  BY ItemNumbers
<1>2. PICK c : c = Contents(list)  OBVIOUS
<1>3. c = [i \in 1 .. n |-> Bare(list[i])]  BY <1>1, <1>2 DEF Contents, Bare
<1>4. c \in [1 .. n -> AnyItems]  BY <1>1, <1>3, BareForm
<1>5. c \in Seq(AnyItems)  BY <1>4, SeqDef
<1>6. Len(c) = n  BY <1>4, <1>5, LenProperties
<1>7. \A i \in 1 .. n : /\ c[i] = Bare(list[i]) /\ c[i].gid = list[i].gid /\ c[i].bid = list[i].bid
                        /\ c[i].type = list[i].type
  BY <1>1, <1>3, BareForm
<1>. QED  BY <1>1, <1>2, <1>3, <1>5, <1>6, <1>7

LEMMA ContentsKeep ==
  ASSUME NEW list \in Seq(AnyItems), ByNumber(list), OnlyGroupsLead(list)
  PROVE  /\ ByNumber(Contents(list)) /\ OnlyGroupsLead(Contents(list))
         /\ \A gid, bid : Find(Contents(list), gid, bid) = Find(list, gid, bid)
BY ContentsForm, AlikeKeeps

LEMMA ContentsOfInsert ==
  ASSUME NEW list \in Seq(AnyItems), NEW new \in AnyItems
  PROVE  Contents(Insert(list, new)) = Insert(Contents(list), Bare(new))
<1>1. PICK n \in Nat : n = Len(list) /\ DOMAIN list = 1 .. n  BY ItemNumbers
<1>2. PICK c \in Seq(AnyItems) : /\ c = Contents(list) /\ Len(c) = n /\ DOMAIN c = 1 .. n
                                 /\ \A i \in 1 .. n : /\ c[i] = Bare(list[i]) /\ c[i].gid = list[i].gid
                                                      /\ c[i].bid = list[i].bid
  BY <1>1, ContentsForm
<1>3. PICK b \in AnyItems : b = Bare(new) /\ b.gid = new.gid /\ b.bid = new.bid  BY BareForm
<1>4. Place(c, b) = Place(list, new)
  <2>1. \A i \in 1 .. n : Precedes(c[i], b) <=> Precedes(list[i], new)  BY <1>2, <1>3 DEF Precedes
  <2>2. \A i \in 1 .. n : Precedes(b, c[i]) <=> Precedes(new, list[i])  BY <1>2, <1>3 DEF Precedes
  <2>3. Behind(c, b) = Behind(list, new)  BY <1>1, <1>2, <2>1 DEF Behind
  <2>4. c = <<>> <=> n = 0  BY <1>2, EmptySeq
  <2>5. list = <<>> <=> n = 0  BY <1>1, EmptySeq
  <2>6. list # <<>> => Head(c) = c[1] /\ Head(list) = list[1] /\ 1 \in 1 .. n
    BY <1>1, <1>2, <2>4, <2>5
  <2>. QED  BY <1>1, <1>2, <2>2, <2>3, <2>4, <2>5, <2>6 DEF Place
<1>5. PICK p : p = Place(list, new)  OBVIOUS
<1>6. PICK t : t = Insert(list, new)  OBVIOUS
<1>7. PICK u : u = Insert(c, b)  OBVIOUS
<1>8. /\ p \in 1 .. n + 1 /\ t \in Seq(AnyItems) /\ Len(t) = n + 1
      /\ \A i \in 1 .. n + 1 : t[i] = IF i < p THEN list[i] ELSE IF i = p THEN new ELSE list[i - 1]
  <2>1. p \in 1 .. n + 1 /\ t = WithAt(list, p, new) /\ t \in Seq(AnyItems) /\ Len(t) = n + 1
    BY <1>1, <1>5, <1>6, InsertForm
  <2>. QED  BY <1>1, <2>1 DEF WithAt
<1>9. /\ u \in Seq(AnyItems) /\ Len(u) = n + 1
      /\ \A i \in 1 .. n + 1 : u[i] = IF i < p THEN c[i] ELSE IF i = p THEN b ELSE c[i - 1]
  <2>1. u = WithAt(c, p, b) /\ u \in Seq(AnyItems) /\ Len(u) = n + 1
    BY <1>2, <1>3, <1>4, <1>5, <1>7, InsertForm
  <2>. QED  BY <1>2, <2>1 DEF WithAt
<1>10. /\ Contents(t) \in Seq(AnyItems) /\ Len(Contents(t)) = n + 1
       /\ \A i \in 1 .. n + 1 : Contents(t)[i] = Bare(t[i])
  BY <1>8, ContentsForm
<1>11. \A i \in 1 .. n + 1 : Bare(t[i]) = u[i]
  <2>1. SUFFICES ASSUME NEW i \in 1 .. n + 1 PROVE Bare(t[i]) = u[i]  OBVIOUS
  <2>2. CASE i < p
    <3>1. i \in 1 .. n  BY <1>8, <2>2
    <3>. QED  BY <1>2, <1>8, <1>9, <2>2, <3>1
  <2>3. CASE i = p
    <3>1. ~(i < p)  BY <1>8, <2>3
    <3>2. t[i] = new  BY <1>8, <2>3, <3>1
    <3>3. u[i] = b  BY <1>9, <2>3, <3>1
    <3>. QED  BY <1>3, <3>2, <3>3
  <2>4. CASE i > p
    <3>1. i - 1 \in 1 .. n /\ ~(i < p) /\ i # p  BY <1>8, <2>4
    <3>. QED  BY <1>2, <1>8, <1>9, <3>1
  <2>. QED  BY <1>8, <2>2, <2>3, <2>4
<1>12. Contents(t) = u  BY <1>9, <1>10, <1>11, SeqEqual
<1>. QED  BY <1>2, <1>3, <1>6, <1>7, <1>12

LEMMA ContentsOfRemove ==
  ASSUME NEW list \in Seq(AnyItems), NEW p \in 1 .. Len(list)
  PROVE  Contents(RemoveAt(list, p)) = RemoveAt(Contents(list), p)
<1>1. PICK n \in Nat : n = Len(list) /\ DOMAIN list = 1 .. n /\ n - 1 \in Nat  BY ItemNumbers
<1>2. PICK c \in Seq(AnyItems) : /\ c = Contents(list) /\ Len(c) = n
                                 /\ \A i \in 1 .. n : c[i] = Bare(list[i])
  BY <1>1, ContentsForm
<1>3. PICK t : t = RemoveAt(list, p)  OBVIOUS
<1>4. /\ t \in Seq(AnyItems) /\ Len(t) = n - 1
      /\ \A i \in 1 .. n - 1 : t[i] = IF i < p THEN list[i] ELSE list[i + 1]
  <2>1. t = WithoutAt(list, p) /\ t \in Seq(AnyItems) /\ Len(t) = n - 1
    BY <1>1, <1>3, RemoveAtForm, WithoutAtForm
  <2>. QED  BY <1>1, <2>1 DEF WithoutAt
<1>5. PICK u : u = RemoveAt(c, p)  OBVIOUS
<1>6. /\ u \in Seq(AnyItems) /\ Len(u) = n - 1
      /\ \A i \in 1 .. n - 1 : u[i] = IF i < p THEN c[i] ELSE c[i + 1]
  <2>1. p \in 1 .. Len(c)  BY <1>1, <1>2
  <2>2. u = WithoutAt(c, p) /\ u \in Seq(AnyItems) /\ Len(u) = n - 1
    BY <1>2, <1>5, <2>1, RemoveAtForm, WithoutAtForm
  <2>. QED  BY <1>2, <2>2 DEF WithoutAt
<1>7. /\ Contents(t) \in Seq(AnyItems) /\ Len(Contents(t)) = n - 1
      /\ \A i \in 1 .. n - 1 : Contents(t)[i] = Bare(t[i])
  BY <1>4, ContentsForm
<1>8. \A i \in 1 .. n - 1 : Bare(t[i]) = u[i]
  <2>1. SUFFICES ASSUME NEW i \in 1 .. n - 1 PROVE Bare(t[i]) = u[i]  OBVIOUS
  <2>2. i \in 1 .. n /\ i + 1 \in 1 .. n  BY <1>1
  <2>. QED  BY <1>2, <1>4, <1>6, <2>2
<1>9. Contents(t) = u  BY <1>6, <1>7, <1>8, SeqEqual
<1>. QED  BY <1>2, <1>3, <1>5, <1>9

LEMMA ContentsOfExcept ==
  ASSUME NEW list \in Seq(AnyItems), NEW p \in 1 .. Len(list), NEW x \in AnyItems
  PROVE  /\ Contents([list EXCEPT ![p] = x]) = [Contents(list) EXCEPT ![p] = Bare(x)]
         /\ [list EXCEPT ![p] = x] \in Seq(AnyItems)
<1>1. PICK n \in Nat : n = Len(list) /\ DOMAIN list = 1 .. n  BY ItemNumbers
<1>2. PICK c \in Seq(AnyItems) : /\ c = Contents(list) /\ Len(c) = n
                                 /\ \A i \in 1 .. n : c[i] = Bare(list[i])
  BY <1>1, ContentsForm
<1>3. PICK t : t = [list EXCEPT ![p] = x]  OBVIOUS
<1>4. t \in Seq(AnyItems) /\ Len(t) = n /\ \A i \in 1 .. n : t[i] = IF i = p THEN x ELSE list[i]
  BY <1>1, <1>3, ExceptSeq
<1>5. PICK u : u = [c EXCEPT ![p] = Bare(x)]  OBVIOUS
<1>6. u \in Seq(AnyItems) /\ Len(u) = n /\ \A i \in 1 .. n : u[i] = IF i = p THEN Bare(x) ELSE c[i]
  BY <1>1, <1>2, <1>5, ExceptSeq, BareForm
<1>7. /\ Contents(t) \in Seq(AnyItems) /\ Len(Contents(t)) = n
      /\ \A i \in 1 .. n : Contents(t)[i] = Bare(t[i])
  BY <1>4, ContentsForm
<1>8. \A i \in 1 .. n : Bare(t[i]) = u[i]  BY <1>2, <1>4, <1>6
<1>9. Contents(t) = u  BY <1>6, <1>7, <1>8, SeqEqual
<1>. QED  BY <1>2, <1>3, <1>4, <1>5, <1>9

-----------------------------------------------------------------------------
(* What the client keeps.                                                  *)
Edits    == {"add", "del", "mod"}
SentItems  == [kind : Edits, ref : Nat]
RequestKinds == Edits \cup {"reqrights", "buddyrights", "reqdata", "enable", "editstop"}
SsiRequests == [kind : RequestKinds, items : Seq(AnyItems)]
SsiStates ==
  [local : Seq(AnyItems), official : Seq(AnyItems), pending : Seq(SentItems), waiting : BOOLEAN,
   received : BOOLEAN, up : BOOLEAN, sent : Seq(SsiRequests)]

(* What is no list of items stays as it is.                                *)
Alongside(s, t) ==
  /\ t.pending = s.pending /\ t.waiting = s.waiting /\ t.received = s.received
  /\ t.up = s.up /\ t.sent = s.sent

LEMMA RefsAreFinite ==
  ASSUME NEW list \in Seq(AnyItems)
  PROVE  /\ IsFiniteSet({x.ref : x \in ToSet(list)}) /\ {x.ref : x \in ToSet(list)} \subseteq Nat
         /\ \A i \in DOMAIN list : list[i].ref \in {x.ref : x \in ToSet(list)}
<1>1. PICK n \in Nat : n = Len(list) /\ DOMAIN list = 1 .. n /\ \A i \in 1 .. n : list[i] \in AnyItems
  BY ItemNumbers
<1>2. PICK U : U = {x.ref : x \in ToSet(list)}  OBVIOUS
<1>3. PICK f : f = [i \in 1 .. n |-> list[i].ref]  OBVIOUS
<1>4. U = {f[i] : i \in 1 .. n}  BY <1>1, <1>2, <1>3 DEF ToSet
<1>5. IsFiniteSet(U)  BY <1>4, ImagesAreSmall
<1>6. \A x \in AnyItems : x.ref \in Nat  BY DEF AnyItems
<1>7. U \subseteq Nat  BY <1>1, <1>3, <1>4, <1>6
<1>8. \A i \in 1 .. n : list[i].ref \in U  BY <1>3, <1>4
<1>. QED  BY <1>1, <1>2, <1>5, <1>7, <1>8

LEMMA FreshRefForm ==
  ASSUME NEW s \in SsiStates
  PROVE  /\ FreshRef(s) \in Nat
         /\ \A i \in DOMAIN s.local : s.local[i].ref # FreshRef(s)
         /\ \A i \in DOMAIN s.official : s.official[i].ref # FreshRef(s)
<1>1. PICK l \in Seq(AnyItems), o \in Seq(AnyItems) : l = s.local /\ o = s.official  BY DEF SsiStates
<1>2. PICK U : U = {x.ref : x \in ToSet(l)}  OBVIOUS
<1>3. PICK W : W = {x.ref : x \in ToSet(o)}  OBVIOUS
<1>4. IsFiniteSet(U) /\ U \subseteq Nat /\ \A i \in DOMAIN l : l[i].ref \in U  BY <1>2, RefsAreFinite
<1>5. IsFiniteSet(W) /\ W \subseteq Nat /\ \A i \in DOMAIN o : o[i].ref \in W  BY <1>3, RefsAreFinite
<1>6. PICK T : T = U \cup W  OBVIOUS
<1>7. T = {x.ref : x \in ToSet(l) \cup ToSet(o)}  BY <1>2, <1>3, <1>6
<1>8. IsFiniteSet(T)  BY <1>4, <1>5, <1>6, FS_Union
<1>9. PICK n \in Nat : n = Cardinality(T)  BY <1>8, FS_CardinalityType
<1>10. Min((1 .. 1 + n) \ T) \in (1 .. 1 + n) \ T
  <2>1. n <= n /\ 1 \in Nat  OBVIOUS
  <2>. QED  BY <1>8, <1>9, <2>1, SomeIsFree
<1>11. 1 + n = n + 1  OBVIOUS
<1>12. PICK f : f = FreshRef(s)  OBVIOUS
<1>13. f = Min((1 .. n + 1) \ T)  BY <1>1, <1>7, <1>9, <1>12 DEF FreshRef
<1>14. f = Min((1 .. 1 + n) \ T)  BY <1>11, <1>13, Zenon
<1>15. f \in (1 .. 1 + n) \ T  BY <1>10, <1>14, Zenon
<1>16. f \in Nat /\ f \notin T  BY <1>15
<1>. QED  BY <1>1, <1>4, <1>5, <1>6, <1>12, <1>16

(* What inserting an item into a list makes of it.                         *)
Added(list, new, x) ==
  /\ new \in Seq(AnyItems)
  /\ Contents(new) = Insert(Contents(list), Bare(x))
  /\ \E y \in AnyItems : /\ new = Insert(list, y) /\ Bare(y) = Bare(x)
                         /\ y.gid = x.gid /\ y.bid = x.bid /\ y.type = x.type /\ y.name = x.name
  /\ Copy(list) /\ Lacks(list, x.gid, x.bid) /\ (x.bid = 0 => x.type = "group") => Copy(new)

LEMMA AddedForm ==
  ASSUME NEW s \in SsiStates, NEW list \in Seq(AnyItems), list = s.local \/ list = s.official, NEW x \in AnyItems
  PROVE  Added(list, Insert(list, [x EXCEPT !.ref = FreshRef(s)]), x)
<1>1. PICK r \in Nat : r = FreshRef(s) /\ \A i \in DOMAIN list : list[i].ref # r  BY FreshRefForm
<1>2. PICK y \in AnyItems : /\ y = [x EXCEPT !.ref = r] /\ y.ref = r /\ Bare(y) = Bare(x)
                            /\ y.gid = x.gid /\ y.bid = x.bid /\ y.type = x.type /\ y.name = x.name
  <2>1. PICK y : y = [x EXCEPT !.ref = r]  OBVIOUS
  <2>2. y \in AnyItems /\ y.ref = r /\ y.gid = x.gid /\ y.bid = x.bid /\ y.type = x.type /\ Bare(y) = Bare(x)
    BY <2>1, BareForm
  <2>3. y.name = x.name  BY <2>1 DEF AnyItems
  <2>. QED  BY <2>1, <2>2, <2>3
<1>3. PICK t : t = Insert(list, y)  OBVIOUS
<1>4. t \in Seq(AnyItems) /\ Contents(t) = Insert(Contents(list), Bare(x))
  BY <1>2, <1>3, InsertForm, ContentsOfInsert
<1>5. ASSUME Copy(list), Lacks(list, x.gid, x.bid), x.bid = 0 => x.type = "group"  PROVE Copy(t)
  <2>1. /\ ByNumber(list) /\ OnlyGroupsLead(list) /\ RefsDiffer(list) /\ Lacks(list, y.gid, y.bid)
        /\ (y.bid = 0 => y.type = "group") /\ \A i \in DOMAIN list : list[i].ref # y.ref
    BY <1>1, <1>2, <1>5 DEF Copy
  <2>2. t \in Seq(AnyItems) /\ ByNumber(t) /\ OnlyGroupsLead(t) /\ RefsDiffer(t)  BY <1>3, <2>1, InsertKeeps
  <2>. QED  BY <2>2 DEF Copy
<1>6. Added(list, t, x)  BY <1>2, <1>3, <1>4, <1>5 DEF Added
<1>. QED  BY <1>1, <1>2, <1>3, <1>6

LEMMA PutLocal ==
  ASSUME NEW s \in SsiStates, NEW x \in AnyItems
  PROVE  /\ Put(s, "local", x) \in SsiStates /\ Alongside(s, Put(s, "local", x))
         /\ Put(s, "local", x).official = s.official
         /\ Added(s.local, Put(s, "local", x).local, x)
<1>1. PICK list \in Seq(AnyItems) : list = s.local  BY DEF SsiStates
<1>2. PICK new : new = Insert(list, [x EXCEPT !.ref = FreshRef(s)])  OBVIOUS
<1>3. Added(list, new, x)  BY <1>1, <1>2, AddedForm
<1>4. new \in Seq(AnyItems)  BY <1>3 DEF Added
<1>5. PICK t : t = Put(s, "local", x)  OBVIOUS
<1>6. t = [s EXCEPT !.local = new]  BY <1>1, <1>2, <1>5 DEF Put
<1>7. t \in SsiStates /\ t.local = new /\ t.official = s.official /\ Alongside(s, t)
  BY <1>4, <1>6 DEF SsiStates, Alongside
<1>. QED  BY <1>1, <1>3, <1>5, <1>7

LEMMA PutOfficial ==
  ASSUME NEW s \in SsiStates, NEW x \in AnyItems
  PROVE  /\ Put(s, "official", x) \in SsiStates /\ Alongside(s, Put(s, "official", x))
         /\ Put(s, "official", x).local = s.local
         /\ Added(s.official, Put(s, "official", x).official, x)
<1>1. PICK list \in Seq(AnyItems) : list = s.official  BY DEF SsiStates
<1>2. PICK new : new = Insert(list, [x EXCEPT !.ref = FreshRef(s)])  OBVIOUS
<1>3. Added(list, new, x)  BY <1>1, <1>2, AddedForm
<1>4. new \in Seq(AnyItems)  BY <1>3 DEF Added
<1>5. PICK t : t = Put(s, "official", x)  OBVIOUS
<1>6. t = [s EXCEPT !.official = new]  BY <1>1, <1>2, <1>5 DEF Put
<1>7. t \in SsiStates /\ t.official = new /\ t.local = s.local /\ Alongside(s, t)
  BY <1>4, <1>6 DEF SsiStates, Alongside
<1>. QED  BY <1>1, <1>3, <1>5, <1>7

-----------------------------------------------------------------------------
(* Lists in order that have the same items are the same.                   *)
LEMMA OneOfAKey ==
  ASSUME NEW list \in Seq(AnyItems), ByNumber(list), NEW i \in DOMAIN list, NEW j \in DOMAIN list
  PROVE  /\ list[i].gid = list[j].gid /\ list[i].bid = list[j].bid => i = j
         /\ Precedes(list[i], list[j]) => i < j
<1>1. PICK n \in Nat : n = Len(list) /\ DOMAIN list = 1 .. n
                       /\ \A k \in 1 .. n : list[k].gid \in Nat /\ list[k].bid \in Nat
  BY ItemNumbers
<1>2. i < j \/ j < i \/ i = j  BY <1>1
<1>3. i < j => Precedes(list[i], list[j])  BY DEF ByNumber
<1>4. j < i => Precedes(list[j], list[i])  BY DEF ByNumber
<1>. QED  BY <1>1, <1>2, <1>3, <1>4 DEF Precedes

LEMMA SameLists ==
  ASSUME NEW a \in Seq(AnyItems), NEW b \in Seq(AnyItems), ByNumber(a), ByNumber(b),
         \A i \in DOMAIN a : \E j \in DOMAIN b : a[i] = b[j],
         \A j \in DOMAIN b : \E i \in DOMAIN a : b[j] = a[i]
  PROVE  a = b
<1>1. PICK m \in Nat : m = Len(a) /\ DOMAIN a = 1 .. m
                       /\ \A k \in 1 .. m : a[k].gid \in Nat /\ a[k].bid \in Nat
  BY ItemNumbers
<1>2. PICK n \in Nat : n = Len(b) /\ DOMAIN b = 1 .. n
                       /\ \A k \in 1 .. n : b[k].gid \in Nat /\ b[k].bid \in Nat
  BY ItemNumbers
<1>5. \A i, j \in 1 .. m : /\ a[i].gid = a[j].gid /\ a[i].bid = a[j].bid => i = j
                           /\ Precedes(a[i], a[j]) => i < j
  BY <1>1, OneOfAKey
<1>6. \A i, j \in 1 .. n : /\ b[i].gid = b[j].gid /\ b[i].bid = b[j].bid => i = j
                           /\ i < j => Precedes(b[i], b[j])
  BY <1>2, OneOfAKey DEF ByNumber
<1>3. \A k \in 1 .. m : k \in 1 .. n /\ a[k] = b[k]
  <2>1. PICK Fails : Fails = {k \in 1 .. m : ~(k \in 1 .. n /\ a[k] = b[k])}  OBVIOUS
  <2>2. SUFFICES ASSUME Fails # {} PROVE FALSE  BY <2>1
  <2>3. PICK k \in Fails : \A i \in Fails : k <= i
    <3>1. Fails \in SUBSET Nat  BY <2>1
    <3>. QED  BY <2>2, <3>1, LeastNumber
  <2>4. k \in 1 .. m /\ \A i \in 1 .. m : i < k => i \in 1 .. n /\ a[i] = b[i]
    <3>1. \A i \in 1 .. m : i < k => i \notin Fails  BY <2>1, <2>3
    <3>. QED  BY <2>1, <2>3, <3>1
  <2>5. PICK j \in 1 .. n : a[k] = b[j]  BY <1>1, <1>2, <2>4
  <2>6. ~(j < k)
    <3>1. SUFFICES ASSUME j < k PROVE FALSE  OBVIOUS
    <3>2. j \in 1 .. m /\ a[j] = b[j]  BY <1>2, <2>4, <3>1
    <3>3. j = k  BY <1>5, <2>4, <2>5, <3>2
    <3>. QED  BY <3>1, <3>3
  <2>7. ~(k < j)
    <3>1. SUFFICES ASSUME k < j PROVE FALSE  OBVIOUS
    <3>2. k \in 1 .. n /\ Precedes(b[k], b[j])
      <4>1. k \in 1 .. n  BY <2>4, <2>5, <3>1
      <4>. QED  BY <1>6, <2>5, <3>1, <4>1
    <3>3. PICK i \in 1 .. m : b[k] = a[i]  BY <1>1, <1>2, <3>2
    <3>4. i < k
      <4>1. Precedes(a[i], a[k])  BY <2>5, <3>2, <3>3
      <4>. QED  BY <1>5, <2>4, <3>3, <4>1
    <3>5. i \in 1 .. n /\ a[i] = b[i]  BY <2>4, <3>4
    <3>6. b[i] = b[k]  BY <3>3, <3>5
    <3>7. i = k  BY <1>6, <3>2, <3>5, <3>6
    <3>. QED  BY <3>4, <3>7
  <2>8. j = k  BY <2>4, <2>6, <2>7
  <2>. QED  BY <2>1, <2>3, <2>5, <2>8
<1>4. m = n
  <2>1. SUFFICES ASSUME m # n PROVE FALSE  OBVIOUS
  <2>2. m <= n
    <3>1. m = 0 \/ m \in 1 .. m  OBVIOUS
    <3>. QED  BY <1>3, <3>1
  <2>3. m + 1 \in 1 .. n  BY <2>1, <2>2
  <2>4. PICK i \in 1 .. m : b[m + 1] = a[i]  BY <1>1, <1>2, <2>3
  <2>5. i \in 1 .. n /\ b[i] = b[m + 1]  BY <1>3, <2>4
  <2>6. i = m + 1  BY <1>6, <2>3, <2>5
  <2>. QED  BY <2>6
<1>. QED  BY <1>1, <1>2, <1>3, <1>4, SeqEqual

(* Some of a list, in its order.                                           *)
LEMMA OnlyForm ==
  ASSUME NEW list \in Seq(AnyItems), NEW S
  PROVE  /\ Only(list, S) \in Seq(AnyItems)
         /\ \A k \in DOMAIN Only(list, S) : /\ Only(list, S)[k] \in S
                                            /\ \E i \in DOMAIN list : list[i] = Only(list, S)[k]
         /\ Only(list, S) = <<>> => \A i \in DOMAIN list : list[i] \notin S
         /\ ByNumber(list) => ByNumber(Only(list, S))
<1>1. PICK n \in Nat : n = Len(list) /\ DOMAIN list = 1 .. n  BY ItemNumbers
<1>2. PICK I \in SUBSET (1 .. n) : I = {i \in 1 .. n : list[i] \in S}  OBVIOUS
<1>3. PICK t : t = Only(list, S)  OBVIOUS
<1>4. t = Subsequence(list, I)  BY <1>1, <1>2, <1>3 DEF Only
<1>5. t \in Seq(AnyItems) /\ Len(t) = Cardinality(I) /\ ToSet(t) = {list[i] : i \in I}
  BY <1>1, <1>4, SubsequenceElements
<1>6. DOMAIN t = 1 .. Cardinality(I)  BY <1>5, LenProperties
<1>7. \A k \in DOMAIN t : \E i \in I : list[i] = t[k]
  <2>1. \A k \in DOMAIN t : t[k] \in ToSet(t)  BY DEF ToSet
  <2>. QED  BY <1>5, <2>1
<1>8. ASSUME t = <<>> PROVE \A i \in DOMAIN list : list[i] \notin S
  <2>1. ToSet(t) = {}  BY <1>8 DEF ToSet
  <2>. QED  BY <1>1, <1>2, <1>5, <2>1
<1>9. ASSUME ByNumber(list) PROVE ByNumber(t)
  <2>1. SUFFICES ASSUME NEW c \in 1 .. Cardinality(I), NEW d \in 1 .. Cardinality(I), c < d
                 PROVE  Precedes(t[c], t[d])
    BY <1>6 DEF ByNumber
  <2>2. PICK i \in 1 .. n, j \in 1 .. n : i < j /\ t[c] = list[i] /\ t[d] = list[j]
    BY <1>1, <1>4, <2>1, SubsequenceKeepsOrder
  <2>. QED  BY <1>1, <1>9, <2>2 DEF ByNumber
<1>. QED  BY <1>1, <1>2, <1>3, <1>5, <1>7, <1>8, <1>9

(* What a sync is about.                                                   *)
New(s)     == {x \in ToSet(s.local) : Find(s.official, x.gid, x.bid) = 0}
Gone(s)    == {x \in ToSet(s.official) : Find(s.local, x.gid, x.bid) = 0}
Changed(s) == {x \in ToSet(s.local) : LET o == Find(s.official, x.gid, x.bid)
                                      IN  o # 0 /\ ~SameItem(x, s.official[o])}

LEMMA ChangesForm ==
  ASSUME NEW s \in SsiStates
  PROVE  \/ Changes(s) = [kind |-> "add", items |-> Only(s.local, New(s))]
         \/ Changes(s) = [kind |-> "del", items |-> Only(s.official, Gone(s))]
         \/ Changes(s) = [kind |-> "mod", items |-> Only(s.local, Changed(s))]
<1>1. PICK a : a = Only(s.local, New(s))  OBVIOUS
<1>2. PICK d : d = Only(s.official, Gone(s))  OBVIOUS
<1>3. PICK m : m = Only(s.local, Changed(s))  OBVIOUS
<1>4. Changes(s) = CASE a # <<>> -> [kind |-> "add", items |-> a]
                     [] a = <<>> /\ d # <<>> -> [kind |-> "del", items |-> d]
                     [] OTHER -> [kind |-> "mod", items |-> m]
  BY <1>1, <1>2, <1>3 DEF Changes, New, Gone, Changed
<1>. QED  BY <1>1, <1>2, <1>3, <1>4

LEMMA NothingToChange ==
  ASSUME NEW s \in SsiStates, Copy(s.local), Copy(s.official), Changes(s).items = <<>>
  PROVE  Contents(s.local) = Contents(s.official)
<1>1. PICK l \in Seq(AnyItems), o \in Seq(AnyItems) :
        l = s.local /\ o = s.official /\ ByNumber(l) /\ ByNumber(o) /\ OnlyGroupsLead(l) /\ OnlyGroupsLead(o)
  BY DEF Copy
<1>2. /\ Only(l, New(s)) = <<>> /\ Only(o, Gone(s)) = <<>> /\ Only(l, Changed(s)) = <<>>
  <2>1. PICK a : a = Only(s.local, New(s))  OBVIOUS
  <2>2. PICK d : d = Only(s.official, Gone(s))  OBVIOUS
  <2>3. PICK m : m = Only(s.local, Changed(s))  OBVIOUS
  <2>4. Changes(s) = CASE a # <<>> -> [kind |-> "add", items |-> a]
                       [] a = <<>> /\ d # <<>> -> [kind |-> "del", items |-> d]
                       [] OTHER -> [kind |-> "mod", items |-> m]
    BY <2>1, <2>2, <2>3 DEF Changes, New, Gone, Changed
  <2>5. a = <<>>  BY <2>4
  <2>6. d = <<>>  BY <2>4, <2>5
  <2>7. m = <<>>  BY <2>4, <2>5, <2>6
  <2>. QED  BY <1>1, <2>1, <2>2, <2>3, <2>5, <2>6, <2>7
<1>3. PICK a \in Seq(AnyItems) : /\ a = Contents(l) /\ ByNumber(a) /\ DOMAIN a = DOMAIN l
                                 /\ \A i \in DOMAIN l : a[i] = Bare(l[i])
  <2>1. PICK c : c = Contents(l)  OBVIOUS
  <2>2. c \in Seq(AnyItems) /\ DOMAIN c = 1 .. Len(l) /\ \A i \in 1 .. Len(l) : c[i] = Bare(l[i])
    BY <2>1, ContentsForm
  <2>3. ByNumber(c)  BY <1>1, <2>1, ContentsKeep
  <2>4. DOMAIN l = 1 .. Len(l)  BY ItemNumbers
  <2>. QED  BY <2>1, <2>2, <2>3, <2>4
<1>4. PICK b \in Seq(AnyItems) : /\ b = Contents(o) /\ ByNumber(b) /\ DOMAIN b = DOMAIN o
                                 /\ \A i \in DOMAIN o : b[i] = Bare(o[i])
  <2>1. PICK c : c = Contents(o)  OBVIOUS
  <2>2. c \in Seq(AnyItems) /\ DOMAIN c = 1 .. Len(o) /\ \A i \in 1 .. Len(o) : c[i] = Bare(o[i])
    BY <2>1, ContentsForm
  <2>3. ByNumber(c)  BY <1>1, <2>1, ContentsKeep
  <2>4. DOMAIN o = 1 .. Len(o)  BY ItemNumbers
  <2>. QED  BY <2>1, <2>2, <2>3, <2>4
<1>5. ASSUME NEW i \in DOMAIN l
      PROVE  Find(o, l[i].gid, l[i].bid) \in DOMAIN o /\ a[i] = b[Find(o, l[i].gid, l[i].bid)]
  <2>1. l[i] \in ToSet(l)  BY DEF ToSet
  <2>2. l[i] \notin New(s) /\ l[i] \notin Changed(s)  BY <1>1, <1>2, OnlyForm
  <2>3. PICK f : f = Find(o, l[i].gid, l[i].bid)  OBVIOUS
  <2>4. f # 0 /\ SameItem(l[i], o[f])  BY <1>1, <2>1, <2>2, <2>3 DEF New, Changed
  <2>5. f \in DOMAIN o
    <3>1. f \in 0 .. Len(o) /\ Len(o) \in Nat /\ DOMAIN o = 1 .. Len(o)  BY <2>3, FindForm, ItemNumbers
    <3>. QED  BY <2>4, <3>1
  <2>6. Bare(l[i]) = Bare(o[f])  BY <2>4 DEF SameItem, Bare
  <2>. QED  BY <1>3, <1>4, <2>3, <2>5, <2>6
<1>6. ASSUME NEW j \in DOMAIN o PROVE \E i \in DOMAIN l : b[j] = a[i]
  <2>1. o[j] \in ToSet(o)  BY DEF ToSet
  <2>2. o[j] \notin Gone(s)  BY <1>1, <1>2, OnlyForm
  <2>3. PICK i : i = Find(l, o[j].gid, o[j].bid)  OBVIOUS
  <2>4. i # 0  BY <1>1, <2>1, <2>2, <2>3 DEF Gone
  <2>5. i \in DOMAIN l /\ l[i].gid = o[j].gid /\ l[i].bid = o[j].bid
    <3>1. i \in 0 .. Len(l) /\ Len(l) \in Nat /\ DOMAIN l = 1 .. Len(l)  BY <2>3, FindForm, ItemNumbers
    <3>2. l[i].gid = o[j].gid /\ l[i].bid = o[j].bid  BY <2>3, <2>4, FindForm
    <3>. QED  BY <2>4, <3>1, <3>2
  <2>6. PICK f \in DOMAIN o : f = Find(o, l[i].gid, l[i].bid) /\ a[i] = b[f]  BY <1>5, <2>5
  <2>7. f = j
    <3>1. DOMAIN o = 1 .. Len(o)  BY ItemNumbers
    <3>2. j = Find(o, o[j].gid, o[j].bid)  BY <1>1, <3>1, FindForm
    <3>. QED  BY <2>5, <2>6, <3>2
  <2>. QED  BY <2>5, <2>6, <2>7
<1>7. a = b  BY <1>3, <1>4, <1>5, <1>6, SameLists
<1>. QED  BY <1>1, <1>3, <1>4, <1>7

-----------------------------------------------------------------------------
(* What is sent, and what a sync does.                                     *)
LEMMA SendForm ==
  ASSUME NEW s \in SsiStates, NEW kind \in RequestKinds, NEW items \in Seq(AnyItems)
  PROVE  /\ Send(s, kind, items) \in SsiStates
         /\ Send(s, kind, items).local = s.local /\ Send(s, kind, items).official = s.official
         /\ Send(s, kind, items).pending = s.pending /\ Send(s, kind, items).waiting = s.waiting
         /\ Send(s, kind, items).received = s.received /\ Send(s, kind, items).up = s.up
         /\ s.up => Send(s, kind, items).sent = Append(s.sent, [kind |-> kind, items |-> items])
<1>1. PICK t : t = Send(s, kind, items)  OBVIOUS
<1>2. PICK r \in SsiRequests : r = [kind |-> kind, items |-> items]  BY DEF SsiRequests
<1>3. PICK q : q = Append(s.sent, r)  OBVIOUS
<1>4. q \in Seq(SsiRequests)  BY <1>3, AppendProperties DEF SsiStates
<1>5. CASE s.up
  <2>1. t = [s EXCEPT !.sent = q]  BY <1>1, <1>2, <1>3, <1>5 DEF Send
  <2>2. /\ t \in SsiStates /\ t.local = s.local /\ t.official = s.official /\ t.pending = s.pending
        /\ t.waiting = s.waiting /\ t.received = s.received /\ t.up = s.up /\ t.sent = q
    BY <1>4, <2>1 DEF SsiStates
  <2>. QED  BY <1>1, <1>2, <1>3, <2>2
<1>6. CASE ~s.up
  <2>1. t = s  BY <1>1, <1>6 DEF Send
  <2>. QED  BY <1>1, <1>6, <2>1
<1>. QED  BY <1>5, <1>6

LEMMA ChangesDepend ==
  ASSUME NEW s, NEW t, t.local = s.local, t.official = s.official
  PROVE  Changes(t) = Changes(s)
BY DEF Changes

LEMMA ChangesAreItems ==
  ASSUME NEW s \in SsiStates
  PROVE  /\ Changes(s).kind \in {"add", "del", "mod"}
         /\ Changes(s).items \in Seq(AnyItems)
<1>1. s.local \in Seq(AnyItems) /\ s.official \in Seq(AnyItems)  BY DEF SsiStates
<1>2. /\ Only(s.local, New(s)) \in Seq(AnyItems) /\ Only(s.official, Gone(s)) \in Seq(AnyItems)
      /\ Only(s.local, Changed(s)) \in Seq(AnyItems)
  BY <1>1, OnlyForm
<1>. QED  BY <1>2, ChangesForm

(* What is pending is what was sent: the changes there are to make.        *)
Asks(s) ==
  /\ s.waiting /\ Changes(s).items # <<>>
  /\ s.pending = [i \in DOMAIN Changes(s).items |->
                    [kind |-> Changes(s).kind, ref |-> Changes(s).items[i].ref]]
EditRequest(s) == [kind |-> Changes(s).kind, items |-> Contents(Changes(s).items)]

LEMMA SyncForm ==
  ASSUME NEW s \in SsiStates, Copy(s.local), Copy(s.official), s.up, ~s.waiting
  PROVE  /\ Sync(s) \in SsiStates /\ Sync(s).local = s.local /\ Sync(s).official = s.official
         /\ Sync(s).up /\ Sync(s).received = s.received
         /\ \/ /\ ~Sync(s).waiting /\ Sync(s).pending = s.pending
               /\ Sync(s).sent = Append(s.sent, [kind |-> "editstop", items |-> <<>>])
               /\ Contents(s.local) = Contents(s.official)
            \/ Asks(Sync(s)) /\ Sync(s).sent = Append(s.sent, EditRequest(Sync(s)))
<1>1. PICK kind \in {"add", "del", "mod"}, items \in Seq(AnyItems) :
        kind = Changes(s).kind /\ items = Changes(s).items
  BY ChangesAreItems
<1>2. PICK t : t = Sync(s)  OBVIOUS
<1>3. <<>> \in Seq(AnyItems) /\ kind \in Edits /\ kind \in RequestKinds /\ "editstop" \in RequestKinds
  BY EmptySeq DEF Edits, RequestKinds
<1>4. CASE items = <<>>
  <2>1. t = Send(s, "editstop", <<>>)  BY <1>1, <1>2, <1>4 DEF Sync
  <2>2. /\ t \in SsiStates /\ t.local = s.local /\ t.official = s.official /\ t.pending = s.pending
        /\ t.waiting = s.waiting /\ t.received = s.received /\ t.up = s.up
        /\ t.sent = Append(s.sent, [kind |-> "editstop", items |-> <<>>])
    BY <1>3, <2>1, SendForm
  <2>3. Contents(s.local) = Contents(s.official)  BY <1>1, <1>4, NothingToChange
  <2>. QED  BY <1>2, <2>2, <2>3
<1>5. CASE items # <<>>
  <2>1. PICK c : c = Contents(items)  OBVIOUS
  <2>2. c \in Seq(AnyItems)  BY <2>1, ContentsForm
  <2>3. PICK u : u = Send(s, kind, c)  OBVIOUS
  <2>4. /\ u \in SsiStates /\ u.local = s.local /\ u.official = s.official /\ u.pending = s.pending
        /\ u.waiting = s.waiting /\ u.received = s.received /\ u.up = s.up
        /\ u.sent = Append(s.sent, [kind |-> kind, items |-> c])
    BY <1>3, <2>2, <2>3, SendForm
  <2>5. PICK p : p = [i \in DOMAIN items |-> [kind |-> kind, ref |-> items[i].ref]]  OBVIOUS
  <2>6. p \in Seq(SentItems)
    <3>1. PICK n \in Nat : n = Len(items) /\ DOMAIN items = 1 .. n /\ \A i \in 1 .. n : items[i] \in AnyItems
      BY ItemNumbers
    <3>2. \A x \in AnyItems : x.ref \in Nat  BY DEF AnyItems
    <3>3. \A i \in 1 .. n : [kind |-> kind, ref |-> items[i].ref] \in SentItems
      BY <1>3, <3>1, <3>2 DEF SentItems
    <3>4. p \in [1 .. n -> SentItems]  BY <2>5, <3>1, <3>3
    <3>. QED  BY <3>4, SeqDef
  <2>7. t = [u EXCEPT !.waiting = TRUE, !.pending = p]
    BY <1>1, <1>2, <1>5, <2>1, <2>3, <2>5 DEF Sync
  <2>8. /\ t \in SsiStates /\ t.local = s.local /\ t.official = s.official /\ t.pending = p
        /\ t.waiting /\ t.received = s.received /\ t.up = s.up
        /\ t.sent = Append(s.sent, [kind |-> kind, items |-> c])
    BY <2>4, <2>6, <2>7 DEF SsiStates
  <2>9. Changes(t) = Changes(s)  BY <2>8, ChangesDepend
  <2>10. Asks(t)  BY <1>1, <1>5, <2>5, <2>8, <2>9 DEF Asks
  <2>11. EditRequest(t) = [kind |-> kind, items |-> c]  BY <1>1, <2>1, <2>9 DEF EditRequest
  <2>. QED  BY <1>2, <2>8, <2>10, <2>11
<1>. QED  BY <1>4, <1>5

-----------------------------------------------------------------------------
(* Lists of which one has what the other has.                              *)
Covers(list, of) ==
  \A j \in DOMAIN of : \E i \in DOMAIN list :
    list[i].gid = of[j].gid /\ list[i].bid = of[j].bid /\ list[i].type = of[j].type

(* An item that is in both is of the same kind there.                      *)
Alike(a, b) ==
  \A i \in DOMAIN a, j \in DOMAIN b : a[i].gid = b[j].gid /\ a[i].bid = b[j].bid => a[i].type = b[j].type

LEMMA CoversPassesOn ==
  ASSUME NEW a, NEW b, NEW c, Covers(a, b), Covers(b, c)
  PROVE  Covers(a, c)
<1>1. SUFFICES ASSUME NEW k \in DOMAIN c
               PROVE  \E i \in DOMAIN a : a[i].gid = c[k].gid /\ a[i].bid = c[k].bid /\ a[i].type = c[k].type
  BY DEF Covers
<1>2. PICK j \in DOMAIN b : b[j].gid = c[k].gid /\ b[j].bid = c[k].bid /\ b[j].type = c[k].type
  BY DEF Covers
<1>3. PICK i \in DOMAIN a : a[i].gid = b[j].gid /\ a[i].bid = b[j].bid /\ a[i].type = b[j].type
  BY DEF Covers
<1>. QED  BY <1>2, <1>3

LEMMA CoversAgrees ==
  ASSUME NEW a \in Seq(AnyItems), NEW b \in Seq(AnyItems), ByNumber(a), Covers(a, b)
  PROVE  Alike(a, b) /\ Alike(b, a)
<1>1. SUFFICES ASSUME NEW i \in DOMAIN a, NEW j \in DOMAIN b, a[i].gid = b[j].gid, a[i].bid = b[j].bid
               PROVE  a[i].type = b[j].type
  BY DEF Alike
<1>2. PICK k \in DOMAIN a : a[k].gid = b[j].gid /\ a[k].bid = b[j].bid /\ a[k].type = b[j].type
  BY DEF Covers
<1>3. i = k  BY <1>1, <1>2, OneOfAKey
<1>. QED  BY <1>2, <1>3

LEMMA SameContentsCover ==
  ASSUME NEW a \in Seq(AnyItems), NEW b \in Seq(AnyItems), Contents(a) = Contents(b)
  PROVE  Covers(a, b)
<1>1. PICK n \in Nat : n = Len(a) /\ DOMAIN a = 1 .. n  BY ItemNumbers
<1>2. PICK c : c = Contents(a)  OBVIOUS
<1>3. DOMAIN c = 1 .. n /\ \A i \in 1 .. n : /\ c[i].gid = a[i].gid /\ c[i].bid = a[i].bid
                                             /\ c[i].type = a[i].type
  BY <1>1, <1>2, ContentsForm
<1>4. PICK m \in Nat : m = Len(b) /\ DOMAIN b = 1 .. m  BY ItemNumbers
<1>5. DOMAIN c = 1 .. m /\ \A i \in 1 .. m : /\ c[i].gid = b[i].gid /\ c[i].bid = b[i].bid
                                             /\ c[i].type = b[i].type
  BY <1>2, <1>4, ContentsForm
<1>6. 1 .. m = 1 .. n  BY <1>3, <1>5
<1>. QED  BY <1>1, <1>3, <1>4, <1>5, <1>6 DEF Covers

LEMMA InsertHas ==
  ASSUME NEW list \in Seq(AnyItems), NEW x \in AnyItems
  PROVE  /\ \A i \in DOMAIN list : \E j \in DOMAIN Insert(list, x) : Insert(list, x)[j] = list[i]
         /\ \E j \in DOMAIN Insert(list, x) : Insert(list, x)[j] = x
         /\ \A j \in DOMAIN Insert(list, x) :
              Insert(list, x)[j] = x \/ \E i \in DOMAIN list : Insert(list, x)[j] = list[i]
<1>1. PICK n \in Nat : n = Len(list) /\ DOMAIN list = 1 .. n  BY ItemNumbers
<1>2. PICK p : p = Place(list, x)  OBVIOUS
<1>3. PICK t : t = Insert(list, x)  OBVIOUS
<1>4. /\ p \in 1 .. n + 1 /\ DOMAIN t = 1 .. n + 1
      /\ \A i \in 1 .. n + 1 : t[i] = IF i < p THEN list[i] ELSE IF i = p THEN x ELSE list[i - 1]
  <2>1. p \in 1 .. n + 1 /\ t = WithAt(list, p, x) /\ DOMAIN t = 1 .. n + 1
    BY <1>1, <1>2, <1>3, InsertForm
  <2>. QED  BY <1>1, <2>1 DEF WithAt
<1>5. ASSUME NEW i \in 1 .. n PROVE \E j \in 1 .. n + 1 : t[j] = list[i]
  <2>1. CASE i < p  BY <1>4, <2>1
  <2>2. CASE ~(i < p)
    <3>1. i + 1 \in 1 .. n + 1 /\ ~(i + 1 < p) /\ i + 1 # p /\ i + 1 - 1 = i  BY <1>4, <2>2
    <3>2. t[i + 1] = list[i]  BY <1>4, <3>1
    <3>. QED  BY <3>1, <3>2
  <2>. QED  BY <2>1, <2>2
<1>6. t[p] = x  BY <1>4
<1>7. ASSUME NEW j \in 1 .. n + 1 PROVE t[j] = x \/ \E i \in 1 .. n : t[j] = list[i]
  <2>1. CASE j < p
    <3>1. j \in 1 .. n  BY <1>4, <2>1
    <3>. QED  BY <1>4, <2>1, <3>1
  <2>2. CASE j = p  BY <1>4, <2>2
  <2>3. CASE j > p
    <3>1. j - 1 \in 1 .. n /\ ~(j < p) /\ j # p  BY <1>4, <2>3
    <3>. QED  BY <1>4, <3>1
  <2>. QED  BY <1>4, <2>1, <2>2, <2>3
<1>8. \A i \in DOMAIN list : \E j \in DOMAIN t : t[j] = list[i]
  <2>1. \A i \in 1 .. n : \E j \in 1 .. n + 1 : t[j] = list[i]  BY <1>5
  <2>. QED  BY <1>1, <1>4, <2>1
<1>9. \E j \in DOMAIN t : t[j] = x  BY <1>4, <1>6
<1>10. \A j \in DOMAIN t : t[j] = x \/ \E i \in DOMAIN list : t[j] = list[i]
  <2>1. \A j \in 1 .. n + 1 : t[j] = x \/ \E i \in 1 .. n : t[j] = list[i]  BY <1>7
  <2>. QED  BY <1>1, <1>4, <2>1
<1>. QED  BY <1>3, <1>8, <1>9, <1>10

LEMMA RemoveHas ==
  ASSUME NEW list \in Seq(AnyItems), NEW p \in 1 .. Len(list)
  PROVE  /\ \A j \in DOMAIN RemoveAt(list, p) : \E i \in DOMAIN list : i # p /\ RemoveAt(list, p)[j] = list[i]
         /\ \A i \in DOMAIN list : i # p => \E j \in DOMAIN RemoveAt(list, p) : RemoveAt(list, p)[j] = list[i]
         /\ Covers(list, RemoveAt(list, p))
<1>1. PICK n \in Nat : n = Len(list) /\ DOMAIN list = 1 .. n /\ p \in 1 .. n  BY ItemNumbers
<1>2. PICK t : t = RemoveAt(list, p)  OBVIOUS
<1>3. DOMAIN t = 1 .. n - 1 /\ \A i \in 1 .. n - 1 : t[i] = IF i < p THEN list[i] ELSE list[i + 1]
  <2>1. /\ DOMAIN WithoutAt(list, p) = 1 .. Len(list) - 1
        /\ \A i \in 1 .. Len(list) - 1 : WithoutAt(list, p)[i] = IF i < p THEN list[i] ELSE list[i + 1]
    BY WithoutAtForm
  <2>. QED  BY <1>1, <1>2, <2>1, RemoveAtForm
<1>4. ASSUME NEW j \in 1 .. n - 1 PROVE \E i \in 1 .. n : i # p /\ t[j] = list[i]
  <2>1. CASE j < p
    <3>1. j \in 1 .. n /\ j # p  BY <2>1
    <3>. QED  BY <1>3, <2>1, <3>1
  <2>2. CASE ~(j < p)
    <3>1. j + 1 \in 1 .. n /\ j + 1 # p  BY <2>2
    <3>. QED  BY <1>3, <2>2, <3>1
  <2>. QED  BY <2>1, <2>2
<1>5. ASSUME NEW i \in 1 .. n, i # p PROVE \E j \in 1 .. n - 1 : t[j] = list[i]
  <2>1. CASE i < p
    <3>1. i \in 1 .. n - 1  BY <1>1, <2>1
    <3>. QED  BY <1>3, <2>1, <3>1
  <2>2. CASE ~(i < p)
    <3>1. i - 1 \in 1 .. n - 1 /\ ~(i - 1 < p) /\ i - 1 + 1 = i  BY <1>1, <1>5, <2>2
    <3>2. t[i - 1] = list[i]  BY <1>3, <3>1
    <3>. QED  BY <3>1, <3>2
  <2>. QED  BY <2>1, <2>2
<1>6. Covers(list, t)
  <2>1. SUFFICES ASSUME NEW j \in 1 .. n - 1
                 PROVE  \E i \in 1 .. n : list[i].gid = t[j].gid /\ list[i].bid = t[j].bid /\ list[i].type = t[j].type
    BY <1>1, <1>3 DEF Covers
  <2>2. PICK i \in 1 .. n : t[j] = list[i]  BY <1>4
  <2>. QED  BY <2>2
<1>7. \A j \in DOMAIN t : \E i \in DOMAIN list : i # p /\ t[j] = list[i]
  <2>1. \A j \in 1 .. n - 1 : \E i \in 1 .. n : i # p /\ t[j] = list[i]  BY <1>4
  <2>. QED  BY <1>1, <1>3, <2>1
<1>8. \A i \in DOMAIN list : i # p => \E j \in DOMAIN t : t[j] = list[i]
  <2>1. \A i \in 1 .. n : i # p => \E j \in 1 .. n - 1 : t[j] = list[i]  BY <1>5
  <2>. QED  BY <1>1, <1>3, <2>1
<1>. QED  BY <1>2, <1>6, <1>7, <1>8

-----------------------------------------------------------------------------
(* Edits: groups and numbers.                                              *)
LEMMA FindGroupForm ==
  ASSUME NEW list \in Seq(AnyItems), NEW name
  PROVE  /\ FindGroup(list, name) \in 0 .. Len(list)
         /\ FindGroup(list, name) # 0 =>
              /\ list[FindGroup(list, name)].type = "group" /\ list[FindGroup(list, name)].name = name
              /\ name # NoName => list[FindGroup(list, name)].bid = 0
         /\ (\E i \in DOMAIN list : /\ list[i].type = "group" /\ list[i].name = name
                                    /\ name # NoName => list[i].bid = 0) => FindGroup(list, name) # 0
<1>1. PICK n \in Nat : n = Len(list) /\ DOMAIN list = 1 .. n  BY ItemNumbers
<1>2. PICK I : I = {i \in 1 .. n : /\ list[i].type = "group" /\ list[i].name = name
                                   /\ name # NoName => list[i].bid = 0}
  OBVIOUS
<1>3. FindGroup(list, name) = IF I # {} THEN Min(I) ELSE 0  BY <1>1, <1>2 DEF FindGroup, SelectInSeq
<1>4. I # {} => Min(I) \in I
  <2>1. I \in SUBSET Nat  BY <1>2
  <2>. QED  BY <2>1, LeastIsMin
<1>5. CASE I = {}  BY <1>1, <1>2, <1>3, <1>5
<1>6. CASE I # {}
  <2>1. PICK f \in I : f = FindGroup(list, name)  BY <1>3, <1>4, <1>6
  <2>2. /\ f \in 1 .. n /\ f # 0 /\ list[f].type = "group" /\ list[f].name = name
        /\ name # NoName => list[f].bid = 0
    BY <1>2, <2>1
  <2>. QED  BY <1>1, <2>1, <2>2
<1>. QED  BY <1>5, <1>6

LEMMA FindBuddyForm ==
  ASSUME NEW list \in Seq(AnyItems), NEW group, NEW name
  PROVE  FindBuddy(list, group, name) \in 0 .. Len(list)
<1>1. PICK n \in Nat : n = Len(list) /\ DOMAIN list = 1 .. n  BY ItemNumbers
<1>2. PICK I : I = {i \in 1 .. n : /\ list[i].type = "buddy" /\ list[i].name = name
                                   /\ \E g \in ToSet(list) : /\ g.type = "group" /\ g.gid = list[i].gid
                                                             /\ g.name = group}
  OBVIOUS
<1>3. FindBuddy(list, group, name) = IF I # {} THEN Min(I) ELSE 0  BY <1>1, <1>2 DEF FindBuddy, SelectInSeq
<1>4. I # {} => Min(I) \in I
  <2>1. I \in SUBSET Nat  BY <1>2
  <2>. QED  BY <2>1, LeastIsMin
<1>. QED  BY <1>1, <1>2, <1>3, <1>4

LEMMA MembersAreNumbers ==
  ASSUME NEW list \in Seq(AnyItems), NEW group
  PROVE  MembersOf(list, group) \in Seq(Nat)
<1>1. ASSUME NEW t \in Seq(AnyItems)
      PROVE  /\ [i \in DOMAIN t |-> t[i].gid] \in Seq(Nat)
             /\ [i \in DOMAIN t |-> t[i].bid] \in Seq(Nat)
  <2>1. PICK n \in Nat : /\ n = Len(t) /\ DOMAIN t = 1 .. n
                         /\ \A i \in 1 .. n : t[i].gid \in Nat /\ t[i].bid \in Nat
    BY ItemNumbers
  <2>2. /\ [i \in DOMAIN t |-> t[i].gid] \in [1 .. n -> Nat]
        /\ [i \in DOMAIN t |-> t[i].bid] \in [1 .. n -> Nat]
    BY <2>1
  <2>. QED  BY <2>2, SeqDef
<1>2. PICK groups : groups = Only(list, {x \in ToSet(list) : x.type = "group" /\ x.gid # Master})  OBVIOUS
<1>3. PICK buddies : buddies = Only(list, {x \in ToSet(list) : x.type = "buddy" /\ x.gid = group.gid})  OBVIOUS
<1>4. groups \in Seq(AnyItems) /\ buddies \in Seq(AnyItems)  BY <1>2, <1>3, OnlyForm
<1>5. MembersOf(list, group) = IF group.gid = Master THEN [i \in DOMAIN groups |-> groups[i].gid]
                               ELSE [i \in DOMAIN buddies |-> buddies[i].bid]
  BY <1>2, <1>3 DEF MembersOf
<1>. QED  BY <1>1, <1>4, <1>5

LEMMA RebuildForm ==
  ASSUME NEW list \in Seq(AnyItems), NEW name
  PROVE  /\ RebuildGroup(list, name) \in Seq(AnyItems) /\ Len(RebuildGroup(list, name)) = Len(list)
         /\ \A i \in 1 .. Len(list) : /\ RebuildGroup(list, name)[i].gid = list[i].gid
                                      /\ RebuildGroup(list, name)[i].bid = list[i].bid
                                      /\ RebuildGroup(list, name)[i].type = list[i].type
                                      /\ RebuildGroup(list, name)[i].name = list[i].name
                                      /\ RebuildGroup(list, name)[i].ref = list[i].ref
<1>1. PICK n \in Nat : n = Len(list) /\ DOMAIN list = 1 .. n /\ \A i \in 1 .. n : list[i] \in AnyItems
  BY ItemNumbers
<1>2. PICK g \in 0 .. n : g = FindGroup(list, name)  BY <1>1, FindGroupForm
<1>3. PICK members \in Seq(Nat) : members = MembersOf(list, list[g])  BY MembersAreNumbers
<1>4. PICK t : t = RebuildGroup(list, name)  OBVIOUS
<1>5. t = IF g = 0 \/ (g # 0 /\ members = <<>>) THEN list ELSE [list EXCEPT ![g].members = members]
  BY <1>2, <1>3, <1>4 DEF RebuildGroup
<1>6. CASE t = list  BY <1>1, <1>4, <1>6
<1>7. CASE t # list
  <2>1. g \in 1 .. n /\ t = [list EXCEPT ![g].members = members]  BY <1>2, <1>5, <1>7
  <2>2. PICK x : x = [list[g] EXCEPT !.members = members]  OBVIOUS
  <2>3. /\ x \in AnyItems /\ x.gid = list[g].gid /\ x.bid = list[g].bid /\ x.type = list[g].type
        /\ x.name = list[g].name /\ x.ref = list[g].ref
    BY <1>1, <1>3, <2>1, <2>2 DEF AnyItems
  <2>4. t = [list EXCEPT ![g] = x]  BY <2>1, <2>2
  <2>5. t \in Seq(AnyItems) /\ Len(t) = n /\ \A i \in 1 .. n : t[i] = IF i = g THEN x ELSE list[i]
    <3>1. g \in 1 .. Len(list) /\ x \in AnyItems  BY <1>1, <2>1, <2>3
    <3>2. /\ [list EXCEPT ![g] = x] \in Seq(AnyItems) /\ Len([list EXCEPT ![g] = x]) = Len(list)
          /\ \A i \in 1 .. Len(list) : [list EXCEPT ![g] = x][i] = IF i = g THEN x ELSE list[i]
      BY <3>1, ExceptSeq
    <3>. QED  BY <1>1, <2>4, <3>2
  <2>. QED  BY <1>1, <1>4, <2>3, <2>5
<1>. QED  BY <1>6, <1>7

LEMMA RebuildKeeps ==
  ASSUME NEW list, Copy(list), NEW name
  PROVE  /\ Copy(RebuildGroup(list, name))
         /\ Covers(RebuildGroup(list, name), list) /\ Covers(list, RebuildGroup(list, name))
<1>1. list \in Seq(AnyItems) /\ ByNumber(list) /\ OnlyGroupsLead(list) /\ RefsDiffer(list)  BY DEF Copy
<1>2. PICK t : t = RebuildGroup(list, name)  OBVIOUS
<1>3. /\ t \in Seq(AnyItems) /\ Len(t) = Len(list)
      /\ \A i \in 1 .. Len(list) : /\ t[i].gid = list[i].gid /\ t[i].bid = list[i].bid
                                   /\ t[i].type = list[i].type /\ t[i].ref = list[i].ref
  BY <1>1, <1>2, RebuildForm
<1>4. ByNumber(t) /\ OnlyGroupsLead(t) /\ RefsDiffer(t)  BY <1>1, <1>3, AlikeKeeps
<1>5. DOMAIN t = 1 .. Len(list) /\ DOMAIN list = 1 .. Len(list)  BY <1>1, <1>3, ItemNumbers
<1>6. Covers(t, list) /\ Covers(list, t)  BY <1>3, <1>5 DEF Covers
<1>. QED  BY <1>2, <1>3, <1>4, <1>6 DEF Copy

LEMMA NewGidForm ==
  ASSUME NEW list \in Seq(AnyItems), OnlyGroupsLead(list)
  PROVE  NewGid(list) \in Nat /\ Lacks(list, NewGid(list), 0)
<1>1. PICK n \in Nat : n = Len(list) /\ DOMAIN list = 1 .. n  BY ItemNumbers
<1>2. PICK I : I = {i \in 1 .. n : list[i].type = "group"}  OBVIOUS
<1>3. PICK U : U = {list[i].gid : i \in I}  OBVIOUS
<1>4. {x.gid : x \in {y \in ToSet(list) : y.type = "group"}} = U
  <2>1. ToSet(list) = {list[i] : i \in 1 .. n}  BY <1>1 DEF ToSet
  <2>. QED  BY <1>2, <1>3, <2>1
<1>5. IsFiniteSet(U) /\ Cardinality(U) <= n
  <2>1. PICK f : f = [i \in 1 .. n |-> list[i].gid]  OBVIOUS
  <2>2. PICK W : W = {f[i] : i \in 1 .. n}  OBVIOUS
  <2>3. IsFiniteSet(W) /\ Cardinality(W) \in Nat /\ Cardinality(W) <= n  BY <2>2, ImagesAreSmall
  <2>4. U \in SUBSET W  BY <1>2, <1>3, <2>1, <2>2
  <2>5. IsFiniteSet(U) /\ Cardinality(U) <= Cardinality(W)  BY <2>3, <2>4, FS_Subset
  <2>6. Cardinality(U) \in Nat  BY <2>5, FS_CardinalityType
  <2>. QED  BY <2>3, <2>5, <2>6
<1>6. PICK g : g = NewGid(list)  OBVIOUS
<1>7. g \in (0 .. 0 + n) \ U
  <2>1. g = Min((0 .. n) \ U)  BY <1>1, <1>4, <1>6 DEF NewGid
  <2>2. Min((0 .. 0 + n) \ U) \in (0 .. 0 + n) \ U
    <3>1. 0 \in Nat  OBVIOUS
    <3>. QED  BY <1>5, <3>1, SomeIsFree
  <2>3. 0 + n = n  OBVIOUS
  <2>4. g = Min((0 .. 0 + n) \ U)  BY <2>1, <2>3, Zenon
  <2>. QED  BY <2>2, <2>4, Zenon
<1>8. Lacks(list, g, 0)
  <2>1. SUFFICES ASSUME NEW i \in 1 .. n, list[i].gid = g, list[i].bid = 0 PROVE FALSE
    BY <1>1 DEF Lacks
  <2>2. list[i].type = "group"  BY <1>1, <2>1 DEF OnlyGroupsLead
  <2>3. g \in U  BY <1>2, <1>3, <2>1, <2>2
  <2>. QED  BY <1>7, <2>3
<1>9. g \in Nat  BY <1>7
<1>. QED  BY <1>6, <1>8, <1>9

LEMMA NewBidForm ==
  ASSUME NEW list \in Seq(AnyItems), NEW gid
  PROVE  /\ NewBid(list, gid) \in Nat /\ Lacks(list, gid, NewBid(list, gid))
         /\ (\E i \in DOMAIN list : list[i].gid = gid /\ list[i].bid = 0) => NewBid(list, gid) # 0
<1>1. PICK n \in Nat : n = Len(list) /\ DOMAIN list = 1 .. n  BY ItemNumbers
<1>2. PICK I : I = {i \in 1 .. n : list[i].gid = gid}  OBVIOUS
<1>3. PICK U : U = {list[i].bid : i \in I}  OBVIOUS
<1>4. {x.bid : x \in {y \in ToSet(list) : y.gid = gid}} = U
  <2>1. ToSet(list) = {list[i] : i \in 1 .. n}  BY <1>1 DEF ToSet
  <2>. QED  BY <1>2, <1>3, <2>1
<1>5. IsFiniteSet(U) /\ Cardinality(U) <= n
  <2>1. PICK f : f = [i \in 1 .. n |-> list[i].bid]  OBVIOUS
  <2>2. PICK W : W = {f[i] : i \in 1 .. n}  OBVIOUS
  <2>3. IsFiniteSet(W) /\ Cardinality(W) \in Nat /\ Cardinality(W) <= n  BY <2>2, ImagesAreSmall
  <2>4. U \in SUBSET W  BY <1>2, <1>3, <2>1, <2>2
  <2>5. IsFiniteSet(U) /\ Cardinality(U) <= Cardinality(W)  BY <2>3, <2>4, FS_Subset
  <2>6. Cardinality(U) \in Nat  BY <2>5, FS_CardinalityType
  <2>. QED  BY <2>3, <2>5, <2>6
<1>6. PICK b : b = NewBid(list, gid)  OBVIOUS
<1>7. b \in (0 .. 0 + n) \ U
  <2>1. b = Min((0 .. n) \ U)  BY <1>1, <1>4, <1>6 DEF NewBid
  <2>2. Min((0 .. 0 + n) \ U) \in (0 .. 0 + n) \ U
    <3>1. 0 \in Nat  OBVIOUS
    <3>. QED  BY <1>5, <3>1, SomeIsFree
  <2>3. 0 + n = n  OBVIOUS
  <2>4. b = Min((0 .. 0 + n) \ U)  BY <2>1, <2>3, Zenon
  <2>. QED  BY <2>2, <2>4, Zenon
<1>8. \A i \in 1 .. n : list[i].gid = gid => list[i].bid # b
  <2>1. \A i \in 1 .. n : list[i].gid = gid => list[i].bid \in U  BY <1>2, <1>3
  <2>. QED  BY <1>7, <2>1
<1>9. b \in Nat  BY <1>7
<1>. QED  BY <1>1, <1>6, <1>8, <1>9 DEF Lacks

-----------------------------------------------------------------------------
(* What an edit makes of the local list.                                   *)
Grows(s, b) ==
  /\ b \in SsiStates /\ b.official = s.official /\ Alongside(s, b)
  /\ Copy(b.local) /\ Covers(b.local, s.official)

Has(list, gid, bid, type, name) ==
  \E i \in DOMAIN list : /\ list[i].gid = gid /\ list[i].bid = bid
                         /\ list[i].type = type /\ list[i].name = name

LEMMA PutGrows ==
  ASSUME NEW s \in SsiStates, NEW b, Grows(s, b), NEW x \in AnyItems,
         Lacks(b.local, x.gid, x.bid), x.bid = 0 => x.type = "group"
  PROVE  /\ Grows(s, Put(b, "local", x))
         /\ Has(Put(b, "local", x).local, x.gid, x.bid, x.type, x.name)
         /\ \A gid, bid, type, name : Has(b.local, gid, bid, type, name)
                                        => Has(Put(b, "local", x).local, gid, bid, type, name)
<1>1. b \in SsiStates /\ Copy(b.local)  BY DEF Grows
<1>2. PICK list \in Seq(AnyItems) : list = b.local  BY <1>1 DEF Copy
<1>3. PICK t : t = Put(b, "local", x)  OBVIOUS
<1>4. t \in SsiStates /\ Alongside(b, t) /\ t.official = b.official /\ Added(list, t.local, x)
  BY <1>1, <1>2, <1>3, PutLocal
<1>5. PICK new : new = t.local  OBVIOUS
<1>6. PICK y \in AnyItems : /\ new = Insert(list, y) /\ y.gid = x.gid /\ y.bid = x.bid
                            /\ y.type = x.type /\ y.name = x.name
  BY <1>4, <1>5 DEF Added
<1>7. Copy(new)  BY <1>1, <1>2, <1>4, <1>5 DEF Added
<1>8. \A i \in DOMAIN list : \E j \in DOMAIN new : new[j] = list[i]  BY <1>6, InsertHas
<1>9. \E j \in DOMAIN new : new[j] = y  BY <1>6, InsertHas
<1>10. Covers(new, list)  BY <1>8 DEF Covers
<1>11. Covers(new, s.official)
  <2>1. Covers(list, s.official)  BY <1>2 DEF Grows
  <2>. QED  BY <1>10, <2>1, CoversPassesOn
<1>12. t.official = s.official /\ Alongside(s, t)
  BY <1>4 DEF Grows, Alongside
<1>13. Has(new, x.gid, x.bid, x.type, x.name)  BY <1>6, <1>9 DEF Has
<1>14. ASSUME NEW gid, NEW bid, NEW type, NEW name, Has(list, gid, bid, type, name)
       PROVE  Has(new, gid, bid, type, name)
  <2>1. PICK i \in DOMAIN list : /\ list[i].gid = gid /\ list[i].bid = bid
                                 /\ list[i].type = type /\ list[i].name = name
    BY <1>14 DEF Has
  <2>2. PICK j \in DOMAIN new : new[j] = list[i]  BY <1>8
  <2>. QED  BY <2>1, <2>2 DEF Has
<1>15. Grows(s, t)  BY <1>4, <1>5, <1>7, <1>11, <1>12 DEF Grows
<1>. QED  BY <1>2, <1>3, <1>5, <1>13, <1>14, <1>15

LEMMA RebuildGrows ==
  ASSUME NEW s \in SsiStates, NEW b, Grows(s, b), NEW name
  PROVE  /\ Grows(s, [b EXCEPT !.local = RebuildGroup(@, name)])
         /\ \A gid, bid, type, of : Has(b.local, gid, bid, type, of)
              => Has([b EXCEPT !.local = RebuildGroup(@, name)].local, gid, bid, type, of)
<1>1. b \in SsiStates /\ Copy(b.local) /\ Covers(b.local, s.official)  BY DEF Grows
<1>2. PICK list \in Seq(AnyItems) : list = b.local  BY <1>1 DEF Copy
<1>3. PICK new : new = RebuildGroup(list, name)  OBVIOUS
<1>4. Copy(new) /\ Covers(new, list)  BY <1>1, <1>2, <1>3, RebuildKeeps
<1>5. new \in Seq(AnyItems)  BY <1>4 DEF Copy
<1>6. PICK t : t = [b EXCEPT !.local = RebuildGroup(@, name)]  OBVIOUS
<1>7. t = [b EXCEPT !.local = new]  BY <1>2, <1>3, <1>6
<1>8. t \in SsiStates /\ t.official = b.official /\ Alongside(b, t) /\ t.local = new
  BY <1>1, <1>5, <1>7 DEF SsiStates, Alongside
<1>9. Covers(new, s.official)  BY <1>1, <1>2, <1>4, CoversPassesOn
<1>10. t.official = s.official /\ Alongside(s, t)  BY <1>8 DEF Grows, Alongside
<1>11. ASSUME NEW gid, NEW bid, NEW type, NEW of, Has(list, gid, bid, type, of)
       PROVE  Has(new, gid, bid, type, of)
  <2>1. PICK i \in DOMAIN list : /\ list[i].gid = gid /\ list[i].bid = bid
                                 /\ list[i].type = type /\ list[i].name = of
    BY <1>11 DEF Has
  <2>2. /\ new[i].gid = list[i].gid /\ new[i].bid = list[i].bid /\ new[i].type = list[i].type
        /\ new[i].name = list[i].name
    <3>1. i \in 1 .. Len(list)  BY <2>1, ItemNumbers
    <3>. QED  BY <1>3, <3>1, RebuildForm
  <2>3. i \in DOMAIN new
    <3>1. Len(new) = Len(list)  BY <1>3, RebuildForm
    <3>2. DOMAIN new = 1 .. Len(list) /\ DOMAIN list = 1 .. Len(list)  BY <1>5, <3>1, ItemNumbers
    <3>. QED  BY <3>2
  <2>. QED  BY <2>1, <2>2, <2>3 DEF Has
<1>12. Grows(s, t)  BY <1>4, <1>8, <1>9, <1>10 DEF Grows
<1>. QED  BY <1>2, <1>6, <1>8, <1>11, <1>12

ItemIs(x, gid, bid, type, name) ==
  x \in AnyItems /\ x.gid = gid /\ x.bid = bid /\ x.type = type /\ x.name = name

LEMMA ItemForm ==
  ASSUME NEW name \in STRING \cup {NoName, Buddies0}, NEW gid \in Nat, NEW bid \in Nat,
         NEW type \in {"group", "buddy", "permit"}
  PROVE  ItemIs(Item(name, gid, bid, type), gid, bid, type, name) /\ Item(name, gid, bid, type).ref = 0
<1>1. <<>> \in Seq(Nat)  BY EmptySeq
<1>. QED  BY <1>1 DEF Item, ItemIs, AnyItems

LEMMA WithGroupForm ==
  ASSUME NEW s \in SsiStates, Grows(s, s)
  PROVE  /\ Grows(s, WithGroup(s, Buddies0))
         /\ \E gid \in Nat : Has(WithGroup(s, Buddies0).local, gid, 0, "group", Buddies0)
<1>1. Buddies0 # NoName  BY DEF Buddies0, NoName
<1>2. PICK l \in Seq(AnyItems) : l = s.local /\ ByNumber(l) /\ OnlyGroupsLead(l)  BY DEF Grows, Copy
<1>3. CASE FindGroup(l, Buddies0) # 0
  <2>1. PICK g \in 0 .. Len(l) : g = FindGroup(l, Buddies0)  BY FindGroupForm
  <2>2. l[g].type = "group" /\ l[g].name = Buddies0 /\ l[g].bid = 0  BY <1>1, <1>3, <2>1, FindGroupForm
  <2>3. g \in DOMAIN l /\ l[g].gid \in Nat  BY <1>3, <2>1, ItemNumbers
  <2>4. Has(l, l[g].gid, 0, "group", Buddies0)  BY <2>2, <2>3 DEF Has
  <2>5. WithGroup(s, Buddies0) = s  BY <1>2, <1>3 DEF WithGroup
  <2>. QED  BY <1>2, <2>3, <2>4, <2>5
<1>4. CASE FindGroup(l, Buddies0) = 0
  <2>1. PICK x : x = Item(NoName, Master, 0, "group")  OBVIOUS
  <2>2. ItemIs(x, Master, 0, "group", NoName)
    <3>1. NoName \in STRING \cup {NoName, Buddies0} /\ Master \in Nat /\ 0 \in Nat  BY DEF Master
    <3>. QED  BY <2>1, <3>1, ItemForm
  <2>3. PICK m : m = IF Find(s.local, Master, 0) # 0 THEN s ELSE Put(s, "local", x)  OBVIOUS
  <2>4. Grows(s, m)
    <3>1. CASE Find(s.local, Master, 0) # 0  BY <2>3, <3>1
    <3>2. CASE Find(s.local, Master, 0) = 0
      <4>1. m = Put(s, "local", x)  BY <2>3, <3>2
      <4>2. Lacks(s.local, x.gid, x.bid)
        <5>1. Lacks(l, Master, 0)  BY <1>2, <3>2, FindForm
        <5>. QED  BY <1>2, <2>2, <5>1 DEF ItemIs
      <4>3. x \in AnyItems /\ (x.bid = 0 => x.type = "group")  BY <2>2 DEF ItemIs
      <4>. QED  BY <4>1, <4>2, <4>3, PutGrows
    <3>. QED  BY <3>1, <3>2
  <2>5. PICK gid \in Nat : gid = NewGid(m.local) /\ Lacks(m.local, gid, 0)
    <3>1. m.local \in Seq(AnyItems) /\ OnlyGroupsLead(m.local)  BY <2>4 DEF Grows, Copy
    <3>. QED  BY <3>1, NewGidForm
  <2>6. PICK y : y = Item(Buddies0, gid, 0, "group")  OBVIOUS
  <2>7. ItemIs(y, gid, 0, "group", Buddies0)
    <3>1. Buddies0 \in STRING \cup {NoName, Buddies0} /\ 0 \in Nat  OBVIOUS
    <3>. QED  BY <2>6, <3>1, ItemForm
  <2>8. PICK g : g = Put(m, "local", y)  OBVIOUS
  <2>9. Grows(s, g) /\ Has(g.local, gid, 0, "group", Buddies0)
    <3>1. /\ y \in AnyItems /\ (y.bid = 0 => y.type = "group") /\ Lacks(m.local, y.gid, y.bid)
          /\ y.gid = gid /\ y.bid = 0 /\ y.type = "group" /\ y.name = Buddies0
      BY <2>5, <2>7 DEF ItemIs
    <3>2. Grows(s, g) /\ Has(g.local, y.gid, y.bid, y.type, y.name)  BY <2>4, <2>8, <3>1, PutGrows
    <3>. QED  BY <3>1, <3>2
  <2>10. PICK r : r = [g EXCEPT !.local = RebuildGroup(@, NoName)]  OBVIOUS
  <2>11. Grows(s, r) /\ Has(r.local, gid, 0, "group", Buddies0)  BY <2>9, <2>10, RebuildGrows
  <2>12. WithGroup(s, Buddies0) = r
    BY <1>2, <1>4, <2>1, <2>3, <2>5, <2>6, <2>8, <2>10 DEF WithGroup
  <2>. QED  BY <2>11, <2>12
<1>. QED  BY <1>3, <1>4

(* Both kinds of edit leave lists that a sync can start from.              *)
Edited(s, b) ==
  /\ b \in SsiStates /\ b.official = s.official /\ Alongside(s, b)
  /\ Copy(b.local) /\ Alike(b.local, b.official)

LEMMA GrowsIsEdited ==
  ASSUME NEW s \in SsiStates, NEW b, Grows(s, b)
  PROVE  Edited(s, b)
<1>1. PICK l \in Seq(AnyItems) : l = b.local /\ ByNumber(l)  BY DEF Grows, Copy
<1>2. PICK o \in Seq(AnyItems) : o = s.official  BY DEF SsiStates
<1>3. Covers(l, o)  BY <1>1, <1>2 DEF Grows
<1>4. Alike(l, o)  BY <1>1, <1>3, CoversAgrees
<1>. QED  BY <1>1, <1>2, <1>4 DEF Grows, Edited

LEMMA AddBuddyForm ==
  ASSUME NEW s \in SsiStates, Copy(s.local), Contents(s.local) = Contents(s.official), NEW name \in STRING
  PROVE  \E b : AddBuddy(s, name, Buddies0) = Sync(b) /\ Edited(s, b)
<1>1. Grows(s, s)
  <2>1. s.local \in Seq(AnyItems) /\ s.official \in Seq(AnyItems)  BY DEF SsiStates
  <2>2. Covers(s.local, s.official)  BY <2>1, SameContentsCover
  <2>. QED  BY <2>2 DEF Grows, Alongside
<1>2. PICK g : g = WithGroup(s, Buddies0)  OBVIOUS
<1>3. Grows(s, g) /\ \E gid \in Nat : Has(g.local, gid, 0, "group", Buddies0)  BY <1>1, <1>2, WithGroupForm
<1>4. PICK list \in Seq(AnyItems) : list = g.local  BY <1>3 DEF Grows, Copy
<1>5. PICK f \in 0 .. Len(list) : f = FindGroup(list, Buddies0)  BY FindGroupForm
<1>6. f # 0 /\ list[f].bid = 0
  <2>1. Buddies0 # NoName  BY DEF Buddies0, NoName
  <2>2. PICK i \in DOMAIN list : list[i].bid = 0 /\ list[i].type = "group" /\ list[i].name = Buddies0
    BY <1>3, <1>4 DEF Has
  <2>3. f # 0  BY <1>5, <2>2, FindGroupForm
  <2>. QED  BY <1>5, <2>1, <2>3, FindGroupForm
<1>7. f \in DOMAIN list /\ list[f].gid \in Nat  BY <1>6, ItemNumbers
<1>8. PICK gid \in Nat : gid = list[f].gid  BY <1>7
<1>9. PICK bid \in Nat : bid = NewBid(list, gid) /\ Lacks(list, gid, bid) /\ bid # 0
  <2>1. \E i \in DOMAIN list : list[i].gid = gid /\ list[i].bid = 0  BY <1>6, <1>7, <1>8
  <2>. QED  BY <2>1, NewBidForm
<1>10. PICK x : x = Item(name, gid, bid, "buddy")  OBVIOUS
<1>11. ItemIs(x, gid, bid, "buddy", name)
  <2>1. name \in STRING \cup {NoName, Buddies0}  OBVIOUS
  <2>. QED  BY <1>10, <2>1, ItemForm
<1>12. PICK b : b = Put(g, "local", x)  OBVIOUS
<1>13. Grows(s, b)
  <2>1. x \in AnyItems /\ (x.bid = 0 => x.type = "group") /\ Lacks(g.local, x.gid, x.bid)
    BY <1>4, <1>9, <1>11 DEF ItemIs
  <2>. QED  BY <1>3, <1>12, <2>1, PutGrows
<1>14. PICK r : r = [b EXCEPT !.local = RebuildGroup(@, Buddies0)]  OBVIOUS
<1>15. Grows(s, r)  BY <1>13, <1>14, RebuildGrows
<1>16. AddBuddy(s, name, Buddies0) = Sync(r)
  BY <1>2, <1>4, <1>5, <1>8, <1>9, <1>10, <1>12, <1>14 DEF AddBuddy
<1>. QED  BY <1>15, <1>16, GrowsIsEdited

-----------------------------------------------------------------------------
(* A list that has lost items.                                             *)
Shrinks(list, t) == Copy(t) /\ Covers(list, t)

LEMMA ShrinksPassesOn ==
  ASSUME NEW a, NEW b, NEW c, Shrinks(a, b), Shrinks(b, c)
  PROVE  Shrinks(a, c)
<1>1. Covers(a, b) /\ Covers(b, c)  BY DEF Shrinks
<1>2. Covers(a, c)  BY <1>1, CoversPassesOn
<1>. QED  BY <1>2 DEF Shrinks

LEMMA RemovalShrinks ==
  ASSUME NEW list, Copy(list), NEW p \in 1 .. Len(list)
  PROVE  Shrinks(list, RemoveAt(list, p))
<1>1. list \in Seq(AnyItems) /\ ByNumber(list) /\ OnlyGroupsLead(list) /\ RefsDiffer(list)  BY DEF Copy
<1>2. PICK t : t = RemoveAt(list, p)  OBVIOUS
<1>3. t \in Seq(AnyItems) /\ ByNumber(t) /\ OnlyGroupsLead(t) /\ RefsDiffer(t)  BY <1>1, <1>2, RemoveKeeps
<1>4. Covers(list, t)  BY <1>1, <1>2, RemoveHas
<1>. QED  BY <1>2, <1>3, <1>4 DEF Shrinks, Copy

LEMMA RebuildShrinks ==
  ASSUME NEW list, Copy(list), NEW name
  PROVE  Shrinks(list, RebuildGroup(list, name))
BY RebuildKeeps DEF Shrinks

LEMMA WithoutEmptyShrinks ==
  ASSUME NEW list, Copy(list), NEW group
  PROVE  Shrinks(list, WithoutEmpty(list, group))
<1>1. list \in Seq(AnyItems)  BY DEF Copy
<1>2. PICK g \in 0 .. Len(list) : g = FindGroup(list, group)  BY <1>1, FindGroupForm
<1>3. PICK left : left = RebuildGroup(RemoveAt(list, g), NoName)  OBVIOUS
<1>4. PICK m : m = Find(left, Master, 0)  OBVIOUS
<1>5. PICK t : t = WithoutEmpty(list, group)  OBVIOUS
<1>6. t = IF g = 0 \/ (g # 0 /\ HasData(list[g])) THEN list
          ELSE IF m = 0 \/ (m # 0 /\ HasData(left[m])) THEN left ELSE RemoveAt(left, m)
  BY <1>2, <1>3, <1>4, <1>5 DEF WithoutEmpty
<1>7. Shrinks(list, list)  BY DEF Shrinks, Covers
<1>8. CASE g = 0
  <2>1. t = list  BY <1>6, <1>8
  <2>. QED  BY <1>5, <1>7, <2>1
<1>9. CASE g # 0
  <2>1. g \in 1 .. Len(list)  BY <1>1, <1>9, ItemNumbers
  <2>2. PICK a : a = RemoveAt(list, g)  OBVIOUS
  <2>3. Shrinks(list, a)  BY <2>1, <2>2, RemovalShrinks
  <2>4. Shrinks(a, left)  BY <1>3, <2>2, <2>3, RebuildShrinks DEF Shrinks
  <2>5. Shrinks(list, left)  BY <2>3, <2>4, ShrinksPassesOn
  <2>6. left \in Seq(AnyItems) /\ Copy(left)  BY <2>4 DEF Shrinks, Copy
  <2>7. m \in 0 .. Len(left)  BY <1>4, <2>6, FindForm
  <2>8. m # 0 => Shrinks(list, RemoveAt(left, m))
    <3>1. SUFFICES ASSUME m # 0 PROVE Shrinks(list, RemoveAt(left, m))  OBVIOUS
    <3>2. m \in 1 .. Len(left)  BY <2>6, <2>7, <3>1, ItemNumbers
    <3>3. Shrinks(left, RemoveAt(left, m))  BY <2>6, <3>2, RemovalShrinks
    <3>. QED  BY <2>5, <3>3, ShrinksPassesOn
  <2>9. t = list \/ t = left \/ (m # 0 /\ t = RemoveAt(left, m))  BY <1>6
  <2>. QED  BY <1>5, <1>7, <2>5, <2>8, <2>9
<1>. QED  BY <1>8, <1>9

LEMMA DelBuddyForm ==
  ASSUME NEW s \in SsiStates, Copy(s.local), Copy(s.official), Contents(s.local) = Contents(s.official), NEW name
  PROVE  \/ DelBuddy(s, name, Buddies0) = s
         \/ \E b : DelBuddy(s, name, Buddies0) = Sync(b) /\ Edited(s, b)
<1>1. PICK l \in Seq(AnyItems), o \in Seq(AnyItems) :
        l = s.local /\ o = s.official /\ Copy(l) /\ ByNumber(o) /\ Covers(o, l)
  <2>1. s.local \in Seq(AnyItems) /\ s.official \in Seq(AnyItems)  BY DEF SsiStates
  <2>2. Covers(s.official, s.local)  BY <2>1, SameContentsCover
  <2>. QED  BY <2>1, <2>2 DEF Copy
<1>2. PICK del \in 0 .. Len(l) : del = FindBuddy(l, Buddies0, name)  BY FindBuddyForm
<1>3. PICK left : left = RebuildGroup(RemoveAt(l, del), Buddies0)  OBVIOUS
<1>4. PICK new : new = WithoutEmpty(left, Buddies0)  OBVIOUS
<1>5. PICK b : b = [s EXCEPT !.local = new]  OBVIOUS
<1>6. DelBuddy(s, name, Buddies0) = IF del = 0 THEN s ELSE Sync(b)
  BY <1>1, <1>2, <1>3, <1>4, <1>5 DEF DelBuddy
<1>7. ASSUME del # 0 PROVE Edited(s, b)
  <2>1. del \in 1 .. Len(l)  BY <1>2, <1>7, ItemNumbers
  <2>2. PICK a : a = RemoveAt(l, del)  OBVIOUS
  <2>3. Shrinks(l, a)  BY <1>1, <2>1, <2>2, RemovalShrinks
  <2>4. Shrinks(a, left)  BY <1>3, <2>2, <2>3, RebuildShrinks DEF Shrinks
  <2>5. Shrinks(left, new)  BY <1>4, <2>4, WithoutEmptyShrinks DEF Shrinks
  <2>6. Shrinks(l, left)  BY <2>3, <2>4, ShrinksPassesOn
  <2>7. Shrinks(l, new)  BY <2>5, <2>6, ShrinksPassesOn
  <2>8. Copy(new) /\ new \in Seq(AnyItems) /\ Covers(l, new)  BY <2>7 DEF Shrinks, Copy
  <2>9. Covers(o, new)  BY <1>1, <2>8, CoversPassesOn
  <2>10. Alike(new, o)  BY <1>1, <2>8, <2>9, CoversAgrees
  <2>11. b \in SsiStates /\ b.local = new /\ b.official = o /\ Alongside(s, b)
    BY <1>1, <1>5, <2>8 DEF SsiStates, Alongside
  <2>. QED  BY <1>1, <2>8, <2>10, <2>11 DEF Edited
<1>. QED  BY <1>6, <1>7

-----------------------------------------------------------------------------
(* Acknowledgements, one at a time.                                        *)
LEMMA FindRefForm ==
  ASSUME NEW list \in Seq(AnyItems), RefsDiffer(list), NEW i \in DOMAIN list
  PROVE  FindRef(list, list[i].ref) = i
<1>1. PICK n \in Nat : n = Len(list) /\ DOMAIN list = 1 .. n  BY ItemNumbers
<1>2. PICK I : I = {j \in 1 .. n : list[j].ref = list[i].ref}  OBVIOUS
<1>3. FindRef(list, list[i].ref) = IF I # {} THEN Min(I) ELSE 0  BY <1>1, <1>2 DEF FindRef, SelectInSeq
<1>4. i \in I  BY <1>1, <1>2
<1>5. Min(I) \in I
  <2>1. I \in SUBSET Nat /\ I # {}  BY <1>2, <1>4
  <2>. QED  BY <2>1, LeastIsMin
<1>6. \A j \in I : j = i  BY <1>1, <1>2 DEF RefsDiffer
<1>. QED  BY <1>3, <1>4, <1>5, <1>6

(* What was sent of x is still where it was found.                         *)
Live(s, kind, x) ==
  /\ kind = "add" => (\E i \in DOMAIN s.local : s.local[i] = x) /\ Lacks(s.official, x.gid, x.bid)
  /\ kind = "mod" => (\E i \in DOMAIN s.local : s.local[i] = x) /\ ~Lacks(s.official, x.gid, x.bid)
  /\ kind = "del" => (\E i \in DOMAIN s.official : s.official[i] = x) /\ Lacks(s.local, x.gid, x.bid)

Sane(s) ==
  /\ s \in SsiStates /\ Copy(s.local) /\ Copy(s.official) /\ Alike(s.local, s.official)

(* The answer to what was sent of x has been taken in.                     *)
Took(s, t, kind, x, ok) ==
  /\ Sane(t) /\ Alongside(s, t)
  /\ Contents(t.official) = IF ok THEN Apply(Contents(s.official), kind, Bare(x)) ELSE Contents(s.official)
  /\ \A y \in AnyItems : Live(s, kind, y) /\ ~(y.gid = x.gid /\ y.bid = x.bid) => Live(t, kind, y)

LEMMA AdditionTaken ==
  ASSUME NEW s, Sane(s), NEW x \in AnyItems, Live(s, "add", x)
  PROVE  Took(s, Settle(s, [kind |-> "add", ref |-> x.ref], TRUE), "add", x, TRUE)
<1>1. PICK l \in Seq(AnyItems), o \in Seq(AnyItems) :
        /\ l = s.local /\ o = s.official /\ Copy(l) /\ Copy(o) /\ Alike(l, o)
        /\ ByNumber(l) /\ OnlyGroupsLead(l) /\ RefsDiffer(l)
  BY DEF Sane, Copy
<1>2. PICK i \in DOMAIN l : l[i] = x /\ Lacks(o, x.gid, x.bid)  BY <1>1 DEF Live
<1>3. i = FindRef(l, x.ref) /\ i # 0
  <2>1. i # 0  BY ItemNumbers
  <2>. QED  BY <1>1, <1>2, <2>1, FindRefForm
<1>4. PICK t : t = Settle(s, [kind |-> "add", ref |-> x.ref], TRUE)  OBVIOUS
<1>5. t = Put(s, "official", x)  BY <1>1, <1>2, <1>3, <1>4 DEF Settle
<1>6. t \in SsiStates /\ Alongside(s, t) /\ t.local = l /\ Added(o, t.official, x)
  BY <1>1, <1>5, PutOfficial DEF Sane
<1>7. PICK p : p = t.official  OBVIOUS
<1>8. /\ p \in Seq(AnyItems) /\ Contents(p) = Insert(Contents(o), Bare(x))
      /\ Copy(o) /\ Lacks(o, x.gid, x.bid) /\ (x.bid = 0 => x.type = "group") => Copy(p)
  BY <1>6, <1>7 DEF Added
<1>9. Copy(p)  BY <1>1, <1>2, <1>8 DEF OnlyGroupsLead
<1>10. PICK y \in AnyItems : p = Insert(o, y) /\ y.gid = x.gid /\ y.bid = x.bid /\ y.type = x.type
  BY <1>6, <1>7 DEF Added
<1>11. \A j \in DOMAIN p : p[j] = y \/ \E k \in DOMAIN o : p[j] = o[k]  BY <1>10, InsertHas
<1>12. Alike(l, p)
  <2>1. SUFFICES ASSUME NEW a \in DOMAIN l, NEW b \in DOMAIN p, l[a].gid = p[b].gid, l[a].bid = p[b].bid
                 PROVE  l[a].type = p[b].type
    BY DEF Alike
  <2>2. CASE p[b] = y
    <3>1. a = i  BY <1>1, <1>2, <1>10, <2>1, <2>2, OneOfAKey
    <3>. QED  BY <1>2, <1>10, <2>2, <3>1
  <2>3. CASE p[b] # y
    <3>1. PICK k \in DOMAIN o : p[b] = o[k]  BY <1>11, <2>3
    <3>. QED  BY <1>1, <2>1, <3>1 DEF Alike
  <2>. QED  BY <2>2, <2>3
<1>13. Contents(p) = Apply(Contents(o), "add", Bare(x))  BY <1>8 DEF Apply
<1>14. ASSUME NEW z \in AnyItems, Live(s, "add", z), ~(z.gid = x.gid /\ z.bid = x.bid)
       PROVE  Live(t, "add", z)
  <2>1. (\E k \in DOMAIN l : l[k] = z) /\ Lacks(o, z.gid, z.bid)  BY <1>1, <1>14 DEF Live
  <2>2. Lacks(p, z.gid, z.bid)  BY <1>10, <1>11, <1>14, <2>1 DEF Lacks
  <2>. QED  BY <1>6, <1>7, <2>1, <2>2 DEF Live
<1>15. Sane(t)  BY <1>1, <1>6, <1>7, <1>9, <1>12 DEF Sane
<1>. QED  BY <1>1, <1>4, <1>6, <1>7, <1>13, <1>14, <1>15 DEF Took

LEMMA AdditionRefused ==
  ASSUME NEW s, Sane(s), NEW x \in AnyItems, Live(s, "add", x)
  PROVE  Took(s, Settle(s, [kind |-> "add", ref |-> x.ref], FALSE), "add", x, FALSE)
<1>1. PICK l \in Seq(AnyItems), o \in Seq(AnyItems) :
        /\ l = s.local /\ o = s.official /\ Copy(l) /\ Copy(o) /\ Alike(l, o)
        /\ ByNumber(l) /\ OnlyGroupsLead(l) /\ RefsDiffer(l)
  BY DEF Sane, Copy
<1>2. PICK i \in DOMAIN l : l[i] = x /\ Lacks(o, x.gid, x.bid)  BY <1>1 DEF Live
<1>3. i = FindRef(l, x.ref) /\ i # 0 /\ i \in 1 .. Len(l)
  <2>1. i # 0 /\ i \in 1 .. Len(l)  BY ItemNumbers
  <2>. QED  BY <1>1, <1>2, <2>1, FindRefForm
<1>4. PICK t : t = Settle(s, [kind |-> "add", ref |-> x.ref], FALSE)  OBVIOUS
<1>5. PICK p : p = RemoveAt(l, i)  OBVIOUS
<1>6. t = [s EXCEPT !.local = p]  BY <1>1, <1>3, <1>4, <1>5 DEF Settle
<1>7. p \in Seq(AnyItems) /\ Copy(p)
  <2>1. p \in Seq(AnyItems) /\ ByNumber(p) /\ OnlyGroupsLead(p) /\ RefsDiffer(p)  BY <1>1, <1>3, <1>5, RemoveKeeps
  <2>. QED  BY <2>1 DEF Copy
<1>8. t \in SsiStates /\ Alongside(s, t) /\ t.local = p /\ t.official = o
  BY <1>1, <1>6, <1>7 DEF Sane, SsiStates, Alongside
<1>9. /\ \A j \in DOMAIN p : \E k \in DOMAIN l : k # i /\ p[j] = l[k]
      /\ \A k \in DOMAIN l : k # i => \E j \in DOMAIN p : p[j] = l[k]
  BY <1>3, <1>5, RemoveHas
<1>10. Alike(p, o)
  <2>1. SUFFICES ASSUME NEW a \in DOMAIN p, NEW b \in DOMAIN o, p[a].gid = o[b].gid, p[a].bid = o[b].bid
                 PROVE  p[a].type = o[b].type
    BY DEF Alike
  <2>2. PICK k \in DOMAIN l : p[a] = l[k]  BY <1>9
  <2>. QED  BY <1>1, <2>1, <2>2 DEF Alike
<1>11. ASSUME NEW z \in AnyItems, Live(s, "add", z), ~(z.gid = x.gid /\ z.bid = x.bid)
       PROVE  Live(t, "add", z)
  <2>1. PICK k \in DOMAIN l : l[k] = z /\ Lacks(o, z.gid, z.bid)  BY <1>1, <1>11 DEF Live
  <2>2. k # i  BY <1>2, <1>11, <2>1
  <2>3. \E j \in DOMAIN p : p[j] = z  BY <1>9, <2>1, <2>2
  <2>. QED  BY <1>8, <2>1, <2>3 DEF Live
<1>12. Sane(t)  BY <1>1, <1>7, <1>8, <1>10 DEF Sane
<1>. QED  BY <1>1, <1>4, <1>8, <1>11, <1>12 DEF Took

(* What a modification brings along.                                       *)
Named(x, y) == [y EXCEPT !.name = x.name, !.members = x.members, !.alias = x.alias]

LEMMA NamedForm ==
  ASSUME NEW x \in AnyItems, NEW y \in AnyItems
  PROVE  /\ Named(x, y) \in AnyItems /\ Named(x, y).gid = y.gid /\ Named(x, y).bid = y.bid
         /\ Named(x, y).type = y.type /\ Named(x, y).ref = y.ref
         /\ x.gid = y.gid /\ x.bid = y.bid /\ x.type = y.type => Bare(Named(x, y)) = Bare(x)
BY DEF Named, Bare, AnyItems

LEMMA ReplacedItemKeeps ==
  ASSUME NEW list, Copy(list), NEW p \in DOMAIN list, NEW x \in AnyItems,
         x.gid = list[p].gid, x.bid = list[p].bid, x.type = list[p].type, x.ref = list[p].ref
  PROVE  /\ Copy([list EXCEPT ![p] = x]) /\ [list EXCEPT ![p] = x] \in Seq(AnyItems)
         /\ DOMAIN [list EXCEPT ![p] = x] = DOMAIN list
         /\ \A i \in DOMAIN list : /\ [list EXCEPT ![p] = x][i].gid = list[i].gid
                                   /\ [list EXCEPT ![p] = x][i].bid = list[i].bid
                                   /\ [list EXCEPT ![p] = x][i].type = list[i].type
                                   /\ i # p => [list EXCEPT ![p] = x][i] = list[i]
         /\ Contents([list EXCEPT ![p] = x]) = [Contents(list) EXCEPT ![p] = Bare(x)]
<1>1. list \in Seq(AnyItems) /\ ByNumber(list) /\ OnlyGroupsLead(list) /\ RefsDiffer(list)  BY DEF Copy
<1>2. PICK n \in Nat : n = Len(list) /\ DOMAIN list = 1 .. n /\ p \in 1 .. n  BY <1>1, ItemNumbers
<1>3. PICK t : t = [list EXCEPT ![p] = x]  OBVIOUS
<1>4. t \in Seq(AnyItems) /\ Len(t) = n /\ \A i \in 1 .. n : t[i] = IF i = p THEN x ELSE list[i]
  <2>1. p \in 1 .. Len(list)  BY <1>2
  <2>2. /\ [list EXCEPT ![p] = x] \in Seq(AnyItems) /\ Len([list EXCEPT ![p] = x]) = Len(list)
        /\ \A i \in 1 .. Len(list) : [list EXCEPT ![p] = x][i] = IF i = p THEN x ELSE list[i]
    BY <1>1, <2>1, ExceptSeq
  <2>. QED  BY <1>2, <1>3, <2>2
<1>5. \A i \in 1 .. n : /\ t[i].gid = list[i].gid /\ t[i].bid = list[i].bid
                        /\ t[i].type = list[i].type /\ t[i].ref = list[i].ref /\ (i # p => t[i] = list[i])
  BY <1>4
<1>6. ByNumber(t) /\ OnlyGroupsLead(t) /\ RefsDiffer(t)
  <2>1. /\ Len(t) = Len(list)
        /\ \A i \in 1 .. Len(list) : /\ t[i].gid = list[i].gid /\ t[i].bid = list[i].bid
                                     /\ t[i].type = list[i].type
    BY <1>2, <1>4, <1>5
  <2>2. \A i \in 1 .. Len(list) : t[i].ref = list[i].ref  BY <1>2, <1>5
  <2>. QED  BY <1>1, <1>4, <2>1, <2>2, AlikeKeeps
<1>7. DOMAIN t = 1 .. n  BY <1>4, ItemNumbers
<1>8. Contents(t) = [Contents(list) EXCEPT ![p] = Bare(x)]  BY <1>1, <1>2, <1>3, ContentsOfExcept
<1>. QED  BY <1>2, <1>3, <1>4, <1>5, <1>6, <1>7, <1>8 DEF Copy

LEMMA ChangeTaken ==
  ASSUME NEW s, Sane(s), NEW x \in AnyItems, Live(s, "mod", x), NEW ok \in BOOLEAN
  PROVE  Took(s, Settle(s, [kind |-> "mod", ref |-> x.ref], ok), "mod", x, ok)
<1>1. PICK l \in Seq(AnyItems), o \in Seq(AnyItems) :
        /\ l = s.local /\ o = s.official /\ Copy(l) /\ Copy(o) /\ Alike(l, o)
        /\ ByNumber(l) /\ RefsDiffer(l) /\ ByNumber(o) /\ OnlyGroupsLead(o)
  BY DEF Sane, Copy
<1>2. PICK i \in DOMAIN l : l[i] = x /\ ~Lacks(o, x.gid, x.bid)  BY <1>1 DEF Live
<1>3. i = FindRef(l, x.ref) /\ i # 0
  <2>1. i # 0  BY ItemNumbers
  <2>. QED  BY <1>1, <1>2, <2>1, FindRefForm
<1>4. PICK f : f = Find(o, x.gid, x.bid)  OBVIOUS
<1>5. f # 0 /\ f \in DOMAIN o /\ o[f].gid = x.gid /\ o[f].bid = x.bid /\ o[f] \in AnyItems
  <2>1. f \in 0 .. Len(o) /\ f # 0 /\ o[f].gid = x.gid /\ o[f].bid = x.bid  BY <1>2, <1>4, FindForm
  <2>2. Len(o) \in Nat /\ DOMAIN o = 1 .. Len(o) /\ \A j \in 1 .. Len(o) : o[j] \in AnyItems
    BY ItemNumbers
  <2>. QED  BY <2>1, <2>2
<1>6. o[f].type = x.type  BY <1>1, <1>2, <1>5 DEF Alike
<1>7. PICK t : t = Settle(s, [kind |-> "mod", ref |-> x.ref], ok)  OBVIOUS
<1>8. t = IF ok THEN [s EXCEPT !.official[f] = Named(x, @)] ELSE [s EXCEPT !.local[i] = Named(o[f], @)]
  BY <1>1, <1>2, <1>3, <1>4, <1>5, <1>7 DEF Settle, Named
<1>9. CASE ok
  <2>1. PICK y : y = Named(x, o[f])  OBVIOUS
  <2>2. /\ y \in AnyItems /\ y.gid = o[f].gid /\ y.bid = o[f].bid /\ y.type = o[f].type /\ y.ref = o[f].ref
        /\ Bare(y) = Bare(x)
    BY <1>5, <1>6, <2>1, NamedForm
  <2>3. PICK p : p = [o EXCEPT ![f] = y]  OBVIOUS
  <2>4. t = [s EXCEPT !.official = p]  BY <1>1, <1>8, <1>9, <2>1, <2>3
  <2>5. /\ Copy(p) /\ p \in Seq(AnyItems) /\ DOMAIN p = DOMAIN o
        /\ \A j \in DOMAIN o : p[j].gid = o[j].gid /\ p[j].bid = o[j].bid /\ p[j].type = o[j].type
        /\ Contents(p) = [Contents(o) EXCEPT ![f] = Bare(y)]
    BY <1>1, <1>5, <2>2, <2>3, ReplacedItemKeeps
  <2>6. t \in SsiStates /\ Alongside(s, t) /\ t.local = l /\ t.official = p
    BY <1>1, <2>4, <2>5 DEF Sane, SsiStates, Alongside
  <2>7. Alike(l, p)  BY <1>1, <2>5 DEF Alike
  <2>8. Contents(p) = Apply(Contents(o), "mod", Bare(x))
    <3>1. Bare(x).gid = x.gid /\ Bare(x).bid = x.bid  BY BareForm
    <3>2. Find(Contents(o), x.gid, x.bid) = f  BY <1>1, <1>4, ContentsKeep
    <3>3. Apply(Contents(o), "mod", Bare(x)) = [Contents(o) EXCEPT ![f] = Bare(x)]
      BY <3>1, <3>2 DEF Apply
    <3>. QED  BY <2>2, <2>5, <3>3
  <2>9. ASSUME NEW z \in AnyItems, Live(s, "mod", z)  PROVE Live(t, "mod", z)
    <3>1. (\E k \in DOMAIN l : l[k] = z) /\ ~Lacks(o, z.gid, z.bid)  BY <1>1, <2>9 DEF Live
    <3>2. ~Lacks(p, z.gid, z.bid)  BY <2>5, <3>1 DEF Lacks
    <3>. QED  BY <2>6, <3>1, <3>2 DEF Live
  <2>10. Sane(t)  BY <1>1, <2>5, <2>6, <2>7 DEF Sane
  <2>. QED  BY <1>1, <1>7, <1>9, <2>6, <2>8, <2>9, <2>10 DEF Took
<1>10. CASE ~ok
  <2>1. PICK y : y = Named(o[f], l[i])  OBVIOUS
  <2>2. /\ y \in AnyItems /\ y.gid = l[i].gid /\ y.bid = l[i].bid /\ y.type = l[i].type /\ y.ref = l[i].ref
    BY <1>2, <1>5, <2>1, NamedForm
  <2>3. PICK p : p = [l EXCEPT ![i] = y]  OBVIOUS
  <2>4. t = [s EXCEPT !.local = p]  BY <1>1, <1>8, <1>10, <2>1, <2>3
  <2>5. /\ Copy(p) /\ p \in Seq(AnyItems) /\ DOMAIN p = DOMAIN l
        /\ \A j \in DOMAIN l : /\ p[j].gid = l[j].gid /\ p[j].bid = l[j].bid /\ p[j].type = l[j].type
                               /\ j # i => p[j] = l[j]
    BY <1>1, <2>2, <2>3, ReplacedItemKeeps
  <2>6. t \in SsiStates /\ Alongside(s, t) /\ t.local = p /\ t.official = o
    BY <1>1, <2>4, <2>5 DEF Sane, SsiStates, Alongside
  <2>7. Alike(p, o)  BY <1>1, <2>5 DEF Alike
  <2>8. ASSUME NEW z \in AnyItems, Live(s, "mod", z), ~(z.gid = x.gid /\ z.bid = x.bid)
        PROVE  Live(t, "mod", z)
    <3>1. PICK k \in DOMAIN l : l[k] = z /\ ~Lacks(o, z.gid, z.bid)  BY <1>1, <2>8 DEF Live
    <3>2. k # i  BY <1>2, <2>8, <3>1
    <3>3. k \in DOMAIN p /\ p[k] = z  BY <2>5, <3>1, <3>2
    <3>. QED  BY <2>6, <3>1, <3>3 DEF Live
  <2>9. Sane(t)  BY <1>1, <2>5, <2>6, <2>7 DEF Sane
  <2>. QED  BY <1>1, <1>7, <1>10, <2>6, <2>8, <2>9 DEF Took
<1>. QED  BY <1>9, <1>10

LEMMA DeletionTaken ==
  ASSUME NEW s, Sane(s), NEW x \in AnyItems, Live(s, "del", x)
  PROVE  Took(s, Settle(s, [kind |-> "del", ref |-> x.ref], TRUE), "del", x, TRUE)
<1>1. PICK l \in Seq(AnyItems), o \in Seq(AnyItems) :
        /\ l = s.local /\ o = s.official /\ Copy(l) /\ Copy(o) /\ Alike(l, o)
        /\ ByNumber(o) /\ OnlyGroupsLead(o) /\ RefsDiffer(o)
  BY DEF Sane, Copy
<1>2. PICK i \in DOMAIN o : o[i] = x /\ Lacks(l, x.gid, x.bid)  BY <1>1 DEF Live
<1>3. i = FindRef(o, x.ref) /\ i # 0 /\ i \in 1 .. Len(o)
  <2>1. i # 0 /\ i \in 1 .. Len(o)  BY ItemNumbers
  <2>. QED  BY <1>1, <1>2, <2>1, FindRefForm
<1>4. PICK t : t = Settle(s, [kind |-> "del", ref |-> x.ref], TRUE)  OBVIOUS
<1>5. PICK p : p = RemoveAt(o, i)  OBVIOUS
<1>6. t = [s EXCEPT !.official = p]  BY <1>1, <1>3, <1>4, <1>5 DEF Settle
<1>7. p \in Seq(AnyItems) /\ Copy(p)
  <2>1. p \in Seq(AnyItems) /\ ByNumber(p) /\ OnlyGroupsLead(p) /\ RefsDiffer(p)  BY <1>1, <1>3, <1>5, RemoveKeeps
  <2>. QED  BY <2>1 DEF Copy
<1>8. t \in SsiStates /\ Alongside(s, t) /\ t.local = l /\ t.official = p
  BY <1>1, <1>6, <1>7 DEF Sane, SsiStates, Alongside
<1>9. /\ \A j \in DOMAIN p : \E k \in DOMAIN o : k # i /\ p[j] = o[k]
      /\ \A k \in DOMAIN o : k # i => \E j \in DOMAIN p : p[j] = o[k]
  BY <1>3, <1>5, RemoveHas
<1>10. Alike(l, p)
  <2>1. SUFFICES ASSUME NEW a \in DOMAIN l, NEW b \in DOMAIN p, l[a].gid = p[b].gid, l[a].bid = p[b].bid
                 PROVE  l[a].type = p[b].type
    BY DEF Alike
  <2>2. PICK k \in DOMAIN o : p[b] = o[k]  BY <1>9
  <2>. QED  BY <1>1, <2>1, <2>2 DEF Alike
<1>11. Contents(p) = Apply(Contents(o), "del", Bare(x))
  <2>1. Bare(x).gid = x.gid /\ Bare(x).bid = x.bid  BY BareForm
  <2>2. i = Find(o, x.gid, x.bid)  BY <1>1, <1>2, <1>3, FindForm
  <2>3. Find(Contents(o), x.gid, x.bid) = i  BY <1>1, <2>2, ContentsKeep
  <2>4. Apply(Contents(o), "del", Bare(x)) = RemoveAt(Contents(o), i)  BY <2>1, <2>3 DEF Apply
  <2>. QED  BY <1>3, <1>5, <2>4, ContentsOfRemove
<1>12. ASSUME NEW z \in AnyItems, Live(s, "del", z), ~(z.gid = x.gid /\ z.bid = x.bid)
       PROVE  Live(t, "del", z)
  <2>1. PICK k \in DOMAIN o : o[k] = z /\ Lacks(l, z.gid, z.bid)  BY <1>1, <1>12 DEF Live
  <2>2. k # i  BY <1>2, <1>12, <2>1
  <2>3. \E j \in DOMAIN p : p[j] = z  BY <1>9, <2>1, <2>2
  <2>. QED  BY <1>8, <2>1, <2>3 DEF Live
<1>13. Sane(t)  BY <1>1, <1>7, <1>8, <1>10 DEF Sane
<1>. QED  BY <1>1, <1>4, <1>8, <1>11, <1>12, <1>13 DEF Took

LEMMA DeletionRefused ==
  ASSUME NEW s, Sane(s), NEW x \in AnyItems, Live(s, "del", x)
  PROVE  Took(s, Settle(s, [kind |-> "del", ref |-> x.ref], FALSE), "del", x, FALSE)
<1>1. PICK l \in Seq(AnyItems), o \in Seq(AnyItems) :
        /\ l = s.local /\ o = s.official /\ Copy(l) /\ Copy(o) /\ Alike(l, o)
        /\ ByNumber(o) /\ OnlyGroupsLead(o) /\ RefsDiffer(o)
  BY DEF Sane, Copy
<1>2. PICK i \in DOMAIN o : o[i] = x /\ Lacks(l, x.gid, x.bid)  BY <1>1 DEF Live
<1>3. i = FindRef(o, x.ref) /\ i # 0
  <2>1. i # 0  BY ItemNumbers
  <2>. QED  BY <1>1, <1>2, <2>1, FindRefForm
<1>4. PICK t : t = Settle(s, [kind |-> "del", ref |-> x.ref], FALSE)  OBVIOUS
<1>5. t = Put(s, "local", x)  BY <1>1, <1>2, <1>3, <1>4 DEF Settle
<1>6. t \in SsiStates /\ Alongside(s, t) /\ t.official = o /\ Added(l, t.local, x)
  BY <1>1, <1>5, PutLocal DEF Sane
<1>7. PICK p : p = t.local  OBVIOUS
<1>8. /\ p \in Seq(AnyItems)
      /\ Copy(l) /\ Lacks(l, x.gid, x.bid) /\ (x.bid = 0 => x.type = "group") => Copy(p)
  BY <1>6, <1>7 DEF Added
<1>9. Copy(p)  BY <1>1, <1>2, <1>8 DEF OnlyGroupsLead
<1>10. PICK y \in AnyItems : p = Insert(l, y) /\ y.gid = x.gid /\ y.bid = x.bid /\ y.type = x.type
  BY <1>6, <1>7 DEF Added
<1>11. \A j \in DOMAIN p : p[j] = y \/ \E k \in DOMAIN l : p[j] = l[k]  BY <1>10, InsertHas
<1>12. Alike(p, o)
  <2>1. SUFFICES ASSUME NEW a \in DOMAIN p, NEW b \in DOMAIN o, p[a].gid = o[b].gid, p[a].bid = o[b].bid
                 PROVE  p[a].type = o[b].type
    BY DEF Alike
  <2>2. CASE p[a] = y
    <3>1. b = i  BY <1>1, <1>2, <1>10, <2>1, <2>2, OneOfAKey
    <3>. QED  BY <1>2, <1>10, <2>2, <3>1
  <2>3. CASE p[a] # y
    <3>1. PICK k \in DOMAIN l : p[a] = l[k]  BY <1>11, <2>3
    <3>. QED  BY <1>1, <2>1, <3>1 DEF Alike
  <2>. QED  BY <2>2, <2>3
<1>13. ASSUME NEW z \in AnyItems, Live(s, "del", z), ~(z.gid = x.gid /\ z.bid = x.bid)
       PROVE  Live(t, "del", z)
  <2>1. (\E k \in DOMAIN o : o[k] = z) /\ Lacks(l, z.gid, z.bid)  BY <1>1, <1>13 DEF Live
  <2>2. Lacks(p, z.gid, z.bid)  BY <1>10, <1>11, <1>13, <2>1 DEF Lacks
  <2>. QED  BY <1>6, <1>7, <2>1, <2>2 DEF Live
<1>14. Sane(t)  BY <1>1, <1>6, <1>7, <1>9, <1>12 DEF Sane
<1>. QED  BY <1>1, <1>4, <1>6, <1>13, <1>14 DEF Took

LEMMA SettleTakes ==
  ASSUME NEW s, Sane(s), NEW kind \in Edits, NEW x \in AnyItems, Live(s, kind, x), NEW ok \in BOOLEAN
  PROVE  Took(s, Settle(s, [kind |-> kind, ref |-> x.ref], ok), kind, x, ok)
<1>1. CASE kind = "mod"  BY <1>1, ChangeTaken
<1>2. CASE kind = "add" /\ ok  BY <1>2, AdditionTaken
<1>3. CASE kind = "add" /\ ~ok  BY <1>3, AdditionRefused
<1>4. CASE kind = "del" /\ ok  BY <1>4, DeletionTaken
<1>5. CASE kind = "del" /\ ~ok  BY <1>5, DeletionRefused
<1>. QED  BY <1>1, <1>2, <1>3, <1>4, <1>5 DEF Edits

-----------------------------------------------------------------------------
(* What is done n times over, when each step is only known to have a       *)
(* result where the steps before it lead to.                               *)
LEMMA RunKeeps ==
  ASSUME NEW n \in Nat, NEW Good, NEW b, <<0, b[0]>> \in Good,
         \A k \in 1 .. n : <<k - 1, b[k - 1]>> \in Good => <<k, b[k]>> \in Good
  PROVE  \A k \in 0 .. n : <<k, b[k]>> \in Good
<1>1. PICK Fails : Fails = {k \in 0 .. n : <<k, b[k]>> \notin Good}  OBVIOUS
<1>2. SUFFICES ASSUME Fails # {} PROVE FALSE  BY <1>1
<1>3. PICK m \in Fails : \A k \in Fails : m <= k
  <2>1. Fails \in SUBSET Nat  BY <1>1
  <2>. QED  BY <1>2, <2>1, LeastNumber
<1>4. m \in 0 .. n /\ <<m, b[m]>> \notin Good  BY <1>1
<1>5. m # 0  BY <1>4
<1>6. m \in 1 .. n /\ m - 1 \in 0 .. n /\ ~(m <= m - 1)  BY <1>4, <1>5
<1>7. m - 1 \notin Fails  BY <1>3, <1>6
<1>8. <<m - 1, b[m - 1]>> \in Good  BY <1>1, <1>6, <1>7
<1>. QED  BY <1>4, <1>6, <1>8

LEMMA RunWhile ==
  ASSUME NEW V, NEW n \in Nat, NEW Good \in SUBSET ((0 .. n) \X V), NEW first, <<0, first>> \in Good,
         NEW step, \A k \in 1 .. n, v \in V : <<k - 1, v>> \in Good => <<k, step[<<k, v>>]>> \in Good
  PROVE  \E f \in [0 .. n -> V] : Runs(f, n, first, step)
<1>1. PICK move : move = [x \in (1 .. n) \X Good |->
                            IF x[2][1] = x[1] - 1 THEN <<x[1], step[<<x[1], x[2][2]>>]>> ELSE x[2]]
  OBVIOUS
<1>2. ASSUME NEW k \in 1 .. n, NEW g \in Good
      PROVE  /\ g[1] \in 0 .. n /\ g[2] \in V /\ g = <<g[1], g[2]>>
             /\ move[<<k, g>>] = IF g[1] = k - 1 THEN <<k, step[<<k, g[2]>>]>> ELSE g
             /\ move[<<k, g>>] \in Good
  <2>1. g[1] \in 0 .. n /\ g[2] \in V /\ g = <<g[1], g[2]>>  OBVIOUS
  <2>2. PICK x : x = <<k, g>>  OBVIOUS
  <2>3. x \in (1 .. n) \X Good /\ x[1] = k /\ x[2] = g  BY <2>2
  <2>4. move[x] = IF g[1] = k - 1 THEN <<k, step[<<k, g[2]>>]>> ELSE g  BY <1>1, <2>3
  <2>5. g[1] = k - 1 => <<k, step[<<k, g[2]>>]>> \in Good
    <3>1. g[1] = k - 1 => <<k - 1, g[2]>> \in Good  BY <2>1
    <3>. QED  BY <2>1, <3>1
  <2>. QED  BY <2>1, <2>2, <2>4, <2>5
<1>3. move \in [(1 .. n) \X Good -> Good]
  <2>1. ASSUME NEW x \in (1 .. n) \X Good PROVE move[x] \in Good
    <3>1. PICK k \in 1 .. n, g \in Good : x = <<k, g>>  OBVIOUS
    <3>. QED  BY <1>2, <3>1
  <2>2. DOMAIN move = (1 .. n) \X Good /\ move = [x \in (1 .. n) \X Good |-> move[x]]  BY <1>1
  <2>. QED  BY <2>1, <2>2
<1>4. PICK start \in Good : start = <<0, first>>  OBVIOUS
<1>5. PICK h \in [0 .. n -> Good] : Runs(h, n, start, move)  BY <1>3, <1>4, RunsExist, Zenon
<1>6. PICK T : T = {x \in (0 .. n) \X Good : x[2][1] = x[1]}  OBVIOUS
<1>7. \A k \in 0 .. n : <<k, h[k]>> \in T
  <2>1. <<0, h[0]>> \in T
    <3>1. h[0] = start /\ start[1] = 0 /\ 0 \in 0 .. n  BY <1>4, <1>5 DEF Runs
    <3>. QED  BY <1>4, <1>6, <3>1
  <2>2. ASSUME NEW k \in 1 .. n, <<k - 1, h[k - 1]>> \in T PROVE <<k, h[k]>> \in T
    <3>1. k - 1 \in 0 .. n /\ k \in 0 .. n  OBVIOUS
    <3>2. h[k - 1] \in Good /\ h[k - 1][1] = k - 1  BY <1>6, <2>2
    <3>3. h[k] = move[<<k, h[k - 1]>>]  BY <1>5 DEF Runs
    <3>4. PICK v : v = step[<<k, h[k - 1][2]>>]  OBVIOUS
    <3>5. h[k] = <<k, v>> /\ h[k] \in Good  BY <1>2, <3>2, <3>3, <3>4
    <3>6. h[k][1] = k  BY <3>5
    <3>. QED  BY <1>6, <3>1, <3>5, <3>6
  <2>. QED  BY <2>1, <2>2, RunKeeps
<1>8. PICK f : f = [k \in 0 .. n |-> h[k][2]]  OBVIOUS
<1>9. f \in [0 .. n -> V]
  <2>1. \A k \in 0 .. n : h[k] \in Good /\ h[k][2] \in V  BY <1>5
  <2>. QED  BY <1>8, <2>1
<1>10. f[0] = first
  <2>1. h[0] = start /\ start[2] = first /\ 0 \in 0 .. n  BY <1>4, <1>5 DEF Runs
  <2>. QED  BY <1>8, <2>1
<1>11. ASSUME NEW k \in 1 .. n PROVE f[k] = step[<<k, f[k - 1]>>]
  <2>1. k - 1 \in 0 .. n /\ k \in 0 .. n  OBVIOUS
  <2>2. h[k - 1] \in Good /\ h[k - 1][1] = k - 1  BY <1>6, <1>7, <2>1
  <2>3. h[k] = move[<<k, h[k - 1]>>]  BY <1>5 DEF Runs
  <2>4. PICK v : v = step[<<k, h[k - 1][2]>>]  OBVIOUS
  <2>5. h[k] = <<k, v>>  BY <1>2, <2>2, <2>3, <2>4
  <2>6. h[k][2] = v  BY <2>5
  <2>. QED  BY <1>8, <2>1, <2>4, <2>6
<1>. QED  BY <1>9, <1>10, <1>11 DEF Runs

-----------------------------------------------------------------------------
(* What the server makes of a request.                                     *)
LEMMA ApplyForm ==
  ASSUME NEW list \in Seq(AnyItems), NEW kind \in Edits, NEW x \in AnyItems, CanApply(list, kind, x)
  PROVE  Apply(list, kind, x) \in Seq(AnyItems)
<1>1. PICK i : i = Find(list, x.gid, x.bid)  OBVIOUS
<1>2. i \in 0 .. Len(list)  BY <1>1, FindForm
<1>3. CASE kind = "add"
  <2>1. Apply(list, kind, x) = Insert(list, x)  BY <1>3 DEF Apply
  <2>. QED  BY <2>1, InsertForm
<1>4. CASE kind # "add"
  <2>1. i # 0  BY <1>1, <1>4 DEF CanApply
  <2>2. i \in 1 .. Len(list)  BY <1>2, <2>1, ItemNumbers
  <2>3. CASE kind = "mod"
    <3>1. Apply(list, kind, x) = [list EXCEPT ![i] = x]  BY <1>1, <2>3 DEF Apply
    <3>. QED  BY <2>2, <3>1, ContentsOfExcept
  <2>4. CASE kind = "del"
    <3>1. Apply(list, kind, x) = RemoveAt(list, i)  BY <1>1, <2>4 DEF Apply
    <3>2. RemoveAt(list, i) = WithoutAt(list, i)  BY <2>2, RemoveAtForm
    <3>. QED  BY <2>2, <3>1, <3>2, WithoutAtForm
  <2>. QED  BY <1>4, <2>3, <2>4 DEF Edits
<1>. QED  BY <1>3, <1>4

LEMMA ApplyAllForm ==
  ASSUME NEW list \in Seq(AnyItems), NEW kind \in Edits, NEW items \in Seq(AnyItems), NEW refuse
  PROVE  \E b : /\ b[0] = list /\ b[Len(items)] = ApplyAll(list, kind, items, refuse).list
                /\ ApplyAll(list, kind, items, refuse).acks \in Seq(BOOLEAN)
                /\ Len(ApplyAll(list, kind, items, refuse).acks) = Len(items)
                /\ \A k \in 1 .. Len(items) :
                     b[k] = IF ApplyAll(list, kind, items, refuse).acks[k] THEN Apply(b[k - 1], kind, items[k])
                            ELSE b[k - 1]
<1>. DEFINE V == Seq(AnyItems)
            Takes(l, k) == k \notin refuse /\ CanApply(l, kind, items[k])
            Then(l, k) == IF Takes(l, k) THEN Apply(l, kind, items[k]) ELSE l
            Step(g, k) == IF k = 0 THEN list
                          ELSE IF Takes(g[k - 1], k) THEN Apply(g[k - 1], kind, items[k]) ELSE g[k - 1]
<1>1. PICK n \in Nat : n = Len(items) /\ \A k \in 1 .. n : items[k] \in AnyItems  BY ItemNumbers
<1>2. ASSUME NEW l \in V, NEW k \in 1 .. n PROVE Then(l, k) \in V
  <2>1. items[k] \in AnyItems  BY <1>1
  <2>. QED  BY <2>1, ApplyForm
<1>3. list \in V  OBVIOUS
<1>. HIDE DEF V
<1>4. PICK step : step = [x \in (1 .. n) \X V |-> Then(x[2], x[1])]  OBVIOUS
<1>5. step \in [(1 .. n) \X V -> V]
  <2>. HIDE DEF Then
  <2>. QED  BY <1>2, <1>4
<1>6. PICK f \in [0 .. n -> V] : Runs(f, n, list, step)  BY <1>3, <1>5, RunsExist, Zenon
<1>7. \A k \in 1 .. n : f[k] = Then(f[k - 1], k)
  <2>1. SUFFICES ASSUME NEW k \in 1 .. n PROVE f[k] = Then(f[k - 1], k)  OBVIOUS
  <2>2. f[k - 1] \in V  BY <1>1
  <2>3. PICK x : x = <<k, f[k - 1]>>  OBVIOUS
  <2>4. x \in (1 .. n) \X V /\ x[1] = k /\ x[2] = f[k - 1]  BY <2>2, <2>3
  <2>. HIDE DEF Then
  <2>5. step[x] = Then(x[2], x[1])  BY <1>4, <2>4
  <2>. QED  BY <1>6, <2>3, <2>4, <2>5 DEF Runs
<1>8. f = [k \in 0 .. n |-> Step(f, k)]  BY <1>1, <1>6, <1>7 DEF Runs
<1>9. PICK b : b = CHOOSE g : g = [k \in 0 .. n |-> Step(g, k)]  OBVIOUS
<1>10. b = [k \in 0 .. n |-> Step(b, k)]  BY <1>8, <1>9
<1>11. PICK done : done = ApplyAll(list, kind, items, refuse)  OBVIOUS
<1>12. done.list = b[n] /\ done.acks = [k \in 1 .. n |-> Takes(b[k - 1], k)]
  BY <1>1, <1>9, <1>11 DEF ApplyAll
<1>13. b[0] = list /\ \A k \in 1 .. n : b[k] = Then(b[k - 1], k)
  <2>1. 0 \in 0 .. n /\ \A k \in 1 .. n : k \in 0 .. n /\ k # 0  BY <1>1
  <2>2. \A k \in 0 .. n : b[k] = Step(b, k)
    <3>. HIDE DEF Step
    <3>. QED  BY <1>10
  <2>3. b[0] = list  BY <2>1, <2>2
  <2>4. ASSUME NEW k \in 1 .. n PROVE b[k] = Then(b[k - 1], k)
    <3>1. b[k] = Step(b, k) /\ k # 0
      <4>. HIDE DEF Step
      <4>. QED  BY <2>1, <2>2
    <3>. HIDE DEF Takes
    <3>. QED  BY <3>1
  <2>. QED  BY <2>3, <2>4
<1>14. \A k \in 1 .. n : done.acks[k] = Takes(b[k - 1], k)  BY <1>12
<1>15. done.acks \in Seq(BOOLEAN) /\ Len(done.acks) = n
  <2>1. \A k \in 1 .. n : Takes(b[k - 1], k) \in BOOLEAN  BY DEF CanApply
  <2>. HIDE DEF Takes
  <2>2. done.acks \in [1 .. n -> BOOLEAN]  BY <1>12, <2>1
  <2>3. PICK acks : acks = done.acks  OBVIOUS
  <2>4. acks \in Seq(BOOLEAN)
    <3>1. acks \in [1 .. n -> BOOLEAN]  BY <2>2, <2>3
    <3>. QED  BY <1>1, <3>1, SeqDef
  <2>5. Len(acks) = n  BY <2>2, <2>3, <2>4, LenProperties
  <2>. QED  BY <2>3, <2>4, <2>5
<1>16. \A k \in 1 .. n : b[k] = IF done.acks[k] THEN Apply(b[k - 1], kind, items[k]) ELSE b[k - 1]
  <2>. HIDE DEF Takes
  <2>. QED  BY <1>13, <1>14
<1>. QED  BY <1>1, <1>11, <1>12, <1>13, <1>15, <1>16

-----------------------------------------------------------------------------
(* All the acknowledgements of what was sent.                              *)
LEMMA ChangesAreLive ==
  ASSUME NEW s, Sane(s)
  PROVE  /\ ByNumber(Changes(s).items)
         /\ \A k \in DOMAIN Changes(s).items : Live(s, Changes(s).kind, Changes(s).items[k])
<1>1. PICK l \in Seq(AnyItems), o \in Seq(AnyItems) :
        l = s.local /\ o = s.official /\ ByNumber(l) /\ ByNumber(o)
  BY DEF Sane, Copy
<1>2. PICK c : c = Changes(s)  OBVIOUS
<1>3. s \in SsiStates  BY DEF Sane
<1>4. CASE c = [kind |-> "add", items |-> Only(s.local, New(s))]
  <2>1. PICK t : t = Only(l, New(s))  OBVIOUS
  <2>2. ByNumber(t) /\ \A k \in DOMAIN t : t[k] \in New(s) /\ \E i \in DOMAIN l : l[i] = t[k]
    BY <1>1, <2>1, OnlyForm
  <2>3. c.kind = "add" /\ c.items = t  BY <1>1, <1>4, <2>1
  <2>4. \A x \in New(s) : Lacks(o, x.gid, x.bid)
    <3>1. \A x \in New(s) : Find(o, x.gid, x.bid) = 0  BY <1>1 DEF New
    <3>. QED  BY <3>1, FindForm
  <2>5. \A k \in DOMAIN t : Live(s, "add", t[k])  BY <1>1, <2>2, <2>4 DEF Live
  <2>. QED  BY <1>2, <2>2, <2>3, <2>5
<1>5. CASE c = [kind |-> "del", items |-> Only(s.official, Gone(s))]
  <2>1. PICK t : t = Only(o, Gone(s))  OBVIOUS
  <2>2. ByNumber(t) /\ \A k \in DOMAIN t : t[k] \in Gone(s) /\ \E i \in DOMAIN o : o[i] = t[k]
    BY <1>1, <2>1, OnlyForm
  <2>3. c.kind = "del" /\ c.items = t  BY <1>1, <1>5, <2>1
  <2>4. \A x \in Gone(s) : Lacks(l, x.gid, x.bid)
    <3>1. \A x \in Gone(s) : Find(l, x.gid, x.bid) = 0  BY <1>1 DEF Gone
    <3>. QED  BY <3>1, FindForm
  <2>5. \A k \in DOMAIN t : Live(s, "del", t[k])  BY <1>1, <2>2, <2>4 DEF Live
  <2>. QED  BY <1>2, <2>2, <2>3, <2>5
<1>6. CASE c = [kind |-> "mod", items |-> Only(s.local, Changed(s))]
  <2>1. PICK t : t = Only(l, Changed(s))  OBVIOUS
  <2>2. ByNumber(t) /\ \A k \in DOMAIN t : t[k] \in Changed(s) /\ \E i \in DOMAIN l : l[i] = t[k]
    BY <1>1, <2>1, OnlyForm
  <2>3. c.kind = "mod" /\ c.items = t  BY <1>1, <1>6, <2>1
  <2>4. \A x \in Changed(s) : ~Lacks(o, x.gid, x.bid)
    <3>1. \A x \in Changed(s) : Find(o, x.gid, x.bid) # 0  BY <1>1 DEF Changed
    <3>. QED  BY <3>1, FindForm
  <2>5. \A k \in DOMAIN t : Live(s, "mod", t[k])  BY <1>1, <2>2, <2>4 DEF Live
  <2>. QED  BY <1>2, <2>2, <2>3, <2>5
<1>. QED  BY <1>2, <1>3, <1>4, <1>5, <1>6, ChangesForm

(* A sync that is not waiting for anything can begin.                      *)
Resting(s) == Sane(s) /\ s.up /\ ~s.waiting /\ s.pending = <<>>

(* The lists that the server goes through, and what the client makes of    *)
(* its answers.                                                            *)
ComesOf(b, list, kind, items, acks) ==
  /\ b[0] = list
  /\ \A k \in 1 .. Len(acks) : b[k] = IF acks[k] THEN Apply(b[k - 1], kind, items[k]) ELSE b[k - 1]
TakenIn(s, acks, full) ==
  \E t : /\ ParseAck(s, acks) = Sync(t) /\ Resting(t) /\ t.sent = s.sent
         /\ Contents(t.official) = full

LEMMA AnswersTaken ==
  ASSUME NEW s, Sane(s), s.up, Asks(s), NEW acks \in Seq(BOOLEAN), Len(acks) = Len(Changes(s).items),
         NEW b, ComesOf(b, Contents(s.official), Changes(s).kind, Contents(Changes(s).items), acks)
  PROVE  TakenIn(s, acks, b[Len(acks)])
<1>1. s \in SsiStates  BY DEF Sane
<1>2. PICK kind \in Edits, items \in Seq(AnyItems) : kind = Changes(s).kind /\ items = Changes(s).items
  BY <1>1, ChangesAreItems DEF Edits
<1>3. PICK n \in Nat : /\ n = Len(items) /\ n = Len(acks) /\ DOMAIN items = 1 .. n
                       /\ \A k \in 1 .. n : items[k] \in AnyItems /\ acks[k] \in BOOLEAN
  <2>1. PICK n \in Nat : n = Len(items) /\ DOMAIN items = 1 .. n /\ \A k \in 1 .. n : items[k] \in AnyItems
    BY ItemNumbers
  <2>2. n = Len(acks)  BY <1>2, <2>1
  <2>3. \A k \in 1 .. n : acks[k] \in BOOLEAN  BY <2>2, ElementOfSeq
  <2>. QED  BY <2>1, <2>2, <2>3
<1>4. ByNumber(items) /\ \A k \in 1 .. n : Live(s, kind, items[k])  BY <1>2, <1>3, ChangesAreLive
<1>5. \A k \in 1 .. n : s.pending[k] = [kind |-> kind, ref |-> items[k].ref]  BY <1>2, <1>3 DEF Asks
<1>6. Len(s.pending) = n
  <2>1. s.pending = [k \in 1 .. n |-> [kind |-> kind, ref |-> items[k].ref]]  BY <1>2, <1>3 DEF Asks
  <2>2. s.pending \in Seq(SentItems)  BY <1>1 DEF SsiStates
  <2>3. DOMAIN s.pending = 1 .. n  BY <2>1
  <2>4. Len(s.pending) \in Nat /\ DOMAIN s.pending = 1 .. Len(s.pending)  BY <2>2, LenProperties
  <2>. QED  BY <2>3, <2>4
<1>7. \A k \in 1 .. n : b[k] = IF acks[k] THEN Apply(b[k - 1], kind, Bare(items[k])) ELSE b[k - 1]
  <2>1. \A k \in 1 .. n : Contents(items)[k] = Bare(items[k])  BY <1>3, ContentsForm
  <2>. QED  BY <1>2, <1>3, <2>1 DEF ComesOf
<1>8. PICK Good : Good = {x \in (0 .. n) \X SsiStates :
                            /\ Sane(x[2]) /\ Alongside(s, x[2]) /\ Contents(x[2].official) = b[x[1]]
                            /\ \A j \in x[1] + 1 .. n : Live(x[2], kind, items[j])}
  OBVIOUS
<1>9. <<0, s>> \in Good
  <2>1. PICK x : x = <<0, s>>  OBVIOUS
  <2>2. x \in (0 .. n) \X SsiStates /\ x[1] = 0 /\ x[2] = s  BY <1>1, <2>1
  <2>3. \A j \in 0 + 1 .. n : Live(s, kind, items[j])  BY <1>4
  <2>4. b[0] = Contents(s.official)  BY DEF ComesOf
  <2>. QED  BY <1>8, <2>1, <2>2, <2>3, <2>4 DEF Alongside
<1>10. ASSUME NEW k \in 1 .. n, NEW t \in SsiStates, <<k - 1, t>> \in Good
       PROVE  <<k, Settle(t, s.pending[k], acks[k])>> \in Good
  <2>1. /\ Sane(t) /\ Alongside(s, t) /\ Contents(t.official) = b[k - 1]
        /\ \A j \in k - 1 + 1 .. n : Live(t, kind, items[j])
    <3>1. PICK x : x = <<k - 1, t>>  OBVIOUS
    <3>2. x \in Good /\ x[1] = k - 1 /\ x[2] = t  BY <1>10, <3>1
    <3>. QED  BY <1>8, <3>2
  <2>2. \A j \in k .. n : Live(t, kind, items[j])
    <3>1. k - 1 + 1 = k  OBVIOUS
    <3>. QED  BY <2>1, <3>1
  <2>3. PICK x \in AnyItems : x = items[k]  BY <1>3
  <2>4. PICK ok \in BOOLEAN : ok = acks[k]  BY <1>3
  <2>5. PICK u : u = Settle(t, s.pending[k], acks[k])  OBVIOUS
  <2>6. u = Settle(t, [kind |-> kind, ref |-> x.ref], ok)  BY <1>5, <2>3, <2>4, <2>5
  <2>7. Live(t, kind, x)
    <3>1. k \in k .. n  OBVIOUS
    <3>. QED  BY <2>2, <2>3, <3>1
  <2>8. Took(t, u, kind, x, ok)  BY <2>1, <2>6, <2>7, SettleTakes
  <2>9. Sane(u) /\ Alongside(t, u) /\ u \in SsiStates  BY <2>8 DEF Took, Sane
  <2>10. Alongside(s, u)  BY <2>1, <2>9 DEF Alongside
  <2>11. Contents(u.official) = b[k]
    <3>1. Contents(u.official) = IF ok THEN Apply(b[k - 1], kind, Bare(x)) ELSE b[k - 1]
      BY <2>1, <2>8 DEF Took
    <3>. QED  BY <1>7, <2>3, <2>4, <3>1
  <2>12. ASSUME NEW j \in k + 1 .. n PROVE Live(u, kind, items[j])
    <3>1. j \in 1 .. n /\ j \in k .. n /\ j # k  OBVIOUS
    <3>2. PICK y \in AnyItems : y = items[j]  BY <1>3, <3>1
    <3>3. ~(y.gid = x.gid /\ y.bid = x.bid)  BY <1>3, <1>4, <2>3, <3>1, <3>2, OneOfAKey
    <3>4. Live(t, kind, y)  BY <2>2, <3>1, <3>2
    <3>. QED  BY <2>8, <3>2, <3>3, <3>4 DEF Took
  <2>13. PICK z : z = <<k, u>>  OBVIOUS
  <2>14. z \in (0 .. n) \X SsiStates /\ z[1] = k /\ z[2] = u  BY <2>9, <2>13
  <2>15. z \in Good  BY <1>8, <2>9, <2>10, <2>11, <2>12, <2>14
  <2>. QED  BY <2>5, <2>13, <2>15
<1>11. PICK step : step = [x \in (1 .. n) \X SsiStates |-> Settle(x[2], s.pending[x[1]], acks[x[1]])]  OBVIOUS
<1>12. ASSUME NEW k \in 1 .. n, NEW t \in SsiStates PROVE step[<<k, t>>] = Settle(t, s.pending[k], acks[k])
  <2>1. PICK x : x = <<k, t>>  OBVIOUS
  <2>2. x \in (1 .. n) \X SsiStates /\ x[1] = k /\ x[2] = t  BY <2>1
  <2>. QED  BY <1>11, <2>1, <2>2
<1>13. PICK f \in [0 .. n -> SsiStates] : Runs(f, n, s, step)
  <2>1. Good \in SUBSET ((0 .. n) \X SsiStates)  BY <1>8
  <2>2. \A k \in 1 .. n, t \in SsiStates : <<k - 1, t>> \in Good => <<k, step[<<k, t>>]>> \in Good
    BY <1>10, <1>12
  <2>. QED  BY <1>9, <2>1, <2>2, RunWhile
<1>. DEFINE Step(g, k) == IF k = 0 THEN s ELSE Settle(g[k - 1], s.pending[k], acks[k])
<1>14. f = [k \in 0 .. n |-> Step(f, k)]
  <2>1. \A k \in 1 .. n : f[k] = Settle(f[k - 1], s.pending[k], acks[k])
    <3>1. SUFFICES ASSUME NEW k \in 1 .. n PROVE f[k] = Settle(f[k - 1], s.pending[k], acks[k])  OBVIOUS
    <3>2. k - 1 \in 0 .. n  OBVIOUS
    <3>3. f[k - 1] \in SsiStates  BY <3>2
    <3>. QED  BY <1>12, <1>13, <3>3 DEF Runs
  <2>. QED  BY <1>13, <2>1 DEF Runs
<1>15. PICK h : h = CHOOSE g : g = [k \in 0 .. n |-> Step(g, k)]  OBVIOUS
<1>16. h = [k \in 0 .. n |-> Step(h, k)]  BY <1>14, <1>15
<1>17. h[0] = s /\ \A k \in 1 .. n : h[k] = Settle(h[k - 1], s.pending[k], acks[k])
  <2>1. 0 \in 0 .. n /\ \A k \in 1 .. n : k \in 0 .. n /\ k # 0  OBVIOUS
  <2>2. \A k \in 0 .. n : h[k] = Step(h, k)
    <3>. HIDE DEF Step
    <3>. QED  BY <1>16
  <2>3. h[0] = s  BY <2>1, <2>2
  <2>4. ASSUME NEW k \in 1 .. n PROVE h[k] = Settle(h[k - 1], s.pending[k], acks[k])
    <3>1. h[k] = Step(h, k) /\ k # 0
      <4>. HIDE DEF Step
      <4>. QED  BY <2>1, <2>2
    <3>. QED  BY <3>1
  <2>. QED  BY <2>3, <2>4
<1>18. <<n, h[n]>> \in Good
  <2>1. <<0, h[0]>> \in Good  BY <1>9, <1>17
  <2>2. ASSUME NEW k \in 1 .. n, <<k - 1, h[k - 1]>> \in Good PROVE <<k, h[k]>> \in Good
    <3>1. PICK t : t = h[k - 1]  OBVIOUS
    <3>2. t \in SsiStates
      <4>1. PICK x : x = <<k - 1, t>>  OBVIOUS
      <4>2. x \in Good /\ x[2] = t  BY <2>2, <3>1, <4>1
      <4>. QED  BY <1>8, <4>2
    <3>3. h[k] = Settle(t, s.pending[k], acks[k])  BY <1>17, <3>1
    <3>. QED  BY <1>10, <2>2, <3>1, <3>2, <3>3
  <2>3. \A k \in 0 .. n : <<k, h[k]>> \in Good  BY <2>1, <2>2, RunKeeps
  <2>4. n \in 0 .. n  OBVIOUS
  <2>. QED  BY <2>3, <2>4
<1>19. PICK u : u = h[n]  OBVIOUS
<1>20. u \in SsiStates /\ Sane(u) /\ Alongside(s, u) /\ Contents(u.official) = b[n]
  <2>1. PICK x : x = <<n, u>>  OBVIOUS
  <2>2. x \in Good /\ x[1] = n /\ x[2] = u  BY <1>18, <1>19, <2>1
  <2>. QED  BY <1>8, <2>2
<1>21. PICK t : t = [u EXCEPT !.pending = <<>>, !.waiting = FALSE]  OBVIOUS
<1>22. ParseAck(s, acks) = Sync(t)
  <2>1. SubSeq(s.pending, n + 1, n) = <<>>  BY SubSeqEmpty
  <2>2. (IF Len(acks) < Len(s.pending) THEN Len(acks) ELSE Len(s.pending)) = n  BY <1>3, <1>6
  <2>. QED  BY <1>3, <1>6, <1>15, <1>19, <1>21, <2>1, <2>2 DEF ParseAck
<1>23. /\ t \in SsiStates /\ t.local = u.local /\ t.official = u.official /\ t.pending = <<>> /\ ~t.waiting
       /\ t.up = u.up /\ t.received = u.received /\ t.sent = u.sent
  <2>1. <<>> \in Seq(SentItems)  BY EmptySeq
  <2>. QED  BY <1>20, <1>21, <2>1 DEF SsiStates
<1>24. Sane(t)  BY <1>20, <1>23 DEF Sane
<1>25. t.up /\ t.received = s.received /\ t.sent = s.sent  BY <1>20, <1>23 DEF Alongside
<1>. QED  BY <1>3, <1>20, <1>22, <1>23, <1>24, <1>25 DEF Resting, TakenIn

-----------------------------------------------------------------------------
(* Loading: items that arrive in the order of the list.                    *)

(* What the server has: as good as a copy, but for the addresses.          *)
Pristine(full) ==
  /\ full \in Seq(AnyItems) /\ ByNumber(full) /\ OnlyGroupsLead(full)
  /\ \A i \in DOMAIN full : Bare(full[i]) = full[i]

Carries(list, full, k) == Len(list) = k /\ \A i \in 1 .. k : Bare(list[i]) = full[i]

LEMMA CarriesAll ==
  ASSUME NEW list \in Seq(AnyItems), NEW full, Pristine(full), Carries(list, full, Len(full))
  PROVE  Contents(list) = full
<1>1. full \in Seq(AnyItems)  BY DEF Pristine
<1>2. PICK t \in Seq(AnyItems) : /\ t = Contents(list) /\ Len(t) = Len(list)
                                 /\ \A i \in 1 .. Len(list) : t[i] = Bare(list[i])
  BY ContentsForm
<1>3. Len(t) = Len(full) /\ \A i \in 1 .. Len(t) : t[i] = full[i]  BY <1>2 DEF Carries
<1>. QED  BY <1>1, <1>2, <1>3, SeqEqual

LEMMA InsertLast ==
  ASSUME NEW list \in Seq(AnyItems), NEW x \in AnyItems, \A i \in DOMAIN list : Precedes(list[i], x)
  PROVE  /\ Len(Insert(list, x)) = Len(list) + 1 /\ Insert(list, x)[Len(list) + 1] = x
         /\ \A i \in 1 .. Len(list) : Insert(list, x)[i] = list[i]
<1>1. PICK n \in Nat : n = Len(list) /\ DOMAIN list = 1 .. n /\ \A i \in 1 .. n : list[i] \in AnyItems
  BY ItemNumbers
<1>2. Behind(list, x) = {}  BY <1>1 DEF Behind
<1>3. list # <<>> => ~Precedes(x, Head(list))
  <2>1. SUFFICES ASSUME list # <<>> PROVE ~Precedes(x, Head(list))  OBVIOUS
  <2>2. n # 0  BY <1>1, <2>1, EmptySeq
  <2>3. 1 \in 1 .. n /\ Head(list) = list[1]  BY <1>1, <2>1, <2>2
  <2>4. PICK y \in AnyItems : y = Head(list) /\ Precedes(y, x)  BY <1>1, <2>3
  <2>5. y.gid \in Nat /\ y.bid \in Nat /\ x.gid \in Nat /\ x.bid \in Nat  BY DEF AnyItems
  <2>. QED  BY <2>4, <2>5 DEF Precedes
<1>4. Place(list, x) = n + 1
  <2>1. CASE list = <<>>
    <3>1. n = 0  BY <1>1, <2>1
    <3>. QED  BY <2>1, <3>1 DEF Place
  <2>2. CASE list # <<>>  BY <1>1, <1>2, <1>3, <2>2 DEF Place
  <2>. QED  BY <2>1, <2>2
<1>5. n + 1 \in 1 .. n + 1  OBVIOUS
<1>6. PICK t : t = WithAt(list, n + 1, x)  OBVIOUS
<1>7. Len(t) = n + 1 /\ \A i \in 1 .. n + 1 : t[i] = IF i < n + 1 THEN list[i] ELSE IF i = n + 1 THEN x ELSE list[i - 1]
  BY <1>1, <1>5, <1>6, WithAtForm
<1>8. Insert(list, x) = t  BY <1>4, <1>6, InsertForm
<1>. QED  BY <1>1, <1>7, <1>8

LEMMA LoadStep ==
  ASSUME NEW list, Copy(list), NEW full, Pristine(full), NEW k \in Nat, k < Len(full), Carries(list, full, k),
         NEW y \in AnyItems, Bare(y) = full[k + 1], NEW new, Added(list, new, y)
  PROVE  Copy(new) /\ Carries(new, full, k + 1)
<1>1. list \in Seq(AnyItems)  BY DEF Copy
<1>2. PICK n \in Nat : n = Len(full) /\ full \in Seq(AnyItems) /\ DOMAIN full = 1 .. n
                       /\ \A i \in 1 .. n : full[i] \in AnyItems
  <2>1. full \in Seq(AnyItems)  BY DEF Pristine
  <2>. QED  BY <2>1, ItemNumbers
<1>3. Len(list) = k /\ DOMAIN list = 1 .. k /\ \A i \in 1 .. k : list[i] \in AnyItems /\ Bare(list[i]) = full[i]
  BY <1>1, ItemNumbers DEF Carries
<1>4. k + 1 \in 1 .. n /\ \A i \in 1 .. k : i \in 1 .. n /\ i < k + 1  BY <1>2
<1>5. /\ full[k + 1].gid = y.gid /\ full[k + 1].bid = y.bid /\ full[k + 1].type = y.type
      /\ y.gid \in Nat /\ y.bid \in Nat
  <2>1. Bare(y).gid = y.gid /\ Bare(y).bid = y.bid /\ Bare(y).type = y.type  BY BareForm
  <2>2. y.gid \in Nat /\ y.bid \in Nat  BY DEF AnyItems
  <2>. QED  BY <2>1, <2>2
<1>6. ASSUME NEW i \in 1 .. k PROVE Precedes(list[i], y)
  <2>1. Precedes(full[i], full[k + 1])  BY <1>2, <1>4 DEF Pristine, ByNumber
  <2>2. PICK x \in AnyItems : x = list[i] /\ Bare(x) = full[i]  BY <1>3
  <2>3. full[i].gid = x.gid /\ full[i].bid = x.bid  BY <2>2, BareForm
  <2>. QED  BY <1>5, <2>1, <2>2, <2>3 DEF Precedes
<1>7. Lacks(list, y.gid, y.bid)
  <2>1. SUFFICES ASSUME NEW i \in 1 .. k PROVE ~(list[i].gid = y.gid /\ list[i].bid = y.bid)
    BY <1>3 DEF Lacks
  <2>2. Precedes(list[i], y)  BY <1>6
  <2>. QED  BY <1>5, <2>2 DEF Precedes
<1>8. y.bid = 0 => y.type = "group"
  <2>1. full[k + 1].bid = 0 => full[k + 1].type = "group"  BY <1>2, <1>4 DEF Pristine, OnlyGroupsLead
  <2>. QED  BY <1>5, <2>1
<1>9. Copy(new)  BY <1>7, <1>8 DEF Added
<1>10. PICK z \in AnyItems : new = Insert(list, z) /\ Bare(z) = Bare(y) /\ z.gid = y.gid /\ z.bid = y.bid
  BY DEF Added
<1>11. \A i \in DOMAIN list : Precedes(list[i], z)
  <2>1. ASSUME NEW i \in 1 .. k PROVE Precedes(list[i], z)
    <3>1. Precedes(list[i], y)  BY <1>6
    <3>. QED  BY <1>10, <3>1 DEF Precedes
  <2>. QED  BY <1>3, <2>1
<1>12. Len(new) = k + 1 /\ new[k + 1] = z /\ \A i \in 1 .. k : new[i] = list[i]
  BY <1>1, <1>3, <1>10, <1>11, InsertLast
<1>13. ASSUME NEW i \in 1 .. k + 1 PROVE Bare(new[i]) = full[i]
  <2>1. CASE i = k + 1  BY <1>10, <1>12, <2>1
  <2>2. CASE i # k + 1
    <3>1. i \in 1 .. k  BY <2>2
    <3>. QED  BY <1>3, <1>12, <3>1
  <2>. QED  BY <2>1, <2>2
<1>. QED  BY <1>9, <1>12, <1>13 DEF Carries

-----------------------------------------------------------------------------
(* Items put into a list one after the other.                              *)
ListOf(s, which)  == IF which = "local" THEN s.local ELSE s.official
OtherOf(s, which) == IF which = "local" THEN s.official ELSE s.local

(* No list but the one called which is touched.                            *)
Touches(s, t, which) == t \in SsiStates /\ Alongside(s, t) /\ OtherOf(t, which) = OtherOf(s, which)

LEMMA PutForm ==
  ASSUME NEW s \in SsiStates, NEW which \in {"local", "official"}, NEW x \in AnyItems
  PROVE  Touches(s, Put(s, which, x), which) /\ Added(ListOf(s, which), ListOf(Put(s, which, x), which), x)
<1>1. CASE which = "local"  BY <1>1, PutLocal DEF Touches, ListOf, OtherOf
<1>2. CASE which = "official"  BY <1>2, PutOfficial DEF Touches, ListOf, OtherOf
<1>. QED  BY <1>1, <1>2

LEMMA PutAllForm ==
  ASSUME NEW s \in SsiStates, NEW which \in {"local", "official"}, NEW items \in Seq(AnyItems), NEW Good,
         <<0, s>> \in Good,
         \A k \in 1 .. Len(items), t \in SsiStates :
           <<k - 1, t>> \in Good => <<k, Put(t, which, items[k])>> \in Good
  PROVE  PutAll(s, which, items) \in SsiStates /\ <<Len(items), PutAll(s, which, items)>> \in Good
<1>1. PICK n \in Nat : n = Len(items) /\ \A k \in 1 .. n : items[k] \in AnyItems  BY ItemNumbers
<1>2. PICK step : step = [x \in (1 .. n) \X SsiStates |-> Put(x[2], which, items[x[1]])]  OBVIOUS
<1>3. ASSUME NEW k \in 1 .. n, NEW t \in SsiStates PROVE step[<<k, t>>] = Put(t, which, items[k])
  <2>1. PICK x : x = <<k, t>>  OBVIOUS
  <2>2. x \in (1 .. n) \X SsiStates /\ x[1] = k /\ x[2] = t  BY <2>1
  <2>. QED  BY <1>2, <2>1, <2>2
<1>4. ASSUME NEW k \in 1 .. n, NEW t \in SsiStates PROVE Put(t, which, items[k]) \in SsiStates
  <2>1. items[k] \in AnyItems  BY <1>1
  <2>. QED  BY <2>1, PutForm DEF Touches
<1>5. step \in [(1 .. n) \X SsiStates -> SsiStates]
  <2>1. ASSUME NEW x \in (1 .. n) \X SsiStates PROVE Put(x[2], which, items[x[1]]) \in SsiStates
    <3>1. x[1] \in 1 .. n /\ x[2] \in SsiStates  OBVIOUS
    <3>. QED  BY <1>4, <3>1
  <2>. QED  BY <1>2, <2>1
<1>6. PICK f \in [0 .. n -> SsiStates] : Runs(f, n, s, step)  BY <1>5, RunsExist, Zenon
<1>. DEFINE Step(g, k) == IF k = 0 THEN s ELSE Put(g[k - 1], which, items[k])
<1>7. f = [k \in 0 .. n |-> Step(f, k)]
  <2>1. \A k \in 1 .. n : f[k] = Put(f[k - 1], which, items[k])
    <3>1. SUFFICES ASSUME NEW k \in 1 .. n PROVE f[k] = Put(f[k - 1], which, items[k])  OBVIOUS
    <3>2. k - 1 \in 0 .. n  OBVIOUS
    <3>3. f[k - 1] \in SsiStates  BY <3>2
    <3>. QED  BY <1>3, <1>6, <3>3 DEF Runs
  <2>. QED  BY <1>6, <2>1 DEF Runs
<1>8. PICK h : h = CHOOSE g : g = [k \in 0 .. n |-> Step(g, k)]  OBVIOUS
<1>9. h = [k \in 0 .. n |-> Step(h, k)]  BY <1>7, <1>8
<1>10. h[0] = s /\ \A k \in 1 .. n : h[k] = Put(h[k - 1], which, items[k])
  <2>1. 0 \in 0 .. n /\ \A k \in 1 .. n : k \in 0 .. n /\ k # 0  OBVIOUS
  <2>2. \A k \in 0 .. n : h[k] = Step(h, k)
    <3>. HIDE DEF Step
    <3>. QED  BY <1>9
  <2>3. h[0] = s  BY <2>1, <2>2
  <2>4. ASSUME NEW k \in 1 .. n PROVE h[k] = Put(h[k - 1], which, items[k])
    <3>1. h[k] = Step(h, k) /\ k # 0
      <4>. HIDE DEF Step
      <4>. QED  BY <2>1, <2>2
    <3>. QED  BY <3>1
  <2>. QED  BY <2>3, <2>4
<1>11. PICK Fine : Fine = {x \in (0 .. n) \X SsiStates : x \in Good}  OBVIOUS
<1>12. <<n, h[n]>> \in Fine
  <2>1. <<0, h[0]>> \in Fine
    <3>1. 0 \in 0 .. n  OBVIOUS
    <3>. QED  BY <1>10, <1>11, <3>1
  <2>2. ASSUME NEW k \in 1 .. n, <<k - 1, h[k - 1]>> \in Fine PROVE <<k, h[k]>> \in Fine
    <3>1. PICK t : t = h[k - 1]  OBVIOUS
    <3>2. t \in SsiStates /\ <<k - 1, t>> \in Good
      <4>1. PICK x : x = <<k - 1, t>>  OBVIOUS
      <4>2. x \in Fine /\ x[2] = t  BY <2>2, <3>1, <4>1
      <4>. QED  BY <1>11, <4>1, <4>2
    <3>3. h[k] = Put(t, which, items[k])  BY <1>10, <3>1
    <3>4. <<k, h[k]>> \in Good /\ h[k] \in SsiStates  BY <1>1, <1>4, <3>2, <3>3
    <3>5. k \in 0 .. n  OBVIOUS
    <3>. QED  BY <1>11, <3>4, <3>5
  <2>3. \A k \in 0 .. n : <<k, h[k]>> \in Fine  BY <2>1, <2>2, RunKeeps
  <2>4. n \in 0 .. n  OBVIOUS
  <2>. QED  BY <2>3, <2>4
<1>13. h[n] \in SsiStates /\ <<n, h[n]>> \in Good
  <2>1. PICK x : x = <<n, h[n]>>  OBVIOUS
  <2>2. x \in Fine /\ x[2] = h[n]  BY <1>12, <2>1
  <2>. QED  BY <1>11, <2>1, <2>2
<1>14. PutAll(s, which, items) = h[n]  BY <1>1, <1>8 DEF PutAll
<1>. QED  BY <1>1, <1>13, <1>14

LEMMA PutAllTouches ==
  ASSUME NEW s \in SsiStates, NEW which \in {"local", "official"}, NEW items \in Seq(AnyItems)
  PROVE  Touches(s, PutAll(s, which, items), which)
<1>1. PICK n \in Nat : n = Len(items) /\ \A k \in 1 .. n : items[k] \in AnyItems  BY ItemNumbers
<1>2. PICK Good : Good = {x \in (0 .. n) \X SsiStates : Touches(s, x[2], which)}  OBVIOUS
<1>3. <<0, s>> \in Good
  <2>1. PICK x : x = <<0, s>>  OBVIOUS
  <2>2. x \in (0 .. n) \X SsiStates /\ x[2] = s  BY <2>1
  <2>. QED  BY <1>2, <2>1, <2>2 DEF Touches, Alongside
<1>4. ASSUME NEW k \in 1 .. n, NEW t \in SsiStates, <<k - 1, t>> \in Good
      PROVE  <<k, Put(t, which, items[k])>> \in Good
  <2>1. Touches(s, t, which)
    <3>1. PICK x : x = <<k - 1, t>>  OBVIOUS
    <3>2. x \in Good /\ x[2] = t  BY <1>4, <3>1
    <3>. QED  BY <1>2, <3>2
  <2>2. items[k] \in AnyItems  BY <1>1
  <2>3. PICK u : u = Put(t, which, items[k])  OBVIOUS
  <2>4. Touches(t, u, which)  BY <2>2, <2>3, PutForm
  <2>5. Touches(s, u, which)  BY <2>1, <2>4 DEF Touches, Alongside
  <2>6. PICK x : x = <<k, u>>  OBVIOUS
  <2>7. x \in (0 .. n) \X SsiStates /\ x[2] = u  BY <2>4, <2>6 DEF Touches
  <2>. QED  BY <1>2, <2>3, <2>5, <2>6, <2>7
<1>5. PICK r : r = PutAll(s, which, items)  OBVIOUS
<1>6. <<n, r>> \in Good  BY <1>1, <1>3, <1>4, <1>5, PutAllForm
<1>7. PICK x : x = <<n, r>>  OBVIOUS
<1>8. x \in Good /\ x[2] = r  BY <1>6, <1>7
<1>. QED  BY <1>2, <1>5, <1>8

(* The items of full from the one behind the m-th on, after those before.  *)
LEMMA PutAllLoads ==
  ASSUME NEW s \in SsiStates, NEW which \in {"local", "official"}, NEW items \in Seq(AnyItems),
         NEW full, Pristine(full), NEW m \in Nat, m + Len(items) <= Len(full),
         \A k \in 1 .. Len(items) : Bare(items[k]) = full[m + k],
         Copy(ListOf(s, which)), Carries(ListOf(s, which), full, m)
  PROVE  /\ Touches(s, PutAll(s, which, items), which)
         /\ Copy(ListOf(PutAll(s, which, items), which))
         /\ Carries(ListOf(PutAll(s, which, items), which), full, m + Len(items))
<1>1. PICK n \in Nat : n = Len(items) /\ \A k \in 1 .. n : items[k] \in AnyItems  BY ItemNumbers
<1>2. PICK Good : Good = {x \in (0 .. n) \X SsiStates : /\ Copy(ListOf(x[2], which))
                                                        /\ Carries(ListOf(x[2], which), full, m + x[1])}
  OBVIOUS
<1>3. <<0, s>> \in Good
  <2>1. PICK x : x = <<0, s>>  OBVIOUS
  <2>2. x \in (0 .. n) \X SsiStates /\ x[1] = 0 /\ x[2] = s /\ m + 0 = m  BY <2>1
  <2>. QED  BY <1>2, <2>1, <2>2
<1>4. ASSUME NEW k \in 1 .. n, NEW t \in SsiStates, <<k - 1, t>> \in Good
      PROVE  <<k, Put(t, which, items[k])>> \in Good
  <2>1. PICK l : l = ListOf(t, which)  OBVIOUS
  <2>2. PICK j \in Nat : j = m + (k - 1) /\ j + 1 = m + k  OBVIOUS
  <2>3. Copy(l) /\ Carries(l, full, j)
    <3>1. PICK x : x = <<k - 1, t>>  OBVIOUS
    <3>2. x \in Good /\ x[1] = k - 1 /\ x[2] = t  BY <1>4, <3>1
    <3>. QED  BY <1>2, <2>1, <2>2, <3>2
  <2>4. PICK y \in AnyItems : y = items[k] /\ Bare(y) = full[j + 1]  BY <1>1, <2>2
  <2>5. PICK u : u = Put(t, which, y)  OBVIOUS
  <2>6. PICK new : new = ListOf(u, which)  OBVIOUS
  <2>7. u \in SsiStates /\ Added(l, new, y)  BY <2>1, <2>5, <2>6, PutForm DEF Touches
  <2>8. j < Len(full)
    <3>1. Len(full) \in Nat
      <4>1. full \in Seq(AnyItems)  BY DEF Pristine
      <4>. QED  BY <4>1, LenProperties
    <3>. QED  BY <1>1, <2>2, <3>1
  <2>9. Copy(new) /\ Carries(new, full, m + k)
    <3>1. Copy(new) /\ Carries(new, full, j + 1)  BY <2>3, <2>4, <2>7, <2>8, LoadStep
    <3>. QED  BY <2>2, <3>1
  <2>10. PICK x : x = <<k, u>>  OBVIOUS
  <2>11. x \in (0 .. n) \X SsiStates /\ x[1] = k /\ x[2] = u  BY <2>7, <2>10
  <2>. QED  BY <1>2, <2>4, <2>5, <2>6, <2>9, <2>10, <2>11
<1>5. PICK r : r = PutAll(s, which, items)  OBVIOUS
<1>6. <<n, r>> \in Good  BY <1>1, <1>3, <1>4, <1>5, PutAllForm
<1>7. PICK x : x = <<n, r>>  OBVIOUS
<1>8. x \in Good /\ x[1] = n /\ x[2] = r  BY <1>6, <1>7
<1>. QED  BY <1>1, <1>2, <1>5, <1>8, PutAllTouches

-----------------------------------------------------------------------------
(* What parsedata makes of all that the server has.                        *)
LEMMA MoreForm ==
  ASSUME NEW s \in SsiStates, NEW items \in Seq(AnyItems)
  PROVE  Touches(s, ParseData(s, items, TRUE), "official")
<1>1. ParseData(s, items, TRUE) = PutAll(s, "official", items)  BY DEF ParseData
<1>. QED  BY <1>1, PutAllTouches

LEMMA MoreLoads ==
  ASSUME NEW s \in SsiStates, s.official = <<>>, NEW full, Pristine(full), NEW items \in Seq(AnyItems),
         Len(items) <= Len(full), \A k \in 1 .. Len(items) : Bare(items[k]) = full[k]
  PROVE  /\ Copy(ParseData(s, items, TRUE).official)
         /\ Carries(ParseData(s, items, TRUE).official, full, Len(items))
<1>1. PICK r : r = ParseData(s, items, TRUE) /\ r = PutAll(s, "official", items)  BY DEF ParseData
<1>2. Copy(<<>>) /\ Carries(<<>>, full, 0)
  <2>1. <<>> \in Seq(AnyItems) /\ DOMAIN <<>> = {} /\ Len(<<>>) = 0  BY EmptySeq
  <2>. QED  BY <2>1 DEF Copy, Carries, ByNumber, OnlyGroupsLead, RefsDiffer
<1>3. Len(items) \in Nat  BY LenProperties
<1>4. ListOf(s, "official") = <<>> /\ ListOf(r, "official") = r.official  BY DEF ListOf
<1>5. 0 + Len(items) = Len(items) /\ \A k \in 1 .. Len(items) : 0 + k = k  BY <1>3
<1>6. Copy(ListOf(s, "official")) /\ Carries(ListOf(s, "official"), full, 0)  BY <1>2, <1>4
<1>7. 0 + Len(items) <= Len(full) /\ \A k \in 1 .. Len(items) : Bare(items[k]) = full[0 + k]  BY <1>5
<1>8. Copy(ListOf(r, "official")) /\ Carries(ListOf(r, "official"), full, 0 + Len(items))
  BY <1>1, <1>6, <1>7, PutAllLoads
<1>. QED  BY <1>1, <1>4, <1>5, <1>8

LEMMA ListForm ==
  ASSUME NEW s \in SsiStates, NEW items \in Seq(AnyItems)
  PROVE  /\ ParseData(s, items, FALSE) \in SsiStates
         /\ ParseData(s, items, FALSE).pending = s.pending /\ ParseData(s, items, FALSE).waiting = s.waiting
         /\ ParseData(s, items, FALSE).up = s.up
         /\ s.up => ParseData(s, items, FALSE).sent = Append(s.sent, [kind |-> "enable", items |-> <<>>])
         /\ ParseData(s, items, FALSE).official = PutAll(s, "official", items).official
         /\ ParseData(s, items, FALSE).local
              = PutAll(PutAll(s, "official", items), "local", PutAll(s, "official", items).official).local
<1>1. PICK r \in SsiStates : r = PutAll(s, "official", items) /\ Alongside(s, r)
  BY PutAllTouches DEF Touches
<1>2. r.official \in Seq(AnyItems)  BY DEF SsiStates
<1>3. PICK t \in SsiStates : t = PutAll(r, "local", r.official) /\ Alongside(r, t) /\ t.official = r.official
  BY <1>2, PutAllTouches DEF Touches, OtherOf
<1>4. PICK u : u = [t EXCEPT !.received = TRUE]  OBVIOUS
<1>5. /\ u \in SsiStates /\ u.local = t.local /\ u.official = t.official /\ u.pending = t.pending
      /\ u.waiting = t.waiting /\ u.up = t.up /\ u.sent = t.sent
  BY <1>4 DEF SsiStates
<1>6. PICK v : v = Send(u, "enable", <<>>)  OBVIOUS
<1>7. ParseData(s, items, FALSE) = v  BY <1>1, <1>3, <1>4, <1>6 DEF ParseData
<1>8. <<>> \in Seq(AnyItems) /\ "enable" \in RequestKinds  BY EmptySeq DEF RequestKinds
<1>9. /\ v \in SsiStates /\ v.local = u.local /\ v.official = u.official /\ v.pending = u.pending
      /\ v.waiting = u.waiting /\ v.up = u.up
      /\ u.up => v.sent = Append(u.sent, [kind |-> "enable", items |-> <<>>])
  BY <1>5, <1>6, <1>8, SendForm
<1>. QED  BY <1>1, <1>3, <1>5, <1>7, <1>9 DEF Alongside

LEMMA ListLoads ==
  ASSUME NEW s \in SsiStates, s.local = <<>>, NEW full, Pristine(full), NEW items \in Seq(AnyItems),
         NEW m \in Nat, m + Len(items) = Len(full), \A k \in 1 .. Len(items) : Bare(items[k]) = full[m + k],
         Copy(s.official), Carries(s.official, full, m)
  PROVE  /\ Copy(ParseData(s, items, FALSE).official) /\ Contents(ParseData(s, items, FALSE).official) = full
         /\ Copy(ParseData(s, items, FALSE).local) /\ Contents(ParseData(s, items, FALSE).local) = full
<1>1. PICK n \in Nat : n = Len(full) /\ full \in Seq(AnyItems)
  <2>1. full \in Seq(AnyItems)  BY DEF Pristine
  <2>. QED  BY <2>1, LenProperties
<1>2. PICK r : r = PutAll(s, "official", items)  OBVIOUS
<1>3. ListOf(s, "official") = s.official /\ ListOf(r, "official") = r.official
      /\ OtherOf(s, "official") = s.local /\ OtherOf(r, "official") = r.local
  BY DEF ListOf, OtherOf
<1>4. Copy(ListOf(s, "official")) /\ Carries(ListOf(s, "official"), full, m) /\ m + Len(items) <= Len(full)
  BY <1>1, <1>3
<1>5. Touches(s, r, "official") /\ Copy(r.official) /\ Carries(r.official, full, n)
  <2>1. Copy(ListOf(r, "official")) /\ Carries(ListOf(r, "official"), full, m + Len(items)) /\ Touches(s, r, "official")
    BY <1>2, <1>4, PutAllLoads
  <2>. QED  BY <1>1, <1>3, <2>1
<1>6. r \in SsiStates /\ r.local = <<>>  BY <1>3, <1>5 DEF Touches
<1>7. PICK o \in Seq(AnyItems) : /\ o = r.official /\ Len(o) = n /\ Contents(o) = full
                                 /\ \A k \in 1 .. n : Bare(o[k]) = full[k]
  <2>1. r.official \in Seq(AnyItems)  BY <1>5 DEF Copy
  <2>2. Carries(r.official, full, Len(full))  BY <1>1, <1>5
  <2>3. Contents(r.official) = full  BY <2>1, <2>2, CarriesAll
  <2>. QED  BY <1>5, <2>1, <2>3 DEF Carries
<1>8. PICK t : t = PutAll(r, "local", o)  OBVIOUS
<1>9. Copy(<<>>) /\ Carries(<<>>, full, 0)
  <2>1. <<>> \in Seq(AnyItems) /\ DOMAIN <<>> = {} /\ Len(<<>>) = 0  BY EmptySeq
  <2>. QED  BY <2>1 DEF Copy, Carries, ByNumber, OnlyGroupsLead, RefsDiffer
<1>10. ListOf(r, "local") = <<>> /\ ListOf(t, "local") = t.local  BY <1>6 DEF ListOf
<1>11. Copy(ListOf(r, "local")) /\ Carries(ListOf(r, "local"), full, 0)  BY <1>9, <1>10
<1>12. 0 + Len(o) <= Len(full) /\ 0 + Len(o) = n /\ \A k \in 1 .. Len(o) : Bare(o[k]) = full[0 + k]
  <2>1. \A k \in 1 .. n : 0 + k = k  OBVIOUS
  <2>. QED  BY <1>1, <1>7, <2>1
<1>13. Copy(t.local) /\ Carries(t.local, full, n)
  <2>1. Copy(ListOf(t, "local")) /\ Carries(ListOf(t, "local"), full, 0 + Len(o))
    BY <1>6, <1>8, <1>11, <1>12, PutAllLoads
  <2>. QED  BY <1>10, <1>12, <2>1
<1>14. Contents(t.local) = full
  <2>1. t.local \in Seq(AnyItems) /\ Carries(t.local, full, Len(full))  BY <1>1, <1>13 DEF Copy
  <2>. QED  BY <2>1, CarriesAll
<1>15. ParseData(s, items, FALSE).official = o /\ ParseData(s, items, FALSE).local = t.local
  BY <1>2, <1>7, <1>8, ListForm
<1>. QED  BY <1>5, <1>7, <1>13, <1>14, <1>15

-----------------------------------------------------------------------------
(* Changes that others have made, told to a client that is idle.           *)
SameAs(s, full) == Resting(s) /\ Contents(s.local) = full /\ Contents(s.official) = full

(* Both lists are good copies of what the server has by then.              *)
LEMMA SameAsForm ==
  ASSUME NEW s \in SsiStates, Copy(s.local), Copy(s.official), NEW full,
         Contents(s.local) = full, Contents(s.official) = full,
         s.up, ~s.waiting, s.pending = <<>>
  PROVE  SameAs(s, full)
<1>1. s.local \in Seq(AnyItems) /\ s.official \in Seq(AnyItems) /\ ByNumber(s.local)  BY DEF Copy
<1>2. Covers(s.local, s.official)  BY <1>1, SameContentsCover
<1>3. Alike(s.local, s.official)  BY <1>1, <1>2, CoversAgrees
<1>. QED  BY <1>3 DEF SameAs, Resting, Sane

LEMMA PristineForm ==
  ASSUME NEW list, Copy(list)
  PROVE  Pristine(Contents(list))
<1>1. list \in Seq(AnyItems) /\ ByNumber(list) /\ OnlyGroupsLead(list)  BY DEF Copy
<1>2. PICK t \in Seq(AnyItems) : /\ t = Contents(list) /\ DOMAIN t = 1 .. Len(list)
                                 /\ \A i \in 1 .. Len(list) : t[i] = Bare(list[i])
  BY <1>1, ContentsForm
<1>3. ByNumber(t) /\ OnlyGroupsLead(t)  BY <1>1, <1>2, ContentsKeep
<1>4. ASSUME NEW i \in 1 .. Len(list) PROVE Bare(t[i]) = t[i]
  <2>1. list[i] \in AnyItems  BY <1>1, ElementOfSeq
  <2>2. Bare(list[i]) \in AnyItems /\ Bare(list[i]).ref = 0  BY <2>1, BareForm
  <2>3. Bare(Bare(list[i])) = Bare(list[i])  BY <2>2, BareForm
  <2>. QED  BY <1>2, <2>3
<1>. QED  BY <1>2, <1>3, <1>4 DEF Pristine

LEMMA FoundAlike ==
  ASSUME NEW list, Copy(list), NEW gid, NEW bid
  PROVE  /\ Find(list, gid, bid) = Find(Contents(list), gid, bid)
         /\ Lacks(list, gid, bid) <=> Lacks(Contents(list), gid, bid)
<1>1. list \in Seq(AnyItems) /\ ByNumber(list) /\ OnlyGroupsLead(list)  BY DEF Copy
<1>2. Contents(list) \in Seq(AnyItems)  BY <1>1, ContentsForm
<1>3. Find(list, gid, bid) = Find(Contents(list), gid, bid)  BY <1>1, ContentsKeep
<1>. QED  BY <1>1, <1>2, <1>3, FindForm

LEMMA AdditionHeard ==
  ASSUME NEW s, NEW full, SameAs(s, full), NEW x \in AnyItems, Bare(x) = x,
         Lacks(full, x.gid, x.bid), x.bid = 0 => x.type = "group"
  PROVE  SameAs(ParseAdd(s, x), Insert(full, x)) /\ ParseAdd(s, x).sent = s.sent
<1>1. s \in SsiStates /\ Copy(s.local) /\ Copy(s.official) /\ s.up /\ ~s.waiting /\ s.pending = <<>>
      /\ Contents(s.local) = full /\ Contents(s.official) = full
  BY DEF SameAs, Resting, Sane
<1>2. Lacks(s.local, x.gid, x.bid) /\ Lacks(s.official, x.gid, x.bid)  BY <1>1, FoundAlike
<1>3. PICK t \in SsiStates : t = Put(s, "local", x) /\ Alongside(s, t) /\ t.official = s.official
                             /\ Added(s.local, t.local, x)
  BY <1>1, PutLocal
<1>4. Copy(t.local) /\ Contents(t.local) = Insert(full, x)  BY <1>1, <1>2, <1>3 DEF Added
<1>5. PICK u \in SsiStates : u = Put(t, "official", x) /\ Alongside(t, u) /\ u.local = t.local
                             /\ Added(t.official, u.official, x)
  BY <1>3, PutOfficial
<1>6. Copy(u.official) /\ Contents(u.official) = Insert(full, x)  BY <1>1, <1>2, <1>3, <1>5 DEF Added
<1>7. u.up /\ ~u.waiting /\ u.pending = <<>> /\ u.sent = s.sent  BY <1>1, <1>3, <1>5 DEF Alongside
<1>8. ParseAdd(s, x) = u  BY <1>3, <1>5 DEF ParseAdd
<1>. QED  BY <1>4, <1>5, <1>6, <1>7, <1>8, SameAsForm

LEMMA ReplacedForm ==
  ASSUME NEW list, Copy(list), NEW x \in AnyItems, Bare(x) = x, NEW i \in DOMAIN list,
         i = Find(list, x.gid, x.bid), x.type = list[i].type
  PROVE  Copy(Replaced(list, x)) /\ Contents(Replaced(list, x)) = [Contents(list) EXCEPT ![i] = x]
<1>1. list \in Seq(AnyItems)  BY DEF Copy
<1>2. list[i] \in AnyItems /\ i \in 1 .. Len(list)  BY <1>1, ItemNumbers
<1>3. i # 0 /\ list[i].gid = x.gid /\ list[i].bid = x.bid
  <2>1. i # 0  BY <1>2
  <2>. QED  BY <1>1, <2>1, FindForm
<1>4. list[i].ref \in Nat  BY <1>2 DEF AnyItems
<1>5. PICK y \in AnyItems : /\ y = [x EXCEPT !.ref = list[i].ref] /\ y.ref = list[i].ref /\ y.gid = x.gid
                            /\ y.bid = x.bid /\ y.type = x.type /\ Bare(y) = Bare(x)
  BY <1>4, BareForm
<1>6. Replaced(list, x) = [list EXCEPT ![i] = y]  BY <1>3, <1>5 DEF Replaced
<1>7. Copy([list EXCEPT ![i] = y]) /\ Contents([list EXCEPT ![i] = y]) = [Contents(list) EXCEPT ![i] = Bare(y)]
  <2>1. y.gid = list[i].gid /\ y.bid = list[i].bid /\ y.type = list[i].type /\ y.ref = list[i].ref
    BY <1>3, <1>5
  <2>2. PICK t : t = [list EXCEPT ![i] = y]  OBVIOUS
  <2>3. Copy(t) /\ Contents(t) = [Contents(list) EXCEPT ![i] = Bare(y)]  BY <2>1, <2>2, ReplacedItemKeeps, Zenon
  <2>. QED  BY <2>2, <2>3
<1>. QED  BY <1>5, <1>6, <1>7

LEMMA ChangeHeard ==
  ASSUME NEW s, NEW full, SameAs(s, full), NEW x \in AnyItems, Bare(x) = x, NEW i \in DOMAIN full,
         i = Find(full, x.gid, x.bid), x.type = full[i].type
  PROVE  SameAs(ParseMod(s, x), [full EXCEPT ![i] = x]) /\ ParseMod(s, x).sent = s.sent
<1>1. s \in SsiStates /\ Copy(s.local) /\ Copy(s.official) /\ s.up /\ ~s.waiting /\ s.pending = <<>>
      /\ Contents(s.local) = full /\ Contents(s.official) = full
  BY DEF SameAs, Resting, Sane
<1>2. ASSUME NEW list, Copy(list), Contents(list) = full
      PROVE  Copy(Replaced(list, x)) /\ Contents(Replaced(list, x)) = [full EXCEPT ![i] = x]
             /\ Replaced(list, x) \in Seq(AnyItems)
  <2>1. list \in Seq(AnyItems)  BY <1>2 DEF Copy
  <2>2. DOMAIN full = 1 .. Len(list) /\ DOMAIN list = 1 .. Len(list)  BY <1>2, <2>1, ContentsForm, ItemNumbers
  <2>3. full[i].type = list[i].type  BY <1>2, <2>1, <2>2, ContentsForm
  <2>4. i = Find(list, x.gid, x.bid)  BY <1>2, FoundAlike
  <2>5. i \in DOMAIN list  BY <2>2
  <2>6. Copy(Replaced(list, x)) /\ Contents(Replaced(list, x)) = [Contents(list) EXCEPT ![i] = x]
    BY <1>2, <2>3, <2>4, <2>5, ReplacedForm
  <2>. QED  BY <1>2, <2>6 DEF Copy
<1>3. PICK l \in Seq(AnyItems) : l = Replaced(s.local, x) /\ Copy(l) /\ Contents(l) = [full EXCEPT ![i] = x]
  BY <1>1, <1>2
<1>4. PICK o \in Seq(AnyItems) : o = Replaced(s.official, x) /\ Copy(o) /\ Contents(o) = [full EXCEPT ![i] = x]
  BY <1>1, <1>2
<1>5. PICK t : t = ParseMod(s, x)  OBVIOUS
<1>6. t = [s EXCEPT !.local = l, !.official = o]  BY <1>3, <1>4, <1>5 DEF ParseMod
<1>7. /\ t \in SsiStates /\ t.local = l /\ t.official = o /\ t.up = s.up /\ t.waiting = s.waiting
      /\ t.pending = s.pending /\ t.sent = s.sent
  BY <1>1, <1>6 DEF SsiStates
<1>. QED  BY <1>1, <1>3, <1>4, <1>5, <1>7, SameAsForm

LEMMA DeletionHeard ==
  ASSUME NEW s, NEW full, SameAs(s, full), NEW x, NEW i \in DOMAIN full, i = Find(full, x.gid, x.bid)
  PROVE  SameAs(ParseDel(s, x), RemoveAt(full, i)) /\ ParseDel(s, x).sent = s.sent
<1>1. s \in SsiStates /\ Copy(s.local) /\ Copy(s.official) /\ s.up /\ ~s.waiting /\ s.pending = <<>>
      /\ Contents(s.local) = full /\ Contents(s.official) = full
  BY DEF SameAs, Resting, Sane
<1>2. ASSUME NEW list, Copy(list), Contents(list) = full
      PROVE  Copy(Dropped(list, x)) /\ Contents(Dropped(list, x)) = RemoveAt(full, i)
             /\ Dropped(list, x) \in Seq(AnyItems)
  <2>1. list \in Seq(AnyItems) /\ ByNumber(list) /\ OnlyGroupsLead(list) /\ RefsDiffer(list)
    BY <1>2 DEF Copy
  <2>2. DOMAIN full = 1 .. Len(list)  BY <1>2, <2>1, ContentsForm
  <2>3. i = Find(list, x.gid, x.bid)  BY <1>2, FoundAlike
  <2>4. i # 0 /\ i \in 1 .. Len(list)
    <3>1. Len(list) \in Nat  BY <2>1, LenProperties
    <3>. QED  BY <2>2, <3>1
  <2>5. Dropped(list, x) = RemoveAt(list, i)  BY <2>3, <2>4 DEF Dropped
  <2>6. Copy(RemoveAt(list, i))  BY <2>1, <2>4, RemoveKeeps DEF Copy
  <2>7. Contents(RemoveAt(list, i)) = RemoveAt(full, i)  BY <1>2, <2>1, <2>4, ContentsOfRemove
  <2>. QED  BY <2>5, <2>6, <2>7 DEF Copy
<1>3. PICK l \in Seq(AnyItems) : l = Dropped(s.local, x) /\ Copy(l) /\ Contents(l) = RemoveAt(full, i)
  BY <1>1, <1>2
<1>4. PICK o \in Seq(AnyItems) : o = Dropped(s.official, x) /\ Copy(o) /\ Contents(o) = RemoveAt(full, i)
  BY <1>1, <1>2
<1>5. PICK t : t = ParseDel(s, x)  OBVIOUS
<1>6. t = [s EXCEPT !.local = l, !.official = o]  BY <1>3, <1>4, <1>5 DEF ParseDel
<1>7. /\ t \in SsiStates /\ t.local = l /\ t.official = o /\ t.up = s.up /\ t.waiting = s.waiting
      /\ t.pending = s.pending /\ t.sent = s.sent
  BY <1>1, <1>6 DEF SsiStates
<1>. QED  BY <1>1, <1>3, <1>4, <1>5, <1>7, SameAsForm

-----------------------------------------------------------------------------
(* What the other client can do to the list.                               *)
Heard(s, m) ==
  CASE m.kind = "add" -> ParseAdd(s, m.items[1])
    [] m.kind = "mod" -> ParseMod(s, m.items[1])
    [] m.kind = "del" -> ParseDel(s, m.items[1])

LEMMA OthersHeard ==
  ASSUME NEW s, NEW kind \in Edits, NEW x \in AnyItems, Bare(x) = x, NEW full, Pristine(full), SameAs(s, full),
         kind = "add" => Lacks(full, x.gid, x.bid) /\ (x.bid = 0 => x.type = "group"),
         kind # "add" => \E i \in DOMAIN full : /\ full[i].gid = x.gid /\ full[i].bid = x.bid
                                                /\ full[i].type = x.type
  PROVE  /\ SameAs(Heard(s, [kind |-> kind, items |-> <<x>>]), Apply(full, kind, x))
         /\ Heard(s, [kind |-> kind, items |-> <<x>>]).sent = s.sent
         /\ Pristine(Apply(full, kind, x))
<1>. DEFINE m == [kind |-> kind, items |-> <<x>>]
<1>1. m.kind = kind /\ m.items[1] = x  OBVIOUS
<1>2. full \in Seq(AnyItems) /\ ByNumber(full)  BY DEF Pristine
<1>. HIDE DEF m
<1>3. CASE kind = "add"
  <2>1. Heard(s, m) = ParseAdd(s, x)  BY <1>1, <1>3 DEF Heard
  <2>2. Apply(full, kind, x) = Insert(full, x)  BY <1>3 DEF Apply
  <2>3. SameAs(Heard(s, m), Apply(full, kind, x)) /\ Heard(s, m).sent = s.sent
    BY <1>3, <2>1, <2>2, AdditionHeard
  <2>. QED  BY <2>3, PristineForm DEF SameAs, Resting, Sane, m
<1>4. CASE kind # "add"
  <2>1. PICK i \in DOMAIN full : full[i].gid = x.gid /\ full[i].bid = x.bid /\ full[i].type = x.type
    BY <1>4
  <2>2. i \in 1 .. Len(full)  BY <1>2, ItemNumbers
  <2>3. i = Find(full, x.gid, x.bid)  BY <1>2, <2>1, <2>2, FindForm
  <2>4. CASE kind = "mod"
    <3>1. Heard(s, m) = ParseMod(s, x)  BY <1>1, <2>4 DEF Heard
    <3>2. Apply(full, kind, x) = [full EXCEPT ![i] = x]  BY <2>3, <2>4 DEF Apply
    <3>3. SameAs(ParseMod(s, x), [full EXCEPT ![i] = x]) /\ ParseMod(s, x).sent = s.sent
      <4>1. x.type = full[i].type  BY <2>1
      <4>. QED  BY <2>3, <4>1, ChangeHeard, Zenon
    <3>4. SameAs(Heard(s, m), Apply(full, kind, x)) /\ Heard(s, m).sent = s.sent
      BY <3>1, <3>2, <3>3
    <3>. QED  BY <3>4, PristineForm DEF SameAs, Resting, Sane, m
  <2>5. CASE kind = "del"
    <3>1. Heard(s, m) = ParseDel(s, x)  BY <1>1, <2>5 DEF Heard
    <3>2. Apply(full, kind, x) = RemoveAt(full, i)  BY <2>3, <2>5 DEF Apply
    <3>3. SameAs(Heard(s, m), Apply(full, kind, x)) /\ Heard(s, m).sent = s.sent
      BY <2>1, <2>3, <3>1, <3>2, DeletionHeard
    <3>. QED  BY <3>3, PristineForm DEF SameAs, Resting, Sane, m
  <2>. QED  BY <1>4, <2>4, <2>5 DEF Edits
<1>. QED  BY <1>3, <1>4

-----------------------------------------------------------------------------
(* What is on its way.                                                     *)
AllIn(q, K) == \A i \in DOMAIN q : q[i].kind \in K

(* There is one of kind k, with what may be before it and behind it.       *)
Holds(q, k, before, after) ==
  \E p \in DOMAIN q : /\ q[p].kind = k
                      /\ \A i \in DOMAIN q : (i < p => q[i].kind \in before) /\ (i > p => q[i].kind \in after)

LEMMA AppendNumbers ==
  ASSUME NEW M, NEW q \in Seq(M), NEW x \in M
  PROVE  /\ Append(q, x) \in Seq(M) /\ DOMAIN Append(q, x) = 1 .. Len(q) + 1 /\ DOMAIN q = 1 .. Len(q)
         /\ Len(q) \in Nat
         /\ Append(q, x)[Len(q) + 1] = x /\ \A i \in 1 .. Len(q) : Append(q, x)[i] = q[i]
<1>1. Len(q) \in Nat /\ DOMAIN q = 1 .. Len(q)  BY LenProperties
<1>2. PICK t : t = Append(q, x)  OBVIOUS
<1>3. t \in Seq(M) /\ Len(t) = Len(q) + 1 /\ t[Len(q) + 1] = x /\ \A i \in 1 .. Len(q) : t[i] = q[i]
  BY <1>2, AppendProperties, Zenon
<1>4. DOMAIN t = 1 .. Len(q) + 1  BY <1>3, LenProperties
<1>. QED  BY <1>1, <1>2, <1>3, <1>4, Zenon

LEMMA TailNumbers ==
  ASSUME NEW M, NEW q \in Seq(M), q # <<>>
  PROVE  /\ Tail(q) \in Seq(M) /\ DOMAIN Tail(q) = 1 .. Len(q) - 1 /\ DOMAIN q = 1 .. Len(q)
         /\ Len(q) \in Nat /\ Len(q) # 0 /\ Head(q) = q[1] /\ Head(q) \in M
         /\ \A i \in 1 .. Len(q) - 1 : Tail(q)[i] = q[i + 1]
<1>1. Len(q) \in Nat /\ DOMAIN q = 1 .. Len(q) /\ Len(q) # 0  BY LenProperties, EmptySeq
<1>2. PICK t \in Seq(M) : /\ t = Tail(q) /\ Len(t) = Len(q) - 1 /\ \A i \in 1 .. Len(t) : t[i] = q[i + 1]
  BY HeadTailProperties
<1>3. DOMAIN t = 1 .. Len(t)  BY <1>2, LenProperties
<1>4. Head(q) = q[1] /\ Head(q) \in M
  <2>1. Head(q) = q[1]  BY <1>1
  <2>2. 1 \in 1 .. Len(q)  BY <1>1
  <2>. QED  BY <2>1, <2>2, ElementOfSeq
<1>. QED  BY <1>1, <1>2, <1>3, <1>4

LEMMA AllInAppend ==
  ASSUME NEW M, NEW q \in Seq(M), NEW K, NEW x \in M, AllIn(q, K)
  PROVE  /\ x.kind \in K => AllIn(Append(q, x), K)
         /\ \A k, after : x.kind = k => Holds(Append(q, x), k, K, after)
<1>1. PICK n \in Nat, t \in Seq(M) : /\ n = Len(q) /\ t = Append(q, x) /\ DOMAIN t = 1 .. n + 1 /\ DOMAIN q = 1 .. n
                                     /\ t[n + 1] = x /\ \A i \in 1 .. n : t[i] = q[i]
  <2>1. PICK n, t : n = Len(q) /\ t = Append(q, x)  OBVIOUS
  <2>2. /\ n \in Nat /\ t \in Seq(M) /\ DOMAIN t = 1 .. n + 1 /\ DOMAIN q = 1 .. n
        /\ t[n + 1] = x /\ \A i \in 1 .. n : t[i] = q[i]
    <3>1. /\ Append(q, x) \in Seq(M) /\ DOMAIN Append(q, x) = 1 .. Len(q) + 1 /\ DOMAIN q = 1 .. Len(q)
          /\ Len(q) \in Nat
          /\ Append(q, x)[Len(q) + 1] = x /\ \A i \in 1 .. Len(q) : Append(q, x)[i] = q[i]
      BY AppendNumbers
    <3>. QED  BY <2>1, <3>1, Zenon
  <2>. QED  BY <2>1, <2>2, Zenon
<1>2. \A i \in 1 .. n : t[i].kind \in K  BY <1>1 DEF AllIn
<1>3. \A i \in 1 .. n + 1 : i = n + 1 \/ (i \in 1 .. n /\ i < n + 1)  OBVIOUS
<1>4. x.kind \in K => AllIn(t, K)  BY <1>1, <1>2, <1>3 DEF AllIn
<1>5. ASSUME NEW k, NEW after, x.kind = k PROVE Holds(t, k, K, after)
  <2>1. n + 1 \in DOMAIN t /\ t[n + 1].kind = k  BY <1>1, <1>5
  <2>2. \A i \in DOMAIN t : (i < n + 1 => t[i].kind \in K) /\ ~(i > n + 1)  BY <1>1, <1>2
  <2>. QED  BY <2>1, <2>2 DEF Holds
<1>. QED  BY <1>1, <1>4, <1>5

LEMMA HoldsAppend ==
  ASSUME NEW M, NEW q \in Seq(M), NEW k, NEW before, NEW after, NEW x \in M, Holds(q, k, before, after),
         x.kind \in after
  PROVE  Holds(Append(q, x), k, before, after)
<1>1. PICK n \in Nat, t \in Seq(M) : /\ n = Len(q) /\ t = Append(q, x) /\ DOMAIN t = 1 .. n + 1 /\ DOMAIN q = 1 .. n
                                     /\ t[n + 1] = x /\ \A i \in 1 .. n : t[i] = q[i]
  <2>1. PICK n, t : n = Len(q) /\ t = Append(q, x)  OBVIOUS
  <2>2. /\ n \in Nat /\ t \in Seq(M) /\ DOMAIN t = 1 .. n + 1 /\ DOMAIN q = 1 .. n
        /\ t[n + 1] = x /\ \A i \in 1 .. n : t[i] = q[i]
    <3>1. /\ Append(q, x) \in Seq(M) /\ DOMAIN Append(q, x) = 1 .. Len(q) + 1 /\ DOMAIN q = 1 .. Len(q)
          /\ Len(q) \in Nat
          /\ Append(q, x)[Len(q) + 1] = x /\ \A i \in 1 .. Len(q) : Append(q, x)[i] = q[i]
      BY AppendNumbers
    <3>. QED  BY <2>1, <3>1, Zenon
  <2>. QED  BY <2>1, <2>2, Zenon
<1>2. PICK p \in 1 .. n : /\ q[p].kind = k
                          /\ \A i \in 1 .. n : (i < p => q[i].kind \in before) /\ (i > p => q[i].kind \in after)
  BY <1>1 DEF Holds
<1>3. p \in DOMAIN t /\ t[p].kind = k  BY <1>1, <1>2
<1>4. ASSUME NEW i \in 1 .. n + 1 PROVE (i < p => t[i].kind \in before) /\ (i > p => t[i].kind \in after)
  <2>1. CASE i = n + 1  BY <1>1, <1>2, <2>1
  <2>2. CASE i # n + 1
    <3>1. i \in 1 .. n  BY <2>2
    <3>. QED  BY <1>1, <1>2, <3>1
  <2>. QED  BY <2>1, <2>2
<1>. QED  BY <1>1, <1>3, <1>4 DEF Holds

LEMMA AllInTail ==
  ASSUME NEW M, NEW q \in Seq(M), NEW K, AllIn(q, K), q # <<>>
  PROVE  Head(q).kind \in K /\ AllIn(Tail(q), K) /\ Head(q) \in M /\ Tail(q) \in Seq(M)
<1>1. PICK n \in Nat, t \in Seq(M) : /\ n = Len(q) /\ t = Tail(q) /\ DOMAIN t = 1 .. n - 1 /\ DOMAIN q = 1 .. n
                                     /\ n # 0 /\ Head(q) = q[1] /\ Head(q) \in M /\ \A i \in 1 .. n - 1 : t[i] = q[i + 1]
  <2>1. PICK n, t : n = Len(q) /\ t = Tail(q)  OBVIOUS
  <2>2. /\ n \in Nat /\ t \in Seq(M) /\ DOMAIN t = 1 .. n - 1 /\ DOMAIN q = 1 .. n
        /\ n # 0 /\ Head(q) = q[1] /\ Head(q) \in M /\ \A i \in 1 .. n - 1 : t[i] = q[i + 1]
    BY <2>1, TailNumbers, Zenon
  <2>. QED  BY <2>1, <2>2, Zenon
<1>2. \A i \in 1 .. n - 1 : i + 1 \in 1 .. n  BY <1>1
<1>3. 1 \in 1 .. n  BY <1>1
<1>. QED  BY <1>1, <1>2, <1>3 DEF AllIn

LEMMA HoldsTail ==
  ASSUME NEW M, NEW q \in Seq(M), NEW k, NEW before, NEW after, Holds(q, k, before, after), k \notin before
  PROVE  /\ q # <<>> /\ Head(q) \in M /\ Tail(q) \in Seq(M)
         /\ \/ Head(q).kind = k /\ AllIn(Tail(q), after)
            \/ Head(q).kind \in before /\ Holds(Tail(q), k, before, after)
<1>1. PICK p \in DOMAIN q : /\ q[p].kind = k
                            /\ \A i \in DOMAIN q : (i < p => q[i].kind \in before) /\ (i > p => q[i].kind \in after)
  BY DEF Holds
<1>2. q # <<>>
  <2>1. DOMAIN q = 1 .. Len(q)  BY LenProperties
  <2>2. SUFFICES ASSUME q = <<>> PROVE FALSE  OBVIOUS
  <2>3. Len(q) = 0  BY <2>2, EmptySeq
  <2>. QED  BY <1>1, <2>1, <2>3
<1>3. PICK n \in Nat, t \in Seq(M) : /\ n = Len(q) /\ t = Tail(q) /\ DOMAIN t = 1 .. n - 1 /\ DOMAIN q = 1 .. n
                                     /\ n # 0 /\ Head(q) = q[1] /\ Head(q) \in M /\ \A i \in 1 .. n - 1 : t[i] = q[i + 1]
  <2>1. PICK n, t : n = Len(q) /\ t = Tail(q)  OBVIOUS
  <2>2. /\ n \in Nat /\ t \in Seq(M) /\ DOMAIN t = 1 .. n - 1 /\ DOMAIN q = 1 .. n
        /\ n # 0 /\ Head(q) = q[1] /\ Head(q) \in M /\ \A i \in 1 .. n - 1 : t[i] = q[i + 1]
    BY <1>2, <2>1, TailNumbers, Zenon
  <2>. QED  BY <2>1, <2>2, Zenon
<1>4. \A i \in 1 .. n - 1 : i + 1 \in 1 .. n  BY <1>3
<1>5. CASE p = 1
  <2>1. \A i \in 1 .. n - 1 : i + 1 > 1  BY <1>3
  <2>2. AllIn(t, after)  BY <1>1, <1>3, <1>4, <1>5, <2>1 DEF AllIn
  <2>. QED  BY <1>1, <1>2, <1>3, <1>5, <2>2
<1>6. CASE p # 1
  <2>1. PICK m \in 1 .. n - 1 : p = m + 1
    <3>1. p - 1 \in 1 .. n - 1 /\ p = (p - 1) + 1  BY <1>1, <1>3, <1>6
    <3>. QED  BY <3>1
  <2>2. m \in DOMAIN t /\ t[m].kind = k  BY <1>1, <1>3, <2>1
  <2>3. \A i \in 1 .. n - 1 : (i < m => i + 1 < p) /\ (i > m => i + 1 > p)  BY <1>3, <2>1
  <2>4. \A i \in DOMAIN t : (i < m => t[i].kind \in before) /\ (i > m => t[i].kind \in after)
    BY <1>1, <1>3, <1>4, <2>3
  <2>5. Holds(t, k, before, after)  BY <2>2, <2>4 DEF Holds
  <2>6. 1 < p /\ 1 \in 1 .. n  BY <1>1, <1>3, <1>6
  <2>7. Head(q).kind \in before  BY <1>1, <1>3, <2>6
  <2>. QED  BY <1>2, <1>3, <2>5, <2>7
<1>. QED  BY <1>5, <1>6

LEMMA NoneInNothing ==
  ASSUME NEW K
  PROVE  AllIn(<<>>, K)
<1>1. DOMAIN <<>> = {}  OBVIOUS
<1>. QED  BY <1>1 DEF AllIn

LEMMA NothingInNone ==
  ASSUME NEW M, NEW q \in Seq(M), AllIn(q, {})
  PROVE  q = <<>>
<1>1. SUFFICES ASSUME q # <<>> PROVE FALSE  OBVIOUS
<1>. QED  BY <1>1, AllInTail

-----------------------------------------------------------------------------
(* What has been sent and what comes while the list is loaded.             *)
Loads == [kind : {"reqrights", "buddyrights", "more", "list"}, items : Seq(AnyItems)]

(* The parts in which the server sends what it has.                        *)
Part(kind, items) == [kind |-> kind, items |-> items]

NowSends(q, new, full) ==
  \E n \in {Len(full), Len(full) \div 2} :
    new = q \o
      (IF n = Len(full) THEN <<>>
       ELSE <<[kind |-> "more", items |-> SubSeq(full, 1, n)]>>)
      \o <<[kind |-> "list", items |-> IF n = Len(full) THEN full
                                      ELSE SubSeq(full, n + 1, Len(full))]>>

Arrives(q, new, full) ==
  \E m \in Nat, first \in Seq(AnyItems), rest \in Seq(AnyItems) :
    /\ Len(first) = m /\ m + Len(rest) = Len(full)
    /\ \A k \in 1 .. m : first[k] = full[k]
    /\ \A k \in 1 .. Len(rest) : rest[k] = full[m + k]
    /\ \/ m = 0 /\ new = Append(q, Part("list", rest))
       \/ new = Append(Append(q, Part("more", first)), Part("list", rest))

LEMMA DataSent ==
  ASSUME NEW full, Pristine(full), NEW q \in Seq(Loads), NEW new, NowSends(q, new, full)
  PROVE  Arrives(q, new, full)
<1>1. full \in Seq(AnyItems)  BY DEF Pristine
<1>2. PICK l \in Nat : l = Len(full) /\ DOMAIN full = 1 .. l /\ \A i \in 1 .. l : full[i] \in AnyItems
  BY <1>1, ItemNumbers
<1>8. PICK n \in {Len(full), Len(full) \div 2} :
       new = q \o
         (IF n = Len(full) THEN <<>>
          ELSE <<[kind |-> "more", items |-> SubSeq(full, 1, n)]>>)
         \o <<[kind |-> "list", items |-> IF n = Len(full) THEN full
                                         ELSE SubSeq(full, n + 1, Len(full))]>>
  BY DEF NowSends
<1>3. n \in Nat /\ n <= l  BY <1>2
<1>4. CASE n = l
  <2>1. Part("list", full) \in Loads  BY <1>1 DEF Part, Loads
  <2>2. q \o <<>> = q  BY ConcatEmptySeq
  <2>3. Append(q, Part("list", full)) = q \o <<Part("list", full)>>  BY <2>1, AppendIsConcat
  <2>4. <<>> \in Seq(AnyItems) /\ Len(<<>>) = 0  BY EmptySeq
  <2>5. \A k \in 1 .. l : 0 + k = k  OBVIOUS
  <2>6. /\ Len(<<>>) = 0 /\ 0 + Len(full) = Len(full) /\ (\A k \in 1 .. 0 : <<>>[k] = full[k])
        /\ \A k \in 1 .. Len(full) : full[k] = full[0 + k]
    BY <1>2, <2>4, <2>5
  <2>7. new = Append(q, Part("list", full))
    BY <1>2, <1>4, <1>8, <2>2, <2>3 DEF Part
  <2>. QED  BY <1>1, <2>4, <2>6, <2>7 DEF Arrives
<1>5. CASE n # l
  <2>1. PICK a \in Seq(AnyItems) : /\ a = SubSeq(full, 1, n) /\ Len(a) = n /\ \A i \in 1 .. n : a[i] = full[i]
    <3>1. \A i \in 1 .. n : full[i] \in AnyItems  BY <1>2, <1>3
    <3>2. SubSeq(full, 1, n) \in Seq(AnyItems) /\ Len(SubSeq(full, 1, n)) = (IF 1 <= n THEN n - 1 + 1 ELSE 0)
          /\ \A i \in 1 .. n - 1 + 1 : SubSeq(full, 1, n)[i] = full[1 + i - 1]
      BY <1>3, <3>1, SubSeqProperties
    <3>3. n - 1 + 1 = n /\ (IF 1 <= n THEN n - 1 + 1 ELSE 0) = n /\ \A i \in 1 .. n : 1 + i - 1 = i  BY <1>3
    <3>. QED  BY <3>2, <3>3
  <2>2. PICK b \in Seq(AnyItems) : /\ b = SubSeq(full, n + 1, l) /\ Len(b) = l - n
                                   /\ \A i \in 1 .. l - n : b[i] = full[n + i]
    <3>1. \A i \in n + 1 .. l : full[i] \in AnyItems  BY <1>2, <1>3
    <3>2. /\ SubSeq(full, n + 1, l) \in Seq(AnyItems)
          /\ Len(SubSeq(full, n + 1, l)) = (IF n + 1 <= l THEN l - (n + 1) + 1 ELSE 0)
          /\ \A i \in 1 .. l - (n + 1) + 1 : SubSeq(full, n + 1, l)[i] = full[n + 1 + i - 1]
      <4>1. n + 1 \in Int /\ l \in Int  BY <1>2, <1>3
      <4>. QED  BY <3>1, <4>1, SubSeqProperties
    <3>3. l - (n + 1) + 1 = l - n /\ (IF n + 1 <= l THEN l - (n + 1) + 1 ELSE 0) = l - n
      BY <1>2, <1>3, <1>5
    <3>4. PICK b : b = SubSeq(full, n + 1, l)  OBVIOUS
    <3>5. b \in Seq(AnyItems) /\ Len(b) = l - n /\ \A i \in 1 .. l - n : b[i] = full[n + 1 + i - 1]
      BY <3>2, <3>3, <3>4, Zenon
    <3>6. \A i \in 1 .. l - n : n + 1 + i - 1 = n + i  BY <1>2, <1>3
    <3>7. \A i \in 1 .. l - n : b[i] = full[n + i]  BY <3>5, <3>6
    <3>. QED  BY <3>4, <3>5, <3>7
  <2>3. Part("more", a) \in Loads /\ Part("list", b) \in Loads  BY DEF Part, Loads
  <2>4. PICK r \in Seq(Loads) : r = Append(q, Part("more", a))  BY <2>3, AppendProperties
  <2>5. r = q \o <<Part("more", a)>> /\ Append(r, Part("list", b)) = r \o <<Part("list", b)>>
    BY <2>3, <2>4, AppendIsConcat
  <2>6. n + Len(b) = Len(full) /\ \A k \in 1 .. Len(b) : b[k] = full[n + k]  BY <1>2, <1>3, <2>2
  <2>7. new = Append(Append(q, Part("more", a)), Part("list", b))
    BY <1>2, <1>5, <1>8, <2>1, <2>2, <2>4, <2>5 DEF Part
  <2>. QED  BY <1>3, <2>1, <2>6, <2>7 DEF Arrives
<1>. QED  BY <1>2, <1>4, <1>5

-----------------------------------------------------------------------------
(* A login, up to the list that is kept: the data is asked for when the    *)
(* connection is there, and again when the rights to it have come.         *)
Before  == {"reqrights", "reqdata", "enable"}
Later   == {"reqdata", "enable"}
Enable  == {"enable"}
LoginAnswers == {"reqrights", "more", "list"}
Data    == {"more", "list"}

Loading(s) == s \in SsiStates /\ s.up /\ ~s.waiting /\ s.pending = <<>>

Down(s, q) == s = NoList /\ q = <<>>
RightsAsked(s, q) ==
  Loading(s) /\ Holds(s.sent, "buddyrights", Before, Later) /\ q \in Seq(Loads) /\ AllIn(q, LoginAnswers)
RightsAnswered(s, q) ==
  Loading(s) /\ AllIn(s.sent, Later) /\ q \in Seq(Loads) /\ Holds(q, "buddyrights", LoginAnswers, Data)
AgainAsked(s, q) ==
  Loading(s) /\ Holds(s.sent, "reqrights", Later, Enable) /\ q \in Seq(Loads) /\ AllIn(q, Data)
AgainAnswered(s, q) ==
  Loading(s) /\ AllIn(s.sent, Enable) /\ q \in Seq(Loads) /\ Holds(q, "reqrights", Data, {})
DataAsked(s, q) ==
  /\ Loading(s) /\ Holds(s.sent, "reqdata", Enable, Enable) /\ q = <<>>
  /\ s.local = <<>> /\ s.official = <<>>
FirstPart(s, q, full) ==
  /\ Loading(s) /\ AllIn(s.sent, Enable) /\ s.local = <<>> /\ s.official = <<>>
  /\ \E first \in Seq(AnyItems), rest \in Seq(AnyItems) :
       /\ q = <<Part("more", first), Part("list", rest)>>
       /\ Len(first) + Len(rest) = Len(full)
       /\ \A k \in 1 .. Len(first) : first[k] = full[k]
       /\ \A k \in 1 .. Len(rest) : rest[k] = full[Len(first) + k]
LastPart(s, q, full) ==
  /\ Loading(s) /\ AllIn(s.sent, Enable) /\ s.local = <<>>
  /\ \E m \in Nat, rest \in Seq(AnyItems) :
       /\ q = <<Part("list", rest)>> /\ m + Len(rest) = Len(full)
       /\ \A k \in 1 .. Len(rest) : rest[k] = full[m + k]
       /\ Copy(s.official) /\ Carries(s.official, full, m)
Idle(s, q, full) == SameAs(s, full) /\ AllIn(s.sent, {"enable", "editstop"}) /\ q = <<>>

LEMMA ReqDataForm ==
  ASSUME NEW s \in SsiStates, s.up
  PROVE  /\ ReqData(s) \in SsiStates /\ ReqData(s).local = <<>> /\ ReqData(s).official = <<>>
         /\ ReqData(s).pending = <<>> /\ ReqData(s).waiting = s.waiting /\ ReqData(s).up
         /\ ReqData(s).sent = Append(s.sent, Part("reqdata", <<>>))
<1>1. PICK t : t = [s EXCEPT !.local = <<>>, !.official = <<>>, !.pending = <<>>]  OBVIOUS
<1>2. /\ t \in SsiStates /\ t.local = <<>> /\ t.official = <<>> /\ t.pending = <<>> /\ t.waiting = s.waiting
      /\ t.up /\ t.sent = s.sent
  <2>1. <<>> \in Seq(AnyItems) /\ <<>> \in Seq(SentItems)  BY EmptySeq
  <2>. QED  BY <1>1, <2>1 DEF SsiStates
<1>3. <<>> \in Seq(AnyItems) /\ "reqdata" \in RequestKinds  BY EmptySeq DEF RequestKinds
<1>4. PICK u : u = Send(t, "reqdata", <<>>)  OBVIOUS
<1>5. /\ u \in SsiStates /\ u.local = t.local /\ u.official = t.official /\ u.pending = t.pending
      /\ u.waiting = t.waiting /\ u.up = t.up
      /\ u.sent = Append(t.sent, [kind |-> "reqdata", items |-> <<>>])
  BY <1>2, <1>3, <1>4, SendForm
<1>6. ReqData(s) = u  BY <1>1, <1>4 DEF ReqData
<1>. QED  BY <1>2, <1>5, <1>6 DEF Part

LEMMA PartForm ==
  ASSUME NEW kind, NEW items
  PROVE  /\ Part(kind, items).kind = kind /\ Part(kind, items).items = items
         /\ kind \in RequestKinds /\ items \in Seq(AnyItems) => Part(kind, items) \in SsiRequests
         /\ kind \in {"reqrights", "buddyrights", "more", "list"} /\ items \in Seq(AnyItems)
              => Part(kind, items) \in Loads
BY DEF Part, SsiRequests, Loads

LEMMA Requested ==
  ASSUME NEW s \in SsiStates, s.up, NEW kind \in {"reqrights", "buddyrights"}
  PROVE  /\ Send(s, kind, <<>>) \in SsiStates /\ Send(s, kind, <<>>).waiting = s.waiting
         /\ Send(s, kind, <<>>).pending = s.pending /\ Send(s, kind, <<>>).up
         /\ Send(s, kind, <<>>).sent = Append(s.sent, Part(kind, <<>>))
         /\ Part(kind, <<>>) \in SsiRequests /\ Part(kind, <<>>).kind = kind
<1>1. kind \in RequestKinds /\ <<>> \in Seq(AnyItems)  BY EmptySeq DEF RequestKinds
<1>. QED  BY <1>1, SendForm, PartForm DEF Part

LEMMA NoListForm ==
  /\ NoList \in SsiStates /\ ~NoList.up /\ ~NoList.waiting /\ NoList.pending = <<>> /\ NoList.sent = <<>>
<1>1. <<>> \in Seq(AnyItems) /\ <<>> \in Seq(SentItems) /\ <<>> \in Seq(SsiRequests)  BY EmptySeq
<1>. QED  BY <1>1 DEF NoList, SsiStates

LEMMA ConnectionBegins ==
  ASSUME NEW s, s = NoList
  PROVE  RightsAsked(Send(ReqData(Send([s EXCEPT !.up = TRUE], "reqrights", <<>>)), "buddyrights", <<>>), <<>>)
<1>1. PICK a : a = [s EXCEPT !.up = TRUE]  OBVIOUS
<1>2. a \in SsiStates /\ a.up /\ ~a.waiting /\ a.pending = <<>> /\ a.sent = <<>>
  BY <1>1, NoListForm DEF SsiStates
<1>3. PICK b : b = Send(a, "reqrights", <<>>)  OBVIOUS
<1>4. b \in SsiStates /\ b.up /\ ~b.waiting /\ b.pending = <<>> /\ b.sent = Append(a.sent, Part("reqrights", <<>>))
      /\ Part("reqrights", <<>>) \in SsiRequests /\ Part("reqrights", <<>>).kind = "reqrights"
  BY <1>2, <1>3, Requested
<1>5. PICK c : c = ReqData(b)  OBVIOUS
<1>6. c \in SsiStates /\ c.up /\ ~c.waiting /\ c.pending = <<>> /\ c.sent = Append(b.sent, Part("reqdata", <<>>))
  BY <1>4, <1>5, ReqDataForm
<1>7. Part("reqdata", <<>>) \in SsiRequests /\ Part("reqdata", <<>>).kind = "reqdata"
  <2>1. <<>> \in Seq(AnyItems) /\ "reqdata" \in RequestKinds  BY EmptySeq DEF RequestKinds
  <2>. QED  BY <2>1, PartForm
<1>8. PICK d : d = Send(c, "buddyrights", <<>>)  OBVIOUS
<1>9. d \in SsiStates /\ d.up /\ ~d.waiting /\ d.pending = <<>> /\ d.sent = Append(c.sent, Part("buddyrights", <<>>))
      /\ Part("buddyrights", <<>>) \in SsiRequests /\ Part("buddyrights", <<>>).kind = "buddyrights"
  BY <1>6, <1>8, Requested
<1>10. a.sent \in Seq(SsiRequests) /\ b.sent \in Seq(SsiRequests) /\ c.sent \in Seq(SsiRequests)
  BY <1>2, <1>4, <1>6 DEF SsiStates
<1>11. AllIn(a.sent, Before)  BY <1>2, NoneInNothing
<1>12. AllIn(b.sent, Before)  BY <1>4, <1>10, <1>11, AllInAppend DEF Before
<1>13. AllIn(c.sent, Before)  BY <1>6, <1>7, <1>10, <1>12, AllInAppend DEF Before
<1>14. Holds(d.sent, "buddyrights", Before, Later)
  <2>1. PICK x \in SsiRequests : x = Part("buddyrights", <<>>) /\ x.kind = "buddyrights"  BY <1>9
  <2>2. \A k, after : x.kind = k => Holds(Append(c.sent, x), k, Before, after)
    BY <1>10, <1>13, AllInAppend
  <2>. QED  BY <1>9, <2>1, <2>2
<1>15. <<>> \in Seq(Loads) /\ AllIn(<<>>, LoginAnswers)  BY EmptySeq, NoneInNothing
<1>. QED  BY <1>1, <1>3, <1>5, <1>8, <1>9, <1>14, <1>15 DEF RightsAsked, Loading

-----------------------------------------------------------------------------
(* The server takes a request of a login.                                  *)
Replies(q, new, request, full) ==
  \/ /\ request.kind \in {"reqrights", "buddyrights"}
     /\ new = Append(q, [kind |-> request.kind, items |-> <<>>])
  \/ request.kind \in {"editstop", "enable"} /\ new = q
  \/ /\ request.kind = "reqdata"
     /\ NowSends(q, new, full)

LEMMA AnswersForm ==
  ASSUME NEW full, Pristine(full), NEW q \in Seq(Loads), NEW request, NEW new, Replies(q, new, request, full)
  PROVE  \/ request.kind \in {"editstop", "enable"} /\ new = q
         \/ request.kind = "reqrights" /\ new = Append(q, Part("reqrights", <<>>))
         \/ request.kind = "buddyrights" /\ new = Append(q, Part("buddyrights", <<>>))
         \/ request.kind = "reqdata" /\ Arrives(q, new, full)
<1>1. CASE request.kind \in {"reqrights", "buddyrights"}  BY <1>1 DEF Replies, Part
<1>2. CASE request.kind \in {"editstop", "enable"}  BY <1>2 DEF Replies
<1>3. CASE request.kind = "reqdata"
  <2>1. NowSends(q, new, full)  BY <1>3 DEF Replies
  <2>2. Arrives(q, new, full)  BY <2>1, DataSent
  <2>. QED  BY <1>3, <2>2
<1>. QED  BY <1>1, <1>2, <1>3 DEF Replies

(* What the data adds to what is on its way.                               *)
LEMMA DataBehind ==
  ASSUME NEW q \in Seq(Loads), NEW first \in Seq(AnyItems), NEW rest \in Seq(AnyItems), NEW new,
         \/ new = Append(q, Part("list", rest))
         \/ new = Append(Append(q, Part("more", first)), Part("list", rest))
  PROVE  /\ new \in Seq(Loads)
         /\ \A K : AllIn(q, K) /\ Data \subseteq K => AllIn(new, K)
         /\ \A k, before, after : Holds(q, k, before, after) /\ Data \subseteq after => Holds(new, k, before, after)
<1>1. PICK a \in Loads : a = Part("more", first) /\ a.kind = "more"  BY PartForm
<1>2. PICK b \in Loads : b = Part("list", rest) /\ b.kind = "list"  BY PartForm
<1>3. \A K : Data \subseteq K => a.kind \in K /\ b.kind \in K  BY <1>1, <1>2 DEF Data
<1>4. CASE new = Append(q, b)
  <2>1. new \in Seq(Loads)  BY <1>4, AppendProperties
  <2>2. \A K : AllIn(q, K) /\ Data \subseteq K => AllIn(new, K)  BY <1>3, <1>4, AllInAppend
  <2>3. \A k, before, after : Holds(q, k, before, after) /\ Data \subseteq after => Holds(new, k, before, after)
    BY <1>3, <1>4, HoldsAppend
  <2>. QED  BY <2>1, <2>2, <2>3
<1>5. CASE new = Append(Append(q, a), b)
  <2>1. PICK r : r = Append(q, a)  OBVIOUS
  <2>2. r \in Seq(Loads)  BY <2>1, AppendProperties
  <2>3. new = Append(r, b) /\ new \in Seq(Loads)  BY <1>5, <2>1, <2>2, AppendProperties
  <2>4. \A K : AllIn(q, K) /\ Data \subseteq K => AllIn(r, K)  BY <1>3, <2>1, AllInAppend
  <2>5. \A K : AllIn(r, K) /\ Data \subseteq K => AllIn(new, K)  BY <1>3, <2>2, <2>3, AllInAppend
  <2>6. \A k, before, after : Holds(q, k, before, after) /\ Data \subseteq after => Holds(r, k, before, after)
    BY <1>3, <2>1, HoldsAppend
  <2>7. \A k, before, after : Holds(r, k, before, after) /\ Data \subseteq after => Holds(new, k, before, after)
    BY <1>3, <2>2, <2>3, HoldsAppend
  <2>. QED  BY <2>3, <2>4, <2>5, <2>6, <2>7
<1>. QED  BY <1>1, <1>2, <1>4, <1>5

LEMMA SentTail ==
  ASSUME NEW s \in SsiStates, s.sent # <<>>, NEW t, t = [s EXCEPT !.sent = Tail(@)]
  PROVE  /\ t \in SsiStates /\ t.local = s.local /\ t.official = s.official /\ t.pending = s.pending
         /\ t.waiting = s.waiting /\ t.up = s.up /\ t.received = s.received /\ t.sent = Tail(s.sent)
         /\ s.sent \in Seq(SsiRequests) /\ t.sent \in Seq(SsiRequests)
<1>1. s.sent \in Seq(SsiRequests)  BY DEF SsiStates
<1>2. Tail(s.sent) \in Seq(SsiRequests)  BY <1>1, HeadTailProperties
<1>. QED  BY <1>1, <1>2 DEF SsiStates

LEMMA PairForm ==
  ASSUME NEW S, NEW a \in S, NEW b \in S
  PROVE  Append(<<a>>, b) = <<a, b>>
<1>1. PICK c, d, e : c = <<a>> /\ d = <<a, b>> /\ e = Append(c, b)  OBVIOUS
<1>2. c \in Seq(S) /\ Len(c) = 1 /\ c[1] = a  BY <1>1
<1>3. d \in Seq(S) /\ Len(d) = 2 /\ d[1] = a /\ d[2] = b  BY <1>1
<1>4. /\ e \in Seq(S) /\ Len(e) = Len(c) + 1 /\ e[Len(c) + 1] = b
      /\ \A i \in 1 .. Len(c) : e[i] = c[i]
  BY <1>1, <1>2, AppendProperties
<1>5. Len(e) = 2 /\ e[1] = a /\ e[2] = b  BY <1>2, <1>4
<1>6. \A i \in 1 .. 2 : i = 1 \/ i = 2  OBVIOUS
<1>7. Len(e) = Len(d) /\ \A i \in 1 .. Len(e) : e[i] = d[i]  BY <1>3, <1>5, <1>6
<1>8. e = d  BY <1>3, <1>4, <1>7, SeqEqual
<1>. QED  BY <1>1, <1>8

LEMMA TwoForm ==
  ASSUME NEW S, NEW a \in S, NEW b \in S
  PROVE  /\ <<a, b>> \in Seq(S) /\ Append(Append(<<>>, a), b) = <<a, b>>
         /\ Head(<<a, b>>) = a /\ Tail(<<a, b>>) = <<b>>
<1>1. PICK q : q = <<a, b>>  OBVIOUS
<1>2. q \in Seq(S) /\ Len(q) = 2 /\ q[1] = a /\ q[2] = b /\ q # <<>>  BY <1>1
<1>3. PICK t : t = Tail(q)  OBVIOUS
<1>4. t \in Seq(S) /\ Len(t) = Len(q) - 1 /\ \A i \in 1 .. Len(t) : t[i] = q[i + 1]
  BY <1>2, <1>3, HeadTailProperties
<1>5. Len(t) = 1 /\ t[1] = b
  <2>1. Len(t) = 1  BY <1>2, <1>4
  <2>2. 1 \in 1 .. 1 /\ 1 + 1 = 2  OBVIOUS
  <2>. QED  BY <1>2, <1>4, <2>1, <2>2
<1>6. PICK u : u = <<b>>  OBVIOUS
<1>7. t = u
  <2>. u \in Seq(S) /\ Len(u) = 1 /\ u[1] = b  BY <1>6
  <2>1. \A i \in 1 .. 1 : i = 1  OBVIOUS
  <2>2. Len(t) = Len(u) /\ \A i \in 1 .. Len(t) : t[i] = u[i]  BY <1>5, <2>1
  <2>. QED  BY <1>4, <2>2, SeqEqual
<1>8. Append(Append(<<>>, a), b) = <<a, b>>
  <2>1. Append(<<>>, a) = <<a>>  OBVIOUS
  <2>2. Append(<<a>>, b) = <<a, b>>  BY PairForm
  <2>. QED  BY <2>1, <2>2, Zenon
<1>9. Head(q) = a  BY <1>2, TailNumbers
<1>. QED  BY <1>1, <1>3, <1>6, <1>7, <1>8, <1>9

LEMMA OneMoreOnWire ==
  ASSUME NEW q \in Seq(Loads), NEW kind \in {"reqrights", "buddyrights"}
  PROVE  /\ Append(q, Part(kind, <<>>)) \in Seq(Loads)
         /\ \A K : AllIn(q, K) /\ kind \in K => AllIn(Append(q, Part(kind, <<>>)), K)
         /\ \A K, after : AllIn(q, K) => Holds(Append(q, Part(kind, <<>>)), kind, K, after)
<1>1. PICK x \in Loads : x = Part(kind, <<>>) /\ x.kind = kind
  <2>1. <<>> \in Seq(AnyItems)  BY EmptySeq
  <2>. QED  BY <2>1, PartForm
<1>2. Append(q, x) \in Seq(Loads)  BY AppendProperties
<1>3. \A K : AllIn(q, K) /\ x.kind \in K => AllIn(Append(q, x), K)  BY AllInAppend
<1>4. \A K : AllIn(q, K) => \A k, after : x.kind = k => Holds(Append(q, x), k, K, after)  BY AllInAppend
<1>. QED  BY <1>1, <1>2, <1>3, <1>4

LEMMA DataOnItsWay ==
  ASSUME NEW q \in Seq(Loads), NEW new, NEW full, Arrives(q, new, full)
  PROVE  /\ new \in Seq(Loads)
         /\ \A K : AllIn(q, K) /\ Data \subseteq K => AllIn(new, K)
         /\ \A k, before, after : Holds(q, k, before, after) /\ Data \subseteq after => Holds(new, k, before, after)
<1>1. PICK first \in Seq(AnyItems), rest \in Seq(AnyItems) :
         \/ new = Append(q, Part("list", rest))
         \/ new = Append(Append(q, Part("more", first)), Part("list", rest))
  BY DEF Arrives
<1>. QED  BY <1>1, DataBehind

LEMMA LoadingTail ==
  ASSUME NEW s, Loading(s), s.sent # <<>>, NEW t, t = [s EXCEPT !.sent = Tail(@)]
  PROVE  Loading(t) /\ t.sent = Tail(s.sent) /\ t.local = s.local /\ t.official = s.official
         /\ s.sent \in Seq(SsiRequests)
<1>1. s \in SsiStates  BY DEF Loading
<1>. QED  BY <1>1, SentTail DEF Loading

LEMMA RightsServed ==
  ASSUME NEW s, NEW q, RightsAsked(s, q), NEW full, Pristine(full), NEW new,
         Replies(q, new, Head(s.sent), full), NEW t, t = [s EXCEPT !.sent = Tail(@)]
  PROVE  RightsAsked(t, new) \/ RightsAnswered(t, new)
<1>1. Loading(s) /\ Holds(s.sent, "buddyrights", Before, Later) /\ q \in Seq(Loads) /\ AllIn(q, LoginAnswers)
  BY DEF RightsAsked
<1>2. s.sent \in Seq(SsiRequests)  BY <1>1 DEF Loading, SsiStates
<1>3. "buddyrights" \notin Before  BY DEF Before
<1>4. s.sent # <<>> /\ \/ Head(s.sent).kind = "buddyrights" /\ AllIn(Tail(s.sent), Later)
                       \/ Head(s.sent).kind \in Before /\ Holds(Tail(s.sent), "buddyrights", Before, Later)
  BY <1>1, <1>2, <1>3, HoldsTail
<1>5. Loading(t) /\ t.sent = Tail(s.sent)  BY <1>1, <1>4, LoadingTail
<1>6. PICK r : r = Head(s.sent)  OBVIOUS
<1>7. \/ r.kind \in {"editstop", "enable"} /\ new = q
      \/ r.kind = "reqrights" /\ new = Append(q, Part("reqrights", <<>>))
      \/ r.kind = "buddyrights" /\ new = Append(q, Part("buddyrights", <<>>))
      \/ r.kind = "reqdata" /\ Arrives(q, new, full)
  BY <1>1, <1>6, AnswersForm
<1>8. CASE r.kind = "buddyrights"
  <2>1. new = Append(q, Part("buddyrights", <<>>))  BY <1>7, <1>8
  <2>2. AllIn(t.sent, Later)  BY <1>3, <1>4, <1>5, <1>6, <1>8
  <2>3. new \in Seq(Loads) /\ Holds(new, "buddyrights", LoginAnswers, Data)  BY <1>1, <2>1, OneMoreOnWire
  <2>. QED  BY <1>5, <2>2, <2>3 DEF RightsAnswered
<1>9. CASE r.kind # "buddyrights"
  <2>1. r.kind \in Before /\ Holds(t.sent, "buddyrights", Before, Later)  BY <1>4, <1>5, <1>6, <1>9
  <2>2. new \in Seq(Loads) /\ AllIn(new, LoginAnswers)
    <3>1. CASE r.kind \in {"editstop", "enable"} /\ new = q  BY <1>1, <3>1
    <3>2. CASE r.kind = "reqrights" /\ new = Append(q, Part("reqrights", <<>>))
      BY <1>1, <3>2, OneMoreOnWire DEF LoginAnswers
    <3>3. CASE r.kind = "reqdata" /\ Arrives(q, new, full)
      <4>1. Data \subseteq LoginAnswers  BY DEF Data, LoginAnswers
      <4>. QED  BY <1>1, <3>3, <4>1, DataOnItsWay
    <3>. QED  BY <1>7, <1>9, <3>1, <3>2, <3>3
  <2>. QED  BY <1>5, <2>1, <2>2 DEF RightsAsked
<1>. QED  BY <1>8, <1>9

LEMMA LaterServed ==
  ASSUME NEW s, NEW q, RightsAnswered(s, q), s.sent # <<>>, NEW full, Pristine(full), NEW new,
         Replies(q, new, Head(s.sent), full), NEW t, t = [s EXCEPT !.sent = Tail(@)]
  PROVE  RightsAnswered(t, new)
<1>1. Loading(s) /\ AllIn(s.sent, Later) /\ q \in Seq(Loads) /\ Holds(q, "buddyrights", LoginAnswers, Data)
  BY DEF RightsAnswered
<1>2. s.sent \in Seq(SsiRequests)  BY <1>1 DEF Loading, SsiStates
<1>3. Head(s.sent).kind \in Later /\ AllIn(Tail(s.sent), Later)  BY <1>1, <1>2, AllInTail
<1>4. Loading(t) /\ t.sent = Tail(s.sent)  BY <1>1, LoadingTail
<1>5. PICK r : r = Head(s.sent)  OBVIOUS
<1>6. \/ r.kind \in {"editstop", "enable"} /\ new = q
      \/ r.kind = "reqdata" /\ Arrives(q, new, full)
  <2>1. r.kind \in {"reqdata", "enable"}  BY <1>3, <1>5 DEF Later
  <2>2. \/ r.kind \in {"editstop", "enable"} /\ new = q
        \/ r.kind = "reqrights" /\ new = Append(q, Part("reqrights", <<>>))
        \/ r.kind = "buddyrights" /\ new = Append(q, Part("buddyrights", <<>>))
        \/ r.kind = "reqdata" /\ Arrives(q, new, full)
    BY <1>1, <1>5, AnswersForm
  <2>. QED  BY <2>1, <2>2
<1>7. new \in Seq(Loads) /\ Holds(new, "buddyrights", LoginAnswers, Data)  BY <1>1, <1>6, DataOnItsWay
<1>. QED  BY <1>3, <1>4, <1>7 DEF RightsAnswered

LEMMA AgainServed ==
  ASSUME NEW s, NEW q, AgainAsked(s, q), NEW full, Pristine(full), NEW new,
         Replies(q, new, Head(s.sent), full), NEW t, t = [s EXCEPT !.sent = Tail(@)]
  PROVE  AgainAsked(t, new) \/ AgainAnswered(t, new)
<1>1. Loading(s) /\ Holds(s.sent, "reqrights", Later, Enable) /\ q \in Seq(Loads) /\ AllIn(q, Data)
  BY DEF AgainAsked
<1>2. s.sent \in Seq(SsiRequests)  BY <1>1 DEF Loading, SsiStates
<1>3. "reqrights" \notin Later  BY DEF Later
<1>4. s.sent # <<>> /\ \/ Head(s.sent).kind = "reqrights" /\ AllIn(Tail(s.sent), Enable)
                       \/ Head(s.sent).kind \in Later /\ Holds(Tail(s.sent), "reqrights", Later, Enable)
  BY <1>1, <1>2, <1>3, HoldsTail
<1>5. Loading(t) /\ t.sent = Tail(s.sent)  BY <1>1, <1>4, LoadingTail
<1>6. PICK r : r = Head(s.sent)  OBVIOUS
<1>7. \/ r.kind \in {"editstop", "enable"} /\ new = q
      \/ r.kind = "reqrights" /\ new = Append(q, Part("reqrights", <<>>))
      \/ r.kind = "buddyrights" /\ new = Append(q, Part("buddyrights", <<>>))
      \/ r.kind = "reqdata" /\ Arrives(q, new, full)
  BY <1>1, <1>6, AnswersForm
<1>8. CASE r.kind = "reqrights"
  <2>1. new = Append(q, Part("reqrights", <<>>))  BY <1>7, <1>8
  <2>2. AllIn(t.sent, Enable)  BY <1>3, <1>4, <1>5, <1>6, <1>8
  <2>3. new \in Seq(Loads) /\ Holds(new, "reqrights", Data, {})  BY <1>1, <2>1, OneMoreOnWire
  <2>. QED  BY <1>5, <2>2, <2>3 DEF AgainAnswered
<1>9. CASE r.kind # "reqrights"
  <2>1. r.kind \in {"reqdata", "enable"} /\ Holds(t.sent, "reqrights", Later, Enable)
    BY <1>4, <1>5, <1>6, <1>9 DEF Later
  <2>2. new \in Seq(Loads) /\ AllIn(new, Data)
    <3>1. CASE r.kind \in {"editstop", "enable"} /\ new = q  BY <1>1, <3>1
    <3>2. CASE r.kind = "reqdata" /\ Arrives(q, new, full)  BY <1>1, <3>2, DataOnItsWay
    <3>. QED  BY <1>7, <2>1, <3>1, <3>2
  <2>. QED  BY <1>5, <2>1, <2>2 DEF AgainAsked
<1>. QED  BY <1>8, <1>9

LEMMA EnableServed ==
  ASSUME NEW sent \in Seq(SsiRequests), AllIn(sent, Enable), sent # <<>>, NEW q, NEW new, NEW full,
         Replies(q, new, Head(sent), full)
  PROVE  new = q /\ AllIn(Tail(sent), Enable)
<1>1. Head(sent).kind \in Enable /\ AllIn(Tail(sent), Enable)  BY AllInTail
<1>2. Head(sent).kind = "enable"  BY <1>1 DEF Enable
<1>. QED  BY <1>1, <1>2 DEF Replies

LEMMA DataServed ==
  ASSUME NEW s, NEW q, DataAsked(s, q), NEW full, Pristine(full), NEW new,
         Replies(q, new, Head(s.sent), full), NEW t, t = [s EXCEPT !.sent = Tail(@)]
  PROVE  DataAsked(t, new) \/ FirstPart(t, new, full) \/ LastPart(t, new, full)
<1>1. /\ Loading(s) /\ Holds(s.sent, "reqdata", Enable, Enable) /\ q = <<>>
      /\ s.local = <<>> /\ s.official = <<>>
  BY DEF DataAsked
<1>2. s.sent \in Seq(SsiRequests) /\ q \in Seq(Loads)  BY <1>1, EmptySeq DEF Loading, SsiStates
<1>3. "reqdata" \notin Enable  BY DEF Enable
<1>4. s.sent # <<>> /\ \/ Head(s.sent).kind = "reqdata" /\ AllIn(Tail(s.sent), Enable)
                       \/ Head(s.sent).kind \in Enable /\ Holds(Tail(s.sent), "reqdata", Enable, Enable)
  BY <1>1, <1>2, <1>3, HoldsTail
<1>5. Loading(t) /\ t.sent = Tail(s.sent) /\ t.local = <<>> /\ t.official = <<>>  BY <1>1, <1>4, LoadingTail
<1>6. PICK r : r = Head(s.sent)  OBVIOUS
<1>7. \/ r.kind \in {"editstop", "enable"} /\ new = q
      \/ r.kind = "reqrights" /\ new = Append(q, Part("reqrights", <<>>))
      \/ r.kind = "buddyrights" /\ new = Append(q, Part("buddyrights", <<>>))
      \/ r.kind = "reqdata" /\ Arrives(q, new, full)
  BY <1>2, <1>6, AnswersForm
<1>8. CASE r.kind = "reqdata"
  <2>1. AllIn(t.sent, Enable) /\ Arrives(q, new, full)  BY <1>3, <1>4, <1>5, <1>6, <1>7, <1>8
  <2>2. PICK m \in Nat, first \in Seq(AnyItems), rest \in Seq(AnyItems) :
           /\ Len(first) = m /\ m + Len(rest) = Len(full)
           /\ \A k \in 1 .. m : first[k] = full[k]
           /\ \A k \in 1 .. Len(rest) : rest[k] = full[m + k]
           /\ \/ m = 0 /\ new = Append(q, Part("list", rest))
              \/ new = Append(Append(q, Part("more", first)), Part("list", rest))
    BY <2>1 DEF Arrives
  <2>3. CASE m = 0 /\ new = Append(q, Part("list", rest))
    <3>1. new = <<Part("list", rest)>>  BY <1>1, <2>3
    <3>2. Copy(<<>>) /\ Carries(<<>>, full, 0)
      <4>1. <<>> \in Seq(AnyItems) /\ DOMAIN <<>> = {} /\ Len(<<>>) = 0  BY EmptySeq
      <4>. QED  BY <4>1 DEF Copy, Carries, ByNumber, OnlyGroupsLead, RefsDiffer
    <3>3. Copy(t.official) /\ Carries(t.official, full, m)  BY <1>5, <2>3, <3>2
    <3>. QED  BY <1>5, <2>1, <2>2, <3>1, <3>3 DEF LastPart
  <2>4. CASE new = Append(Append(q, Part("more", first)), Part("list", rest))
    <3>1. new = <<Part("more", first), Part("list", rest)>>
      <4>1. PICK a \in Loads, b \in Loads : a = Part("more", first) /\ b = Part("list", rest)  BY PartForm
      <4>2. Append(Append(q, a), b) = <<a, b>>  BY <1>1, TwoForm
      <4>. QED  BY <2>4, <4>1, <4>2
    <3>. QED  BY <1>5, <2>1, <2>2, <3>1 DEF FirstPart
  <2>. QED  BY <2>2, <2>3, <2>4
<1>9. CASE r.kind # "reqdata"
  <2>1. r.kind = "enable" /\ Holds(t.sent, "reqdata", Enable, Enable)  BY <1>4, <1>5, <1>6, <1>9 DEF Enable
  <2>2. new = q  BY <1>7, <2>1
  <2>. QED  BY <1>1, <1>5, <2>1, <2>2 DEF DataAsked
<1>. QED  BY <1>8, <1>9

-----------------------------------------------------------------------------
(* The client takes what comes while it loads the list.                    *)
Received(s, m) ==
  CASE m.kind = "reqrights"   -> ReqData(s)
    [] m.kind = "buddyrights" -> Send(s, "reqrights", <<>>)
    [] m.kind = "more" -> ParseData(s, m.items, TRUE)
    [] m.kind = "list" -> ParseData(s, m.items, FALSE)
    [] m.kind = "ack"  -> ParseAck(s, m.items)
    [] m.kind = "add"  -> ParseAdd(s, m.items[1])
    [] m.kind = "mod"  -> ParseMod(s, m.items[1])
    [] m.kind = "del"  -> ParseDel(s, m.items[1])

LEMMA ReceivedForm ==
  ASSUME NEW s, NEW m
  PROVE  /\ m.kind = "reqrights"   => Received(s, m) = ReqData(s)
         /\ m.kind = "buddyrights" => Received(s, m) = Send(s, "reqrights", <<>>)
         /\ m.kind = "more" => Received(s, m) = ParseData(s, m.items, TRUE)
         /\ m.kind = "list" => Received(s, m) = ParseData(s, m.items, FALSE)
         /\ m.kind = "ack"  => Received(s, m) = ParseAck(s, m.items)
         /\ m.kind \in Edits => Received(s, m) = Heard(s, m)
BY DEF Received, Heard, Edits

(* What it sends after any of these.                                       *)
LEMMA LoadingGoesOn ==
  ASSUME NEW s, Loading(s), NEW m \in Loads, NEW t, t = Received(s, m)
  PROVE  /\ Loading(t) /\ s.sent \in Seq(SsiRequests)
         /\ m.kind = "reqrights" => /\ t.local = <<>> /\ t.official = <<>>
                                    /\ t.sent = Append(s.sent, Part("reqdata", <<>>))
         /\ m.kind = "buddyrights" => t.sent = Append(s.sent, Part("reqrights", <<>>))
         /\ m.kind = "more" => t.sent = s.sent
         /\ m.kind = "list" => t.sent = Append(s.sent, Part("enable", <<>>))
<1>1. s \in SsiStates /\ s.up /\ ~s.waiting /\ s.pending = <<>>  BY DEF Loading
<1>2. s.sent \in Seq(SsiRequests)  BY <1>1 DEF SsiStates
<1>3. m.kind \in {"reqrights", "buddyrights", "more", "list"} /\ m.items \in Seq(AnyItems)  BY DEF Loads
<1>4. CASE m.kind = "reqrights"
  <2>1. t = ReqData(s)  BY <1>4, ReceivedForm
  <2>2. /\ t \in SsiStates /\ t.local = <<>> /\ t.official = <<>>
        /\ t.pending = <<>> /\ t.waiting = s.waiting /\ t.up
        /\ t.sent = Append(s.sent, Part("reqdata", <<>>))
    BY <1>1, <2>1, ReqDataForm
  <2>. QED  BY <1>1, <1>2, <1>4, <2>2 DEF Loading
<1>5. CASE m.kind = "buddyrights"
  <2>1. t = Send(s, "reqrights", <<>>)  BY <1>5, ReceivedForm
  <2>2. /\ t \in SsiStates /\ t.pending = <<>> /\ ~t.waiting /\ t.up
        /\ t.sent = Append(s.sent, Part("reqrights", <<>>))
    BY <1>1, <2>1, Requested
  <2>. QED  BY <1>2, <1>5, <2>2 DEF Loading
<1>6. CASE m.kind = "more"
  <2>1. t = ParseData(s, m.items, TRUE)  BY <1>6, ReceivedForm
  <2>2. t \in SsiStates /\ Alongside(s, t)  BY <1>1, <1>3, <2>1, MoreForm DEF Touches
  <2>. QED  BY <1>1, <1>2, <1>6, <2>2 DEF Loading, Alongside
<1>7. CASE m.kind = "list"
  <2>1. t = ParseData(s, m.items, FALSE)  BY <1>7, ReceivedForm
  <2>2. /\ t \in SsiStates /\ t.pending = s.pending /\ t.waiting = s.waiting /\ t.up = s.up
        /\ t.sent = Append(s.sent, Part("enable", <<>>))
    <3>1. PICK items \in Seq(AnyItems) : items = m.items  BY <1>3
    <3>2. t = ParseData(s, items, FALSE)  BY <2>1, <3>1
    <3>3. /\ t \in SsiStates /\ t.pending = s.pending /\ t.waiting = s.waiting /\ t.up = s.up
          /\ s.up => t.sent = Append(s.sent, [kind |-> "enable", items |-> <<>>])
      <4>1. /\ ParseData(s, items, FALSE) \in SsiStates
            /\ ParseData(s, items, FALSE).pending = s.pending /\ ParseData(s, items, FALSE).waiting = s.waiting
            /\ ParseData(s, items, FALSE).up = s.up
            /\ s.up => ParseData(s, items, FALSE).sent = Append(s.sent, [kind |-> "enable", items |-> <<>>])
        BY <1>1, ListForm
      <4>. QED  BY <3>2, <4>1
    <3>. QED  BY <1>1, <3>3 DEF Part
  <2>. QED  BY <1>1, <1>2, <1>7, <2>2 DEF Loading
<1>. QED  BY <1>3, <1>4, <1>5, <1>6, <1>7

LEMMA AskingForm ==
  ASSUME NEW q \in Seq(SsiRequests), NEW kind \in {"reqrights", "reqdata", "enable"}
  PROVE  /\ \A K : AllIn(q, K) /\ kind \in K => AllIn(Append(q, Part(kind, <<>>)), K)
         /\ \A K, after : AllIn(q, K) => Holds(Append(q, Part(kind, <<>>)), kind, K, after)
         /\ \A k, before, after : Holds(q, k, before, after) /\ kind \in after
                                    => Holds(Append(q, Part(kind, <<>>)), k, before, after)
<1>1. PICK x \in SsiRequests : x = Part(kind, <<>>) /\ x.kind = kind
  <2>1. <<>> \in Seq(AnyItems) /\ kind \in RequestKinds  BY EmptySeq DEF RequestKinds
  <2>. QED  BY <2>1, PartForm
<1>2. \A K : AllIn(q, K) /\ x.kind \in K => AllIn(Append(q, x), K)  BY AllInAppend
<1>3. \A K : AllIn(q, K) => \A k, after : x.kind = k => Holds(Append(q, x), k, K, after)  BY AllInAppend
<1>4. \A k, before, after : Holds(q, k, before, after) /\ x.kind \in after => Holds(Append(q, x), k, before, after)
  BY HoldsAppend
<1>. QED  BY <1>1, <1>2, <1>3, <1>4

LEMMA RightsTaken ==
  ASSUME NEW s, NEW q, RightsAsked(s, q), q # <<>>
  PROVE  RightsAsked(Received(s, Head(q)), Tail(q))
<1>1. Loading(s) /\ Holds(s.sent, "buddyrights", Before, Later) /\ q \in Seq(Loads) /\ AllIn(q, LoginAnswers)
  BY DEF RightsAsked
<1>2. PICK m \in Loads : m = Head(q) /\ m.kind \in LoginAnswers /\ AllIn(Tail(q), LoginAnswers) /\ Tail(q) \in Seq(Loads)
  BY <1>1, AllInTail
<1>3. PICK t : t = Received(s, m)  OBVIOUS
<1>4. Loading(t) /\ s.sent \in Seq(SsiRequests)  BY <1>1, <1>3, LoadingGoesOn
<1>5. m.kind \in {"reqrights", "more", "list"}  BY <1>2 DEF LoginAnswers
<1>6. \/ t.sent = Append(s.sent, Part("reqdata", <<>>)) \/ t.sent = s.sent
      \/ t.sent = Append(s.sent, Part("enable", <<>>))
  BY <1>1, <1>3, <1>5, LoadingGoesOn
<1>7. "reqdata" \in Later /\ "enable" \in Later  BY DEF Later
<1>8. Holds(t.sent, "buddyrights", Before, Later)
  <2>1. \A kind \in {"reqrights", "reqdata", "enable"} :
           kind \in Later => Holds(Append(s.sent, Part(kind, <<>>)), "buddyrights", Before, Later)
    BY <1>1, <1>4, AskingForm
  <2>. QED  BY <1>1, <1>6, <1>7, <2>1
<1>. QED  BY <1>2, <1>3, <1>4, <1>8 DEF RightsAsked

LEMMA AnswersReceived ==
  ASSUME NEW s, NEW q, RightsAnswered(s, q)
  PROVE  \/ RightsAnswered(Received(s, Head(q)), Tail(q))
         \/ AgainAsked(Received(s, Head(q)), Tail(q))
<1>1. Loading(s) /\ AllIn(s.sent, Later) /\ q \in Seq(Loads) /\ Holds(q, "buddyrights", LoginAnswers, Data)
  BY DEF RightsAnswered
<1>2. "buddyrights" \notin LoginAnswers  BY DEF LoginAnswers
<1>3. PICK m \in Loads : /\ m = Head(q) /\ Tail(q) \in Seq(Loads)
                         /\ \/ m.kind = "buddyrights" /\ AllIn(Tail(q), Data)
                            \/ m.kind \in LoginAnswers /\ Holds(Tail(q), "buddyrights", LoginAnswers, Data)
  BY <1>1, <1>2, HoldsTail
<1>4. PICK t : t = Received(s, m)  OBVIOUS
<1>5. Loading(t) /\ s.sent \in Seq(SsiRequests)  BY <1>1, <1>4, LoadingGoesOn
<1>6. CASE m.kind = "buddyrights" /\ AllIn(Tail(q), Data)
  <2>1. t.sent = Append(s.sent, Part("reqrights", <<>>))  BY <1>1, <1>4, <1>6, LoadingGoesOn
  <2>2. Holds(t.sent, "reqrights", Later, Enable)  BY <1>1, <1>5, <2>1, AskingForm
  <2>. QED  BY <1>3, <1>4, <1>5, <1>6, <2>2 DEF AgainAsked
<1>7. CASE m.kind \in LoginAnswers /\ Holds(Tail(q), "buddyrights", LoginAnswers, Data)
  <2>1. m.kind \in {"reqrights", "more", "list"}  BY <1>7 DEF LoginAnswers
  <2>2. \/ t.sent = Append(s.sent, Part("reqdata", <<>>)) \/ t.sent = s.sent
        \/ t.sent = Append(s.sent, Part("enable", <<>>))
    BY <1>1, <1>4, <2>1, LoadingGoesOn
  <2>3. "reqdata" \in Later /\ "enable" \in Later  BY DEF Later
  <2>4. AllIn(t.sent, Later)  BY <1>1, <1>5, <2>2, <2>3, AskingForm
  <2>. QED  BY <1>3, <1>4, <1>5, <1>7, <2>4 DEF RightsAnswered
<1>. QED  BY <1>3, <1>6, <1>7

LEMMA AgainTaken ==
  ASSUME NEW s, NEW q, AgainAsked(s, q), q # <<>>
  PROVE  AgainAsked(Received(s, Head(q)), Tail(q))
<1>1. Loading(s) /\ Holds(s.sent, "reqrights", Later, Enable) /\ q \in Seq(Loads) /\ AllIn(q, Data)
  BY DEF AgainAsked
<1>2. PICK m \in Loads : m = Head(q) /\ m.kind \in Data /\ AllIn(Tail(q), Data) /\ Tail(q) \in Seq(Loads)
  BY <1>1, AllInTail
<1>3. PICK t : t = Received(s, m)  OBVIOUS
<1>4. Loading(t) /\ s.sent \in Seq(SsiRequests)  BY <1>1, <1>3, LoadingGoesOn
<1>5. m.kind \in {"more", "list"}  BY <1>2 DEF Data
<1>6. t.sent = s.sent \/ t.sent = Append(s.sent, Part("enable", <<>>))
  BY <1>1, <1>3, <1>5, LoadingGoesOn
<1>7. "enable" \in Enable  BY DEF Enable
<1>8. Holds(t.sent, "reqrights", Later, Enable)
  <2>1. \A kind \in {"reqrights", "reqdata", "enable"} :
           kind \in Enable => Holds(Append(s.sent, Part(kind, <<>>)), "reqrights", Later, Enable)
    BY <1>1, <1>4, AskingForm
  <2>. QED  BY <1>1, <1>6, <1>7, <2>1
<1>. QED  BY <1>2, <1>3, <1>4, <1>8 DEF AgainAsked

LEMMA AgainReceived ==
  ASSUME NEW s, NEW q, AgainAnswered(s, q)
  PROVE  AgainAnswered(Received(s, Head(q)), Tail(q)) \/ DataAsked(Received(s, Head(q)), Tail(q))
<1>1. Loading(s) /\ AllIn(s.sent, Enable) /\ q \in Seq(Loads) /\ Holds(q, "reqrights", Data, {})
  BY DEF AgainAnswered
<1>2. "reqrights" \notin Data  BY DEF Data
<1>3. PICK m \in Loads : /\ m = Head(q) /\ Tail(q) \in Seq(Loads)
                         /\ \/ m.kind = "reqrights" /\ AllIn(Tail(q), {})
                            \/ m.kind \in Data /\ Holds(Tail(q), "reqrights", Data, {})
  BY <1>1, <1>2, HoldsTail
<1>4. PICK t : t = Received(s, m)  OBVIOUS
<1>5. Loading(t) /\ s.sent \in Seq(SsiRequests)  BY <1>1, <1>4, LoadingGoesOn
<1>6. CASE m.kind = "reqrights" /\ AllIn(Tail(q), {})
  <2>1. t.sent = Append(s.sent, Part("reqdata", <<>>)) /\ t.local = <<>> /\ t.official = <<>>
    BY <1>1, <1>4, <1>6, LoadingGoesOn
  <2>2. Holds(t.sent, "reqdata", Enable, Enable)  BY <1>1, <1>5, <2>1, AskingForm
  <2>3. Tail(q) = <<>>  BY <1>3, <1>6, NothingInNone
  <2>. QED  BY <1>3, <1>4, <1>5, <2>1, <2>2, <2>3 DEF DataAsked
<1>7. CASE m.kind \in Data /\ Holds(Tail(q), "reqrights", Data, {})
  <2>1. m.kind \in {"more", "list"}  BY <1>7 DEF Data
  <2>2. t.sent = s.sent \/ t.sent = Append(s.sent, Part("enable", <<>>))
    BY <1>1, <1>4, <2>1, LoadingGoesOn
  <2>3. "enable" \in Enable  BY DEF Enable
  <2>4. AllIn(t.sent, Enable)  BY <1>1, <1>5, <2>2, <2>3, AskingForm
  <2>. QED  BY <1>3, <1>4, <1>5, <1>7, <2>4 DEF AgainAnswered
<1>. QED  BY <1>3, <1>6, <1>7

LEMMA AllInMore ==
  ASSUME NEW q, NEW K, NEW L, AllIn(q, K), K \subseteq L
  PROVE  AllIn(q, L)
BY DEF AllIn

LEMMA BareOfPristine ==
  ASSUME NEW full, Pristine(full), NEW items \in Seq(AnyItems), NEW m \in Nat, m + Len(items) <= Len(full),
         \A k \in 1 .. Len(items) : items[k] = full[m + k]
  PROVE  \A k \in 1 .. Len(items) : Bare(items[k]) = full[m + k]
<1>1. PICK n \in Nat : n = Len(items)  BY LenProperties
<1>2. full \in Seq(AnyItems)  BY DEF Pristine
<1>3. Len(full) \in Nat /\ DOMAIN full = 1 .. Len(full)  BY <1>2, LenProperties
<1>4. \A k \in 1 .. n : m + k \in DOMAIN full  BY <1>1, <1>3
<1>. QED  BY <1>1, <1>4 DEF Pristine

LEMMA FirstPartTaken ==
  ASSUME NEW s, NEW q, NEW full, Pristine(full), FirstPart(s, q, full)
  PROVE  LastPart(Received(s, Head(q)), Tail(q), full)
<1>1. Loading(s) /\ AllIn(s.sent, Enable) /\ s.local = <<>> /\ s.official = <<>> /\ s \in SsiStates
  BY DEF FirstPart, Loading
<1>2. PICK first \in Seq(AnyItems), rest \in Seq(AnyItems) :
        /\ q = <<Part("more", first), Part("list", rest)>>
        /\ Len(first) + Len(rest) = Len(full)
        /\ \A k \in 1 .. Len(first) : first[k] = full[k]
        /\ \A k \in 1 .. Len(rest) : rest[k] = full[Len(first) + k]
  BY DEF FirstPart
<1>3. PICK a \in Loads, b \in Loads : /\ a = Part("more", first) /\ b = Part("list", rest)
                                      /\ a.kind = "more" /\ a.items = first
  BY PartForm
<1>4. Head(q) = a /\ Tail(q) = <<b>>  BY <1>2, <1>3, TwoForm
<1>5. PICK t : t = Received(s, a)  OBVIOUS
<1>6. Loading(t) /\ t.sent = s.sent  BY <1>1, <1>3, <1>5, LoadingGoesOn
<1>7. t = ParseData(s, first, TRUE)  BY <1>3, <1>5, ReceivedForm
<1>8. PICK m \in Nat : m = Len(first)  BY LenProperties
<1>9. Len(rest) \in Nat /\ m <= Len(full)  BY <1>2, <1>8, LenProperties
<1>10. \A k \in 1 .. Len(first) : Bare(first[k]) = full[k]
  <2>1. \A k \in 1 .. m : 0 + k = k  OBVIOUS
  <2>2. 0 + Len(first) <= Len(full) /\ \A k \in 1 .. Len(first) : first[k] = full[0 + k]
    BY <1>2, <1>8, <1>9, <2>1
  <2>3. 0 \in Nat /\ Pristine(full) /\ first \in Seq(AnyItems)  BY <1>2
  <2>4. \A k \in 1 .. Len(first) : Bare(first[k]) = full[0 + k]  BY <2>2, <2>3, BareOfPristine
  <2>. QED  BY <1>8, <2>1, <2>4
<1>11. Copy(t.official) /\ Carries(t.official, full, m)  BY <1>1, <1>7, <1>8, <1>9, <1>10, MoreLoads
<1>12. t.local = <<>>  BY <1>1, <1>7, MoreForm DEF Touches, OtherOf
<1>. QED  BY <1>1, <1>2, <1>3, <1>4, <1>5, <1>6, <1>8, <1>11, <1>12 DEF LastPart

LEMMA LastPartTaken ==
  ASSUME NEW s, NEW q, NEW full, Pristine(full), LastPart(s, q, full)
  PROVE  Idle(Received(s, Head(q)), Tail(q), full)
<1>1. Loading(s) /\ AllIn(s.sent, Enable) /\ s.local = <<>> /\ s \in SsiStates  BY DEF LastPart, Loading
<1>2. PICK m \in Nat, rest \in Seq(AnyItems) :
        /\ q = <<Part("list", rest)>> /\ m + Len(rest) = Len(full)
        /\ \A k \in 1 .. Len(rest) : rest[k] = full[m + k]
        /\ Copy(s.official) /\ Carries(s.official, full, m)
  BY DEF LastPart
<1>3. PICK b \in Loads : b = Part("list", rest) /\ b.kind = "list" /\ b.items = rest  BY PartForm
<1>4. Head(q) = b /\ Tail(q) = <<>>  BY <1>2, <1>3
<1>5. PICK t : t = Received(s, b)  OBVIOUS
<1>6. Loading(t) /\ t.sent = Append(s.sent, Part("enable", <<>>)) /\ s.sent \in Seq(SsiRequests)
  BY <1>1, <1>3, <1>5, LoadingGoesOn
<1>7. t = ParseData(s, rest, FALSE)  BY <1>3, <1>5, ReceivedForm
<1>8. \A k \in 1 .. Len(rest) : Bare(rest[k]) = full[m + k]
  <2>1. Len(rest) \in Nat  BY LenProperties
  <2>2. m + Len(rest) <= Len(full)  BY <1>2, <2>1
  <2>. QED  BY <1>2, <2>2, BareOfPristine
<1>9. Copy(t.official) /\ Contents(t.official) = full /\ Copy(t.local) /\ Contents(t.local) = full
  BY <1>1, <1>2, <1>7, <1>8, ListLoads
<1>10. SameAs(t, full)  BY <1>6, <1>9, SameAsForm DEF Loading
<1>11. AllIn(t.sent, {"enable", "editstop"})
  <2>1. AllIn(t.sent, Enable)  BY <1>1, <1>6, AskingForm DEF Enable
  <2>. QED  BY <2>1, AllInMore DEF Enable
<1>. QED  BY <1>4, <1>5, <1>10, <1>11 DEF Idle

-----------------------------------------------------------------------------
(* The exchange about an edit: what was asked for, and the answers, which  *)
(* the lists agree with the server about as soon as they are taken in.     *)
EditAsked(s, q, full) ==
  /\ Sane(s) /\ s.up /\ Asks(s) /\ s.sent = <<EditRequest(s)>> /\ q = <<>> /\ Contents(s.official) = full
EditAnswered(s, q, full) ==
  /\ Sane(s) /\ s.up /\ s.sent = <<>>
  /\ \E acks, t : /\ q = <<[kind |-> "ack", items |-> acks]>> /\ ParseAck(s, acks) = Sync(t)
                  /\ Resting(t) /\ t.sent = <<>> /\ Contents(t.official) = full
ChangeTold(s, q, full) ==
  /\ Resting(s) /\ s.sent = <<>>
  /\ \E m : q = <<m>> /\ m.kind \in Edits /\ SameAs(Heard(s, m), full) /\ Heard(s, m).sent = <<>>

LEMMA SyncSettles ==
  ASSUME NEW t, Resting(t), t.sent = <<>>, NEW full, Contents(t.official) = full
  PROVE  Idle(Sync(t), <<>>, full) \/ EditAsked(Sync(t), <<>>, full)
<1>1. t \in SsiStates /\ Copy(t.local) /\ Copy(t.official) /\ Alike(t.local, t.official)
      /\ t.up /\ ~t.waiting /\ t.pending = <<>>
  BY DEF Resting, Sane
<1>2. PICK u : u = Sync(t)  OBVIOUS
<1>3. /\ u \in SsiStates /\ u.local = t.local /\ u.official = t.official /\ u.up
      /\ \/ /\ ~u.waiting /\ u.pending = t.pending
            /\ u.sent = Append(t.sent, [kind |-> "editstop", items |-> <<>>])
            /\ Contents(t.local) = Contents(t.official)
         \/ Asks(u) /\ u.sent = Append(t.sent, EditRequest(u))
  BY <1>1, <1>2, SyncForm
<1>4. CASE /\ ~u.waiting /\ u.pending = t.pending
           /\ u.sent = Append(t.sent, [kind |-> "editstop", items |-> <<>>])
           /\ Contents(t.local) = Contents(t.official)
  <2>1. SameAs(u, full)  BY <1>1, <1>3, <1>4, SameAsForm
  <2>2. AllIn(u.sent, {"enable", "editstop"})
    <3>1. u.sent = <<[kind |-> "editstop", items |-> <<>>]>>  BY <1>4
    <3>2. DOMAIN u.sent = {1} /\ u.sent[1].kind = "editstop"  BY <3>1
    <3>. QED  BY <3>2 DEF AllIn
  <2>. QED  BY <1>2, <2>1, <2>2 DEF Idle
<1>5. CASE Asks(u) /\ u.sent = Append(t.sent, EditRequest(u))
  <2>1. u.sent = <<EditRequest(u)>>  BY <1>5
  <2>2. Sane(u)  BY <1>1, <1>3 DEF Sane
  <2>. QED  BY <1>2, <1>3, <1>5, <2>1, <2>2 DEF EditAsked
<1>. QED  BY <1>3, <1>4, <1>5

LEMMA IdleEdited ==
  ASSUME NEW s, NEW full, Idle(s, <<>>, full), s.sent = <<>>, NEW name \in STRING,
         NEW t \in {AddBuddy(s, name, Buddies0), DelBuddy(s, name, Buddies0)}
  PROVE  Idle(t, <<>>, full) \/ EditAsked(t, <<>>, full)
<1>1. SameAs(s, full)  BY DEF Idle
<1>2. /\ s \in SsiStates /\ Copy(s.local) /\ Copy(s.official) /\ Contents(s.local) = Contents(s.official)
      /\ Contents(s.official) = full /\ s.up /\ ~s.waiting /\ s.pending = <<>>
  BY <1>1 DEF SameAs, Resting, Sane
<1>3. t = s \/ \E b : t = Sync(b) /\ Edited(s, b)
  <2>1. CASE t = AddBuddy(s, name, Buddies0)  BY <1>2, <2>1, AddBuddyForm
  <2>2. CASE t = DelBuddy(s, name, Buddies0)  BY <1>2, <2>2, DelBuddyForm
  <2>. QED  BY <2>1, <2>2
<1>4. ASSUME NEW b, t = Sync(b), Edited(s, b) PROVE Idle(t, <<>>, full) \/ EditAsked(t, <<>>, full)
  <2>1. /\ b \in SsiStates /\ b.official = s.official /\ Alongside(s, b)
        /\ Copy(b.local) /\ Alike(b.local, b.official)
    BY <1>4 DEF Edited
  <2>2. Resting(b) /\ b.sent = <<>>  BY <1>2, <2>1 DEF Alongside, Resting, Sane
  <2>. QED  BY <1>2, <1>4, <2>1, <2>2, SyncSettles
<1>. QED  BY <1>3, <1>4

LEMMA IdleServed ==
  ASSUME NEW s, NEW full, Idle(s, <<>>, full), s.sent # <<>>, NEW t, t = [s EXCEPT !.sent = Tail(@)]
  PROVE  Head(s.sent).kind \in {"enable", "editstop"} /\ Idle(t, <<>>, full)
<1>1. SameAs(s, full) /\ AllIn(s.sent, {"enable", "editstop"}) /\ s \in SsiStates
  BY DEF Idle, SameAs, Resting, Sane
<1>2. s.sent \in Seq(SsiRequests)  BY <1>1 DEF SsiStates
<1>3. Head(s.sent).kind \in {"enable", "editstop"} /\ AllIn(Tail(s.sent), {"enable", "editstop"})
  BY <1>1, <1>2, AllInTail
<1>4. /\ t \in SsiStates /\ t.local = s.local /\ t.official = s.official /\ t.pending = s.pending
      /\ t.waiting = s.waiting /\ t.up = s.up /\ t.sent = Tail(s.sent)
  BY <1>1, SentTail
<1>5. SameAs(t, full)  BY <1>1, <1>4 DEF SameAs, Resting, Sane
<1>. QED  BY <1>3, <1>4, <1>5 DEF Idle

LEMMA AskedServed ==
  ASSUME NEW s, NEW full, EditAsked(s, <<>>, full), NEW refuse,
         NEW t, t = [s EXCEPT !.sent = Tail(@)],
         NEW done, done = ApplyAll(full, Head(s.sent).kind, Head(s.sent).items, refuse)
  PROVE  /\ Head(s.sent).kind \in Edits
         /\ EditAnswered(t, <<[kind |-> "ack", items |-> done.acks]>>, done.list)
         /\ Pristine(done.list)
<1>1. Sane(s) /\ s.up /\ Asks(s) /\ s.sent = <<EditRequest(s)>> /\ Contents(s.official) = full /\ s \in SsiStates
  BY DEF EditAsked, Sane
<1>2. PICK kind \in Edits, items \in Seq(AnyItems) : kind = Changes(s).kind /\ items = Changes(s).items
  BY <1>1, ChangesAreItems DEF Edits
<1>3. PICK bare \in Seq(AnyItems) : bare = Contents(items) /\ Len(bare) = Len(items)  BY ContentsForm
<1>4. Head(s.sent).kind = kind /\ Head(s.sent).items = bare /\ s.sent # <<>>
  <2>1. PICK r : r = EditRequest(s)  OBVIOUS
  <2>2. s.sent = <<r>>  BY <1>1, <2>1
  <2>3. Head(s.sent) = r /\ s.sent # <<>>  BY <2>2
  <2>. QED  BY <1>2, <1>3, <2>1, <2>3 DEF EditRequest
<1>5. Tail(s.sent) = <<>>  BY <1>1
<1>6. /\ t \in SsiStates /\ t.local = s.local /\ t.official = s.official /\ t.pending = s.pending
      /\ t.waiting = s.waiting /\ t.up = s.up /\ t.sent = <<>>
  BY <1>1, <1>4, <1>5, SentTail
<1>7. Sane(t) /\ t.up  BY <1>1, <1>6 DEF Sane
<1>8. Changes(t) = Changes(s)  BY <1>6, ChangesDepend
<1>9. Asks(t)  BY <1>1, <1>6, <1>8 DEF Asks
<1>10. full \in Seq(AnyItems)
  <2>1. s.official \in Seq(AnyItems)  BY <1>1 DEF SsiStates
  <2>. QED  BY <1>1, <2>1, ContentsForm
<1>11. done = ApplyAll(full, kind, bare, refuse)  BY <1>4
<1>12. PICK b : /\ b[0] = full /\ b[Len(bare)] = done.list
                /\ done.acks \in Seq(BOOLEAN) /\ Len(done.acks) = Len(bare)
                /\ \A k \in 1 .. Len(bare) :
                     b[k] = IF done.acks[k] THEN Apply(b[k - 1], kind, bare[k]) ELSE b[k - 1]
  BY <1>10, <1>11, ApplyAllForm
<1>13. PICK acks \in Seq(BOOLEAN) : acks = done.acks  BY <1>12
<1>14. ComesOf(b, Contents(t.official), Changes(t).kind, Contents(Changes(t).items), acks)
       /\ Len(acks) = Len(Changes(t).items)
  BY <1>1, <1>2, <1>3, <1>6, <1>8, <1>12, <1>13 DEF ComesOf
<1>15. PICK u : /\ ParseAck(t, acks) = Sync(u) /\ Resting(u) /\ u.sent = t.sent
                /\ Contents(u.official) = b[Len(acks)]
  <2>1. TakenIn(t, acks, b[Len(acks)])  BY <1>7, <1>9, <1>14, AnswersTaken
  <2>. QED  BY <2>1 DEF TakenIn
<1>16. Contents(u.official) = done.list /\ u.sent = <<>>  BY <1>6, <1>12, <1>13, <1>15
<1>17. EditAnswered(t, <<[kind |-> "ack", items |-> done.acks]>>, done.list)
  BY <1>6, <1>7, <1>13, <1>15, <1>16 DEF EditAnswered
<1>18. Pristine(done.list)
  <2>1. Copy(u.official)  BY <1>15 DEF Resting, Sane
  <2>. QED  BY <1>16, <2>1, PristineForm
<1>. QED  BY <1>2, <1>4, <1>17, <1>18

LEMMA AnswerReceived ==
  ASSUME NEW s, NEW q, NEW full, EditAnswered(s, q, full)
  PROVE  q # <<>> /\ (Idle(Received(s, Head(q)), Tail(q), full) \/ EditAsked(Received(s, Head(q)), Tail(q), full))
<1>1. PICK acks, t : /\ q = <<[kind |-> "ack", items |-> acks]>> /\ ParseAck(s, acks) = Sync(t)
                     /\ Resting(t) /\ t.sent = <<>> /\ Contents(t.official) = full
  BY DEF EditAnswered
<1>2. PICK m : m = [kind |-> "ack", items |-> acks]  OBVIOUS
<1>3. m.kind = "ack" /\ m.items = acks /\ q = <<m>>  BY <1>1, <1>2
<1>4. Head(q) = m /\ Tail(q) = <<>> /\ q # <<>>  BY <1>3
<1>5. Received(s, m) = Sync(t)  BY <1>1, <1>3, ReceivedForm
<1>6. Idle(Sync(t), <<>>, full) \/ EditAsked(Sync(t), <<>>, full)  BY <1>1, SyncSettles
<1>. QED  BY <1>4, <1>5, <1>6

LEMMA ToldReceived ==
  ASSUME NEW s, NEW q, NEW full, ChangeTold(s, q, full)
  PROVE  q # <<>> /\ Idle(Received(s, Head(q)), Tail(q), full)
<1>1. PICK m : q = <<m>> /\ m.kind \in Edits /\ SameAs(Heard(s, m), full) /\ Heard(s, m).sent = <<>>
  BY DEF ChangeTold
<1>2. Head(q) = m /\ Tail(q) = <<>> /\ q # <<>>  BY <1>1
<1>3. Received(s, m) = Heard(s, m)  BY <1>1, ReceivedForm
<1>4. AllIn(<<>>, {"enable", "editstop"})  BY NoneInNothing
<1>. QED  BY <1>1, <1>2, <1>3, <1>4 DEF Idle

-----------------------------------------------------------------------------
(* What the other client can do.                                           *)
OtherChanges(full, name, alias) ==
  LET p == FindPermit(full, name)
      bs == {i \in DOMAIN full : full[i].type = "buddy" /\ full[i].alias # alias}
      permit == IF p = 0 THEN Item(name, Master, NewBid(full, Master), "permit") ELSE full[p]
  IN  {<<IF p = 0 THEN "add" ELSE "del", permit>>}
        \cup {<<"mod", [full[i] EXCEPT !.alias = alias]>> : i \in bs}

LEMMA FindPermitForm ==
  ASSUME NEW list \in Seq(AnyItems), NEW name
  PROVE  FindPermit(list, name) \in 0 .. Len(list)
<1>1. Len(list) \in Nat /\ DOMAIN list = 1 .. Len(list)  BY LenProperties
<1>2. PICK I : I = {i \in DOMAIN list : list[i].type = "permit" /\ list[i].name = name}  OBVIOUS
<1>3. FindPermit(list, name) = IF I # {} THEN Min(I) ELSE 0  BY <1>1, <1>2 DEF FindPermit, SelectInSeq
<1>4. I # {} => Min(I) \in I
  <2>1. I \in SUBSET Nat  BY <1>1, <1>2
  <2>. QED  BY <2>1, LeastIsMin
<1>5. CASE I = {}  BY <1>1, <1>3, <1>5
<1>6. CASE I # {}
  <2>1. PICK f \in I : f = FindPermit(list, name)  BY <1>3, <1>4, <1>6
  <2>. QED  BY <1>1, <1>2, <2>1
<1>. QED  BY <1>5, <1>6

LEMMA OtherChangesForm ==
  ASSUME NEW full, Pristine(full), NEW name \in STRING, NEW alias \in STRING,
         NEW c \in OtherChanges(full, name, alias), c[1] = "add" => Find(full, Master, 0) # 0
  PROVE  /\ c[1] \in Edits /\ c[2] \in AnyItems /\ Bare(c[2]) = c[2]
         /\ c[1] = "add" => Lacks(full, c[2].gid, c[2].bid) /\ (c[2].bid = 0 => c[2].type = "group")
         /\ c[1] # "add" => \E i \in DOMAIN full : /\ full[i].gid = c[2].gid /\ full[i].bid = c[2].bid
                                                   /\ full[i].type = c[2].type
<1>1. PICK n \in Nat : full \in Seq(AnyItems) /\ n = Len(full) /\ DOMAIN full = 1 .. n
                       /\ \A i \in 1 .. n : full[i] \in AnyItems /\ Bare(full[i]) = full[i]
  <2>1. full \in Seq(AnyItems)  BY DEF Pristine
  <2>. QED  BY <2>1, ItemNumbers DEF Pristine
<1>2. PICK p \in 0 .. n : p = FindPermit(full, name)  BY <1>1, FindPermitForm
<1>3. CASE p = 0 /\ c = <<"add", Item(name, Master, NewBid(full, Master), "permit")>>
  <2>1. c[1] = "add" /\ c[2] = Item(name, Master, NewBid(full, Master), "permit")  BY <1>3
  <2>2. PICK bid \in Nat : bid = NewBid(full, Master) /\ Lacks(full, Master, bid)  BY <1>1, NewBidForm
  <2>3. PICK i \in 0 .. n : i = Find(full, Master, 0) /\ i # 0  BY <1>1, <2>1, FindForm
  <2>4. full[i].gid = Master /\ full[i].bid = 0 /\ i \in DOMAIN full  BY <1>1, <2>3, FindForm
  <2>5. bid # 0  BY <1>1, <2>2, <2>4, NewBidForm
  <2>6. PICK x \in AnyItems : x = c[2] /\ x.gid = Master /\ x.bid = bid /\ x.type = "permit" /\ x.ref = 0
    <3>1. Master \in Nat  BY DEF Master
    <3>. QED  BY <2>1, <2>2, <3>1, ItemForm DEF ItemIs
  <2>7. Bare(x) = x  BY <2>6, BareForm
  <2>. QED  BY <2>1, <2>2, <2>5, <2>6, <2>7 DEF Edits
<1>4. CASE p # 0 /\ c = <<"del", full[p]>>
  <2>1. c[1] = "del" /\ c[2] = full[p] /\ p \in 1 .. n  BY <1>4
  <2>. QED  BY <1>1, <2>1 DEF Edits
<1>5. ASSUME NEW i \in DOMAIN full, c = <<"mod", [full[i] EXCEPT !.alias = alias]>>
      PROVE  /\ c[1] \in Edits /\ c[2] \in AnyItems /\ Bare(c[2]) = c[2] /\ c[1] # "add"
             /\ full[i].gid = c[2].gid /\ full[i].bid = c[2].bid /\ full[i].type = c[2].type
  <2>1. c[1] = "mod" /\ c[2] = [full[i] EXCEPT !.alias = alias]  BY <1>5
  <2>2. PICK y \in AnyItems : y = full[i] /\ Bare(y) = y  BY <1>1
  <2>3. y.ref = 0
    <3>1. Bare(y).ref = 0  BY BareForm
    <3>. QED  BY <2>2, <3>1
  <2>4. PICK x \in AnyItems : x = c[2] /\ x.gid = y.gid /\ x.bid = y.bid /\ x.type = y.type /\ x.ref = y.ref
    BY <2>1, <2>2 DEF AnyItems
  <2>5. Bare(x) = x  BY <2>3, <2>4, BareForm
  <2>. QED  BY <2>1, <2>2, <2>4, <2>5 DEF Edits
<1>6. \/ p = 0 /\ c = <<"add", Item(name, Master, NewBid(full, Master), "permit")>>
      \/ p # 0 /\ c = <<"del", full[p]>>
      \/ \E i \in DOMAIN full : c = <<"mod", [full[i] EXCEPT !.alias = alias]>>
  <2>1. \/ c = <<IF p = 0 THEN "add" ELSE "del",
                 IF p = 0 THEN Item(name, Master, NewBid(full, Master), "permit") ELSE full[p]>>
        \/ \E i \in DOMAIN full : c = <<"mod", [full[i] EXCEPT !.alias = alias]>>
    BY <1>2, Zenon DEF OtherChanges
  <2>. QED  BY <2>1
<1>. QED  BY <1>3, <1>4, <1>5, <1>6

LEMMA IdleTold ==
  ASSUME NEW s, NEW full, Pristine(full), Idle(s, <<>>, full), s.sent = <<>>,
         NEW name \in STRING, NEW alias \in STRING, NEW c \in OtherChanges(full, name, alias),
         c[1] = "add" => Find(full, Master, 0) # 0
  PROVE  /\ ChangeTold(s, <<[kind |-> c[1], items |-> <<c[2]>>]>>, Apply(full, c[1], c[2]))
         /\ Pristine(Apply(full, c[1], c[2]))
<1>1. SameAs(s, full)  BY DEF Idle
<1>2. PICK kind \in Edits, x \in AnyItems :
        /\ kind = c[1] /\ x = c[2] /\ Bare(x) = x
        /\ kind = "add" => Lacks(full, x.gid, x.bid) /\ (x.bid = 0 => x.type = "group")
        /\ kind # "add" => \E i \in DOMAIN full : /\ full[i].gid = x.gid /\ full[i].bid = x.bid
                                                  /\ full[i].type = x.type
  BY OtherChangesForm
<1>3. PICK m : m = [kind |-> kind, items |-> <<x>>]  OBVIOUS
<1>4. SameAs(Heard(s, m), Apply(full, kind, x)) /\ Heard(s, m).sent = <<>> /\ Pristine(Apply(full, kind, x))
  BY <1>1, <1>2, <1>3, OthersHeard
<1>5. m.kind \in Edits  BY <1>3
<1>6. ChangeTold(s, <<m>>, Apply(full, kind, x))  BY <1>1, <1>4, <1>5 DEF ChangeTold, SameAs
<1>. QED  BY <1>2, <1>3, <1>4, <1>6

-----------------------------------------------------------------------------
(* Where a login has got to.                                               *)
StillLoading(s, q, full) ==
  \/ RightsAsked(s, q) \/ RightsAnswered(s, q) \/ AgainAsked(s, q) \/ AgainAnswered(s, q)
  \/ DataAsked(s, q) \/ FirstPart(s, q, full) \/ LastPart(s, q, full)
Phase(s, q, full) ==
  \/ Down(s, q) \/ StillLoading(s, q, full) \/ Idle(s, q, full)
  \/ EditAsked(s, q, full) \/ EditAnswered(s, q, full) \/ ChangeTold(s, q, full)

LEMMA HoldsSome ==
  ASSUME NEW q, NEW k, NEW before, NEW after, Holds(q, k, before, after)
  PROVE  q # <<>>
<1>1. DOMAIN <<>> = {}  OBVIOUS
<1>. QED  BY <1>1 DEF Holds

LEMMA LoadingIsBusy ==
  ASSUME NEW s, NEW q, NEW full, StillLoading(s, q, full)
  PROVE  s.up /\ ~(s.sent = <<>> /\ q = <<>>)
<1>1. CASE RightsAsked(s, q)  BY <1>1, HoldsSome DEF RightsAsked, Loading
<1>2. CASE RightsAnswered(s, q)  BY <1>2, HoldsSome DEF RightsAnswered, Loading
<1>3. CASE AgainAsked(s, q)  BY <1>3, HoldsSome DEF AgainAsked, Loading
<1>4. CASE AgainAnswered(s, q)  BY <1>4, HoldsSome DEF AgainAnswered, Loading
<1>5. CASE DataAsked(s, q)  BY <1>5, HoldsSome DEF DataAsked, Loading
<1>6. CASE FirstPart(s, q, full)
  <2>1. PICK a, b : q = <<a, b>>  BY <1>6 DEF FirstPart
  <2>. QED  BY <1>6, <2>1 DEF FirstPart, Loading
<1>7. CASE LastPart(s, q, full)
  <2>1. PICK a : q = <<a>>  BY <1>7 DEF LastPart
  <2>. QED  BY <1>7, <2>1 DEF LastPart, Loading
<1>. QED  BY <1>1, <1>2, <1>3, <1>4, <1>5, <1>6, <1>7 DEF StillLoading

LEMMA PhaseSettled ==
  ASSUME NEW s, NEW q, NEW full, Phase(s, q, full)
  PROVE  /\ Down(s, q) \/ s.up
         /\ s.up /\ s.sent = <<>> /\ q = <<>> => Idle(s, <<>>, full)
<1>1. CASE Down(s, q)  BY <1>1, NoListForm DEF Down
<1>2. CASE StillLoading(s, q, full)  BY <1>2, LoadingIsBusy
<1>3. CASE Idle(s, q, full)  BY <1>3 DEF Idle, SameAs, Resting
<1>4. CASE EditAsked(s, q, full)
  <2>1. s.sent # <<>>  BY <1>4 DEF EditAsked
  <2>. QED  BY <1>4, <2>1 DEF EditAsked
<1>5. CASE EditAnswered(s, q, full)
  <2>1. q # <<>>  BY <1>5 DEF EditAnswered
  <2>. QED  BY <1>5, <2>1 DEF EditAnswered
<1>6. CASE ChangeTold(s, q, full)
  <2>1. q # <<>>  BY <1>6 DEF ChangeTold
  <2>. QED  BY <1>6, <2>1 DEF ChangeTold, Resting
<1>. QED  BY <1>1, <1>2, <1>3, <1>4, <1>5, <1>6 DEF Phase

LEMMA LoadingAsksNoEdit ==
  ASSUME NEW s, NEW q, NEW full, StillLoading(s, q, full), s.sent # <<>>
  PROVE  Head(s.sent).kind \notin Edits
<1>1. s.sent \in Seq(SsiRequests)
  <2>1. Loading(s)
    BY DEF StillLoading, RightsAsked, RightsAnswered, AgainAsked, AgainAnswered, DataAsked, FirstPart, LastPart
  <2>. QED  BY <2>1 DEF Loading, SsiStates
<1>2. "buddyrights" \notin Before /\ "reqrights" \notin Later /\ "reqdata" \notin Enable
  BY DEF Before, Later, Enable
<1>3. CASE RightsAsked(s, q)
  <2>1. Head(s.sent).kind = "buddyrights" \/ Head(s.sent).kind \in Before
    BY <1>1, <1>2, <1>3, HoldsTail DEF RightsAsked
  <2>. QED  BY <2>1 DEF Before, Edits
<1>4. CASE AgainAsked(s, q)
  <2>1. Head(s.sent).kind = "reqrights" \/ Head(s.sent).kind \in Later
    BY <1>1, <1>2, <1>4, HoldsTail DEF AgainAsked
  <2>. QED  BY <2>1 DEF Later, Edits
<1>5. CASE DataAsked(s, q)
  <2>1. Head(s.sent).kind = "reqdata" \/ Head(s.sent).kind \in Enable
    BY <1>1, <1>2, <1>5, HoldsTail DEF DataAsked
  <2>. QED  BY <2>1 DEF Enable, Edits
<1>6. CASE RightsAnswered(s, q)
  <2>1. Head(s.sent).kind \in Later  BY <1>1, <1>6, AllInTail DEF RightsAnswered
  <2>. QED  BY <2>1 DEF Later, Edits
<1>7. CASE AllIn(s.sent, Enable)
  <2>1. Head(s.sent).kind \in Enable  BY <1>1, <1>7, AllInTail
  <2>. QED  BY <2>1 DEF Enable, Edits
<1>. QED  BY <1>3, <1>4, <1>5, <1>6, <1>7 DEF StillLoading, AgainAnswered, FirstPart, LastPart

LEMMA LoadingServed ==
  ASSUME NEW s, NEW q, NEW full, StillLoading(s, q, full), s.sent # <<>>, Pristine(full), NEW new,
         Replies(q, new, Head(s.sent), full), NEW t, t = [s EXCEPT !.sent = Tail(@)]
  PROVE  StillLoading(t, new, full)
<1>1. CASE RightsAsked(s, q)  BY <1>1, RightsServed DEF StillLoading
<1>2. CASE RightsAnswered(s, q)  BY <1>2, LaterServed DEF StillLoading
<1>3. CASE AgainAsked(s, q)  BY <1>3, AgainServed DEF StillLoading
<1>4. CASE AgainAnswered(s, q)
  <2>1. Loading(s) /\ AllIn(s.sent, Enable) /\ q \in Seq(Loads) /\ Holds(q, "reqrights", Data, {})
    BY <1>4 DEF AgainAnswered
  <2>2. new = q /\ Loading(t) /\ AllIn(t.sent, Enable) /\ t.local = s.local /\ t.official = s.official
    <3>1. Loading(t) /\ t.sent = Tail(s.sent) /\ t.local = s.local /\ t.official = s.official
          /\ s.sent \in Seq(SsiRequests)
      BY <2>1, LoadingTail
    <3>2. new = q /\ AllIn(Tail(s.sent), Enable)  BY <2>1, <3>1, EnableServed
    <3>. QED  BY <3>1, <3>2
  <2>. QED  BY <2>1, <2>2 DEF StillLoading, AgainAnswered
<1>5. CASE DataAsked(s, q)  BY <1>5, DataServed DEF StillLoading
<1>6. CASE FirstPart(s, q, full)
  <2>1. Loading(s) /\ AllIn(s.sent, Enable) /\ s.local = <<>> /\ s.official = <<>>  BY <1>6 DEF FirstPart
  <2>2. PICK first \in Seq(AnyItems), rest \in Seq(AnyItems) : q = <<Part("more", first), Part("list", rest)>>
    BY <1>6 DEF FirstPart
  <2>3. q \in Seq(Loads)
    <3>1. PICK a \in Loads, b \in Loads : a = Part("more", first) /\ b = Part("list", rest)  BY PartForm
    <3>. QED  BY <2>2, <3>1, TwoForm
  <2>4. new = q /\ Loading(t) /\ AllIn(t.sent, Enable) /\ t.local = s.local /\ t.official = s.official
    <3>1. Loading(t) /\ t.sent = Tail(s.sent) /\ t.local = s.local /\ t.official = s.official
          /\ s.sent \in Seq(SsiRequests)
      BY <2>1, LoadingTail
    <3>2. new = q /\ AllIn(Tail(s.sent), Enable)  BY <2>1, <3>1, EnableServed
    <3>. QED  BY <3>1, <3>2
  <2>. QED  BY <1>6, <2>1, <2>4 DEF StillLoading, FirstPart
<1>7. CASE LastPart(s, q, full)
  <2>1. Loading(s) /\ AllIn(s.sent, Enable) /\ s.local = <<>>  BY <1>7 DEF LastPart
  <2>2. PICK rest \in Seq(AnyItems) : q = <<Part("list", rest)>>  BY <1>7 DEF LastPart
  <2>3. q \in Seq(Loads)
    <3>1. PICK b \in Loads : b = Part("list", rest)  BY PartForm
    <3>. QED  BY <2>2, <3>1
  <2>4. new = q /\ Loading(t) /\ AllIn(t.sent, Enable) /\ t.local = s.local /\ t.official = s.official
    <3>1. Loading(t) /\ t.sent = Tail(s.sent) /\ t.local = s.local /\ t.official = s.official
          /\ s.sent \in Seq(SsiRequests)
      BY <2>1, LoadingTail
    <3>2. new = q /\ AllIn(Tail(s.sent), Enable)  BY <2>1, <3>1, EnableServed
    <3>. QED  BY <3>1, <3>2
  <2>. QED  BY <1>7, <2>1, <2>4 DEF StillLoading, LastPart
<1>. QED  BY <1>1, <1>2, <1>3, <1>4, <1>5, <1>6, <1>7 DEF StillLoading

LEMMA LoadingReceived ==
  ASSUME NEW s, NEW q, NEW full, StillLoading(s, q, full), q # <<>>, Pristine(full)
  PROVE  StillLoading(Received(s, Head(q)), Tail(q), full) \/ Idle(Received(s, Head(q)), Tail(q), full)
<1>1. CASE RightsAsked(s, q)  BY <1>1, RightsTaken DEF StillLoading
<1>2. CASE RightsAnswered(s, q)  BY <1>2, AnswersReceived DEF StillLoading
<1>3. CASE AgainAsked(s, q)  BY <1>3, AgainTaken DEF StillLoading
<1>4. CASE AgainAnswered(s, q)  BY <1>4, AgainReceived DEF StillLoading
<1>5. CASE DataAsked(s, q)  BY <1>5 DEF DataAsked
<1>6. CASE FirstPart(s, q, full)  BY <1>6, FirstPartTaken DEF StillLoading
<1>7. CASE LastPart(s, q, full)  BY <1>7, LastPartTaken
<1>. QED  BY <1>1, <1>2, <1>3, <1>4, <1>5, <1>6, <1>7 DEF StillLoading

-----------------------------------------------------------------------------
(* The invariant.                                                          *)
CopiesInv == Pristine(server) /\ Phase(ssi, toClient, server)

LEMMA CopiesStart ==
  SsiInit => CopiesInv
<1>1. SUFFICES ASSUME SsiInit PROVE CopiesInv  OBVIOUS
<1>2. ASSUME NEW x \in SsiItems PROVE x \in AnyItems  BY DEF SsiItems, AnyItems
<1>3. InitialList \in Seq(AnyItems)
  <2>1. SsiItems \subseteq AnyItems  BY <1>2
  <2>. QED  BY <2>1, SsiAssumption, SeqMonotonic
<1>4. ASSUME NEW i \in DOMAIN InitialList PROVE Bare(InitialList[i]) = InitialList[i]
  <2>1. PICK x : x = InitialList[i]  OBVIOUS
  <2>2. x \in AnyItems /\ x.ref = 0  BY <1>3, <2>1, ItemNumbers, SsiAssumption
  <2>. QED  BY <2>1, <2>2, BareForm
<1>5. Pristine(InitialList)  BY <1>3, <1>4, SsiAssumption DEF Pristine
<1>. QED  BY <1>1, <1>5 DEF SsiInit, CopiesInv, Phase, Down

LEMMA ServeKeepsPhase ==
  ASSUME CopiesInv, Serve
  PROVE  CopiesInv'
<1>1. PICK s, q, full : s = ssi /\ q = toClient /\ full = server  OBVIOUS
<1>2. Pristine(full) /\ Phase(s, q, full) /\ s.sent # <<>>  BY <1>1 DEF CopiesInv, Serve
<1>3. PICK t : t = [s EXCEPT !.sent = Tail(@)]  OBVIOUS
<1>4. ssi' = t  BY <1>1, <1>3 DEF Serve
<1>5. PICK r : r = Head(s.sent)  OBVIOUS
<1>6. \/ server' = full /\ Replies(q, toClient', r, full)
      \/ /\ r.kind \in Edits
         /\ \E refuse, done : /\ done = ApplyAll(full, r.kind, r.items, refuse) /\ server' = done.list
                              /\ toClient' = Append(q, [kind |-> "ack", items |-> done.acks])
  <2>1. CASE r.kind \in {"reqrights", "buddyrights"} /\ Answer([kind |-> r.kind, items |-> <<>>]) /\ UNCHANGED server
    BY <1>1, <2>1 DEF Replies, Answer
  <2>2. CASE r.kind \in {"editstop", "enable"} /\ UNCHANGED <<toClient, server>>
    BY <1>1, <2>2 DEF Replies
  <2>3. CASE /\ r.kind = "reqdata" /\ UNCHANGED server
             /\ \E n \in {Len(server), Len(server) \div 2} :
                  toClient' = toClient \o
                    (IF n = Len(server) THEN <<>>
                     ELSE <<[kind |-> "more", items |-> SubSeq(server, 1, n)]>>)
                    \o <<[kind |-> "list", items |-> IF n = Len(server) THEN server
                                                    ELSE SubSeq(server, n + 1, Len(server))]>>
    <3>1. NowSends(q, toClient', full)  BY <1>1, <2>3, Zenon DEF NowSends
    <3>. QED  BY <1>1, <2>3, <3>1 DEF Replies
  <2>4. CASE /\ r.kind \in {"add", "mod", "del"}
             /\ \E refuse \in SUBSET DOMAIN r.items :
                  /\ Cardinality(refuse) <= 1
                  /\ LET done == ApplyAll(server, r.kind, r.items, refuse)
                     IN  /\ server' = done.list
                         /\ Answer([kind |-> "ack", items |-> done.acks])
    <3>1. r.kind \in Edits  BY <2>4 DEF Edits
    <3>2. PICK refuse : LET done == ApplyAll(server, r.kind, r.items, refuse)
                        IN  /\ server' = done.list
                            /\ Answer([kind |-> "ack", items |-> done.acks])
      BY <2>4
    <3>3. PICK done : done = ApplyAll(full, r.kind, r.items, refuse)  OBVIOUS
    <3>4. server' = done.list /\ toClient' = Append(q, [kind |-> "ack", items |-> done.acks])
      BY <1>1, <3>2, <3>3, Zenon DEF Answer
    <3>. QED  BY <3>1, <3>3, <3>4
  <2>. QED  BY <1>1, <1>5, <2>1, <2>2, <2>3, <2>4, Zenon DEF Serve
<1>7. CASE StillLoading(s, q, full)
  <2>1. server' = full /\ Replies(q, toClient', r, full)  BY <1>2, <1>5, <1>6, <1>7, LoadingAsksNoEdit
  <2>2. PICK new : new = toClient'  OBVIOUS
  <2>3. StillLoading(t, new, full)  BY <1>2, <1>3, <1>5, <1>7, <2>1, <2>2, LoadingServed
  <2>. QED  BY <1>2, <1>4, <2>1, <2>2, <2>3 DEF CopiesInv, Phase
<1>8. CASE Idle(s, q, full)
  <2>1. q = <<>> /\ Idle(s, <<>>, full)  BY <1>8 DEF Idle
  <2>2. r.kind \in {"enable", "editstop"} /\ Idle(t, <<>>, full)  BY <1>2, <1>3, <1>5, <2>1, IdleServed
  <2>3. server' = full /\ toClient' = <<>>
    <3>1. r.kind \notin Edits  BY <2>2 DEF Edits
    <3>2. server' = full /\ Replies(q, toClient', r, full)  BY <1>6, <3>1
    <3>. QED  BY <2>1, <2>2, <3>2 DEF Replies
  <2>. QED  BY <1>2, <1>4, <2>2, <2>3 DEF CopiesInv, Phase
<1>9. CASE EditAsked(s, q, full)
  <2>1. q = <<>> /\ EditAsked(s, <<>>, full)  BY <1>9 DEF EditAsked
  <2>2. ASSUME NEW refuse, NEW done, done = ApplyAll(full, r.kind, r.items, refuse)
        PROVE  /\ r.kind \in Edits /\ Pristine(done.list)
               /\ EditAnswered(t, <<[kind |-> "ack", items |-> done.acks]>>, done.list)
    BY <1>3, <1>5, <2>1, <2>2, AskedServed
  <2>3. r.kind \in Edits
    <3>1. PICK done : done = ApplyAll(full, r.kind, r.items, {})  OBVIOUS
    <3>. QED  BY <2>2, <3>1
  <2>4. ~Replies(q, toClient', r, full)  BY <2>3 DEF Replies, Edits
  <2>5. PICK refuse, done : /\ done = ApplyAll(full, r.kind, r.items, refuse) /\ server' = done.list
                            /\ toClient' = Append(q, [kind |-> "ack", items |-> done.acks])
    BY <1>6, <2>4
  <2>6. toClient' = <<[kind |-> "ack", items |-> done.acks]>>  BY <2>1, <2>5
  <2>. QED  BY <1>4, <2>2, <2>5, <2>6 DEF CopiesInv, Phase
<1>10. CASE Down(s, q)  BY <1>2, <1>10, NoListForm DEF Down
<1>11. CASE EditAnswered(s, q, full)  BY <1>2, <1>11 DEF EditAnswered
<1>12. CASE ChangeTold(s, q, full)  BY <1>2, <1>12 DEF ChangeTold
<1>. QED  BY <1>2, <1>7, <1>8, <1>9, <1>10, <1>11, <1>12 DEF Phase

LEMMA ReceiveKeepsPhase ==
  ASSUME CopiesInv, Receive
  PROVE  CopiesInv'
<1>1. PICK s, q, full : s = ssi /\ q = toClient /\ full = server  OBVIOUS
<1>2. Pristine(full) /\ Phase(s, q, full) /\ q # <<>>  BY <1>1 DEF CopiesInv, Receive
<1>3. ssi' = Received(s, Head(q)) /\ toClient' = Tail(q) /\ server' = full
  BY <1>1 DEF Receive, Received
<1>4. PICK t, new : t = Received(s, Head(q)) /\ new = Tail(q)  OBVIOUS
<1>5. Phase(t, new, full)
  <2>1. CASE Down(s, q)  BY <1>2, <2>1 DEF Down
  <2>2. CASE StillLoading(s, q, full)  BY <1>2, <1>4, <2>2, LoadingReceived DEF Phase
  <2>3. CASE Idle(s, q, full)  BY <1>2, <2>3 DEF Idle
  <2>4. CASE EditAsked(s, q, full)  BY <1>2, <2>4 DEF EditAsked
  <2>5. CASE EditAnswered(s, q, full)  BY <1>4, <2>5, AnswerReceived DEF Phase
  <2>6. CASE ChangeTold(s, q, full)  BY <1>4, <2>6, ToldReceived DEF Phase
  <2>. QED  BY <1>2, <2>1, <2>2, <2>3, <2>4, <2>5, <2>6 DEF Phase
<1>. QED  BY <1>2, <1>3, <1>4, <1>5 DEF CopiesInv

LEMMA EditKeepsPhase ==
  ASSUME CopiesInv, ~Impatient, Edit
  PROVE  CopiesInv'
<1>1. PICK s, full : s = ssi /\ full = server  OBVIOUS
<1>2. Pristine(full) /\ Idle(s, <<>>, full) /\ s.sent = <<>> /\ toClient = <<>>
  <2>1. s.up /\ s.sent = <<>> /\ toClient = <<>>  BY <1>1 DEF Edit, Settled, Quiet
  <2>. QED  BY <1>1, <2>1, PhaseSettled DEF CopiesInv
<1>3. PICK name \in Buddies : ssi' \in {AddBuddy(s, name, Buddies0), DelBuddy(s, name, Buddies0)}
  BY <1>1 DEF Edit
<1>4. name \in STRING  BY SsiAssumption
<1>5. PICK t \in {AddBuddy(s, name, Buddies0), DelBuddy(s, name, Buddies0)} : t = ssi'  BY <1>3
<1>6. Idle(t, <<>>, full) \/ EditAsked(t, <<>>, full)  BY <1>2, <1>4, IdleEdited
<1>7. toClient' = <<>> /\ server' = full  BY <1>1, <1>2 DEF Edit
<1>. QED  BY <1>2, <1>5, <1>6, <1>7 DEF CopiesInv, Phase

LEMMA OtherClientKeepsPhase ==
  ASSUME CopiesInv, ~Impatient, OtherClient
  PROVE  CopiesInv'
<1>1. PICK s, full : s = ssi /\ full = server  OBVIOUS
<1>2. Pristine(full) /\ Idle(s, <<>>, full) /\ s.sent = <<>> /\ toClient = <<>>
  <2>1. s.up /\ s.sent = <<>> /\ toClient = <<>>  BY <1>1 DEF OtherClient, Settled, Quiet
  <2>. QED  BY <1>1, <2>1, PhaseSettled DEF CopiesInv
<1>3. PICK name \in Buddies, alias \in Aliases :
        \E c \in OtherChanges(full, name, alias) :
          /\ c[1] = "add" => Find(full, Master, 0) # 0
          /\ server' = Apply(full, c[1], c[2])
          /\ toClient' = Append(toClient, [kind |-> c[1], items |-> <<c[2]>>])
  BY <1>1, Zenon DEF OtherClient, OtherChanges, Answer
<1>. PICK c \in OtherChanges(full, name, alias) :
        /\ c[1] = "add" => Find(full, Master, 0) # 0
        /\ server' = Apply(full, c[1], c[2])
        /\ toClient' = Append(toClient, [kind |-> c[1], items |-> <<c[2]>>])
  BY <1>3
<1>4. name \in STRING /\ alias \in STRING  BY SsiAssumption
<1>5. /\ ChangeTold(s, <<[kind |-> c[1], items |-> <<c[2]>>]>>, Apply(full, c[1], c[2]))
      /\ Pristine(Apply(full, c[1], c[2]))
  BY <1>2, <1>3, <1>4, IdleTold
<1>6. ssi' = s  BY <1>1 DEF OtherClient
<1>7. PICK m, now : m = [kind |-> c[1], items |-> <<c[2]>>] /\ now = Apply(full, c[1], c[2])  OBVIOUS
<1>8. ChangeTold(s, <<m>>, now) /\ Pristine(now) /\ server' = now /\ toClient' = <<m>>
  BY <1>2, <1>3, <1>5, <1>7
<1>. QED  BY <1>6, <1>8 DEF CopiesInv, Phase

LEMMA CopiesStep ==
  ASSUME CopiesInv, ~Impatient, [SsiNext]_ssiVars
  PROVE  CopiesInv'
<1>1. CASE Login  BY <1>1 DEF CopiesInv, Login, Phase, Down
<1>2. CASE ConnInitDone
  <2>1. PICK s, full : s = ssi /\ full = server  OBVIOUS
  <2>2. Pristine(full) /\ Phase(s, toClient, full) /\ ~s.up  BY <1>2, <2>1 DEF CopiesInv, ConnInitDone
  <2>3. s = NoList /\ toClient = <<>>  BY <2>2, PhaseSettled DEF Down
  <2>4. PICK t : t = Send(ReqData(Send([s EXCEPT !.up = TRUE], "reqrights", <<>>)), "buddyrights", <<>>)
    OBVIOUS
  <2>5. RightsAsked(t, <<>>)  BY <2>3, <2>4, ConnectionBegins
  <2>6. ssi' = t /\ toClient' = <<>> /\ server' = full  BY <1>2, <2>1, <2>3, <2>4 DEF ConnInitDone
  <2>. QED  BY <2>2, <2>5, <2>6 DEF CopiesInv, Phase, StillLoading
<1>3. CASE Serve  BY <1>3, ServeKeepsPhase
<1>4. CASE Receive  BY <1>4, ReceiveKeepsPhase
<1>5. CASE Edit  BY <1>5, EditKeepsPhase
<1>6. CASE OtherClient  BY <1>6, OtherClientKeepsPhase
<1>7. CASE UNCHANGED ssiVars  BY <1>7 DEF CopiesInv, ssiVars
<1>. QED  BY <1>1, <1>2, <1>3, <1>4, <1>5, <1>6, <1>7 DEF SsiNext

LEMMA CopiesFollow ==
  CopiesInv => CopiesAreExact
<1>1. SUFFICES ASSUME CopiesInv, Settled PROVE Idle(ssi, <<>>, server)
  BY DEF Idle, SameAs, Resting, CopiesAreExact
<1>. QED  BY <1>1, PhaseSettled DEF CopiesInv, Settled, Quiet

(* With nothing on its way both copies are what the server has, and no     *)
(* acknowledgement is awaited, as long as edits wait for that (ssi.c).     *)
THEOREM SsiSafe ==
  ASSUME ~Impatient
  PROVE  SsiSafetySpec => []CopiesAreExact
<1>1. SsiInit => CopiesInv  BY CopiesStart
<1>2. CopiesInv /\ [SsiNext]_ssiVars => CopiesInv'  BY CopiesStep
<1>3. CopiesInv => CopiesAreExact  BY CopiesFollow
<1>. QED  BY <1>1, <1>2, <1>3, PTL DEF SsiSafetySpec
=============================================================================
