-------------------------------- MODULE Ssi --------------------------------
(***************************************************************************)
(* The buddy list kept by the AIM server (libfaim/ssi.c) and its use by    *)
(* BarnOwl (aim.c).  The client has two lists of items, the official one   *)
(* and a local one that edits are made to; a sync sends the additions, or  *)
(* else the deletions, or else the modifications, and nothing more until   *)
(* they are acknowledged.  The server and another client of the same user  *)
(* are external.                                                           *)
(***************************************************************************)
EXTENDS Subsequences, SequencesExt

CONSTANTS
  Impatient,     \* edits are made at any time, not only when all is settled
  Buddies,       \* screen names
  Aliases,       \* aliases of buddies; "" is none
  InitialList,   \* what the server has to begin with
  MaxEdits,      \* bound on edits of the user and of the other client
  MaxLogins      \* bound on logins

VARIABLES
  ssi,           \* sess->ssi and what has been sent over the connection
  server,        \* the list on the server
  toClient,      \* what the server has sent
  edits, logins  \* edits left to make, logins made

ssiVars == <<ssi, server, toClient, edits, logins>>

Master  == 0
NoName  == ""
Buddies0 == "Buddies"       \* the group BarnOwl puts buddies into

Item(name, gid, bid, type) ==
  [ref |-> 0, name |-> name, gid |-> gid, bid |-> bid, type |-> type, members |-> <<>>, alias |-> ""]
SsiItems ==
  [ref : Nat, name : STRING, gid : Nat, bid : Nat, type : STRING, members : Seq(Nat), alias : STRING]
HasData(item) == item.members # <<>> \/ item.alias # ""

Precedes(a, b) == a.gid < b.gid \/ (a.gid = b.gid /\ a.bid < b.bid)

(* What the server has to begin with is in the order of its numbers, each  *)
(* of them once, and only groups have no number in their group.            *)
ByNumber(list) == \A i, j \in DOMAIN list : i < j => Precedes(list[i], list[j])
OnlyGroupsLead(list) == \A i \in DOMAIN list : list[i].bid = 0 => list[i].type = "group"

ASSUME SsiAssumption ==
  /\ Buddies \subseteq STRING /\ Aliases \subseteq STRING
  /\ InitialList \in Seq(SsiItems) /\ ByNumber(InitialList) /\ OnlyGroupsLead(InitialList)
  /\ \A i \in DOMAIN InitialList : InitialList[i].ref = 0

NoList == [local |-> <<>>, official |-> <<>>, pending |-> <<>>, waiting |-> FALSE,
           received |-> FALSE, up |-> FALSE, sent |-> <<>>]

-----------------------------------------------------------------------------
(* The lists.  ref stands for an item's address; one that was freed may be *)
(* given out again.                                                        *)

(* aim_ssi_itemlist_find, as a position.                                   *)
Find(list, gid, bid) == SelectInSeq(list, LAMBDA x : x.gid = gid /\ x.bid = bid)

(* aim_ssi_itemlist_finditem, of groups and of buddies.                    *)
FindGroup(list, name) ==
  SelectInSeq(list, LAMBDA x : x.type = "group" /\ x.name = name /\ (name # NoName => x.bid = 0))

FindBuddy(list, group, name) ==
  SelectInSeq(list, LAMBDA x : /\ x.type = "buddy" /\ x.name = name
                              /\ \E g \in ToSet(list) : g.type = "group" /\ g.gid = x.gid /\ g.name = group)

FindPermit(list, name) == SelectInSeq(list, LAMBDA x : x.type = "permit" /\ x.name = name)

(* aim_ssi_itemlist_valid.                                                 *)
FindRef(list, ref) == SelectInSeq(list, LAMBDA x : x.ref = ref)

FreshRef(s) ==
  LET used == {x.ref : x \in ToSet(s.local) \cup ToSet(s.official)}
  IN  Min((1 .. Cardinality(used) + 1) \ used)

(* A mutant: always behind the items that precede it.                      *)
InsertBehindEquals(list, new) == list \o <<new>>

(* The end of aim_ssi_itemlist_add.                                        *)
Insert(list, new) ==
  LET behind == {i \in 2 .. Len(list) : ~Precedes(list[i], new)}
  IN  IF list = <<>> \/ (list # <<>> /\ Precedes(new, Head(list))) THEN <<new>> \o list
      ELSE InsertAt(list, IF behind = {} THEN Len(list) + 1 ELSE Min(behind), new)

(* aim_ssi_itemlist_add, to the list called which.                         *)
Put(s, which, item) == [s EXCEPT ![which] = Insert(@, [item EXCEPT !.ref = FreshRef(s)])]

NewGid(list) == Min((0 .. Len(list)) \ {x.gid : x \in {y \in ToSet(list) : y.type = "group"}})
NewBid(list, gid) == Min((0 .. Len(list)) \ {x.bid : x \in {y \in ToSet(list) : y.gid = gid}})

(* aim_ssi_itemlist_rebuildgroup: the list of a group that has no members  *)
(* left is kept.                                                           *)
MembersOf(list, group) ==
  IF group.gid = Master
  THEN LET groups == Only(list, {x \in ToSet(list) : x.type = "group" /\ x.gid # Master})
       IN  [i \in DOMAIN groups |-> groups[i].gid]
  ELSE LET buddies == Only(list, {x \in ToSet(list) : x.type = "buddy" /\ x.gid = group.gid})
       IN  [i \in DOMAIN buddies |-> buddies[i].bid]

RebuildGroup(list, name) ==
  LET g == FindGroup(list, name)
      members == MembersOf(list, list[g])
  IN  IF g = 0 \/ (g # 0 /\ members = <<>>) THEN list ELSE [list EXCEPT ![g].members = members]

SameItem(a, b) == [a EXCEPT !.ref = 0] = [b EXCEPT !.ref = 0]
Contents(list) == [i \in DOMAIN list |-> [list[i] EXCEPT !.ref = 0]]

-----------------------------------------------------------------------------
(* Sync: what there is to add, or to delete, or to modify.                 *)

(* aim_ssi_addmoddel and the generic requests: nothing is sent when there  *)
(* is no connection.                                                       *)
Send(s, kind, items) ==
  IF s.up THEN [s EXCEPT !.sent = Append(@, [kind |-> kind, items |-> items])] ELSE s

Changes(s) ==
  LET added    == Only(s.local, {x \in ToSet(s.local) : Find(s.official, x.gid, x.bid) = 0})
      deleted  == Only(s.official, {x \in ToSet(s.official) : Find(s.local, x.gid, x.bid) = 0})
      modified == Only(s.local, {x \in ToSet(s.local) : LET o == Find(s.official, x.gid, x.bid)
                                                        IN  o # 0 /\ ~SameItem(x, s.official[o])})
  IN  CASE added # <<>> -> [kind |-> "add", items |-> added]
        [] added = <<>> /\ deleted # <<>> -> [kind |-> "del", items |-> deleted]
        [] OTHER -> [kind |-> "mod", items |-> modified]

(* pending is empty whenever no acknowledgement is due.                    *)
Sync(s) ==
  LET c == Changes(s)
  IN  IF s.waiting THEN s
      ELSE IF c.items = <<>> THEN Send(s, "editstop", <<>>)
      ELSE [Send(s, c.kind, Contents(c.items)) EXCEPT
              !.waiting = TRUE,
              !.pending = [i \in DOMAIN c.items |-> [kind |-> c.kind, ref |-> c.items[i].ref]]]

(* aim_ssi_reqdata, with aim_ssi_freelist: waiting stays as it is.         *)
ReqData(s) ==
  IF s.up THEN Send([s EXCEPT !.local = <<>>, !.official = <<>>, !.pending = <<>>], "reqdata", <<>>) ELSE s

-----------------------------------------------------------------------------
(* Edits.                                                                  *)

(* aim_ssi_addbuddy: the groups that are missing are made first.           *)
WithGroup(s, group) ==
  IF FindGroup(s.local, group) # 0 THEN s
  ELSE LET m == IF Find(s.local, Master, 0) # 0 THEN s
                ELSE Put(s, "local", Item(NoName, Master, 0, "group"))
           g == Put(m, "local", Item(group, NewGid(m.local), 0, "group"))
       IN  [g EXCEPT !.local = RebuildGroup(@, NoName)]

AddBuddy(s, name, group) ==
  LET g   == WithGroup(s, group)
      gid == g.local[FindGroup(g.local, group)].gid
      b   == Put(g, "local", Item(name, gid, NewBid(g.local, gid), "buddy"))
  IN  Sync([b EXCEPT !.local = RebuildGroup(@, group)])

(* A group without any data goes with its last buddy.                      *)
WithoutEmpty(list, group) ==
  LET g == FindGroup(list, group)
      left == RebuildGroup(RemoveAt(list, g), NoName)
      m == Find(left, Master, 0)
  IN  IF g = 0 \/ (g # 0 /\ HasData(list[g])) THEN list
      ELSE IF m = 0 \/ (m # 0 /\ HasData(left[m])) THEN left ELSE RemoveAt(left, m)

DelBuddy(s, name, group) ==
  LET del  == FindBuddy(s.local, group, name)
      left == RebuildGroup(RemoveAt(s.local, del), group)
  IN  IF del = 0 THEN s ELSE Sync([s EXCEPT !.local = WithoutEmpty(left, group)])

-----------------------------------------------------------------------------
(* What arrives.                                                           *)

PutAll(s, which, items) ==
  LET put[k \in 0 .. Len(items)] == IF k = 0 THEN s ELSE Put(put[k - 1], which, items[k])
  IN  put[Len(items)]

(* parsedata: the items are added to the official list, the whole of which *)
(* is added to the local one after the last part.                          *)
ParseData(s, items, more) ==
  LET read == PutAll(s, "official", items)
  IN  IF more THEN read
      ELSE Send([PutAll(read, "local", read.official) EXCEPT !.received = TRUE], "enable", <<>>)

ParseAdd(s, x) == Put(Put(s, "local", x), "official", x)

Replaced(list, x) ==
  LET i == Find(list, x.gid, x.bid)
  IN  IF i = 0 THEN list ELSE [list EXCEPT ![i] = [x EXCEPT !.ref = list[i].ref]]
ParseMod(s, x) == [s EXCEPT !.local = Replaced(@, x), !.official = Replaced(@, x)]

Dropped(list, x) == LET i == Find(list, x.gid, x.bid) IN IF i = 0 THEN list ELSE RemoveAt(list, i)
ParseDel(s, x) == [s EXCEPT !.local = Dropped(@, x), !.official = Dropped(@, x)]

(* A mutant: a modification that was refused stays in the local list.      *)
SettleKeepingRefused(s, entry, ok) ==
  LET l == FindRef(s.local, entry.ref)
      o == FindRef(s.official, entry.ref)
      name(x, y) == [y EXCEPT !.name = x.name, !.members = x.members, !.alias = x.alias]
      match == IF l = 0 THEN 0 ELSE Find(s.official, s.local[l].gid, s.local[l].bid)
  IN  CASE entry.kind = "add" /\ l # 0 ->
             IF ok THEN Put(s, "official", s.local[l]) ELSE [s EXCEPT !.local = RemoveAt(@, l)]
        [] entry.kind = "mod" /\ match # 0 ->
             IF ok THEN [s EXCEPT !.official[match] = name(s.local[l], @)] ELSE s
        [] entry.kind = "del" /\ o # 0 ->
             IF ok THEN [s EXCEPT !.official = RemoveAt(@, o)] ELSE Put(s, "local", s.official[o])
        [] OTHER -> s

(* One entry of parseack: what was sent is looked up by its address, and   *)
(* the item there is copied as it is now.                                  *)
Settle(s, entry, ok) ==
  LET l == FindRef(s.local, entry.ref)
      o == FindRef(s.official, entry.ref)
      name(x, y) == [y EXCEPT !.name = x.name, !.members = x.members, !.alias = x.alias]
      match == IF l = 0 THEN 0 ELSE Find(s.official, s.local[l].gid, s.local[l].bid)
  IN  CASE entry.kind = "add" /\ l # 0 ->
             IF ok THEN Put(s, "official", s.local[l]) ELSE [s EXCEPT !.local = RemoveAt(@, l)]
        [] entry.kind = "mod" /\ match # 0 ->
             IF ok THEN [s EXCEPT !.official[match] = name(s.local[l], @)]
             ELSE [s EXCEPT !.local[l] = name(s.official[match], @)]
        [] entry.kind = "del" /\ o # 0 ->
             IF ok THEN [s EXCEPT !.official = RemoveAt(@, o)] ELSE Put(s, "local", s.official[o])
        [] OTHER -> s

ParseAck(s, acks) ==
  LET n == IF Len(acks) < Len(s.pending) THEN Len(acks) ELSE Len(s.pending)
      settled[k \in 0 .. n] == IF k = 0 THEN s ELSE Settle(settled[k - 1], s.pending[k], acks[k])
      left == SubSeq(s.pending, n + 1, Len(s.pending))
  IN  IF left # <<>> THEN [settled[n] EXCEPT !.pending = left]
      ELSE Sync([settled[n] EXCEPT !.pending = <<>>, !.waiting = FALSE])

-----------------------------------------------------------------------------
SsiInit ==
  /\ ssi = NoList /\ server = InitialList /\ toClient = <<>>
  /\ edits = MaxEdits /\ logins = 0

(* owl_aim_login begins with a new session (aim_session_init); what was on *)
(* its way is lost.                                                        *)
Login ==
  /\ logins < MaxLogins
  /\ logins' = logins + 1
  /\ ssi' = NoList /\ toClient' = <<>>
  /\ UNCHANGED <<server, edits>>

(* conninitdone_bos: the data is asked for at once as well as, again, when *)
(* the rights come.                                                        *)
ConnInitDone ==
  /\ logins > 0 /\ ~ssi.up
  /\ ssi' = Send(ReqData(Send([ssi EXCEPT !.up = TRUE], "reqrights", <<>>)), "buddyrights", <<>>)
  /\ UNCHANGED <<server, toClient, edits, logins>>

(* The server takes the next request.  It refuses to add what is there and *)
(* to change what is not, and may refuse anything for reasons of its own.  *)
Apply(list, kind, x) ==
  LET i == Find(list, x.gid, x.bid)
  IN  CASE kind = "add" -> Insert(list, x)
        [] kind = "mod" -> [list EXCEPT ![i] = x]
        [] kind = "del" -> RemoveAt(list, i)

CanApply(list, kind, x) == (kind = "add") = (Find(list, x.gid, x.bid) = 0)

(* What is left of the list, and the answers, when all but those to refuse *)
(* are taken.                                                              *)
ApplyAll(list, kind, items, refuse) ==
  LET n == Len(items)
      takes(l, k) == k \notin refuse /\ CanApply(l, kind, items[k])
      taken[k \in 0 .. n] ==
        IF k = 0 THEN list
        ELSE IF takes(taken[k - 1], k) THEN Apply(taken[k - 1], kind, items[k]) ELSE taken[k - 1]
  IN  [list |-> taken[n], acks |-> [k \in 1 .. n |-> takes(taken[k - 1], k)]]

Answer(message) == toClient' = Append(toClient, message)

Serve ==
  /\ ssi.sent # <<>>
  /\ ssi' = [ssi EXCEPT !.sent = Tail(@)]
  /\ UNCHANGED <<edits, logins>>
  /\ LET request == Head(ssi.sent)
     IN  \/ /\ request.kind \in {"reqrights", "buddyrights"}
            /\ Answer([kind |-> request.kind, items |-> <<>>]) /\ UNCHANGED server
         \/ /\ request.kind \in {"editstop", "enable"} /\ UNCHANGED <<toClient, server>>
         \/ /\ request.kind = "reqdata" /\ UNCHANGED server
            /\ \E n \in {Len(server), Len(server) \div 2} :
                 toClient' = toClient \o
                   (IF n = Len(server) THEN <<>>
                    ELSE <<[kind |-> "more", items |-> SubSeq(server, 1, n)]>>)
                   \o <<[kind |-> "list", items |-> IF n = Len(server) THEN server
                                                   ELSE SubSeq(server, n + 1, Len(server))]>>
         \/ /\ request.kind \in {"add", "mod", "del"}
            /\ \E refuse \in SUBSET DOMAIN request.items :
                 /\ Cardinality(refuse) <= 1
                 /\ LET done == ApplyAll(server, request.kind, request.items, refuse)
                    IN  /\ server' = done.list
                        /\ Answer([kind |-> "ack", items |-> done.acks])

(* snachandler, with the callbacks BarnOwl registers for what it hands on. *)
Receive ==
  /\ toClient # <<>>
  /\ toClient' = Tail(toClient)
  /\ UNCHANGED <<server, edits, logins>>
  /\ LET m == Head(toClient)
     IN  ssi' = CASE m.kind = "reqrights"   -> ReqData(ssi)
                  [] m.kind = "buddyrights" -> Send(ssi, "reqrights", <<>>)
                  [] m.kind = "more" -> ParseData(ssi, m.items, TRUE)
                  [] m.kind = "list" -> ParseData(ssi, m.items, FALSE)
                  [] m.kind = "ack"  -> ParseAck(ssi, m.items)
                  [] m.kind = "add"  -> ParseAdd(ssi, m.items[1])
                  [] m.kind = "mod"  -> ParseMod(ssi, m.items[1])
                  [] m.kind = "del"  -> ParseDel(ssi, m.items[1])

Quiet == ssi.sent = <<>> /\ toClient = <<>>
Settled == ssi.up /\ Quiet

(* addbuddy and delbuddy, as owl_aim_addbuddy and owl_aim_delbuddy do it.  *)
Edit ==
  /\ edits > 0 /\ edits' = edits - 1
  /\ logins > 0
  /\ Impatient \/ Settled
  /\ \E name \in Buddies :
       ssi' \in {AddBuddy(ssi, name, Buddies0), DelBuddy(ssi, name, Buddies0)}
  /\ UNCHANGED <<server, toClient, logins>>

(* The same user's other client: a permit is added or deleted, a buddy's   *)
(* alias changed, and this client, if it is there, told.  It adds nothing  *)
(* to a list without a master group.                                       *)
OtherClient ==
  /\ edits > 0 /\ edits' = edits - 1
  /\ ssi.received /\ (Impatient \/ Settled)
  /\ \E name \in Buddies, alias \in Aliases :
       LET p == FindPermit(server, name)
           bs == {i \in DOMAIN server : server[i].type = "buddy" /\ server[i].alias # alias}
           permit == IF p = 0 THEN Item(name, Master, NewBid(server, Master), "permit") ELSE server[p]
           changes == {<<IF p = 0 THEN "add" ELSE "del", permit>>}
                        \cup {<<"mod", [server[i] EXCEPT !.alias = alias]>> : i \in bs}
       IN  \E c \in changes : /\ c[1] = "add" => Find(server, Master, 0) # 0
                              /\ server' = Apply(server, c[1], c[2])
                              /\ Answer([kind |-> c[1], items |-> <<c[2]>>])
  /\ UNCHANGED <<ssi, logins>>

SsiNext == Login \/ ConnInitDone \/ Serve \/ Receive \/ Edit \/ OtherClient

(* Both ends keep reading what the other has sent: weak fairness, written   *)
(* out with the conditions under which the actions are enabled.            *)
SsiFairness ==
  /\ []<>(ssi.sent = <<>>) \/ []<><<Serve>>_ssiVars
  /\ []<>(toClient = <<>>) \/ []<><<Receive>>_ssiVars
  /\ WF_ssiVars(ConnInitDone)

SsiSpec == SsiInit /\ [][SsiNext]_ssiVars /\ SsiFairness

-----------------------------------------------------------------------------
(* With nothing on its way, the official list is what the server has, the  *)
(* local list is the official one and no acknowledgement is awaited: what  *)
(* the comment at the top of ssi.c promises of the two copies.             *)
CopiesAreExact ==
  Settled => /\ Contents(ssi.official) = server
             /\ Contents(ssi.local) = server
             /\ ~ssi.waiting /\ ssi.pending = <<>>

(* Whatever the server refuses, the exchange about it comes to an end: no  *)
(* change is sent over and over again.                                     *)
ExchangeEnds == <>[](logins > 0 => Settled)
=============================================================================
