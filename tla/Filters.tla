------------------------------ MODULE Filters -------------------------------
(***************************************************************************)
(* The table of filters (global.c), its users and the check for loops      *)
(* (filterelement.c).  A filter refers to others by name and a name may be *)
(* given to another filter later, so every definition is checked against   *)
(* the table of that moment.  The current view points to a filter object;  *)
(* redefining a name frees the object and makes another.  Colors are left  *)
(* out.                                                                    *)
(***************************************************************************)
EXTENDS FilterSyntax, FiniteSets, TLC

CONSTANTS
  FilterNames,   \* the names users and smart filters give to filters
  Expressions,   \* the sequences of words users define filters by
  SmartFilters,  \* name -> the words the program itself defines it by
  Classes,       \* a message is the class it was sent to
  PuntExpressions, \* those of them used by punt and zpunt
  MaxFilters,    \* bound: filter objects made
  MaxPunts       \* bound: length of the punt list

VARIABLES
  filters,     \* the dictionary: name -> filter object
  filterlist,  \* the objects in the order they were added
  made,        \* number of filter objects made so far
  viewFilter,  \* the object the current view points to
  viewClasses, \* the messages that were found for the view
  puntlist     \* the trees of the punt filters, in order

filterVars == <<filters, filterlist, made, viewFilter, viewClasses, puntlist>>

FilterObject(id, root) == [id |-> id, root |-> root]
LookUp(table, name) == name \in DOMAIN table

(* _owl_filterelement_is_toodeep: a walk with the names being visited and  *)
(* the names done with.  A name that is met while it is visited closes a   *)
(* loop.  The walk of an element that does not refer to a filter stops at  *)
(* the first loop.                                                         *)
RECURSIVE Walk(_, _, _)
Walk(fe, seen, table) ==
  CASE fe.op = "filter" ->
         IF LookUp(seen, fe.arg) THEN [deep |-> seen[fe.arg] = "visiting", seen |-> seen]
         ELSE LET visiting == (fe.arg :> "visiting") @@ seen
                  walk == IF LookUp(table, fe.arg)
                          THEN Walk(table[fe.arg].root, visiting, table)
                          ELSE [deep |-> FALSE, seen |-> visiting]
              IN  [deep |-> walk.deep, seen |-> [walk.seen EXCEPT ![fe.arg] = "visited"]]
    [] fe.op \in {"not", "group"} -> Walk(fe.left, seen, table)
    [] fe.op \in {"and", "or"} ->
         LET walk == Walk(fe.left, seen, table)
         IN  IF walk.deep THEN walk ELSE Walk(fe.right, walk.seen, table)
    [] OTHER -> [deep |-> FALSE, seen |-> seen]

(* A mutant: only the name being defined counts as visited, and what its   *)
(* references refer to is not looked at.                                   *)
RECURSIVE RefersTo(_, _)
RefersTo(fe, name) ==
  CASE fe.op = "filter" -> fe.arg = name
    [] fe.op \in {"not", "group"} -> RefersTo(fe.left, name)
    [] fe.op \in {"and", "or"} -> RefersTo(fe.left, name) \/ RefersTo(fe.right, name)
    [] OTHER -> FALSE
RefersToItself(name, root, table) == RefersTo(root, name)

IsTooDeep(name, root, table) == Walk(root, name :> "visiting", table).deep

(* owl_filterelement_match, with a missing filter matching nothing.  fuel  *)
(* stands for the stack: how many filters may call one another.            *)
RECURSIVE Match(_, _, _, _)
Match(fe, m, table, fuel) ==
  CASE fe.op = "true"  -> TRUE
    [] fe.op = "re"    -> fe.field = "class" /\ fe.arg = m
    [] fe.op = "filter" -> /\ LookUp(table, fe.arg)
                           /\ Assert(fuel > 0, "endless matching")
                           /\ Match(table[fe.arg].root, m, table, fuel - 1)
    [] fe.op = "group" -> Match(fe.left, m, table, fuel)
    [] fe.op = "not"   -> ~Match(fe.left, m, table, fuel)
    [] fe.op = "and"   -> Match(fe.left, m, table, fuel) /\ Match(fe.right, m, table, fuel)
    [] fe.op = "or"    -> Match(fe.left, m, table, fuel) \/ Match(fe.right, m, table, fuel)
    [] OTHER -> FALSE

Matching(fe, table) == {m \in Classes : Match(fe, m, table, Cardinality(DOMAIN table))}

FilterInit ==
  /\ filters = ("all" :> FilterObject(1, Leaf("true")))
  /\ filterlist = <<1>>
  /\ made = 1
  /\ viewFilter = 1
  /\ viewClasses = Classes
  /\ puntlist = <<>>

(* owl_filter_new: words that are a filter, and close no loop.             *)
MakesFilter(name, words) ==
  LET root == ParseFilter(words)
  IN  root # NoElement /\ ~IsTooDeep(name, root, filters)

FilterOf(id) == CHOOSE name \in DOMAIN filters : filters[name].id = id
ViewName == FilterOf(viewFilter)

WithFilter(table, name, words) == (name :> FilterObject(made + 1, ParseFilter(words))) @@ table

(* owl_global_remove_filter and owl_global_add_filter.                     *)
AddFilter(name, words) ==
  /\ filters' = WithFilter(filters, name, words)
  /\ filterlist' = Append(IF LookUp(filters, name)
                          THEN SelectSeq(filterlist, LAMBDA id : id # filters[name].id)
                          ELSE filterlist, made + 1)
  /\ made' = made + 1

(* owl_function_change_currentview_filter, on the table t.                 *)
ShowFilter(t, name) ==
  /\ viewFilter' = t[name].id
  /\ viewClasses' = Matching(t[name].root, t)

ChangeCurrentviewFilter(name) ==
  IF LookUp(filters, name)
  THEN ShowFilter(filters, name) /\ UNCHANGED <<filters, filterlist, made, puntlist>>
  ELSE UNCHANGED filterVars

(* owl_function_create_filter: a definition replaces the former one, and   *)
(* the view is found again when it was narrowed to it.                     *)
CreateFilter(name, words) ==
  /\ name # "all" /\ MakesFilter(name, words) /\ made < MaxFilters
  /\ AddFilter(name, words)
  /\ IF LookUp(filters, name) /\ filters[name].id = viewFilter
     THEN ShowFilter(WithFilter(filters, name, words), name)
     ELSE UNCHANGED <<viewFilter, viewClasses>>
  /\ UNCHANGED puntlist

(* view -r: the name with "not-" put before it or taken away, and the view *)
(* narrowed to that name, which is defined as the negation unless it is    *)
(* already defined.                                                        *)
NegatedName(name) ==
  IF \E n \in FilterNames : name = "not-" \o n
  THEN CHOOSE n \in FilterNames : name = "not-" \o n
  ELSE "not-" \o name

(* A mutant: the negation of the words of the filter, without brackets.    *)
NegatedDefinition == <<"not">> \o WordsOf(PrintElement(filters[ViewName].root))

NegatedWords == <<"not", "filter", ViewName>>

ViewReverse ==
  LET name == NegatedName(ViewName)
  IN  IF LookUp(filters, name) \/ ~MakesFilter(name, NegatedWords)
      THEN ChangeCurrentviewFilter(name)
      ELSE /\ made < MaxFilters
           /\ AddFilter(name, NegatedWords)
           /\ ShowFilter(WithFilter(filters, name, NegatedWords), name)
           /\ UNCHANGED puntlist

(* A mutant: the program replaces what the user has defined.               *)
SmartNarrowAnew(name) ==
  /\ MakesFilter(name, SmartFilters[name]) /\ made < MaxFilters
  /\ AddFilter(name, SmartFilters[name])
  /\ ShowFilter(WithFilter(filters, name, SmartFilters[name]), name)
  /\ UNCHANGED puntlist

(* smartnarrow, viewclass, viewuser: owl_function_classinstfilt and its    *)
(* kin make a filter for a class, a user or a type unless the name is      *)
(* already defined, and the view is narrowed to it.                        *)
SmartNarrow(name) ==
  IF LookUp(filters, name) \/ ~MakesFilter(name, SmartFilters[name])
  THEN ChangeCurrentviewFilter(name)
  ELSE /\ made < MaxFilters
       /\ AddFilter(name, SmartFilters[name])
       /\ ShowFilter(WithFilter(filters, name, SmartFilters[name]), name)
       /\ UNCHANGED puntlist

(* owl_function_punt: two punt filters are the same if they print alike.   *)
SamePunts(root) == {i \in DOMAIN puntlist : PrintElement(puntlist[i]) = PrintElement(root)}

Punt(words) ==
  /\ MakesFilter("punt-filter", words) /\ Len(puntlist) < MaxPunts
  /\ SamePunts(ParseFilter(words)) = {}
  /\ puntlist' = Append(puntlist, ParseFilter(words))
  /\ UNCHANGED <<filters, filterlist, made, viewFilter, viewClasses>>

Unpunt(words) ==
  /\ MakesFilter("punt-filter", words)
  /\ \E i \in SamePunts(ParseFilter(words)) :
       /\ \A j \in SamePunts(ParseFilter(words)) : i <= j
       /\ puntlist' = RemoveAt(puntlist, i)
  /\ UNCHANGED <<filters, filterlist, made, viewFilter, viewClasses>>

FilterNext ==
  \/ \E name \in FilterNames, words \in Expressions : CreateFilter(name, words)
  \/ \E name \in FilterNames \cup {"all"} : ChangeCurrentviewFilter(name)
  \/ ViewReverse
  \/ \E name \in DOMAIN SmartFilters : SmartNarrow(name)
  \/ \E words \in PuntExpressions : Punt(words) \/ Unpunt(words)

FilterSpec == FilterInit /\ [][FilterNext]_filterVars

-----------------------------------------------------------------------------
References(fe) ==
  LET RECURSIVE R(_)
      R(e) == CASE e.op = "filter" -> {e.arg}
                [] e.op \in {"not", "group"} -> R(e.left)
                [] e.op \in {"and", "or"} -> R(e.left) \cup R(e.right)
                [] OTHER -> {}
  IN  R(fe)

RECURSIVE ReachedIn(_, _)
ReachedIn(names, n) ==
  IF n = 0 THEN names
  ELSE ReachedIn(names \cup UNION {References(filters[k].root) : k \in names \cap DOMAIN filters},
                 n - 1)

NoFilterLoop ==
  \A name \in DOMAIN filters :
    name \notin ReachedIn(References(filters[name].root), Cardinality(DOMAIN filters))

FiltersAreAlive ==
  LET ids == {filters[name].id : name \in DOMAIN filters}
  IN  /\ viewFilter \in ids
      /\ ToSet(filterlist) = ids
      /\ Len(filterlist) = Cardinality(DOMAIN filters)

ReverseIsComplement ==
  [][(/\ made' > made /\ ViewReverse
      /\ viewClasses = Matching(filters[ViewName].root, filters))
     => viewClasses' = Classes \ viewClasses]_filterVars

UsersOverride ==
  [][\A name \in DOMAIN filters :
       \/ LookUp(filters', name) /\ filters'[name].root = filters[name].root
       \/ \E words \in Expressions : CreateFilter(name, words)]_filterVars

PuntedOnce ==
  \A i, j \in DOMAIN puntlist : puntlist[i] = puntlist[j] => i = j

(* Whatever was defined, redefined, made by the program and punted in      *)
(* which order: no filter refers to itself, directly or through others, so *)
(* that matching a message always ends; the view points to a filter that   *)
(* has not been freed and the list that colors messages holds exactly the  *)
(* filters of the table; a filter is punted at most once, so that one      *)
(* unpunt undoes it.                                                       *)
FilterTablesAreSound == NoFilterLoop /\ FiltersAreAlive /\ PuntedOnce

(* view -r shows what the view did not show, when it makes the filter and  *)
(* the view was up to date; and what a user has defined stays defined      *)
(* until the user defines it anew, whatever filters the program makes.     *)
FilterCommandsMeanIt == ReverseIsComplement /\ UsersOverride
=============================================================================
