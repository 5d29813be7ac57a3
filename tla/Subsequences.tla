---------------------------- MODULE Subsequences ----------------------------
(***************************************************************************)
(* What is left of a sequence when some of its elements are taken out: a   *)
(* list of messages narrowed by a filter (owl_view_recalculate), a list    *)
(* after an expunge, a file without the lines that are deleted from it     *)
(* (owl_util_file_deleteline).  Elements are named by their positions, so  *)
(* that equal ones can be told apart.                                      *)
(***************************************************************************)
EXTENDS Integers, Sequences, FiniteSets

(* How many of the positions I are not after i.                            *)
Rank(i, I) == Cardinality({j \in I : j <= i})

(* The position of the k-th element that is kept.                          *)
KthOf(I, k) == CHOOSE i \in I : Rank(i, I) = k

(* The elements of s at the positions I, in the order of s.                *)
Subsequence(s, I) == [k \in 1 .. Cardinality(I) |-> s[KthOf(I, k)]]

(* The elements of s that are in S, and those that are not.                *)
Only(s, S)    == Subsequence(s, {i \in DOMAIN s : s[i] \in S})
Without(s, S) == Subsequence(s, {i \in DOMAIN s : s[i] \notin S})
=============================================================================
