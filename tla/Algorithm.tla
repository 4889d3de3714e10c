------------------------------- MODULE Algorithm -------------------------------
(***************************************************************************)
(* The two functions of <algorithm> that the lists of the program are kept *)
(* with.  Neither changes the length of a vector; only erase does.         *)
(***************************************************************************)
EXTENDS Integers, SequencesExt

(* std::find_if: the index of the first element that passes, or the end.   *)
FindIf(s, Test(_)) ==
  LET found == {i \in DOMAIN s : Test(s[i])}
  IN  IF found = {} THEN Len(s) + 1 ELSE CHOOSE i \in found : \A j \in found : i <= j

(* The elements of s at the indices in I, in their order.                  *)
Rank(I, i) == Cardinality({j \in I : j <= i})
AtIndices(s, I) ==
  [k \in 1 .. Cardinality(I) |-> s[CHOOSE i \in I : Rank(I, i) = k]]

(* std::remove_if: what is kept moves forward, and what stood at the end   *)
(* stays there.                                                            *)
MovedForward(s, I) ==
  AtIndices(s, I) \o SubSeq(s, Cardinality(I) + 1, Len(s))

RemoveIf(s, Test(_)) == MovedForward(s, {i \in DOMAIN s : ~Test(s[i])})
===============================================================================
