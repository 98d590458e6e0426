-------------------------------- MODULE Lists --------------------------------
(***************************************************************************)
(* Lists, as the serializers make them.  The operators of the community    *)
(* modules that sort or select take an operator, of which nothing can be   *)
(* proved; these take sets of pairs and of places.                         *)
(***************************************************************************)
EXTENDS Integers, Sequences, FiniteSets

CONSTANT
    None            \* no text

ASSUME NoneAssumption == None \notin Int

(* The elements of S in an order: that one is n-th which n - 1 are before. *)
InOrder(S, Before) ==
    [n \in 1..Cardinality(S) |->
        CHOOSE x \in S : Cardinality({ y \in S : << y, x >> \in Before }) = n - 1]

(* What a list has at these places. *)
Kept(list, places) ==
    LET order == InOrder(places, { p \in places \X places : p[1] < p[2] })
    IN  [n \in DOMAIN order |-> list[order[n]]]

IsList(s) == s \in Seq({ s[i] : i \in DOMAIN s })
=============================================================================
