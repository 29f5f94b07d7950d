-------------------------------- MODULE Lists --------------------------------
(* What the code does with lists everywhere: sorted(), sum() and a            *)
(* comprehension with a condition.                                            *)
EXTENDS Naturals, Sequences, FiniteSets

(* The members of S, each once, the least first.                              *)
Sorted(S, before) ==
  [i \in 1 .. Cardinality(S) |->
     CHOOSE x \in S : Cardinality({y \in S : <<y, x>> \in before}) = i - 1]
OrderedBy(S, Before(_, _)) == Sorted(S, {e \in S \X S : Before(e[1], e[2])})
Ascending(S) == Sorted(S, {e \in S \X S : e[1] < e[2]})

(* The members of a list at some of its places.                               *)
KeptAt(s, places) == [k \in 1 .. Cardinality(places) |-> s[Ascending(places)[k]]]

SumOf(s) ==
  LET sum[n \in 0 .. Len(s)] == IF n = 0 THEN 0 ELSE sum[n - 1] + s[n]
  IN sum[Len(s)]
==============================================================================
