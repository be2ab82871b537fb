------------------------------- MODULE SeqOps -------------------------------
(* Sums and selections. Those over sequences are recursive functions, and not *)
(* the folds of the community modules, because these are about operators,     *)
(* which no lemma can be stated for; see SeqOpsProofs.                         *)
EXTENDS Integers, Sequences, FiniteSetsExt

\* The sum of the first i elements of s, for every i.
Sums(s) ==
  LET sum[i \in 0..Len(s)] == IF i = 0 THEN 0 ELSE sum[i - 1] + s[i]
  IN  sum

Total(s) == Sums(s)[Len(s)]

\* The elements of s at the places K, in their order.
Selected(s, K) ==
  LET selected[i \in 0..Len(s)] ==
        IF i = 0 THEN <<>>
        ELSE IF i \in K THEN Append(selected[i - 1], s[i]) ELSE selected[i - 1]
  IN  selected[Len(s)]

\* The sum of b over a finite set.
SumOver(b, set) == MapThenSumSet(LAMBDA x : b[x], set)
=============================================================================
