------------------------------- MODULE Filters ------------------------------
(***************************************************************************)
(* Array.prototype.filter, as the plugin uses it on connections and on     *)
(* session rows: the elements that pass a test, in their order.  The test  *)
(* is a set and the recursion a function, because what is filtered here is *)
(* proved about: SelectSeq takes an operator, which no prover instantiates.*)
(***************************************************************************)
EXTENDS Naturals, Sequences

\* Among(s, S) grows by one element of s at a time.
Passing(s, S) ==
    LET f[n \in 0..Len(s)] ==
            IF n = 0 THEN <<>> ELSE IF s[n] \in S THEN Append(f[n - 1], s[n]) ELSE f[n - 1]
    IN  f

\* The elements of s that are in S.
Among(s, S) == Passing(s, S)[Len(s)]
=============================================================================
