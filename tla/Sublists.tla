------------------------------ MODULE Sublists ------------------------------
(***************************************************************************)
(* Sequences made of others by recursive functions, which a proof can      *)
(* unfold: SelectSeq and the folds of the library compute the same, but    *)
(* nothing can be derived from their definitions.                          *)
(***************************************************************************)
EXTENDS Integers, Sequences

\* The elements of s at the places in K, in their order.
Kept(s, K) ==
    LET first[n \in 0 .. Len(s)] ==
            IF n = 0 THEN <<>> ELSE IF n \in K THEN Append(first[n - 1], s[n]) ELSE first[n - 1]
    IN  first[Len(s)]

\* The elements of s that pass the test.
KeptIf(s, Test(_)) == Kept(s, {i \in DOMAIN s : Test(s[i])})

\* The sequences in ss one after another.
Flat(ss) ==
    LET first[n \in 0 .. Len(ss)] == IF n = 0 THEN <<>> ELSE first[n - 1] \o ss[n]
    IN  first[Len(ss)]

\* The sum of a sequence of numbers.
Total(s) ==
    LET first[n \in 0 .. Len(s)] == IF n = 0 THEN 0 ELSE first[n - 1] + s[n]
    IN  first[Len(s)]
=============================================================================
