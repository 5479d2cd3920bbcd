----------------------------- MODULE Selection -----------------------------
(* The comprehension [x for x in s if x in T], as history.py picks the calls *)
(* no result names and a reader picks one run's rows; written as a function, *)
(* so that it can be reasoned about.                                         *)
EXTENDS Naturals, Sequences

\* The elements of s that are in T, in their order.
Only(s, T) ==
    LET only[n \in 0 .. Len(s)] ==
            IF n = 0 THEN <<>>
            ELSE IF s[n] \in T THEN Append(only[n - 1], s[n]) ELSE only[n - 1]
    IN  only[Len(s)]
=============================================================================
