------------------------------ MODULE TTLists ------------------------------
(***************************************************************************)
(* Parts of a list in their order: what a scan of a linked list            *)
(* (linkedlist.cpp) picks out, and what is left of one that loses some.    *)
(***************************************************************************)
EXTENDS Naturals, Sequences

\* The elements of the sequence q that are in M
Among(q, M) ==
  LET first[k \in 0 .. Len(q)] ==
        IF k = 0 THEN << >>
        ELSE IF q[k] \in M THEN Append(first[k - 1], q[k]) ELSE first[k - 1]
  IN  first[Len(q)]

\* s is t without some of its elements.
IsSubsequence(s, t) ==
  \E place \in [1 .. Len(s) -> 1 .. Len(t)] :
    \A i \in 1 .. Len(s) : s[i] = t[place[i]] /\ \A j \in 1 .. i - 1 : place[j] < place[i]
=============================================================================
