------------------------------- MODULE Lists -------------------------------
(***************************************************************************)
(* Lists, filtered, added up and cut as the code's comprehensions, sums and *)
(* slices do it, element after element, in recursive functions. What they   *)
(* do to any list is proved in Lists_proofs.                                *)
(***************************************************************************)
EXTENDS Integers, Sequences, FiniteSets

\* [x for x in list if x in S]
Kept(list, S) ==
    LET kept[n \in 0..Len(list)] ==
            IF n = 0 THEN <<>>
            ELSE IF list[n] \in S THEN Append(kept[n - 1], list[n])
            ELSE kept[n - 1]
    IN  kept[Len(list)]

\* sum(list)
Total(list) ==
    LET total[n \in 0..Len(list)] == IF n = 0 THEN 0 ELSE total[n - 1] + list[n]
    IN  total[Len(list)]

\* list[-n:]
Latest(list, n) == SubSeq(list, IF Len(list) > n THEN Len(list) - n + 1 ELSE 1, Len(list))

=============================================================================
