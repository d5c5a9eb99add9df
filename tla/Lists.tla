------------------------------- MODULE Lists -------------------------------
(***************************************************************************)
(* The list comprehensions of the code that the proofs reason about.       *)
(***************************************************************************)
EXTENDS SequencesExt

(* [x for x in q if x in S]                                                *)
Among(q, S) ==
    LET kept[n \in 0..Len(q)] ==
            IF n = 0 THEN <<>>
            ELSE IF q[n] \in S THEN Append(kept[n - 1], q[n]) ELSE kept[n - 1]
    IN kept[Len(q)]

(* list(dict.fromkeys(q)): each element where it is first.                 *)
KeepNew(kept, x) == IF Contains(kept, x) THEN kept ELSE Append(kept, x)
Once(q) ==
    LET once[n \in 0..Len(q)] == IF n = 0 THEN <<>> ELSE KeepNew(once[n - 1], q[n])
    IN once[Len(q)]

(* [x for q in qs for x in q]                                              *)
Joined(qs) ==
    LET joined[n \in 0..Len(qs)] == IF n = 0 THEN <<>> ELSE joined[n - 1] \o qs[n]
    IN joined[Len(qs)]
=============================================================================
