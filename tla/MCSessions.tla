------------------------------ MODULE MCSessions ------------------------------
EXTENDS Sessions, TLC

CONSTANTS p1, p2, p3

Ask == [kind |-> "question", items |-> {"it"}]
Gate == [kind |-> "gate", items |-> {"it"}]
Gates == [kind |-> "gates", items |-> {"t1", "t2"}]

(* Two branches that pause at once, one of which asks again, then the gate *)
(* of a level. The other runs do not pause: any of them may go first.      *)
Pausing == <<[x |-> <<Gate>>, y |-> <<Ask, Gate>>], [x |-> <<Gates>>]>>

MCSteps == [p \in Processes |-> IF p = p1 THEN Pausing ELSE <<>>]

Symmetry == Permutations({p2, p3})
=============================================================================
