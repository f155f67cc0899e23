------------------------------- MODULE MCNotes -------------------------------
(* Items a and b have the same text.                                         *)
EXTENDS Notes, TLC
CONSTANTS a, b, id1, id2, title, t1, t2, r1, r2
TwoItems == {a, b}
OneItem  == {a}
MCIds    == {id1, id2}
TwoHash  == [k \in TwoItems |-> <<id1, id2>>]
OneHash  == [k \in OneItem |-> <<id1>>]
MCRaws   == {title}
MCProcs  == {t1, t2}
OneProc  == {t1}
MCRounds == {r1, r2}
Symmetry == Permutations(TwoItems) \cup Permutations(MCProcs) \cup Permutations(MCRounds)
=============================================================================
