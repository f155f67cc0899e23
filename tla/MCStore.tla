------------------------------- MODULE MCStore -------------------------------
(* Commands: d1 and d2 distill p1, d3 distills p2; c curates p2; r and t     *)
(* reconcile p1 (keep-mine, take-ai); a adds and x removes p2.               *)
EXTENDS Store, TLC
CONSTANTS p1, p2, d1, d2, d3, c, r, t, a, x, e1, e2
MCProjects == {p1, p2}
MCKind == [o \in Procs |->
             CASE o \in {d1, d2, d3} -> "distill" [] o = c -> "curate"
               [] o = r -> "keep-mine" [] o = t -> "take-ai"
               [] o = a -> "add" [] o = x -> "remove"]
MCTarget == [o \in Procs |-> IF o \in {d3, c, a, x} THEN p2 ELSE p1]
Transactions == {d1, d2, d3, c, r, t}
Faulty       == {d3, c, x, a}
TwoEdits     == {e1, e2}
NoEdits      == {}
=============================================================================
