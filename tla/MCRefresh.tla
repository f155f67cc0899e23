------------------------------- MODULE MCRefresh -------------------------------
(* The daemon's worker w and a forced `briefing` b; one transcript of each    *)
(* kind.                                                                     *)
EXTENDS Refresh
CONSTANTS w, b, a, claude, codex
MCTranscripts == {claude, codex}
MCCodex       == {codex}
Both          == {w, b}
Briefing      == {b}
Worker        == {w}
OneAdder      == {a}
\* bound: what comes after a crossed transaction is explored only while all that
\* is under way is writing of meta.toml (the property says nothing of it)
Uncrossed     == crossed => /\ \A o \in Procs : pc[o] \in {"idle", "loaded", "torn", "void"}
                            /\ \E o \in Procs : pc[o] \in {"torn", "void"}
=============================================================================
