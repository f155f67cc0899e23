----------------------------- MODULE MCCommands -----------------------------
EXTENDS Commands, TLC

CONSTANTS w, c, hash, path, mixed, c1, c2

\* Two terminals; a distill may as well be the worker's.
MCDoes == (w :> {"distill", "correct"}) @@ (c :> {"distill", "opinion", "correct", "curate"})

\* Cut short before the open questions; without markers.
MCCompletions == {<<"BRIEFING", hash, "DECISIONS", mixed>>, <<path>>}

\* Everything dropped as stale; a hash the model made up.
MCRewrites == {[cites |-> {hash}, marked |-> {}]}
MCCommits  == {{hash, path}}
Symmetry   == Permutations(Corrections)

=============================================================================
