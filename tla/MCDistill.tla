------------------------------ MODULE MCDistill ------------------------------
EXTENDS Distill, TLC

CONSTANTS anthropic, ollama

MCProviders == {anthropic, ollama}
Catalogue   == (anthropic :> "remote") @@ (ollama :> "local")
MCBuiltin   == [model |-> None, base |-> Catalogue, consent |-> FALSE, deep |-> FALSE]
\* A local default; a consent and deep distills; a provider whose endpoint was moved.
MCConfigs   == {[MCBuiltin EXCEPT !.model = ollama, !.deep = TRUE],
                [MCBuiltin EXCEPT !.consent = TRUE, !.deep = TRUE],
                [MCBuiltin EXCEPT !.model = ollama,
                                  !.base = (anthropic :> "unusable") @@ (ollama :> "remote")]}

\* None, as many as the digest is left with, and more than LastK + MapCap.
MCHistories == {0, 2, 6}

MCDurations == {0, Timeout}

=============================================================================
