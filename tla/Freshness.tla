------------------------------ MODULE Freshness ------------------------------
(***************************************************************************)
(* What OmniProj promises about one developer's projects, whatever the     *)
(* daemon does inside: the cursor of a registered project names a state    *)
(* its substrate (git repository and agent sessions) has really been in,   *)
(* and moves only forward; it never claims a state that is still to come.  *)
(* The daemon (module Daemon) is checked and proved to implement this, and *)
(* so is, by proof, one refresher of a project (module Refresh), step by   *)
(* step of its capture and of its transaction, unless git did not answer   *)
(* it or another process crossed the transaction.                          *)
(***************************************************************************)
EXTENDS Integers

CONSTANTS Projects,   \* every project that may ever be registered
          NoCursor    \* last_distilled = None: never distilled

VARIABLES registry,   \* the registered projects (those with a meta.toml)
          sub,        \* sub[p]: version of p's substrate, 0 = nothing to capture
          cursor      \* cursor[p]: the version meta.toml records as distilled

vars == <<registry, sub, cursor>>

Init == /\ registry \in SUBSET Projects
        /\ sub \in [Projects -> Nat]
        /\ cursor = [p \in Projects |-> NoCursor]

\* The developer, or an agent, works: a commit, an edit, a session turn.
Change(p) == /\ sub' = [sub EXCEPT ![p] = @ + 1]
             /\ UNCHANGED <<registry, cursor>>

Register(p) == /\ registry' = registry \cup {p}
               /\ UNCHANGED <<sub, cursor>>

\* Removing a project drops its bookkeeping.
Forget(p) == /\ registry' = registry \ {p}
             /\ cursor' = [cursor EXCEPT ![p] = NoCursor]
             /\ UNCHANGED sub

\* A distillation is recorded: strictly newer than the last, never ahead.
Record(p) == /\ p \in registry
             /\ \E v \in 1 .. sub[p] :
                   /\ cursor[p] = NoCursor \/ cursor[p] < v
                   /\ cursor' = [cursor EXCEPT ![p] = v]
             /\ UNCHANGED <<registry, sub>>

Next == \E p \in Projects : Change(p) \/ Register(p) \/ Forget(p) \/ Record(p)

Spec == Init /\ [][Next]_vars
=============================================================================
