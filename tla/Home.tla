--------------------------------- MODULE Home ---------------------------------
(***************************************************************************)
(* ensure_home: the first command makes ~/.omniproj a git repository and   *)
(* stamps it with the version of its layout; every later one reads the     *)
(* stamp and refuses a store it does not understand.  It takes no lock,    *)
(* and the stamp is truncated before it is written: another first command  *)
(* or a crash may come in between.  A store whose .git was never made, or  *)
(* was removed, is taken for a fresh one, whatever its stamp says.         *)
(***************************************************************************)
EXTENDS Integers

CONSTANTS Procs,
          Missing, Torn,  \* no SCHEMA_VERSION, an empty one
          Current,        \* CURRENT_SCHEMA_VERSION of this binary
          Newer           \* of a later binary

ASSUME VersionAssumption == /\ Current \in Nat /\ Newer \in Nat /\ Newer > Current
                            /\ Missing \notin Nat /\ Torn \notin Nat /\ Missing # Torn

VARIABLES git,    \* there is a .git
          stamp,  \* SCHEMA_VERSION
          hpc,    \* how far each process is in ensure_home
          found,  \* history variable: the stamp before the first command
          fresh,  \* history variable: a command saw no .git
          caught  \* history variable: a process died while it wrote the stamp, or
                  \* another read it meanwhile

homeVars == <<git, stamp, hpc, found, fresh, caught>>

HomeStages == {"out", "enter", "init", "stamp", "put", "read", "adopt", "ready", "refused"}

HomeInit == /\ git \in BOOLEAN
            /\ stamp \in {Missing, Torn, Current, Newer}
            /\ found = stamp /\ fresh = FALSE /\ caught = FALSE
            /\ hpc = [p \in Procs |-> "out"]

HGoto(p, from, to) == hpc[p] = from /\ hpc' = [hpc EXCEPT ![p] = to]
Kept               == UNCHANGED <<found, fresh>>

EnterHome(p) == /\ HGoto(p, "out", "enter")
                /\ UNCHANGED <<git, stamp, caught>> /\ Kept

CheckGit(p) == /\ HGoto(p, "enter", IF git THEN "read" ELSE "init")
               /\ fresh' = (fresh \/ ~git)
               /\ UNCHANGED <<git, stamp, caught, found>>

\* git init; a git command that fails is not noticed.
GitInit(p) == /\ HGoto(p, "init", "stamp")
              /\ git' \in {git, TRUE}
              /\ UNCHANGED <<stamp, caught>> /\ Kept

Truncate(p) == /\ HGoto(p, "stamp", "put")
               /\ stamp' = Torn
               /\ UNCHANGED <<git, caught>> /\ Kept

Put(p) == /\ HGoto(p, "put", "ready")
          /\ stamp' = Current
          /\ UNCHANGED <<git, caught>> /\ Kept

\* A bug: a store without a stamp is one of version 0, for which there is no migration.
ReadAsZero(p) == /\ HGoto(p, "read", IF stamp = Current THEN "ready" ELSE "refused")
                 /\ caught' = (caught \/ \E q \in Procs : hpc[q] = "put")
                 /\ UNCHANGED <<git, stamp>> /\ Kept

\* ensure_schema_version: no stamp means version 1; what is malformed, newer
\* or older (there is no migration yet) is refused.
Read(p) == /\ HGoto(p, "read", CASE stamp = Missing -> "adopt"
                                 [] stamp = Current -> "ready"
                                 [] OTHER           -> "refused")
           /\ caught' = (caught \/ \E q \in Procs : hpc[q] = "put")
           /\ UNCHANGED <<git, stamp>> /\ Kept

Adopt(p) == /\ HGoto(p, "adopt", IF stamp = Missing THEN "stamp" ELSE "ready")
            /\ UNCHANGED <<git, stamp, caught>> /\ Kept

LeaveHome(p) == /\ hpc[p] \in {"ready", "refused"}
                /\ hpc' = [hpc EXCEPT ![p] = "out"]
                /\ UNCHANGED <<git, stamp, caught>> /\ Kept

HomeCrash(p) == /\ hpc' = [hpc EXCEPT ![p] = "out"]
                /\ caught' = (caught \/ hpc[p] = "put")
                /\ UNCHANGED <<git, stamp, found, fresh>>

EnsureHome(p) == \/ CheckGit(p) \/ GitInit(p) \/ Truncate(p) \/ Put(p)
                 \/ Read(p) \/ Adopt(p)

HomeNext == \E p \in Procs : \/ EnterHome(p) \/ EnsureHome(p) \/ LeaveHome(p) \/ HomeCrash(p)

HomeSpec == HomeInit /\ [][HomeNext]_homeVars

-----------------------------------------------------------------------------
HomeTypeOK == /\ {git, fresh, caught} \subseteq BOOLEAN
              /\ {stamp, found} \subseteq {Missing, Torn, Current, Newer}
              /\ hpc \in [Procs -> HomeStages]

\* A command refuses the store only because a newer binary wrote it, because
\* its stamp was malformed before, or because it was being written or its writer
\* had died: no other order of first commands locks the user out (store.rs,
\* read_schema_version).
RefusedForCause == \A p \in Procs : hpc[p] = "refused" =>
                     found \in {Torn, Newer} \/ caught

\* The stamp of a newer store stays as it is, unless a command saw no .git
\* beside it and made the store anew (ensure_home, the branch `fresh`).
NewerKept == found = Newer => stamp = Newer \/ fresh

HomeKept == RefusedForCause /\ NewerKept

=============================================================================
