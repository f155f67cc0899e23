-------------------------------- MODULE Store --------------------------------
(***************************************************************************)
(* The state store ~/.omniproj: a working tree of files, the index and     *)
(* HEAD of the git repository that versions it, the advisory store lock,   *)
(* and the processes that change it (distill, curate, reconcile, add,      *)
(* remove) while the user edits the AI-written files by hand.              *)
(*                                                                         *)
(* Of a project's directory the model keeps the AI state file (auto/, the  *)
(* one distill and curate both write), its .incoming sibling and meta.toml.*)
(* A file's content is who wrote it: a process, a hand edit, or Base, what *)
(* was there before.  Each process runs its command once.                  *)
(***************************************************************************)
EXTENDS Integers, FiniteSets

CONSTANTS
  Projects,
  Procs,       \* the commands that run
  Kind,        \* Kind[o]: what command o is
  Target,      \* Target[o]: the project it works on
  Edits,       \* the user's hand edits
  Base,        \* content from before
  Absent,      \* no such file
  None,        \* nobody
  MaxFaults    \* bound: crashes, failing git commands, locks that cannot be taken

Kinds == {"distill", "curate", "keep-mine", "take-ai", "add", "remove"}

ASSUME ProcsAssumption == Kind \in [Procs -> Kinds] /\ Target \in [Procs -> Projects]
ASSUME ContentAssumption ==
  /\ Procs \cap Edits = {}
  /\ Base \notin Procs \cup Edits
  /\ Absent \notin Procs \cup Edits \cup {Base}
  /\ None \notin Procs \cup Projects
ASSUME FaultAssumption == MaxFaults \in Nat

\* add and remove commit without taking the store lock.
LockFree  == {o \in Procs : Kind[o] \in {"add", "remove"}}
Distills  == {o \in Procs : Kind[o] = "distill"}
Reconciles == {o \in Procs : Kind[o] \in {"keep-mine", "take-ai"}}
AI        == {o \in Procs : Kind[o] \in {"distill", "curate"}}

Paths       == Projects \X {"auto", "incoming", "meta"}
AutoFile(p) == <<p, "auto">>
Incoming(p) == <<p, "incoming">>
Meta(p)     == <<p, "meta">>
Content     == Procs \cup Edits \cup {Base}

VARIABLES
  tree,       \* the working tree
  dirs,       \* projects whose auto/ directory exists
  index,      \* what is staged
  head,       \* what is committed
  versioned,  \* every content that some commit holds
  landed,     \* landed[o]: what o's commit was the first to hold
  lock,       \* holder of store.lock
  pc,         \* where each command is
  divert,     \* divert[o]: o found a pending user edit
  made,       \* made[e]: the project whose file hand edit e went into, or None
  gone,       \* hand edits the user gave up: edited over, removed, taken AI's
  raced,      \* hand edits made between a distill's check and its write, or
              \* that a curate wrote over
  debris,     \* commands that died, or whose git failed, before committing, or
              \* that ran without the lock
  unlocked,   \* transactions that ran without the lock
  faults

git    == <<index, head, versioned, landed>>
ghosts == <<made, gone, raced, debris, unlocked, faults>>
files  == <<tree, dirs>>
vars   == <<tree, dirs, index, head, versioned, landed, lock, pc, divert, made, gone,
            raced, debris, unlocked, faults>>

Stages == {"start", "ready", "locked", "checked", "written", "dirty", "staged", "done"}

TypeOK ==
  /\ tree \in [Paths -> Content \cup {Absent}]
  /\ dirs \in SUBSET Projects
  /\ index \in [Paths -> Content \cup {Absent}]
  /\ head \in [Paths -> Content \cup {Absent}]
  /\ versioned \in SUBSET Content
  /\ landed \in [Procs -> SUBSET Content]
  /\ lock \in Procs \cup {None}
  /\ pc \in [Procs -> Stages]
  /\ divert \in [Procs -> BOOLEAN]
  /\ made \in [Edits -> Projects \cup {None}]
  /\ gone \in SUBSET Edits
  /\ raced \in SUBSET Edits
  /\ debris \in SUBSET Procs
  /\ unlocked \in SUBSET Procs
  /\ faults \in Nat

\* Some projects are registered, and some have been distilled.
Init == /\ \E registered, distilled \in SUBSET Projects :
             /\ tree = [f \in Paths |-> IF f[1] \in distilled /\ f[2] = "auto" THEN Base
                                       ELSE IF f[1] \in registered /\ f[2] = "meta" THEN Base
                                       ELSE Absent]
             /\ dirs = registered \cup distilled
        /\ index = tree /\ head = tree
        /\ versioned = {Base}
        /\ landed = [o \in Procs |-> {}]
        /\ lock = None
        /\ pc = [o \in Procs |-> IF o \in Distills THEN "ready" ELSE "start"]
        /\ divert = [o \in Procs |-> FALSE]
        /\ made = [e \in Edits |-> None]
        /\ gone = {} /\ raced = {} /\ debris = {} /\ unlocked = {} /\ faults = 0

Goto(o, from, to) == /\ pc[o] = from
                     /\ pc' = [pc EXCEPT ![o] = to]

-----------------------------------------------------------------------------
(* Before the transaction.                                                 *)

\* curate reads the file it is going to rewrite, then waits for the model.
CurateRead(o) ==
  /\ Kind[o] = "curate"
  /\ Goto(o, "start", IF tree[AutoFile(Target[o])] = Absent THEN "done" ELSE "ready")
  /\ UNCHANGED <<files, git, lock, divert, ghosts>>

\* reconcile lists the .incoming files; without one there is nothing to do.
ReconcileList(o) ==
  /\ o \in Reconciles
  /\ Goto(o, "start", IF tree[Incoming(Target[o])] = Absent THEN "done" ELSE "ready")
  /\ UNCHANGED <<files, git, lock, divert, ghosts>>

\* store_txn: a blocking exclusive lock.
BeginTxn(o) == /\ lock = None
               /\ Goto(o, "ready", "locked")
               /\ lock' = o
               /\ UNCHANGED <<files, git, divert, ghosts>>

Fault(o) == /\ faults < MaxFaults
            /\ faults' = faults + 1
            /\ debris' = debris \cup {o}
            /\ UNCHANGED <<made, gone, raced>>

\* store.lock cannot be opened or locked: store_txn runs its closure all the same.
BeginUnlocked(o) == /\ Fault(o)
                    /\ Goto(o, "ready", "locked")
                    /\ unlocked' = unlocked \cup {o}
                    /\ UNCHANGED <<files, git, lock, divert>>

\* The guard goes, and with it the lock, if it was taken.
Unlock(o) == lock' = IF lock = o THEN None ELSE lock

-----------------------------------------------------------------------------
(* The writes.                                                             *)

\* `git diff HEAD -- f` prints something for a file f that exists: git compares
\* what is in the index or in HEAD, and says nothing of a file it does not know.
Dirty(f) == IF index[f] = Absent THEN head[f] # Absent ELSE tree[f] # head[f]

\* Mutant of EditPending: asks only for an unresolved .incoming.
EditUnseen(p) == tree[AutoFile(p)] # Absent /\ tree[Incoming(p)] # Absent

\* Mutant of EditPending: asks only git.
IncomingUnseen(p) == tree[AutoFile(p)] # Absent /\ Dirty(AutoFile(p))

EditPending(p) == /\ tree[AutoFile(p)] # Absent
                  /\ tree[Incoming(p)] # Absent \/ Dirty(AutoFile(p))

\* write_outputs makes auto/; write_one asks whether a user edit is pending ...
DistillCheck(o) == /\ Kind[o] = "distill"
                   /\ Goto(o, "locked", "checked")
                   /\ dirs' = dirs \cup {Target[o]}
                   /\ divert' = [divert EXCEPT ![o] = EditPending(Target[o])]
                   /\ UNCHANGED <<tree, git, lock, ghosts>>

\* ... and writes next to the user's file, or over it.
DistillWrite(o) ==
  /\ Target[o] \in dirs
  /\ Goto(o, "checked", "written")
  /\ tree' = [tree EXCEPT ![IF divert[o] THEN Incoming(Target[o]) ELSE AutoFile(Target[o])] = o]
  /\ UNCHANGED <<dirs, git, lock, divert, ghosts>>

\* set_last_distilled: no meta.toml, no cursor.
DistillMeta(o) ==
  /\ Goto(o, "written", "dirty")
  /\ tree' = [tree EXCEPT ![Meta(Target[o])] = IF @ = Absent THEN Absent ELSE o]
  /\ UNCHANGED <<dirs, git, lock, divert, ghosts>>

\* curate writes its result whatever has become of the file.
CurateWrite(o) == /\ Kind[o] = "curate"
                  /\ Target[o] \in dirs
                  /\ Goto(o, "locked", "dirty")
                  /\ tree' = [tree EXCEPT ![AutoFile(Target[o])] = o]
                  /\ raced' = raced \cup ({tree[AutoFile(Target[o])]} \cap Edits)
                  /\ UNCHANGED <<dirs, git, lock, divert, made, gone, debris, unlocked, faults>>

\* Mutant of WriteFails: a failed write leaves the lock held.
WriteFailsHolding(o) == /\ Target[o] \notin dirs
                        /\ \/ Kind[o] = "distill" /\ Goto(o, "checked", "done")
                           \/ Kind[o] = "curate" /\ Goto(o, "locked", "done")
                        /\ UNCHANGED <<files, git, lock, divert, ghosts>>

\* auto/ was removed: the write fails, the command ends and the lock goes.
WriteFails(o) == /\ Target[o] \notin dirs
                 /\ \/ Kind[o] = "distill" /\ Goto(o, "checked", "done")
                    \/ Kind[o] = "curate" /\ Goto(o, "locked", "done")
                 /\ Unlock(o)
                 /\ UNCHANGED <<files, git, divert, ghosts>>

\* resolve_pending: rename or delete the .incoming.
Resolve(o) ==
  LET p == Target[o] IN
  /\ o \in Reconciles
  /\ tree[Incoming(p)] # Absent
  /\ Goto(o, "locked", "dirty")
  /\ IF Kind[o] = "take-ai"
     THEN /\ tree' = [tree EXCEPT ![AutoFile(p)] = tree[Incoming(p)], ![Incoming(p)] = Absent]
          /\ gone' = gone \cup ({tree[AutoFile(p)]} \cap Edits)
     ELSE tree' = [tree EXCEPT ![Incoming(p)] = Absent] /\ UNCHANGED gone
  /\ UNCHANGED <<dirs, git, lock, divert, made, raced, debris, unlocked, faults>>

\* The listed .incoming is no longer there: the command fails, and the lock goes.
ResolveFails(o) == /\ o \in Reconciles
                   /\ tree[Incoming(Target[o])] = Absent
                   /\ Goto(o, "locked", "done")
                   /\ Unlock(o)
                   /\ UNCHANGED <<files, git, divert, ghosts>>

\* `omniproj add`, outside any transaction: a meta.toml that is there keeps its
\* cursor, a new one has none.
Register(o) == /\ Kind[o] = "add"
               /\ Goto(o, "start", "dirty")
               /\ tree' = [tree EXCEPT ![Meta(Target[o])] = IF @ = Absent THEN o ELSE @]
               /\ dirs' = dirs \cup {Target[o]}
               /\ UNCHANGED <<git, lock, divert, ghosts>>

\* `omniproj remove`, outside any transaction: meta.toml and auto/ go.
Unregister(o) ==
  LET p == Target[o] IN
  /\ Kind[o] = "remove"
  /\ tree[Meta(p)] # Absent
  /\ Goto(o, "start", "dirty")
  /\ tree' = [tree EXCEPT ![AutoFile(p)] = Absent, ![Incoming(p)] = Absent, ![Meta(p)] = Absent]
  /\ dirs' = dirs \ {p}
  /\ gone' = gone \cup ({tree[AutoFile(p)]} \cap Edits)
  /\ UNCHANGED <<git, lock, divert, made, raced, debris, unlocked, faults>>

\* Not registered: nothing to remove.
NotRegistered(o) == /\ Kind[o] = "remove"
                    /\ tree[Meta(Target[o])] = Absent
                    /\ Goto(o, "start", "done")
                    /\ UNCHANGED <<files, git, lock, divert, ghosts>>

-----------------------------------------------------------------------------
(* commit_all.                                                             *)

\* Mutant of Stage: the lock goes before the commit.
StageAndUnlock(o) == /\ Goto(o, "dirty", "staged")
                     /\ index' = tree
                     /\ Unlock(o)
                     /\ UNCHANGED <<files, head, versioned, landed, divert, ghosts>>

\* Mutant of Stage: git add -u, which leaves new files out.
StageTracked(o) ==
  /\ Goto(o, "dirty", "staged")
  /\ index' = [f \in Paths |-> IF index[f] = Absent THEN Absent ELSE tree[f]]
  /\ UNCHANGED <<files, head, versioned, landed, lock, divert, ghosts>>

\* git add -A
Stage(o) == /\ Goto(o, "dirty", "staged")
            /\ index' = tree
            /\ UNCHANGED <<files, head, versioned, landed, lock, divert, ghosts>>

\* git commit, if anything is staged; then the transaction is over.
Commit(o) == /\ Goto(o, "staged", "done")
             /\ head' = index
             /\ LET held == {index[f] : f \in Paths} \ {Absent} IN
                  /\ versioned' = versioned \cup held
                  /\ landed' = [landed EXCEPT ![o] = held \ versioned]
             /\ Unlock(o)
             /\ UNCHANGED <<files, index, divert, ghosts>>

\* A git command fails (index.lock is taken); commit_all ignores it.
GitFails(o) == /\ Fault(o)
               /\ \/ Goto(o, "dirty", "staged") /\ UNCHANGED lock
                  \/ Goto(o, "staged", "done") /\ Unlock(o)
               /\ UNCHANGED <<files, git, divert, unlocked>>

\* The process dies; the kernel releases its lock.
Crash(o) == /\ pc[o] # "done"
            /\ pc' = [pc EXCEPT ![o] = "done"]
            /\ Fault(o)
            /\ Unlock(o)
            /\ UNCHANGED <<files, git, divert, unlocked>>

-----------------------------------------------------------------------------
\* The user edits an AI state file, at any moment and without any lock.
UserEdit(e, p) ==
  /\ made[e] = None
  /\ tree[AutoFile(p)] # Absent
  /\ tree' = [tree EXCEPT ![AutoFile(p)] = e]
  /\ made' = [made EXCEPT ![e] = p]
  /\ gone' = gone \cup ({tree[AutoFile(p)]} \cap Edits)
  /\ raced' = IF \E o \in Distills : pc[o] = "checked" /\ ~divert[o] /\ Target[o] = p
              THEN raced \cup {e} ELSE raced
  /\ UNCHANGED <<dirs, git, lock, pc, divert, debris, unlocked, faults>>

Prepare(o) == CurateRead(o) \/ ReconcileList(o) \/ BeginTxn(o)
Write(o)   == \/ DistillCheck(o) \/ DistillWrite(o) \/ DistillMeta(o)
              \/ CurateWrite(o) \/ WriteFails(o) \/ Resolve(o) \/ ResolveFails(o)
              \/ Register(o) \/ Unregister(o) \/ NotRegistered(o)

Run(o)     == Prepare(o) \/ Write(o) \/ Stage(o) \/ Commit(o)

Faults(o)  == BeginUnlocked(o) \/ GitFails(o) \/ Crash(o)

Next == \/ \E o \in Procs : Run(o) \/ Faults(o)
        \/ \E e \in Edits, p \in Projects : UserEdit(e, p)

Spec == Init /\ [][Next]_vars

\* The scheduler runs every command that can run.
FairSpec == Spec /\ \A o \in Procs : WF_vars(Run(o))

-----------------------------------------------------------------------------
(* Properties.                                                             *)

(* Transactions that hold the store lock do not mix (store_txn's contract): *)
(* what such a transaction's commit is the first to hold was written by that *)
(* very transaction, or was lying around uncommitted: a hand edit, a        *)
(* lock-free add, what a dead process left, or what one wrote that could    *)
(* not take the lock, which store_txn then does without.                    *)
TxnsIndependent ==
  \A o \in Procs \ (LockFree \cup unlocked) :
    landed[o] \subseteq {o} \cup Edits \cup LockFree \cup debris

(* Between transactions everything the AI wrote is committed, unless one     *)
(* failed or ran without the lock.  write_outputs rests on this when it     *)
(* takes a file that differs from HEAD for a hand edit of the user.         *)
AIFilesAreClean ==
  lock = None /\ debris = {} =>
    \A p \in Projects : tree[AutoFile(p)] \in AI => tree[AutoFile(p)] = head[AutoFile(p)]

(* "a dirty auto/<f>.md is a user hand-edit": a pending reconcile always     *)
(* goes back to an edit the user made in that project.                      *)
IncomingMeansEdit ==
  \A p \in Projects : tree[Incoming(p)] # Absent => \E e \in Edits : made[e] = p

\* Every transaction on p has had the lock.
Guarded(p) == \A o \in unlocked : Target[o] # p

Curates == {o \in Procs : Kind[o] = "curate"}

(* An unresolved .incoming blocks the file: until a reconcile (or a removal) *)
(* takes the .incoming away, no distill writes over what it conflicts with;  *)
(* curate, which does not look for it, does.  So may whoever works on a       *)
(* project of which some transaction could not take the lock.               *)
IncomingBlocks ==
  [][\A p \in Projects :
       Guarded(p) /\ tree[AutoFile(p)] # Absent /\ tree[Incoming(p)] # Absent
         /\ tree'[Incoming(p)] # Absent =>
           tree'[AutoFile(p)] \in {tree[AutoFile(p)]} \cup Edits \cup Curates]_vars

(* No hand edit is lost for good to a distill or a reconcile: it is in its   *)
(* file, in a commit, given up by the user, or was made in the moment        *)
(* between a distill's check and its write; or it was lost to a curate,      *)
(* which writes what it made of the file whatever the file has become.      *)
EditsRecoverable ==
  \A e \in Edits : made[e] # None =>
    e \in versioned \cup gone \cup raced \cup {tree[AutoFile(made[e])]}

(* "The lock releases on drop, crash included": every command comes to its   *)
(* end, whichever one dies, or fails to write, or fails in git.             *)
EveryCommandEnds == <>(\A o \in Procs : pc[o] = "done")
=============================================================================
