----------------------------- MODULE StoreProofs ------------------------------
(***************************************************************************)
(* What holds of the state store for every set of projects, commands, hand *)
(* edits and faults.                                                       *)
(***************************************************************************)
EXTENDS Store, TLAPS

Txns == Procs \ LockFree

\* A transaction holds the lock exactly from store_txn to its commit, if it could
\* take it.
LockOK == \A o \in Procs :
  lock = o <=> o \in Txns \ unlocked /\ pc[o] \in {"locked", "checked", "written", "dirty", "staged"}

\* Only the stages of its own kind: what the steps do not ask; and the transactions
\* that ran without the lock are known.
StageOK == \A o \in Procs :
  /\ o \in LockFree => pc[o] \in {"start", "dirty", "staged", "done"}
  /\ pc[o] \in {"checked", "written"} => Kind[o] = "distill"
  /\ o \in unlocked => o \in debris /\ pc[o] \notin {"start", "ready"}

(***************************************************************************)
(* Type correctness.                                                       *)
(***************************************************************************)
LEMMA InitType == Init => TypeOK
<1> SUFFICES ASSUME Init PROVE TypeOK
  OBVIOUS
<1>1. PICK registered \in SUBSET Projects, distilled \in SUBSET Projects :
        /\ tree = [f \in Paths |-> IF f[1] \in distilled /\ f[2] = "auto" THEN Base
                                   ELSE IF f[1] \in registered /\ f[2] = "meta" THEN Base
                                   ELSE Absent]
        /\ dirs = registered \cup distilled
  BY DEF Init
<1>2. tree \in [Paths -> Content \cup {Absent}]
  BY <1>1 DEF Content
<1> QED
  BY <1>1, <1>2 DEF Init, TypeOK, Content, Stages

LEMMA PathsOf ==
  ASSUME NEW p \in Projects
  PROVE  {AutoFile(p), Incoming(p), Meta(p)} \subseteq Paths
BY DEF Paths, AutoFile, Incoming, Meta

LEMMA StepType ==
  ASSUME TypeOK, NEW o \in Procs, Run(o) \/ Faults(o)
  PROVE  TypeOK'
<1> USE DEF TypeOK, files, git, ghosts, Goto, Stages, Content
<1>0. Target[o] \in Projects
  BY ProcsAssumption
<1>1. CASE CurateRead(o)
  BY <1>1 DEF CurateRead
<1>2. CASE ReconcileList(o)
  BY <1>2 DEF ReconcileList
<1>3. CASE BeginTxn(o)
  BY <1>3 DEF BeginTxn
<1>4. CASE DistillCheck(o)
  <2>1. EditPending(Target[o]) \in BOOLEAN
    BY DEF EditPending
  <2> QED
    BY <1>0, <1>4, <2>1 DEF DistillCheck
<1>5. CASE DistillWrite(o)
  BY <1>0, <1>5, PathsOf DEF DistillWrite
<1>6. CASE DistillMeta(o)
  BY <1>0, <1>6, PathsOf DEF DistillMeta
<1>7. CASE CurateWrite(o)
  BY <1>0, <1>7, PathsOf DEF CurateWrite
<1>8. CASE WriteFails(o)
  BY <1>8 DEF WriteFails, Unlock
<1>9. CASE Resolve(o)
  <2>1. /\ tree[Incoming(Target[o])] \in Content \cup {Absent}
        /\ tree[AutoFile(Target[o])] \in Content \cup {Absent}
    BY <1>0, PathsOf
  <2> QED
    BY <1>0, <1>9, <2>1, PathsOf DEF Resolve
<1>10. CASE ResolveFails(o)
  BY <1>10 DEF ResolveFails, Unlock
<1>11. CASE Register(o)
  BY <1>0, <1>11, PathsOf DEF Register
<1>12. CASE Unregister(o)
  BY <1>0, <1>12, PathsOf DEF Unregister
<1>13. CASE NotRegistered(o)
  BY <1>13 DEF NotRegistered
<1>14. CASE Stage(o)
  BY <1>14 DEF Stage
<1>15. CASE Commit(o)
  BY <1>15 DEF Commit, Unlock
<1>16. CASE GitFails(o)
  BY <1>16 DEF GitFails, Fault, Unlock
<1>17. CASE Crash(o)
  BY <1>17 DEF Crash, Fault, Unlock
<1>18. CASE BeginUnlocked(o)
  BY <1>18 DEF BeginUnlocked, Fault
<1> QED
  BY <1>1, <1>2, <1>3, <1>4, <1>5, <1>6, <1>7, <1>8, <1>9, <1>10, <1>11, <1>12,
     <1>13, <1>14, <1>15, <1>16, <1>17, <1>18 DEF Run, Prepare, Write, Faults

LEMMA EditType ==
  ASSUME TypeOK, NEW e \in Edits, NEW p \in Projects, UserEdit(e, p)
  PROVE  TypeOK'
BY PathsOf DEF UserEdit, TypeOK, git, Content

LEMMA NextType == TypeOK /\ [Next]_vars => TypeOK'
<1>1. TypeOK /\ UNCHANGED vars => TypeOK'
  BY DEF TypeOK, vars
<1> QED
  BY <1>1, StepType, EditType DEF Next

(* Every variable of the store keeps its type.                             *)
THEOREM TypeCorrect == Spec => []TypeOK
BY InitType, NextType, PTL DEF Spec

(***************************************************************************)
(* The lock, and which command can be where.                               *)
(***************************************************************************)
LEMMA InitLock == Init => LockOK /\ StageOK
BY ContentAssumption, ProcsAssumption
   DEF Init, LockOK, StageOK, Txns, LockFree, Distills, Kinds

LEMMA StepLock ==
  ASSUME TypeOK, LockOK, StageOK,
         NEW o \in Procs, Run(o) \/ Faults(o)
  PROVE  LockOK' /\ StageOK'
<1> USE ContentAssumption DEF TypeOK, LockOK, StageOK, Txns, LockFree, Goto, ghosts
<1>1. CASE CurateRead(o) \/ ReconcileList(o)
  BY <1>1 DEF CurateRead, ReconcileList, Reconciles
<1>2. CASE BeginTxn(o)
  BY <1>2 DEF BeginTxn
<1>3. CASE DistillCheck(o) \/ DistillWrite(o) \/ DistillMeta(o)
  BY <1>3 DEF DistillCheck, DistillWrite, DistillMeta
<1>4. CASE CurateWrite(o) \/ Resolve(o)
  BY <1>4 DEF CurateWrite, Resolve, Reconciles
<1>5. CASE WriteFails(o)
  BY <1>5 DEF WriteFails, Unlock
<1>6. CASE ResolveFails(o)
  BY <1>6 DEF ResolveFails, Reconciles, Unlock
<1>7. CASE Register(o) \/ Unregister(o) \/ NotRegistered(o)
  BY <1>7 DEF Register, Unregister, NotRegistered
<1>8. CASE Stage(o)
  BY <1>8 DEF Stage
<1>9. CASE Commit(o)
  BY <1>9 DEF Commit, Unlock
<1>10. CASE GitFails(o)
  BY <1>10 DEF GitFails, Fault, Unlock
<1>11. CASE Crash(o)
  BY <1>11 DEF Crash, Fault, Unlock
<1>12. CASE BeginUnlocked(o)
  <2>1. lock # o
    BY <1>12 DEF BeginUnlocked
  <2> QED
    BY <1>12, <2>1 DEF BeginUnlocked, Fault
<1> QED
  BY <1>1, <1>2, <1>3, <1>4, <1>5, <1>6, <1>7, <1>8, <1>9, <1>10, <1>11, <1>12
     DEF Run, Prepare, Write, Faults

LEMMA NextLock == TypeOK /\ LockOK /\ StageOK /\ [Next]_vars => LockOK' /\ StageOK'
<1>1. LockOK /\ StageOK /\ UNCHANGED <<lock, pc, unlocked, debris>> => LockOK' /\ StageOK'
  BY DEF LockOK, StageOK
<1>2. ASSUME NEW e \in Edits, NEW p \in Projects, UserEdit(e, p)
      PROVE  UNCHANGED <<lock, pc, unlocked, debris>>
  BY <1>2 DEF UserEdit
<1> QED
  BY <1>1, <1>2, StepLock DEF Next, vars

(***************************************************************************)
(* Provenance: whose uncommitted writes there can be.                      *)
(***************************************************************************)

\* Commands that have not written a file (yet).
Unwritten(o) == Kind[o] \in {"keep-mine", "take-ai"}
                \/ pc[o] \in {"start", "ready", "locked", "checked"}

\* What a transaction has written and no commit holds is the lock holder's, or
\* was left by a command that failed.
WritesOwned == \A o \in Txns, f \in Paths :
  tree[f] = o \/ index[f] = o =>
    /\ ~Unwritten(o)
    /\ lock = o \/ o \in versioned \cup debris

\* What the transaction about to commit has written is staged (under the name it
\* had then: a reconcile that ran without the lock may have moved it since).
WritesStaged == \A o \in Txns, f \in Paths :
  pc[o] = "staged" /\ o \notin debris /\ tree[f] = o => \E g \in Paths : index[g] = o

Provenance == WritesOwned /\ WritesStaged /\ Base \in versioned

LEMMA InitProvenance == Init => Provenance
<1> SUFFICES ASSUME Init PROVE Provenance
  OBVIOUS
<1>1. \A f \in Paths : tree[f] \in {Base, Absent} /\ index[f] = tree[f]
  BY DEF Init
<1> QED
  BY <1>1, ContentAssumption
     DEF Init, Provenance, WritesOwned, WritesStaged, Txns

LEMMA StepProvenance ==
  ASSUME TypeOK, LockOK, StageOK, Provenance,
         NEW o \in Procs, Run(o) \/ Faults(o)
  PROVE  Provenance'
<1> USE ContentAssumption DEF TypeOK, Txns, LockFree, Goto, files, git, ghosts
<1>0. Target[o] \in Projects
  BY ProcsAssumption
<1>1. CASE CurateRead(o) \/ ReconcileList(o) \/ NotRegistered(o)
  BY <1>1 DEF CurateRead, ReconcileList, NotRegistered, Reconciles, Provenance,
              WritesOwned, WritesStaged, Unwritten
<1>2. CASE BeginTxn(o)
  BY <1>2 DEF BeginTxn, Provenance, WritesOwned, WritesStaged, Unwritten
<1>3. CASE DistillCheck(o)
  BY <1>3 DEF DistillCheck, Provenance, WritesOwned, WritesStaged, Unwritten
<1>4. CASE DistillWrite(o) \/ DistillMeta(o) \/ CurateWrite(o)
  <2>1. lock = o \/ o \in debris
    BY <1>4 DEF DistillWrite, DistillMeta, CurateWrite, LockOK, StageOK
  <2>0. Kind[o] \in {"distill", "curate"}
    <3>1. \/ Kind[o] \in {"distill", "curate"} /\ pc[o] \in {"locked", "checked", "written"}
          \/ pc[o] = "written"
      BY <1>4 DEF DistillWrite, DistillMeta, CurateWrite, StageOK
    <3>2. pc[o] = "written" => o \in Txns /\ Kind[o] \notin {"keep-mine", "take-ai"}
      BY DEF StageOK
    <3> QED
      BY <3>1, <3>2 DEF LockOK, StageOK
  <2>2. pc'[o] \in {"written", "dirty"} /\ \A q \in Procs \ {o} : pc'[q] = pc[q]
    BY <1>4 DEF DistillWrite, DistillMeta, CurateWrite
  <2>3. \A f \in Paths : tree'[f] \in {tree[f], o, Absent}
    BY <1>0, <1>4, PathsOf DEF DistillWrite, DistillMeta, CurateWrite
  <2>4. UNCHANGED <<index, versioned, lock, debris>>
    BY <1>4 DEF DistillWrite, DistillMeta, CurateWrite
  <2>5. \A q \in Txns : q # o /\ pc[q] = "staged" => pc'[q] = "staged"
    BY <2>2
  <2> QED
    BY <2>0, <2>1, <2>2, <2>3, <2>4, <2>5
       DEF Provenance, WritesOwned, WritesStaged, Unwritten
<1>5. CASE WriteFails(o) \/ ResolveFails(o)
  <2>1. o \in Txns /\ Unwritten(o)
    BY <1>5 DEF WriteFails, ResolveFails, Unwritten, Reconciles
  <2>2. \A f \in Paths : tree[f] # o /\ index[f] # o
    BY <2>1 DEF Provenance, WritesOwned
  <2> QED
    BY <1>5, <2>1, <2>2 DEF WriteFails, ResolveFails, Unlock, Provenance, WritesOwned,
                            WritesStaged, Unwritten
<1>6. CASE Resolve(o)
  <2>1. \A f \in Paths : tree'[f] = Absent \/ \E g \in Paths : tree'[f] = tree[g]
    BY <1>0, <1>6, PathsOf DEF Resolve
  <2>2. /\ Kind[o] \in {"keep-mine", "take-ai"}
        /\ \A q \in Procs \ {o} : pc'[q] = pc[q]
        /\ UNCHANGED <<index, versioned, lock, debris>>
    BY <1>6 DEF Resolve, Reconciles
  <2>3. \A q \in Txns : q # o /\ pc[q] = "staged" => pc'[q] = "staged"
    BY <2>2
  <2>4. pc'[o] = "dirty"
    BY <1>6 DEF Resolve
  <2> QED
    BY <2>1, <2>2, <2>3, <2>4 DEF Provenance, WritesOwned, WritesStaged, Unwritten
<1>7. CASE Register(o) \/ Unregister(o)
  <2>1. o \in LockFree /\ \A q \in Procs \ {o} : pc'[q] = pc[q]
    BY <1>7 DEF Register, Unregister
  <2>2. \A f \in Paths : tree'[f] \in {tree[f], o, Absent}
    BY <1>0, <1>7, PathsOf DEF Register, Unregister
  <2>3. UNCHANGED <<index, versioned, lock, debris>>
    BY <1>7 DEF Register, Unregister
  <2> QED
    BY <2>1, <2>2, <2>3 DEF Provenance, WritesOwned, WritesStaged, Unwritten
<1>8. CASE Stage(o)
  BY <1>8 DEF Stage, Provenance, WritesOwned, WritesStaged, Unwritten
<1>9. CASE Commit(o)
  <2>1. versioned \subseteq versioned'
    BY <1>9 DEF Commit
  <2>2. \A f \in Paths : index[f] # Absent => index[f] \in versioned'
    BY <1>9 DEF Commit
  <2>3. /\ pc[o] = "staged" /\ pc'[o] = "done"
        /\ \A q \in Procs \ {o} : pc'[q] = pc[q]
        /\ lock' = IF lock = o THEN None ELSE lock
        /\ UNCHANGED <<tree, index, debris>>
    BY <1>9 DEF Commit, Unlock
  <2>4. WritesOwned'
    <3> SUFFICES ASSUME NEW q \in Txns, NEW f \in Paths, tree[f] = q \/ index[f] = q
                 PROVE  ~Unwritten(q)' /\ (lock' = q \/ q \in versioned' \cup debris)
      BY <2>3 DEF WritesOwned
    <3>1. ~Unwritten(q) /\ (lock = q \/ q \in versioned \cup debris)
      BY DEF Provenance, WritesOwned
    <3>2. ~Unwritten(q)'
      BY <2>3, <3>1 DEF Unwritten
    <3>3. CASE q = o
      BY <2>1, <2>2, <3>1, <3>2, <3>3, <2>3 DEF Provenance, WritesStaged
    <3>4. CASE q # o
      BY <2>1, <2>3, <3>1, <3>2, <3>4
    <3> QED
      BY <3>3, <3>4
  <2> QED
    BY <2>1, <2>3, <2>4 DEF Provenance, WritesStaged
<1>10. CASE Faults(o)
  BY <1>10 DEF Faults, BeginUnlocked, GitFails, Crash, Fault, Unlock, Provenance, WritesOwned,
               WritesStaged, Unwritten
<1> QED
  BY <1>1, <1>2, <1>3, <1>4, <1>5, <1>6, <1>7, <1>8, <1>9, <1>10
     DEF Run, Prepare, Write

LEMMA EditProvenance ==
  ASSUME TypeOK, Provenance, NEW e \in Edits, NEW p \in Projects, UserEdit(e, p)
  PROVE  Provenance'
<1>1. \A f \in Paths : tree'[f] \in {tree[f], e}
  BY PathsOf DEF UserEdit, TypeOK
<1> QED
  BY <1>1, ContentAssumption
     DEF UserEdit, git, Provenance, WritesOwned, WritesStaged, Unwritten, Txns

\* Everything above holds together.
StoreInv == TypeOK /\ LockOK /\ StageOK /\ Provenance

LEMMA StoreInvariant == Spec => []StoreInv
<1>1. Init => StoreInv
  BY InitType, InitLock, InitProvenance DEF StoreInv
<1>2. Provenance /\ UNCHANGED vars => Provenance'
  BY DEF vars, Provenance, WritesOwned, WritesStaged, Unwritten
<1>3. StoreInv /\ [Next]_vars => Provenance'
  BY <1>2, StepProvenance, EditProvenance DEF StoreInv, Next
<1>4. StoreInv /\ [Next]_vars => StoreInv'
  BY <1>3, NextType, NextLock DEF StoreInv
<1> QED
  BY <1>1, <1>4, PTL DEF Spec

(***************************************************************************)
(* No two store transactions mix.                                          *)
(***************************************************************************)
LEMMA CommitIsOwn ==
  ASSUME StoreInv, NEW o \in Txns \ unlocked, Commit(o)
  PROVE  landed'[o] \subseteq {o} \cup Edits \cup LockFree \cup debris
<1>1. lock = o
  BY DEF StoreInv, LockOK, Commit, Goto, Txns
<1>2. landed'[o] = ({index[f] : f \in Paths} \ {Absent}) \ versioned
  BY DEF StoreInv, TypeOK, Commit, Txns
<1> SUFFICES ASSUME NEW f \in Paths, index[f] # Absent, index[f] \notin versioned
             PROVE  index[f] \in {o} \cup Edits \cup LockFree \cup debris
  BY <1>2
<1>3. index[f] \in Procs \cup Edits
  BY DEF StoreInv, TypeOK, Content, Provenance
<1>4. index[f] \in Txns => index[f] \in {o} \cup debris
  BY <1>1 DEF StoreInv, Provenance, WritesOwned
<1> QED
  BY <1>3, <1>4 DEF Txns

LEMMA NextTxns == StoreInv /\ TxnsIndependent /\ [Next]_vars => TxnsIndependent'
<1> SUFFICES ASSUME StoreInv, TxnsIndependent, [Next]_vars PROVE TxnsIndependent'
  OBVIOUS
<1>1. ASSUME UNCHANGED landed, debris \subseteq debris', unlocked \subseteq unlocked'
      PROVE  TxnsIndependent'
  BY <1>1 DEF TxnsIndependent
<1>2. ASSUME NEW o \in Procs, Commit(o) PROVE TxnsIndependent'
  <2>1. UNCHANGED <<debris, unlocked>> /\ \A q \in Procs \ {o} : landed'[q] = landed[q]
    BY <1>2 DEF Commit, ghosts, StoreInv, TypeOK
  <2>2. o \in Txns \ unlocked => landed'[o] \subseteq {o} \cup Edits \cup LockFree \cup debris
    BY <1>2, CommitIsOwn
  <2> QED
    BY <2>1, <2>2 DEF TxnsIndependent, Txns
<1>3. ASSUME NEW o \in Procs, Prepare(o) \/ Write(o) \/ Stage(o) PROVE TxnsIndependent'
  BY <1>1, <1>3 DEF Prepare, CurateRead, ReconcileList, BeginTxn, Write, DistillCheck,
     DistillWrite, DistillMeta, CurateWrite, WriteFails, Resolve, ResolveFails,
     Register, Unregister, NotRegistered, Stage, git, ghosts
<1>4. ASSUME NEW o \in Procs, Faults(o) PROVE TxnsIndependent'
  BY <1>1, <1>4 DEF Faults, BeginUnlocked, GitFails, Crash, Fault, git
<1>5. ASSUME NEW e \in Edits, NEW p \in Projects, UserEdit(e, p) PROVE TxnsIndependent'
  BY <1>1, <1>5 DEF UserEdit, git
<1>6. CASE UNCHANGED vars
  BY <1>1, <1>6 DEF vars
<1> QED
  BY <1>2, <1>3, <1>4, <1>5, <1>6 DEF Next, Run

(* What the commit of a transaction that has the lock is the first to hold  *)
(* was written by that very transaction, or was lying around uncommitted: a *)
(* hand edit, a lock-free add, what a dead process left, or what a          *)
(* transaction wrote that could not take the lock and ran all the same.     *)
THEOREM TransactionsDoNotMix == Spec => []TxnsIndependent
<1>1. Init => TxnsIndependent
  BY DEF Init, TxnsIndependent
<1> QED
  BY <1>1, NextTxns, StoreInvariant, PTL DEF Spec

(***************************************************************************)
(* Between transactions what the AI wrote is committed.                    *)
(***************************************************************************)
InStages(stages) == \E o \in Procs : lock = o /\ pc[o] \in stages

\* Until the transaction writes, an AI file is what HEAD and the index hold;
\* before its commit, at least what the index holds.
AIClean(f) == tree[f] \in AI =>
  /\ lock = None \/ InStages({"locked", "checked"}) =>
       index[f] = tree[f] /\ head[f] = tree[f]
  /\ InStages({"staged"}) => index[f] = tree[f]

AllClean == debris = {} => \A f \in Paths : AIClean(f)

LEMMA InitClean == Init => AllClean
BY DEF Init, AllClean, AIClean

LEMMA StepDebris ==
  ASSUME NEW o \in Procs, Run(o) \/ Faults(o)
  PROVE  debris \subseteq debris'
BY DEF Run, Prepare, CurateRead, ReconcileList, BeginTxn, Write, DistillCheck,
   DistillWrite, DistillMeta, CurateWrite, WriteFails, Resolve, ResolveFails,
   Register, Unregister, NotRegistered, Stage, Commit, Faults, BeginUnlocked, GitFails, Crash, Fault, ghosts

\* Where nothing has failed, every transaction has the lock.
LEMMA AllLocked ==
  ASSUME StoreInv, NEW o \in Procs, Run(o) \/ Faults(o), debris' = {}
  PROVE  debris = {} /\ unlocked = {}
<1>1. debris = {}
  BY StepDebris
<1> QED
  BY <1>1 DEF StoreInv, StageOK, TypeOK

LEMMA StepClean ==
  ASSUME StoreInv, AllClean, debris' = {},
         NEW o \in Procs, Run(o) \/ Faults(o)
  PROVE  AllClean'
<1> USE DEF StoreInv, TypeOK, Goto, files, git
<1>0. Target[o] \in Projects /\ unlocked = {}
  BY ProcsAssumption, AllLocked
<1>1. \A q \in Procs : lock = q => q \in Txns /\ \A r \in Procs : lock = r => r = q
  BY DEF LockOK
<1> SUFFICES ASSUME NEW f \in Paths, tree'[f] \in AI PROVE AIClean(f)'
  BY DEF AllClean, AIClean
<1>2. CASE CurateRead(o) \/ ReconcileList(o) \/ NotRegistered(o)
  <2>1. lock # o /\ UNCHANGED <<tree, index, head, lock, debris>>
        /\ \A q \in Procs \ {o} : pc'[q] = pc[q]
    BY <1>2 DEF CurateRead, ReconcileList, NotRegistered, ghosts, LockOK
  <2> QED
    BY <2>1 DEF AllClean, AIClean, InStages
<1>3. CASE BeginTxn(o)
  BY <1>3, ContentAssumption DEF BeginTxn, ghosts, AllClean, AIClean, InStages
<1>4. CASE DistillCheck(o)
  BY <1>4, <1>1 DEF DistillCheck, ghosts, AllClean, AIClean, InStages, LockOK
<1>5. CASE DistillWrite(o) \/ DistillMeta(o) \/ CurateWrite(o) \/ Resolve(o)
  <2>1. lock = o /\ lock' = o
    BY <1>0, <1>5 DEF DistillWrite, DistillMeta, CurateWrite, Resolve, Reconciles,
                LockOK, StageOK, Txns, LockFree
  <2>2. pc'[o] \in {"written", "dirty"}
    BY <1>5 DEF DistillWrite, DistillMeta, CurateWrite, Resolve
  <2> QED
    BY <2>1, <2>2, ContentAssumption DEF AIClean, InStages
<1>6. CASE WriteFails(o) \/ ResolveFails(o)
  <2>1. lock = o /\ pc[o] \in {"locked", "checked"} /\ lock' = None
        /\ UNCHANGED <<tree, index, head, debris>>
    BY <1>0, <1>6 DEF WriteFails, ResolveFails, Unlock, Reconciles, ghosts, LockOK, Txns, LockFree
  <2> QED
    BY <2>1, ContentAssumption DEF AllClean, AIClean, InStages
<1>7. CASE Register(o) \/ Unregister(o)
  <2>1. o \notin AI /\ Absent \notin AI
    BY <1>7, ContentAssumption DEF Register, Unregister, AI
  <2>2. tree'[f] = tree[f]
    BY <1>0, <1>7, <2>1, PathsOf DEF Register, Unregister
  <2>3. lock # o /\ UNCHANGED <<index, head, lock, debris>>
        /\ \A q \in Procs \ {o} : pc'[q] = pc[q]
    BY <1>7 DEF Register, Unregister, ghosts, LockOK, Txns, LockFree
  <2> QED
    BY <2>2, <2>3 DEF AllClean, AIClean, InStages
<1>8. CASE Stage(o)
  <2>1. index' = tree /\ UNCHANGED <<tree, head, lock, debris>>
        /\ pc[o] = "dirty" /\ \A q \in Procs \ {o} : pc'[q] = pc[q]
    BY <1>8 DEF Stage, ghosts
  <2>2. lock = o => ~InStages({"locked", "checked"})'
    BY <1>8, <2>1, <1>1 DEF Stage, InStages
  <2> QED
    BY <2>1, <2>2, ContentAssumption DEF AllClean, AIClean, InStages
<1>9. CASE Commit(o)
  <2>1. head' = index /\ UNCHANGED <<tree, index, debris>> /\ pc[o] = "staged"
        /\ \A q \in Procs \ {o} : pc'[q] = pc[q]
    BY <1>9 DEF Commit, ghosts
  <2>2. CASE lock = o
    <3>1. lock' = None /\ index[f] = tree[f]
      BY <1>9, <2>1, <2>2 DEF Commit, Unlock, AllClean, AIClean, InStages
    <3> QED
      BY <2>1, <3>1, ContentAssumption DEF AIClean, InStages
  <2>3. CASE lock # o
    <3>1. lock' = lock
      BY <1>9, <2>3 DEF Commit, Unlock
    <3> QED
      BY <2>1, <2>3, <3>1 DEF AllClean, AIClean, InStages
  <2> QED
    BY <2>2, <2>3
<1>10. CASE Faults(o)
  BY <1>10 DEF Faults, BeginUnlocked, GitFails, Crash, Fault
<1> QED
  BY <1>2, <1>3, <1>4, <1>5, <1>6, <1>7, <1>8, <1>9, <1>10 DEF Run, Prepare, Write

LEMMA EditClean ==
  ASSUME StoreInv, AllClean, NEW e \in Edits, NEW p \in Projects, UserEdit(e, p)
  PROVE  AllClean'
<1>1. \A f \in Paths : tree'[f] = tree[f] \/ tree'[f] \notin AI
  BY PathsOf, ContentAssumption DEF UserEdit, StoreInv, TypeOK, AI
<1> QED
  BY <1>1 DEF UserEdit, git, AllClean, AIClean, InStages

LEMMA NextClean == StoreInv /\ AllClean /\ [Next]_vars => AllClean'
<1>1. AllClean /\ UNCHANGED vars => AllClean'
  BY DEF vars, AllClean, AIClean, InStages
<1>2. debris' # {} => AllClean'
  BY DEF AllClean
<1> QED
  BY <1>1, <1>2, StepClean, EditClean DEF Next

(* While no command runs a transaction, and none has died or run without    *)
(* the lock, every file the AI wrote is committed.                          *)
THEOREM NothingUncommitted == Spec => []AIFilesAreClean
<1>1. AllClean => AIFilesAreClean
  BY PathsOf DEF AllClean, AIClean, AIFilesAreClean
<1> QED
  BY <1>1, InitClean, NextClean, StoreInvariant, PTL DEF Spec

(***************************************************************************)
(* Without faults, a pending reconcile means a hand edit.                  *)
(***************************************************************************)
EditedIn(p) == \E e \in Edits : made[e] = p

\* Who can have written what: what was there before is in its place everywhere,
\* a .incoming comes from a distill, an edit is where it was made.
OriginsOK == \A p \in Projects :
  /\ tree[AutoFile(p)] \in AI \cup Edits \cup {Base, Absent}
  /\ tree[AutoFile(p)] = Base => index[AutoFile(p)] = Base /\ head[AutoFile(p)] = Base
  /\ tree[AutoFile(p)] \in Edits => EditedIn(p)
  /\ tree[Incoming(p)] \in AI \cup {Absent}
  /\ tree[Incoming(p)] # Absent => EditedIn(p)

DivertOK == \A o \in Procs :
  pc[o] = "checked" /\ divert[o] => EditedIn(Target[o])

IncomingInv == debris = {} => OriginsOK /\ DivertOK

LEMMA Distinct ==
  ASSUME NEW p \in Projects, NEW q \in Projects
  PROVE  /\ AutoFile(p) # Incoming(q) /\ AutoFile(p) # Meta(q) /\ Incoming(p) # Meta(q)
         /\ AutoFile(p) = AutoFile(q) => p = q
         /\ Incoming(p) = Incoming(q) => p = q
BY DEF AutoFile, Incoming, Meta

LEMMA InitIncoming == Init => IncomingInv
<1> SUFFICES ASSUME Init PROVE IncomingInv
  OBVIOUS
<1>1. /\ \A p \in Projects : tree[AutoFile(p)] \in {Base, Absent} /\ tree[Incoming(p)] = Absent
      /\ index = tree /\ head = tree
  BY PathsOf DEF Init, AutoFile, Incoming
<1> QED
  BY <1>1, ContentAssumption DEF Init, IncomingInv, OriginsOK, DivertOK, AI

\* The check of a distill finds an edit only where there is one.
LEMMA PendingIsEdited ==
  ASSUME StoreInv, AllClean, OriginsOK, debris = {},
         NEW o \in Procs, lock = o, pc[o] = "locked",
         NEW p \in Projects, EditPending(p)
  PROVE  EditedIn(p)
<1>1. tree[AutoFile(p)] # Absent
  BY DEF EditPending
<1>2. CASE tree[Incoming(p)] # Absent
  BY <1>2 DEF OriginsOK
<1>3. CASE Dirty(AutoFile(p))
  <2>1. tree[AutoFile(p)] # Base
    BY <1>1, <1>3 DEF OriginsOK, Dirty
  <2>2. tree[AutoFile(p)] \notin AI
    BY <1>1, <1>3, PathsOf DEF AllClean, AIClean, InStages, Dirty
  <2> QED
    BY <1>1, <2>1, <2>2 DEF OriginsOK
<1> QED
  BY <1>2, <1>3 DEF EditPending

LEMMA StepIncoming ==
  ASSUME StoreInv, AllClean, IncomingInv, debris' = {},
         NEW o \in Procs, Run(o) \/ Faults(o)
  PROVE  OriginsOK' /\ DivertOK'
<1> USE DEF StoreInv, TypeOK, Goto, files, git
<1>0. Target[o] \in Projects /\ OriginsOK /\ DivertOK /\ debris = {} /\ unlocked = {}
  BY ProcsAssumption, AllLocked DEF IncomingInv
<1>a. ASSUME UNCHANGED <<index, head, made>>,
             \A p \in Projects : tree'[AutoFile(p)] \in {tree[AutoFile(p)], Absent}
                                 /\ tree'[Incoming(p)] \in {tree[Incoming(p)], Absent}
      PROVE  OriginsOK'
  BY <1>0, <1>a, ContentAssumption DEF OriginsOK, EditedIn, AI
<1>b. ASSUME UNCHANGED made, UNCHANGED divert, \A q \in Procs : pc'[q] = "checked" => pc[q] = "checked"
      PROVE  DivertOK'
  BY <1>0, <1>b DEF DivertOK, EditedIn
<1>1. CASE Prepare(o) \/ WriteFails(o) \/ ResolveFails(o) \/ NotRegistered(o)
  <2>1. UNCHANGED <<tree, index, head, made, divert>>
        /\ \A q \in Procs : pc'[q] = "checked" => pc[q] = "checked"
    BY <1>1 DEF Prepare, CurateRead, ReconcileList, BeginTxn, WriteFails, ResolveFails,
                NotRegistered, ghosts
  <2> QED
    BY <2>1, <1>a, <1>b
<1>2. CASE DistillCheck(o)
  <2>1. UNCHANGED <<tree, index, head, made>>
    BY <1>2 DEF DistillCheck, ghosts
  <2>2. lock = o /\ pc[o] = "locked"
    BY <1>0, <1>2 DEF DistillCheck, LockOK, Txns, LockFree
  <2>3. /\ divert'[o] = EditPending(Target[o])
        /\ \A q \in Procs \ {o} : pc'[q] = pc[q] /\ divert'[q] = divert[q]
    BY <1>2 DEF DistillCheck
  <2>4. DivertOK'
    BY <1>0, <2>1, <2>2, <2>3, PendingIsEdited DEF DivertOK, EditedIn
  <2> QED
    BY <2>1, <2>4, <1>a
<1>3. CASE DistillWrite(o)
  <2>1. UNCHANGED <<index, head, made, divert>> /\ o \in AI /\ pc[o] = "checked"
        /\ \A q \in Procs : pc'[q] = "checked" => pc[q] = "checked"
    BY <1>3 DEF DistillWrite, ghosts, StageOK, AI
  <2>2. o # Base /\ o # Absent /\ o \notin Edits
    BY ContentAssumption
  <2>3. ASSUME NEW p \in Projects, p # Target[o]
        PROVE  tree'[AutoFile(p)] = tree[AutoFile(p)] /\ tree'[Incoming(p)] = tree[Incoming(p)]
    BY <1>0, <1>3, <2>3, Distinct, PathsOf DEF DistillWrite
  <2>4. CASE divert[o]
    <3>1. tree'[Incoming(Target[o])] = o /\ tree'[AutoFile(Target[o])] = tree[AutoFile(Target[o])]
      BY <1>0, <1>3, <2>4, Distinct, PathsOf DEF DistillWrite
    <3>2. EditedIn(Target[o])
      BY <1>0, <2>1, <2>4 DEF DivertOK
    <3>3. OriginsOK'
      BY <1>0, <2>1, <2>2, <2>3, <3>1, <3>2 DEF OriginsOK, EditedIn
    <3> QED
      BY <2>1, <3>3, <1>b
  <2>5. CASE ~divert[o]
    <3>1. tree'[AutoFile(Target[o])] = o /\ tree'[Incoming(Target[o])] = tree[Incoming(Target[o])]
      BY <1>0, <1>3, <2>5, Distinct, PathsOf DEF DistillWrite
    <3>2. OriginsOK'
      BY <1>0, <2>1, <2>2, <2>3, <3>1 DEF OriginsOK, EditedIn
    <3> QED
      BY <2>1, <3>2, <1>b
  <2> QED
    BY <2>4, <2>5
<1>4. CASE CurateWrite(o)
  <2>1. UNCHANGED <<index, head, made, divert>> /\ o \in AI
        /\ \A q \in Procs : pc'[q] = "checked" => pc[q] = "checked"
    BY <1>4 DEF CurateWrite, ghosts, AI
  <2>2. o # Base /\ o # Absent /\ o \notin Edits
    BY ContentAssumption
  <2>3. \A p \in Projects : tree'[AutoFile(p)] \in {tree[AutoFile(p)], o}
                            /\ tree'[Incoming(p)] = tree[Incoming(p)]
    BY <1>0, <1>4, Distinct, PathsOf DEF CurateWrite
  <2>4. OriginsOK'
    BY <1>0, <2>1, <2>2, <2>3 DEF OriginsOK, EditedIn
  <2> QED
    BY <2>1, <2>4, <1>b
<1>5. CASE DistillMeta(o) \/ Register(o) \/ Unregister(o)
  <2>1. UNCHANGED <<index, head, made, divert>>
        /\ \A q \in Procs : pc'[q] = "checked" => pc[q] = "checked"
    BY <1>5 DEF DistillMeta, Register, Unregister, ghosts
  <2>2. \A p \in Projects : tree'[AutoFile(p)] \in {tree[AutoFile(p)], Absent}
                            /\ tree'[Incoming(p)] \in {tree[Incoming(p)], Absent}
    BY <1>0, <1>5, Distinct, PathsOf DEF DistillMeta, Register, Unregister
  <2> QED
    BY <2>1, <2>2, <1>a, <1>b
<1>6. CASE Resolve(o)
  <2>1. UNCHANGED <<index, head, made, divert>>
        /\ \A q \in Procs : pc'[q] = "checked" => pc[q] = "checked"
    BY <1>6 DEF Resolve
  <2>2. ASSUME NEW p \in Projects
        PROVE  /\ tree'[AutoFile(p)] = tree[AutoFile(p)] \/ tree'[AutoFile(p)] \in AI
               /\ tree'[Incoming(p)] \in {tree[Incoming(p)], Absent}
    BY <1>0, <1>6, Distinct, PathsOf DEF Resolve, OriginsOK
  <2>3. Base \notin AI /\ Edits \cap AI = {}
    BY ContentAssumption DEF AI
  <2>4. OriginsOK'
    BY <1>0, <2>1, <2>2, <2>3 DEF OriginsOK, EditedIn
  <2> QED
    BY <2>1, <2>4, <1>b
<1>7. CASE Stage(o) \/ Commit(o)
  <2>1. UNCHANGED <<tree, made, divert>>
        /\ \A q \in Procs : pc'[q] = "checked" => pc[q] = "checked"
    BY <1>7 DEF Stage, Commit, ghosts
  <2>2. \A f \in Paths : tree[f] = Base /\ index[f] = Base /\ head[f] = Base =>
                           index'[f] = Base /\ head'[f] = Base
    BY <1>7 DEF Stage, Commit
  <2>3. OriginsOK'
    BY <1>0, <2>1, <2>2, PathsOf DEF OriginsOK, EditedIn
  <2> QED
    BY <2>1, <2>3, <1>b
<1>8. CASE Faults(o)
  BY <1>8 DEF Faults, BeginUnlocked, GitFails, Crash, Fault
<1> QED
  BY <1>1, <1>2, <1>3, <1>4, <1>5, <1>6, <1>7, <1>8 DEF Run, Write

LEMMA EditIncoming ==
  ASSUME StoreInv, IncomingInv, NEW e \in Edits, NEW p \in Projects, UserEdit(e, p)
  PROVE  IncomingInv'
<1> SUFFICES ASSUME debris' = {} PROVE OriginsOK' /\ DivertOK'
  BY DEF IncomingInv
<1>1. OriginsOK /\ DivertOK /\ UNCHANGED <<index, head, pc, divert>>
  BY DEF UserEdit, git, IncomingInv
<1>2. made'[e] = p /\ \A q \in Projects : EditedIn(q) => EditedIn(q)'
  BY ContentAssumption DEF UserEdit, StoreInv, TypeOK, EditedIn
<1>3. \A q \in Projects : /\ tree'[Incoming(q)] = tree[Incoming(q)]
                          /\ tree'[AutoFile(q)] = IF q = p THEN e ELSE tree[AutoFile(q)]
  BY Distinct, PathsOf DEF UserEdit, StoreInv, TypeOK
<1>4. OriginsOK'
  BY <1>1, <1>2, <1>3, ContentAssumption DEF OriginsOK, EditedIn
<1> QED
  BY <1>1, <1>2, <1>4, ProcsAssumption DEF DivertOK

LEMMA NextIncoming == StoreInv /\ AllClean /\ IncomingInv /\ [Next]_vars => IncomingInv'
<1>1. IncomingInv /\ UNCHANGED vars => IncomingInv'
  BY DEF vars, IncomingInv, OriginsOK, DivertOK, EditedIn
<1>2. debris' # {} => IncomingInv'
  BY DEF IncomingInv
<1> QED
  BY <1>1, <1>2, StepIncoming, EditIncoming DEF Next, IncomingInv

\* The bound on faults is reached before anything is left behind.
LEMMA NoFaultsNoDebris == MaxFaults = 0 => (Spec => [](faults = 0 /\ debris = {}))
<1> SUFFICES ASSUME MaxFaults = 0 PROVE Spec => [](faults = 0 /\ debris = {})
  OBVIOUS
<1> DEFINE Inv == faults = 0 /\ debris = {}
<1>1. Init => Inv
  BY DEF Init
<1>2. ASSUME Inv, NEW o \in Procs, Run(o) PROVE Inv'
  BY <1>2 DEF Run, Prepare, CurateRead, ReconcileList, BeginTxn, Write, DistillCheck,
     DistillWrite, DistillMeta, CurateWrite, WriteFails, Resolve, ResolveFails,
     Register, Unregister, NotRegistered, Stage, Commit, ghosts
<1>3. ASSUME Inv, NEW o \in Procs, Faults(o) PROVE Inv'
  BY <1>3 DEF Faults, BeginUnlocked, GitFails, Crash, Fault
<1>4. ASSUME Inv, NEW e \in Edits, NEW p \in Projects, UserEdit(e, p) PROVE Inv'
  BY <1>4 DEF UserEdit
<1>5. Inv /\ [Next]_vars => Inv'
  BY <1>2, <1>3, <1>4 DEF Next, vars
<1> QED
  BY <1>1, <1>5, PTL DEF Spec

(* Where no command dies and git does not fail, a .incoming always goes back *)
(* to a hand edit the user made in that project.                            *)
THEOREM ConflictsAreReal == MaxFaults = 0 => (Spec => []IncomingMeansEdit)
<1> SUFFICES ASSUME MaxFaults = 0 PROVE Spec => []IncomingMeansEdit
  OBVIOUS
<1>1. IncomingInv /\ debris = {} => IncomingMeansEdit
  BY DEF IncomingInv, OriginsOK, EditedIn, IncomingMeansEdit
<1>2. Spec => []IncomingInv
  BY InitClean, NextClean, InitIncoming, NextIncoming, StoreInvariant, PTL DEF Spec
<1>3. Spec => [](faults = 0 /\ debris = {})
  BY NoFaultsNoDebris
<1> QED
  BY <1>1, <1>2, <1>3, PTL

(***************************************************************************)
(* An unresolved .incoming blocks the file.                                *)
(***************************************************************************)
\* Nothing has come to stand beside the file since the check: while a distill
\* holds the lock, and everyone else waits for it, only a removal touches a
\* .incoming.
BlockOK == \A o \in Procs :
  Guarded(Target[o]) /\ pc[o] = "checked" /\ ~divert[o] =>
    tree[Incoming(Target[o])] = Absent \/ tree[AutoFile(Target[o])] = Absent

\* What a step leaves of the files of a project.
LEMMA OutsideFrame ==
  ASSUME StoreInv, NEW o \in Procs, NEW p \in Projects,
         \/ Prepare(o) \/ DistillCheck(o) \/ DistillMeta(o) \/ WriteFails(o) \/ ResolveFails(o)
         \/ Register(o) \/ NotRegistered(o) \/ Stage(o) \/ Commit(o) \/ Faults(o)
  PROVE  tree'[AutoFile(p)] = tree[AutoFile(p)] /\ tree'[Incoming(p)] = tree[Incoming(p)]
<1>0. Target[o] \in Projects
  BY ProcsAssumption
<1>1. CASE DistillMeta(o) \/ Register(o)
  BY <1>0, <1>1, Distinct, PathsOf DEF DistillMeta, Register, StoreInv, TypeOK
<1> QED
  BY <1>1 DEF Prepare, CurateRead, ReconcileList, BeginTxn, DistillCheck, WriteFails,
     ResolveFails, NotRegistered, Stage, Commit, Faults, BeginUnlocked, GitFails, Crash, files

LEMMA StepBlock ==
  ASSUME StoreInv, BlockOK, NEW o \in Procs, Run(o) \/ Faults(o)
  PROVE  BlockOK'
<1> USE DEF StoreInv, TypeOK, Goto
<1>0. Target[o] \in Projects
  BY ProcsAssumption
<1> SUFFICES ASSUME NEW q \in Procs, Guarded(Target[q])', pc'[q] = "checked", ~divert'[q]
             PROVE  tree'[Incoming(Target[q])] = Absent \/ tree'[AutoFile(Target[q])] = Absent
  BY DEF BlockOK
<1>1. Target[q] \in Projects
  BY ProcsAssumption
<1>g. unlocked \subseteq unlocked' /\ Guarded(Target[q])
  BY DEF Guarded, Run, Prepare, CurateRead, ReconcileList, BeginTxn, Write, DistillCheck,
     DistillWrite, DistillMeta, CurateWrite, WriteFails, Resolve, ResolveFails, Register,
     Unregister, NotRegistered, Stage, Commit, Faults, BeginUnlocked, GitFails, Crash, ghosts
<1>2. CASE DistillCheck(o)
  <2>1. tree' = tree
    BY <1>2 DEF DistillCheck
  <2>2. CASE q = o
    BY <1>0, <1>2, <2>1, <2>2 DEF DistillCheck, EditPending
  <2>3. CASE q # o
    BY <1>2, <1>g, <2>1, <2>3 DEF DistillCheck, BlockOK
  <2> QED
    BY <2>2, <2>3
<1>3. CASE \/ Prepare(o) \/ DistillMeta(o) \/ WriteFails(o) \/ ResolveFails(o)
           \/ Register(o) \/ NotRegistered(o) \/ Stage(o) \/ Commit(o) \/ Faults(o)
  <2>1. pc[q] = "checked" /\ ~divert[q]
    BY <1>3 DEF Prepare, CurateRead, ReconcileList, BeginTxn, DistillMeta, WriteFails,
       ResolveFails, Register, NotRegistered, Stage, Commit, Faults, BeginUnlocked, GitFails, Crash, Fault
  <2> QED
    BY <1>1, <1>3, <1>g, <2>1, OutsideFrame DEF BlockOK
<1>4. CASE DistillWrite(o) \/ CurateWrite(o) \/ Resolve(o)
  <2>1. /\ pc'[o] # "checked" /\ o \in Txns
        /\ pc[o] \in {"locked", "checked"}
        /\ \A r \in Procs : r # o => pc'[r] = pc[r] /\ divert'[r] = divert[r]
    BY <1>4 DEF DistillWrite, CurateWrite, Resolve, Reconciles, StageOK, Txns, LockFree
  <2>2. q # o /\ pc[q] = "checked" /\ ~divert[q]
    BY <1>4, <2>1
  <2>3. q \in Txns \ unlocked
    BY <1>g, <2>2 DEF StageOK, Txns, LockFree, Guarded
  <2>4. lock = q
    BY <2>2, <2>3 DEF LockOK
  <2>5. CASE Target[q] = Target[o]
    <3>1. o \notin unlocked
      BY <1>g, <2>5 DEF Guarded
    <3>2. lock = o
      BY <2>1, <3>1 DEF LockOK
    <3> QED
      BY <2>2, <2>4, <3>2
  <2>6. CASE Target[q] # Target[o]
    <3>1. /\ tree'[AutoFile(Target[q])] = tree[AutoFile(Target[q])]
          /\ tree'[Incoming(Target[q])] = tree[Incoming(Target[q])]
      BY <1>0, <1>1, <1>4, <2>6, Distinct, PathsOf DEF DistillWrite, CurateWrite, Resolve
    <3> QED
      BY <1>g, <2>2, <3>1 DEF BlockOK
  <2> QED
    BY <2>5, <2>6
<1>5. CASE Unregister(o)
  <2>1. pc[q] = "checked" /\ ~divert[q]
    BY <1>5 DEF Unregister
  <2>2. CASE Target[q] = Target[o]
    BY <1>0, <1>5, <2>2, Distinct, PathsOf DEF Unregister
  <2>3. CASE Target[q] # Target[o]
    BY <1>0, <1>1, <1>5, <1>g, <2>1, <2>3, Distinct, PathsOf DEF Unregister, BlockOK
  <2> QED
    BY <2>2, <2>3
<1> QED
  BY <1>2, <1>3, <1>4, <1>5 DEF Run, Write

LEMMA EditBlock ==
  ASSUME StoreInv, BlockOK, NEW e \in Edits, NEW p \in Projects, UserEdit(e, p)
  PROVE  BlockOK'
<1>1. UNCHANGED <<pc, divert, unlocked>> /\ tree[AutoFile(p)] # Absent
  BY DEF UserEdit
<1>2. \A q \in Projects : /\ tree'[Incoming(q)] = tree[Incoming(q)]
                          /\ q # p => tree'[AutoFile(q)] = tree[AutoFile(q)]
  BY Distinct, PathsOf DEF UserEdit, StoreInv, TypeOK
<1> QED
  BY <1>1, <1>2, ProcsAssumption DEF BlockOK, Guarded

LEMMA NextBlock == StoreInv /\ BlockOK /\ [Next]_vars => BlockOK'
<1>1. BlockOK /\ UNCHANGED vars => BlockOK'
  BY DEF vars, BlockOK, Guarded
<1> QED
  BY <1>1, StepBlock, EditBlock DEF Next

BlocksStep == \A p \in Projects :
  Guarded(p) /\ tree[AutoFile(p)] # Absent /\ tree[Incoming(p)] # Absent /\ tree'[Incoming(p)] # Absent =>
    tree'[AutoFile(p)] \in {tree[AutoFile(p)]} \cup Edits \cup Curates

LEMMA NextBlocks == StoreInv /\ BlockOK /\ [Next]_vars => BlocksStep
<1> SUFFICES ASSUME StoreInv, BlockOK, [Next]_vars, NEW p \in Projects, Guarded(p),
                    tree[AutoFile(p)] # Absent, tree[Incoming(p)] # Absent,
                    tree'[Incoming(p)] # Absent
             PROVE  tree'[AutoFile(p)] \in {tree[AutoFile(p)]} \cup Edits \cup Curates
  BY DEF BlocksStep
<1> USE DEF StoreInv, TypeOK, Goto
<1>1. CASE UNCHANGED vars
  BY <1>1 DEF vars
<1>2. ASSUME NEW e \in Edits, NEW q \in Projects, UserEdit(e, q)
      PROVE  tree'[AutoFile(p)] \in {tree[AutoFile(p)]} \cup Edits
  BY <1>2, Distinct, PathsOf DEF UserEdit
<1>3. ASSUME NEW o \in Procs, Run(o) \/ Faults(o)
      PROVE  tree'[AutoFile(p)] \in {tree[AutoFile(p)]} \cup Curates
  <2>0. Target[o] \in Projects
    BY ProcsAssumption
  <2>1. CASE \/ Prepare(o) \/ DistillCheck(o) \/ DistillMeta(o) \/ WriteFails(o)
             \/ ResolveFails(o) \/ Register(o) \/ NotRegistered(o) \/ Stage(o) \/ Commit(o)
             \/ Faults(o)
    BY <2>1, OutsideFrame
  <2>2. CASE DistillWrite(o)
    <3>1. divert[o] \/ p # Target[o]
      BY <2>2 DEF DistillWrite, BlockOK
    <3> QED
      BY <2>0, <2>2, <3>1, Distinct, PathsOf DEF DistillWrite
  <2>3. CASE CurateWrite(o)
    BY <2>0, <2>3, Distinct, PathsOf DEF CurateWrite, Curates
  <2>4. CASE Resolve(o) \/ Unregister(o)
    <3>1. p # Target[o]
      BY <2>0, <2>4, Distinct, PathsOf DEF Resolve, Unregister
    <3> QED
      BY <2>0, <2>4, <3>1, Distinct, PathsOf DEF Resolve, Unregister
  <2> QED
    BY <1>3, <2>1, <2>2, <2>3, <2>4 DEF Run, Write
<1> QED
  BY <1>1, <1>2, <1>3 DEF Next

(* Whatever crashes, whoever else runs: a conflict the user has not resolved *)
(* keeps every distill from the file it is about, in every project whose    *)
(* transactions all had the lock.                                           *)
THEOREM ConflictsBlock == Spec => IncomingBlocks
<1>1. Init => BlockOK
  BY DEF Init, BlockOK
<1>2. BlocksStep => [BlocksStep]_vars
  OBVIOUS
<1>3. StoreInv /\ BlockOK /\ [Next]_vars => [BlocksStep]_vars
  BY NextBlocks
<1> QED
  BY <1>1, <1>3, NextBlock, StoreInvariant, PTL DEF Spec, IncomingBlocks, BlocksStep

(***************************************************************************)
(* Without faults, no hand edit is lost to a distill or a reconcile.       *)
(***************************************************************************)
Kept(e) == e \in versioned \cup gone \cup raced

\* git knows every AI file while no transaction is on its way to the index ...
TrackedOK == \A p \in Projects :
  tree[AutoFile(p)] # Absent /\ (lock = None \/ InStages({"locked", "checked", "staged"})) =>
    index[AutoFile(p)] # Absent

\* ... what HEAD holds is in a commit, and what a distill is about to write over
\* was committed, or came after the check.
CommittedOK == \A f \in Paths : head[f] # Absent => head[f] \in versioned
CheckedOK == \A o \in Procs :
  pc[o] = "checked" /\ ~divert[o] /\ tree[AutoFile(Target[o])] \in Edits =>
    Kept(tree[AutoFile(Target[o])])

EditInv == debris = {} => TrackedOK /\ CheckedOK /\ EditsRecoverable

LEMMA NextCommitted == StoreInv /\ CommittedOK /\ [Next]_vars => CommittedOK'
<1> SUFFICES ASSUME StoreInv, CommittedOK, [Next]_vars PROVE CommittedOK'
  OBVIOUS
<1>1. ASSUME NEW o \in Procs, Commit(o) PROVE CommittedOK'
  BY <1>1 DEF Commit, CommittedOK
<1>2. UNCHANGED <<head, versioned>> \/ \E o \in Procs : Commit(o)
  BY DEF Next, vars, Run, Prepare, CurateRead, ReconcileList, BeginTxn, Write, DistillCheck,
     DistillWrite, DistillMeta, CurateWrite, WriteFails, Resolve, ResolveFails, Register,
     Unregister, NotRegistered, Stage, Faults, BeginUnlocked, GitFails, Crash, UserEdit, git
<1> QED
  BY <1>1, <1>2 DEF CommittedOK

LEMMA StepTracked ==
  ASSUME StoreInv, TrackedOK, debris' = {}, NEW o \in Procs, Run(o) \/ Faults(o)
  PROVE  TrackedOK'
<1> USE DEF StoreInv, TypeOK, Goto
<1>0. Target[o] \in Projects /\ unlocked = {}
  BY ProcsAssumption, AllLocked
<1>1. \A q \in Procs : lock = q => q \in Txns /\ \A r \in Procs : lock = r => r = q
  BY DEF LockOK
<1> SUFFICES ASSUME NEW p \in Projects, tree'[AutoFile(p)] # Absent,
                    lock' = None \/ InStages({"locked", "checked", "staged"})'
             PROVE  index'[AutoFile(p)] # Absent
  BY DEF TrackedOK
<1>2. CASE CurateRead(o) \/ ReconcileList(o) \/ NotRegistered(o) \/ BeginTxn(o)
  <2>1. UNCHANGED <<tree, index>> /\ (lock = None \/ lock' = lock)
        /\ \A q \in Procs \ {o} : pc'[q] = pc[q]
    BY <1>2 DEF CurateRead, ReconcileList, NotRegistered, BeginTxn, files, git
  <2>2. CASE lock = None
    BY <2>1, <2>2 DEF TrackedOK
  <2>3. CASE lock' = lock /\ lock # None
    <3>1. lock # o
      BY <1>2, <2>3 DEF CurateRead, ReconcileList, NotRegistered, BeginTxn, LockOK
    <3> QED
      BY <2>1, <2>3, <3>1 DEF TrackedOK, InStages
  <2> QED
    BY <2>1, <2>2, <2>3
<1>3. CASE DistillCheck(o)
  <2>1. lock = o /\ pc[o] = "locked" /\ UNCHANGED <<tree, index>>
    BY <1>0, <1>3 DEF DistillCheck, LockOK, Txns, LockFree, git
  <2> QED
    BY <2>1 DEF TrackedOK, InStages
<1>4. CASE DistillWrite(o) \/ DistillMeta(o) \/ CurateWrite(o) \/ Resolve(o)
  <2>1. lock = o /\ lock' = o
    BY <1>0, <1>4 DEF DistillWrite, DistillMeta, CurateWrite, Resolve, Reconciles,
                LockOK, StageOK, Txns, LockFree
  <2>2. pc'[o] \in {"written", "dirty"}
    BY <1>4 DEF DistillWrite, DistillMeta, CurateWrite, Resolve
  <2> QED
    BY <2>1, <2>2, ContentAssumption DEF InStages
<1>5. CASE WriteFails(o) \/ ResolveFails(o)
  <2>1. lock = o /\ pc[o] \in {"locked", "checked"} /\ UNCHANGED <<tree, index>>
    BY <1>0, <1>5 DEF WriteFails, ResolveFails, Unlock, Reconciles, files, git, LockOK, Txns, LockFree
  <2> QED
    BY <2>1 DEF TrackedOK, InStages
<1>6. CASE Register(o) \/ Unregister(o)
  <2>1. tree[AutoFile(p)] # Absent
    BY <1>0, <1>6, Distinct, PathsOf DEF Register, Unregister
  <2>2. lock # o /\ UNCHANGED <<index, lock>> /\ \A q \in Procs \ {o} : pc'[q] = pc[q]
    BY <1>6 DEF Register, Unregister, git, LockOK, Txns, LockFree
  <2> QED
    BY <2>1, <2>2 DEF TrackedOK, InStages
<1>7. CASE Stage(o)
  BY <1>7, PathsOf DEF Stage, files
<1>8. CASE Commit(o)
  <2>1. UNCHANGED <<tree, index>> /\ pc[o] = "staged" /\ \A q \in Procs \ {o} : pc'[q] = pc[q]
    BY <1>8 DEF Commit, files
  <2>2. CASE lock = o
    BY <2>1, <2>2 DEF TrackedOK, InStages
  <2>3. CASE lock # o
    <3>1. lock' = lock
      BY <1>8, <2>3 DEF Commit, Unlock
    <3> QED
      BY <2>1, <2>3, <3>1 DEF TrackedOK, InStages
  <2> QED
    BY <2>2, <2>3
<1>9. CASE Faults(o)
  BY <1>9 DEF Faults, BeginUnlocked, GitFails, Crash, Fault
<1> QED
  BY <1>2, <1>3, <1>4, <1>5, <1>6, <1>7, <1>8, <1>9 DEF Run, Prepare, Write

\* What the user may still want back stays where it can be found.
LEMMA KeptStays ==
  ASSUME StoreInv, NEW o \in Procs, Run(o) \/ Faults(o), NEW e
  PROVE  Kept(e) => Kept(e)'
BY DEF Kept, Run, Prepare, CurateRead, ReconcileList, BeginTxn, Write, DistillCheck,
   DistillWrite, DistillMeta, CurateWrite, WriteFails, Resolve, ResolveFails, Register,
   Unregister, NotRegistered, Stage, Commit, Faults, BeginUnlocked, GitFails, Crash, Fault, git, ghosts

\* A step writes over a hand edit only if it is kept.
LEMMA WrittenOver ==
  ASSUME StoreInv, CheckedOK, NEW o \in Procs, Run(o) \/ Faults(o),
         NEW p \in Projects, NEW e \in Edits, tree[AutoFile(p)] = e, tree'[AutoFile(p)] # e
  PROVE  Kept(e)'
<1> USE DEF StoreInv, TypeOK, Goto
<1>0. Target[o] \in Projects
  BY ProcsAssumption
<1>1. CASE DistillWrite(o)
  <2>1. ~divert[o] /\ p = Target[o] /\ pc[o] = "checked"
    BY <1>0, <1>1, Distinct, PathsOf DEF DistillWrite
  <2>2. Kept(e)
    BY <2>1 DEF CheckedOK
  <2> QED
    BY <2>2, KeptStays
<1>2. CASE CurateWrite(o)
  <2>1. p = Target[o]
    BY <1>0, <1>2, Distinct, PathsOf DEF CurateWrite
  <2> QED
    BY <1>2, <2>1 DEF CurateWrite, Kept
<1>3. CASE Resolve(o) \/ Unregister(o)
  <2>1. p = Target[o]
    BY <1>0, <1>3, Distinct, PathsOf DEF Resolve, Unregister
  <2>2. CASE Unregister(o)
    BY <2>1, <2>2 DEF Unregister, Kept
  <2>3. CASE Resolve(o)
    <3>1. Kind[o] = "take-ai"
      BY <1>0, <2>1, <2>3, Distinct, PathsOf DEF Resolve
    <3> QED
      BY <2>1, <2>3, <3>1 DEF Resolve, Kept
  <2> QED
    BY <1>3, <2>2, <2>3
<1>4. CASE \/ Prepare(o) \/ DistillCheck(o) \/ DistillMeta(o) \/ WriteFails(o)
           \/ ResolveFails(o) \/ Register(o) \/ NotRegistered(o) \/ Stage(o) \/ Commit(o)
           \/ Faults(o)
  BY <1>4, OutsideFrame
<1> QED
  BY <1>1, <1>2, <1>3, <1>4 DEF Run, Write

LEMMA StepEdits ==
  ASSUME StoreInv, CommittedOK, EditInv, debris' = {},
         NEW o \in Procs, Run(o) \/ Faults(o)
  PROVE  CheckedOK' /\ EditsRecoverable'
<1> USE DEF StoreInv, TypeOK, Goto
<1>0. Target[o] \in Projects /\ TrackedOK /\ CheckedOK /\ EditsRecoverable /\ debris = {}
      /\ unlocked = {}
  BY ProcsAssumption, AllLocked DEF EditInv
<1>1. made' = made
  BY DEF Run, Prepare, CurateRead, ReconcileList, BeginTxn, Write, DistillCheck, DistillWrite,
     DistillMeta, CurateWrite, WriteFails, Resolve, ResolveFails, Register, Unregister,
     NotRegistered, Stage, Commit, Faults, BeginUnlocked, GitFails, Crash, Fault, ghosts
<1>2. ASSUME NEW e \in Edits, made[e] # None
      PROVE  Kept(e)' \/ tree'[AutoFile(made[e])] = e
  <2>1. made[e] \in Projects
    BY <1>2
  <2>2. CASE Kept(e)
    BY <2>2, KeptStays
  <2>3. CASE ~Kept(e)
    <3>1. tree[AutoFile(made[e])] = e
      BY <1>0, <1>2, <2>3 DEF EditsRecoverable, Kept
    <3> QED
      BY <1>0, <2>1, <3>1, WrittenOver
  <2> QED
    BY <2>2, <2>3
<1>3. EditsRecoverable'
  BY <1>1, <1>2 DEF EditsRecoverable, Kept
<1>4. ASSUME NEW q \in Procs, pc'[q] = "checked", ~divert'[q], NEW e \in Edits,
             tree'[AutoFile(Target[q])] = e
      PROVE  Kept(e)'
  <2>1. Target[q] \in Projects
    BY ProcsAssumption
  <2>2. CASE DistillCheck(o) /\ q = o
    <3>1. tree[AutoFile(Target[o])] = e /\ ~EditPending(Target[o]) /\ lock = o /\ pc[o] = "locked"
      BY <1>0, <1>4, <2>2 DEF DistillCheck, LockOK, Txns, LockFree
    <3>2. e # Absent
      BY ContentAssumption
    <3>3. index[AutoFile(Target[o])] # Absent
      BY <1>0, <3>1, <3>2 DEF TrackedOK, InStages
    <3>4. head[AutoFile(Target[o])] = e
      BY <3>1, <3>2, <3>3 DEF EditPending, Dirty
    <3>5. Kept(e)
      BY <1>0, <3>2, <3>4, PathsOf DEF CommittedOK, Kept
    <3> QED
      BY <3>5, KeptStays
  <2>3. CASE ~(DistillCheck(o) /\ q = o)
    <3>1. pc[q] = "checked" /\ ~divert[q]
      BY <1>4, <2>3 DEF Run, Prepare, CurateRead, ReconcileList, BeginTxn, Write, DistillCheck,
         DistillWrite, DistillMeta, CurateWrite, WriteFails, Resolve, ResolveFails, Register,
         Unregister, NotRegistered, Stage, Commit, Faults, BeginUnlocked, GitFails, Crash, Fault
    <3>2. tree[AutoFile(Target[q])] = e
      <4>1. CASE DistillWrite(o) \/ CurateWrite(o) \/ Resolve(o)
        <5>1. lock = o /\ pc'[o] # "checked"
          BY <1>0, <4>1 DEF DistillWrite, CurateWrite, Resolve, Reconciles, LockOK, StageOK, Txns, LockFree
        <5>2. lock = q
          BY <1>0, <3>1 DEF LockOK, StageOK, Txns, LockFree
        <5> QED
          BY <1>4, <5>1, <5>2
      <4>2. CASE Unregister(o)
        <5>1. tree'[AutoFile(Target[q])] \in {tree[AutoFile(Target[q])], Absent}
          BY <1>0, <2>1, <4>2, Distinct, PathsOf DEF Unregister
        <5> QED
          BY <1>4, <5>1, ContentAssumption
      <4>3. CASE \/ Prepare(o) \/ DistillCheck(o) \/ DistillMeta(o) \/ WriteFails(o)
                 \/ ResolveFails(o) \/ Register(o) \/ NotRegistered(o) \/ Stage(o) \/ Commit(o)
                 \/ Faults(o)
        BY <1>4, <2>1, <4>3, OutsideFrame
      <4> QED
        BY <4>1, <4>2, <4>3 DEF Run, Write
    <3>3. Kept(e)
      BY <1>0, <3>1, <3>2 DEF CheckedOK
    <3> QED
      BY <3>3, KeptStays
  <2> QED
    BY <2>2, <2>3
<1>5. CheckedOK'
  BY <1>4 DEF CheckedOK
<1> QED
  BY <1>3, <1>5

LEMMA EditEdits ==
  ASSUME StoreInv, EditInv, NEW e \in Edits, NEW p \in Projects, UserEdit(e, p)
  PROVE  EditInv'
<1> USE DEF StoreInv, TypeOK
<1> SUFFICES ASSUME debris' = {} PROVE TrackedOK' /\ CheckedOK' /\ EditsRecoverable'
  BY DEF EditInv
<1>0. /\ TrackedOK /\ CheckedOK /\ EditsRecoverable
      /\ UNCHANGED <<index, head, versioned, lock, pc, divert>>
  BY DEF UserEdit, git, EditInv
<1>1. /\ tree[AutoFile(p)] # Absent /\ tree'[AutoFile(p)] = e
      /\ \A q \in Projects : q # p => tree'[AutoFile(q)] = tree[AutoFile(q)]
  BY Distinct, PathsOf DEF UserEdit
<1>2. /\ made'[e] = p /\ \A x \in Edits : x # e => made'[x] = made[x]
      /\ gone \subseteq gone' /\ raced \subseteq raced'
      /\ tree[AutoFile(p)] \in Edits => tree[AutoFile(p)] \in gone'
  BY DEF UserEdit
<1>3. TrackedOK'
  BY <1>0, <1>1 DEF TrackedOK, InStages
<1>4. CheckedOK'
  <2> SUFFICES ASSUME NEW q \in Procs, pc[q] = "checked", ~divert[q],
                      tree'[AutoFile(Target[q])] \in Edits
               PROVE  Kept(tree[AutoFile(Target[q])])'
    BY <1>0 DEF CheckedOK
  <2>1. Target[q] \in Projects /\ q \in Distills
    BY ProcsAssumption DEF StageOK, Distills
  <2>2. CASE Target[q] = p
    BY <1>1, <2>1, <2>2 DEF UserEdit, Kept
  <2>3. CASE Target[q] # p
    BY <1>0, <1>1, <1>2, <2>1, <2>3 DEF CheckedOK, Kept
  <2> QED
    BY <2>2, <2>3
<1>5. EditsRecoverable'
  <2> SUFFICES ASSUME NEW x \in Edits, made'[x] # None
               PROVE  x \in versioned' \cup gone' \cup raced' \cup {tree'[AutoFile(made'[x])]}
    BY DEF EditsRecoverable
  <2>1. CASE x = e
    BY <1>1, <1>2, <2>1
  <2>2. CASE x # e
    <3>1. made'[x] = made[x] /\ made[x] \in Projects
      BY <1>2, <2>2
    <3>2. x \in versioned \cup gone \cup raced \cup {tree[AutoFile(made[x])]}
      BY <1>0, <3>1 DEF EditsRecoverable
    <3> QED
      BY <1>0, <1>1, <1>2, <3>1, <3>2
  <2> QED
    BY <2>1, <2>2
<1> QED
  BY <1>3, <1>4, <1>5

LEMMA NextEdits == StoreInv /\ CommittedOK /\ EditInv /\ [Next]_vars => EditInv'
<1>1. EditInv /\ UNCHANGED vars => EditInv'
  BY DEF vars, EditInv, TrackedOK, CheckedOK, EditsRecoverable, InStages, Kept
<1>2. ASSUME StoreInv, CommittedOK, EditInv, debris' = {},
             NEW o \in Procs, Run(o) \/ Faults(o)
      PROVE  EditInv'
  <2>1. debris = {}
    BY <1>2, StepDebris
  <2> QED
    BY <1>2, <2>1, StepTracked, StepEdits DEF EditInv
<1>3. debris' # {} => EditInv'
  BY DEF EditInv
<1> QED
  BY <1>1, <1>2, <1>3, EditEdits DEF Next

(* Where no command dies and git does not fail, any number of distills and   *)
(* reconciles, with adds and removals in between, lose no hand edit but one  *)
(* made in the moment of a write.                                           *)
THEOREM EditsAreKept == MaxFaults = 0 => (Spec => []EditsRecoverable)
<1> SUFFICES ASSUME MaxFaults = 0 PROVE Spec => []EditsRecoverable
  OBVIOUS
<1>1. Init => CommittedOK /\ EditInv
  <2> SUFFICES ASSUME Init PROVE CommittedOK /\ EditInv
    OBVIOUS
  <2>1. \A f \in Paths : tree[f] \in {Base, Absent}
    BY DEF Init
  <2> QED
    BY <2>1 DEF Init, CommittedOK, EditInv, TrackedOK, CheckedOK, EditsRecoverable
<1>2. Spec => []EditInv
  BY <1>1, NextCommitted, NextEdits, StoreInvariant, PTL DEF Spec
<1>3. EditInv /\ debris = {} => EditsRecoverable
  BY DEF EditInv
<1>4. Spec => [](faults = 0 /\ debris = {})
  BY NoFaultsNoDebris
<1> QED
  BY <1>2, <1>3, <1>4, PTL
=============================================================================
