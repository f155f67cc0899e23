----------------------------- MODULE NotesProofs ------------------------------
(***************************************************************************)
(* For any items, ids, hashes and number of commands: the list of next     *)
(* actions keeps its type, the ids of its items are unique, recorded       *)
(* rounds stay in their discussion and in the history, a discussion is     *)
(* about the item that has its id, and no item is dropped unseen.          *)
(***************************************************************************)
EXTENDS Notes, TLAPS

LEMMA FreshIsFresh ==
  ASSUME NEW k \in Items, NEW d, Addable(k, d)
  PROVE  FreshId(k, d) \in Ids /\ FreshId(k, d) \notin IdsOf(d)
<1> DEFINE n == CHOOSE n \in DOMAIN HashIds[k] : First(k, d, n)
<1>1. n \in DOMAIN HashIds[k] /\ First(k, d, n)
  BY DEF Addable
<1>2. HashIds[k] \in Seq(Ids)
  BY HashAssumption
<1>3. FreshId(k, d) = HashIds[k][n]
  BY DEF FreshId
<1>4. HashIds[k][n] \in Ids
  BY <1>1, <1>2
<1> QED
  BY <1>1, <1>3, <1>4 DEF First

LEMMA AddType ==
  ASSUME NEW k \in Items, NEW d \in SUBSET Lines, Addable(k, d)
  PROVE  AddTo(d, k) \in SUBSET Lines
BY FreshIsFresh DEF AddTo, Lines, Tasks

LEMMA AddUnique ==
  ASSUME NEW k \in Items, NEW d \in SUBSET Lines, Addable(k, d), UniqueIds(d)
  PROVE  UniqueIds(AddTo(d, k))
<1> DEFINE new == [key |-> k, id |-> FreshId(k, d)]
<1>1. FreshId(k, d) \notin IdsOf(d) /\ FreshId(k, d) # NoId
  BY FreshIsFresh, NamesAssumption
<1>2. \A t \in TasksOf(d) : t.id # new.id
  BY <1>1 DEF IdsOf
<1>3. TasksOf(AddTo(d, k)) \subseteq TasksOf(d) \cup {new}
  BY DEF TasksOf, AddTo
<1> QED
  BY <1>2, <1>3 DEF UniqueIds

LEMMA SubsetUnique ==
  ASSUME NEW d, NEW e \in SUBSET d, UniqueIds(d) PROVE UniqueIds(e)
BY DEF UniqueIds, TasksOf

LEMMA NamesType == ASSUME NEW d \in SUBSET Lines PROVE NamesOf(d) \in SUBSET Names
BY DEF NamesOf, Names, Lines, Tasks, IsTask

\* Who is past the list knows which item it is about.
Meant == \A o \in Procs : pc[o] \in {"listed", "asked", "torn", "written"} => saw[o] # NoItem

LEMMA InitType == Init => TypeOK
<1> SUFFICES ASSUME Init PROVE TypeOK
  OBVIOUS
<1>1. lines \in SUBSET Lines
  BY DEF Init, Lines
<1>2. written \in SUBSET Names /\ kept \in SUBSET Names
  BY <1>1, NamesType DEF Init
<1>3. readable \in BOOLEAN /\ mixed \in BOOLEAN
  BY DEF Init
<1>4. disc \in [Ids -> SUBSET Rounds] /\ lock \in Procs \cup {None}
  BY DEF Init
<1>5. /\ pc \in [Procs -> Stages] /\ saw \in [Procs -> Handles \cup {NoItem}]
      /\ copy \in [Procs -> SUBSET Lines] /\ prior \in [Procs -> SUBSET Rounds]
      /\ about \in [Rounds -> Handles \cup {NoItem}]
  BY DEF Init, Stages
<1>6. /\ history = {} /\ risk = {} /\ given = {} /\ reused = {} /\ crossed = {}
      /\ unlocked = {} /\ mingled = {}
      /\ recorded = {} /\ unsaved = {} /\ faults \in 0 .. MaxFaults
  BY BoundAssumption DEF Init
<1> QED
  BY <1>1, <1>2, <1>3, <1>4, <1>5, <1>6 DEF TypeOK

\* What a step of o on its own program counter and locals leaves typed.
LEMMA IdleType ==
  ASSUME TypeOK, NEW o \in Procs, Idle(o)
  PROVE  /\ saw' \in [Procs -> Handles \cup {NoItem}]
         /\ copy' \in [Procs -> SUBSET Lines]
         /\ prior' \in [Procs -> SUBSET Rounds]
BY DEF TypeOK, Idle

LEMMA ChangeType ==
  ASSUME TypeOK, NEW o \in Procs, NEW d \in SUBSET Lines, Change(o, d)
  PROVE  /\ copy' \in [Procs -> SUBSET Lines] /\ copy' = [copy EXCEPT ![o] = d]
         /\ pc' \in [Procs -> Stages]
         /\ lines' = {} /\ readable' = TRUE
         /\ UNCHANGED <<disc, history, lock, saw, prior, about, written, mixed,
                        crossed, unlocked, mingled, recorded, unsaved, faults>>
BY DEF TypeOK, Change, Stages

LEMMA NextType == TypeOK /\ Meant /\ [Next]_vars => TypeOK'
<1> SUFFICES ASSUME TypeOK, Meant, [Next]_vars PROVE TypeOK'
  OBVIOUS
<1> USE NamesAssumption
<1>1. ASSUME NEW o \in Procs, List(o) PROVE TypeOK'
  <2>1. PICK s \in Listed(Loaded) : saw' = [saw EXCEPT ![o] = s]
    BY <1>1 DEF List
  <2>2. s \in Handles
    BY <2>1 DEF Listed, Loaded, TasksOf, IsTask, TypeOK, Lines, Tasks, Handles
  <2> QED
    BY <1>1, <2>1, <2>2 DEF TypeOK, List, Goto, files, ghosts, Stages
<1>2. ASSUME NEW o \in Procs, Load(o) PROVE TypeOK'
  BY <1>2 DEF TypeOK, Load, Loaded, files, ghosts, Stages
<1>3. ASSUME NEW o \in Procs, NEW k \in Items, NoteAdd(o, k) PROVE TypeOK'
  <2>1. AddTo(copy[o], k) \in SUBSET Lines /\ FreshId(k, copy[o]) \in Ids
    BY <1>3, AddType, FreshIsFresh DEF TypeOK, NoteAdd
  <2>2. \A i : Holders(i) \in SUBSET Names
    BY DEF TypeOK, Holders, TasksOf, IsTask, Lines, Tasks, Names
  <2>3. k \in Names
    BY DEF Names
  <2> QED
    BY <1>3, <2>1, <2>2, <2>3, ChangeType DEF TypeOK, NoteAdd
<1>4. ASSUME NEW o \in Procs, NoteDone(o) PROVE TypeOK'
  <2>1. copy[o] \in SUBSET Lines
    BY DEF TypeOK
  <2> QED
    BY <1>4, <2>1, ChangeType DEF TypeOK, NoteDone
<1>5. ASSUME NEW o \in Procs, NoteRm(o) PROVE TypeOK'
  <2>1. RemoveFrom(copy[o], saw[o].id) \in SUBSET Lines
    BY DEF TypeOK, RemoveFrom
  <2> QED
    BY <1>5, <2>1, ChangeType DEF TypeOK, NoteRm
<1>6. ASSUME NEW o \in Procs, NoteShow(o) \/ NoteBail(o) \/ ClarifyBail(o) PROVE TypeOK'
  BY <1>6, IdleType DEF TypeOK, NoteShow, NoteBail, ClarifyBail, Goto, files, ghosts, Stages
<1>7. ASSUME NEW o \in Procs, ClarifyFail(o) PROVE TypeOK'
  BY <1>7, IdleType DEF TypeOK, ClarifyFail, Goto, files, ghosts, Stages
<1>8. ASSUME NEW o \in Procs, Save(o) PROVE TypeOK'
  <2>1. lines' \in SUBSET Lines
    BY <1>8 DEF TypeOK, Save
  <2>0. readable' \in BOOLEAN /\ mixed' \in BOOLEAN
    BY <1>8 DEF TypeOK, Save
  <2>2. NamesOf(copy[o]) \in SUBSET Names
    BY NamesType DEF TypeOK
  <2>3. /\ written' \in SUBSET Names /\ kept' \in SUBSET Names /\ risk' \in SUBSET Names
    BY <1>8, <2>2 DEF TypeOK, Save
  <2> QED
    BY <1>8, <2>0, <2>1, <2>3, IdleType DEF TypeOK, Save, Goto, Stages
<1>9. ASSUME NEW k \in Items, HandAdd(k) PROVE TypeOK'
  BY <1>9 DEF TypeOK, HandAdd, Lines, Tasks, Names, locals
<1>10. ASSUME NEW t \in TasksOf(lines), HandDrop(t) PROVE TypeOK'
  BY <1>10 DEF TypeOK, HandDrop, locals
<1>11. CASE Recode
  <2>1. readable' \in BOOLEAN
    BY <1>11 DEF Recode
  <2>2. faults' \in 0 .. MaxFaults
    BY <1>11, BoundAssumption DEF Recode, TypeOK
  <2> QED
    BY <1>11, <2>1, <2>2 DEF TypeOK, Recode, locals, ghosts
<1>12. ASSUME NEW o \in Procs, Ask(o) PROVE TypeOK'
  <2>1. PICK t \in TasksOf(Loaded), r \in Rounds :
           /\ t.id = saw[o].id
           /\ about' = [about EXCEPT ![r] = t]
           /\ prior' = [prior EXCEPT ![o] = disc[saw[o].id] \cup {r}]
    BY <1>12 DEF Ask
  <2>2. saw[o] \in Handles
    BY <1>12 DEF Ask, TypeOK
  <2>3. t \in Handles
    BY <2>1, <2>2 DEF Loaded, TasksOf, IsTask, TypeOK, Lines, Tasks, Handles
  <2>4. about' \in [Rounds -> Handles \cup {NoItem}] /\ prior' \in [Procs -> SUBSET Rounds]
    BY <2>1, <2>2, <2>3 DEF TypeOK, Handles
  <2> QED
    BY <1>12, <2>4 DEF TypeOK, Ask, Goto, files, ghosts, Stages
<1>13. ASSUME NEW o \in Procs, OpenDisc(o) \/ OpenUnlocked(o) PROVE TypeOK'
  <2>1. Truncate(o) /\ saw[o].id \in Ids
    BY <1>13 DEF OpenDisc, OpenUnlocked, Truncate, Goto, Meant, TypeOK, Handles
  <2>2. lock' \in Procs \cup {None} /\ unlocked' \in SUBSET Procs
    BY <1>13 DEF TypeOK, OpenDisc, OpenUnlocked
  <2>3. faults' \in 0 .. MaxFaults
    BY <1>13, BoundAssumption DEF TypeOK, OpenDisc, OpenUnlocked
  <2>4. disc' \in [Ids -> SUBSET Rounds] /\ mingled' \in SUBSET Ids /\ pc' \in [Procs -> Stages]
    BY <2>1 DEF TypeOK, Truncate, Goto, Stages
  <2> QED
    BY <2>1, <2>2, <2>3, <2>4 DEF TypeOK, Truncate, locals
<1>14. ASSUME NEW o \in Procs, WriteDisc(o) PROVE TypeOK'
  <2>1. saw[o].id \in Ids
    BY <1>14 DEF WriteDisc, Goto, Meant, TypeOK, Handles
  <2>2. /\ disc' \in [Ids -> SUBSET Rounds] /\ recorded' \in SUBSET Rounds
        /\ crossed' \in SUBSET Ids
    BY <1>14, <2>1 DEF TypeOK, WriteDisc
  <2>3. pc' \in [Procs -> Stages]
    BY <1>14 DEF TypeOK, WriteDisc, Goto, Stages
  <2> QED
    BY <1>14, <2>2, <2>3 DEF TypeOK, WriteDisc, locals
<1>15. ASSUME NEW o \in Procs, Commit(o) PROVE TypeOK'
  <2>1. history' \in SUBSET Rounds /\ unsaved' \in SUBSET Rounds
    BY <1>15 DEF TypeOK, Commit
  <2>2. faults' \in 0 .. MaxFaults
    BY <1>15, BoundAssumption DEF TypeOK, Commit
  <2>3. /\ pc' \in [Procs -> Stages]
        /\ lock' \in Procs \cup {None} /\ unlocked' \in SUBSET Procs
    BY <1>15 DEF TypeOK, Commit, EndTxn, Goto, Stages
  <2> QED
    BY <1>15, <2>1, <2>2, <2>3, IdleType DEF TypeOK, Commit
<1>16. ASSUME NEW o \in Procs, Crash(o) PROVE TypeOK'
  <2>1. pc[o] = "torn" => saw[o].id \in Ids
    BY DEF Meant, TypeOK, Handles
  <2>2. /\ risk' \in SUBSET Names /\ crossed' \in SUBSET Ids /\ unsaved' \in SUBSET Rounds
        /\ lock' \in Procs \cup {None} /\ unlocked' \in SUBSET Procs
    BY <1>16, <2>1 DEF TypeOK, Crash, EndTxn
  <2>3. faults' \in 0 .. MaxFaults
    BY <1>16, BoundAssumption DEF TypeOK, Crash
  <2>4. pc' \in [Procs -> Stages]
    BY <1>16 DEF TypeOK, Crash, Stages
  <2> QED
    BY <1>16, <2>2, <2>3, <2>4, IdleType DEF TypeOK, Crash
<1>17. CASE UNCHANGED vars
  BY <1>17 DEF TypeOK, vars
<1> QED
  BY <1>1, <1>2, <1>3, <1>4, <1>5, <1>6, <1>7, <1>8, <1>9, <1>10, <1>11, <1>12, <1>13,
     <1>14, <1>15, <1>16, <1>17 DEF Next

LEMMA NextMeant == TypeOK /\ Meant /\ [Next]_vars => Meant'
<1> SUFFICES ASSUME TypeOK, Meant, [Next]_vars PROVE Meant'
  OBVIOUS
<1> USE DEF TypeOK, Meant
<1>1. ASSUME NEW o \in Procs, List(o) PROVE Meant'
  <2>1. PICK s \in Listed(Loaded) : saw' = [saw EXCEPT ![o] = s]
    BY <1>1 DEF List
  <2>2. s \in Handles
    BY <2>1 DEF Listed, Loaded, TasksOf, IsTask, Lines, Tasks, Handles
  <2> QED
    BY <1>1, <2>1, <2>2, NamesAssumption DEF List, Goto
<1>2. ASSUME NEW o \in Procs, Load(o) \/ Ask(o) \/ OpenDisc(o) \/ OpenUnlocked(o) \/ WriteDisc(o)
      PROVE  Meant'
  BY <1>2 DEF Load, Ask, OpenDisc, OpenUnlocked, Truncate, WriteDisc, Goto, locals
<1>3. ASSUME NEW o \in Procs, NEW d, Change(o, d) PROVE Meant'
  BY <1>3 DEF Change
<1>4. ASSUME NEW o \in Procs, NoteDone(o) \/ NoteRm(o) \/ \E k \in Items : NoteAdd(o, k)
      PROVE  Meant'
  BY <1>4, <1>3 DEF NoteDone, NoteRm, NoteAdd
<1>5. ASSUME NEW o \in Procs, NoteShow(o) \/ NoteBail(o) \/ ClarifyBail(o) \/ ClarifyFail(o)
                              \/ Commit(o) \/ Crash(o) \/ Save(o) PROVE Meant'
  <2>1. pc'[o] = "idle" /\ \A p \in Procs \ {o} : pc'[p] = pc[p]
    BY <1>5 DEF NoteShow, NoteBail, ClarifyBail, ClarifyFail, Commit, Crash, Save, Goto
  <2>2. \A p \in Procs \ {o} : saw'[p] = saw[p]
    BY <1>5 DEF NoteShow, NoteBail, ClarifyBail, ClarifyFail, Commit, Crash, Save, Idle
  <2> QED
    BY <2>1, <2>2
<1>6. ASSUME UNCHANGED <<pc, saw>> PROVE Meant'
  BY <1>6
<1> QED
  BY <1>1, <1>2, <1>4, <1>5, <1>6
     DEF Next, HandAdd, HandDrop, Recode, locals, vars

(* Every variable keeps its type.                                          *)
THEOREM TypeCorrect == Spec => []TypeOK
<1>1. Init => Meant
  BY DEF Init, Meant
<1> QED
  BY <1>1, InitType, NextType, NextMeant, PTL DEF Spec

-----------------------------------------------------------------------------
LEMMA NextUnique == TypeOK /\ IdsUnique /\ [Next]_vars => IdsUnique'
<1> SUFFICES ASSUME TypeOK, IdsUnique, [Next]_vars, ~mixed' PROVE IdsUnique'
  BY DEF IdsUnique
<1>0. ASSUME UNCHANGED <<lines, copy>>, ~mixed PROVE IdsUnique'
  BY <1>0 DEF IdsUnique, UniqueIds, TasksOf
<1>e. UniqueIds({})
  BY DEF UniqueIds, TasksOf
\* An idle command has no copy.
<1>i. ASSUME NEW o \in Procs, Idle(o), UniqueIds(lines'), ~mixed PROVE IdsUnique'
  BY <1>i, <1>e DEF IdsUnique, Idle, TypeOK
\* A command that changes its copy empties the list.
<1>c. ASSUME NEW o \in Procs, NEW d \in SUBSET Lines, UniqueIds(d), Change(o, d), ~mixed
      PROVE  IdsUnique'
  BY <1>c, <1>e, ChangeType DEF IdsUnique, TypeOK
<1>1. ASSUME NEW o \in Procs, Load(o) PROVE IdsUnique'
  BY <1>1, <1>e DEF Load, Loaded, IdsUnique, files, ghosts, TypeOK
<1>2. ASSUME NEW o \in Procs, NEW k \in Items, NoteAdd(o, k) PROVE IdsUnique'
  <2>1. UniqueIds(AddTo(copy[o], k)) /\ AddTo(copy[o], k) \in SUBSET Lines
    BY <1>2, AddType, AddUnique DEF NoteAdd, TypeOK, IdsUnique, Change
  <2> QED
    BY <1>2, <2>1, <1>c DEF NoteAdd, Change
<1>3. ASSUME NEW o \in Procs, NoteDone(o) PROVE IdsUnique'
  BY <1>3, <1>c DEF NoteDone, Change, IdsUnique, TypeOK
<1>4. ASSUME NEW o \in Procs, NoteRm(o) PROVE IdsUnique'
  <2>1. RemoveFrom(copy[o], saw[o].id) \in SUBSET copy[o] /\ copy[o] \in SUBSET Lines
    BY DEF RemoveFrom, TypeOK
  <2>2. UniqueIds(RemoveFrom(copy[o], saw[o].id))
    BY <1>4, <2>1, SubsetUnique DEF IdsUnique, NoteRm, Change
  <2> QED
    BY <1>4, <2>1, <2>2, <1>c DEF NoteRm, Change
<1>5. ASSUME NEW o \in Procs, NoteShow(o) \/ NoteBail(o) \/ ClarifyBail(o) \/ ClarifyFail(o)
                              \/ Commit(o) \/ Crash(o) PROVE IdsUnique'
  BY <1>5, <1>i DEF NoteShow, NoteBail, ClarifyBail, ClarifyFail, Commit, Crash, IdsUnique,
                    files, ghosts
<1>6. ASSUME NEW o \in Procs, Save(o) PROVE IdsUnique'
  <2>1. lines' = copy[o] /\ ~mixed
    BY <1>6 DEF Save
  <2> QED
    BY <1>6, <2>1, <1>i DEF Save, IdsUnique
<1>7. ASSUME NEW k \in Items, HandAdd(k) PROVE IdsUnique'
  <2>1. UniqueIds(lines')
    BY <1>7 DEF HandAdd, IdsUnique, UniqueIds, TasksOf
  <2> QED
    BY <1>7, <2>1 DEF HandAdd, IdsUnique, locals
<1>8. ASSUME NEW t \in TasksOf(lines), HandDrop(t) PROVE IdsUnique'
  <2>1. UniqueIds(lines')
    BY <1>8 DEF HandDrop, IdsUnique, UniqueIds, TasksOf
  <2> QED
    BY <1>8, <2>1 DEF HandDrop, IdsUnique, locals
<1>9. ASSUME NEW o \in Procs, List(o) \/ Ask(o) \/ OpenDisc(o) \/ OpenUnlocked(o) \/ WriteDisc(o)
      PROVE  IdsUnique'
  BY <1>9, <1>0 DEF List, Ask, OpenDisc, OpenUnlocked, Truncate, WriteDisc, files, ghosts, locals
<1>10. CASE Recode \/ UNCHANGED vars
  BY <1>10, <1>0 DEF Recode, vars, locals, ghosts
<1> QED
  BY <1>1, <1>2, <1>3, <1>4, <1>5, <1>6, <1>7, <1>8, <1>9, <1>10 DEF Next

(* The ids of the list and of every copy of it stay unique: `done` and `rm` *)
(* touch the item that was named, until two commands write the file through *)
(* each other.                                                             *)
THEOREM IdsStayUnique == Spec => []IdsUnique
<1>1. Init => IdsUnique
  BY DEF Init, IdsUnique, UniqueIds, TasksOf, IsTask
<1> QED
  BY <1>1, TypeCorrect, NextUnique, PTL DEF Spec

-----------------------------------------------------------------------------
(* Discussions.                                                            *)

Clarifying == {"asked", "torn", "written"}

Within(o) == pc[o] \in {"torn", "written"}

\* Who is in a transaction has the lock, or goes without it; two are in the same
\* discussion only if it is mingled.
LockIsTaken ==
  /\ \A o \in Procs : lock = o <=> Within(o) /\ o \notin unlocked
  /\ \A o \in unlocked : Within(o)
  /\ \A o, c \in Procs :
        o # c /\ Within(o) /\ Within(c) /\ saw[o].id = saw[c].id => saw[o].id \in mingled

Asked(r, i) == about[r] # NoItem /\ about[r].id = i

\* A discussion holds rounds that were recorded, and asked about its id.
Discussed == /\ \A i \in Ids : \A r \in disc[i] : r \in recorded /\ Asked(r, i)
             /\ \A r \in recorded : about[r] # NoItem

\* What o is about to write: rounds of its item.  It shares with other
\* commands only what is recorded, and what it has written is in the file
\* until it commits, unless the discussion is mingled.
PriorOK(o) == /\ pc[o] \notin Clarifying => prior[o] = {}
              /\ \A r \in prior[o] : Asked(r, saw[o].id)
              /\ \A c \in Procs \ {o} : prior[o] \cap prior[c] \subseteq recorded
              /\ pc[o] = "written" => disc[saw[o].id] = prior[o] \/ saw[o].id \in mingled

\* Until it writes, o has every recorded round of its item; but for what
\* another command extends, or extended, at the same time.
Informed(o) ==
  pc[o] \in {"asked", "torn"} =>
    \A r \in recorded : Asked(r, saw[o].id) =>
       \/ r \in prior[o]
       \/ saw[o].id \in crossed
       \/ \E c \in Procs \ {o} : pc[c] = "torn" /\ saw[c].id = saw[o].id

DiscussionInv == /\ TypeOK /\ Meant
                 /\ LockIsTaken /\ Discussed
                 /\ \A o \in Procs : PriorOK(o) /\ Informed(o)
                 /\ RoundsKept /\ RoundsRecoverable

LEMMA DiscussionInit == Init => DiscussionInv
<1> SUFFICES ASSUME Init PROVE DiscussionInv
  OBVIOUS
<1>1. LockIsTaken
  BY NamesAssumption DEF Init, LockIsTaken, Within
<1>2. Discussed
  BY DEF Init, Discussed
<1>3. ASSUME NEW o \in Procs PROVE PriorOK(o) /\ Informed(o)
  BY DEF Init, PriorOK, Informed
<1> QED
  BY <1>1, <1>2, <1>3, InitType DEF Init, DiscussionInv, Meant, RoundsKept, RoundsRecoverable

\* Steps of the other commands, and of the editor.
DiscussionFiles == <<disc, history, lock, about, recorded, unsaved, crossed, unlocked, mingled>>

SameClarify(p) == /\ pc'[p] = pc[p] /\ saw'[p] = saw[p] /\ prior'[p] = prior[p]
NoClarify(p)   == /\ pc[p] \notin Clarifying /\ pc'[p] \notin Clarifying /\ prior'[p] = {}

LEMMA DiscussionQuiet ==
  ASSUME DiscussionInv, (TypeOK /\ Meant)', UNCHANGED DiscussionFiles,
         \A p \in Procs : SameClarify(p) \/ NoClarify(p)
  PROVE  DiscussionInv'
<1> USE DEF SameClarify, NoClarify, Clarifying, DiscussionFiles
<1>1. LockIsTaken'
  <2>1. \A p \in Procs : (Within(p)' <=> Within(p)) /\ (Within(p) => saw'[p] = saw[p])
    BY DEF Within
  <2>2. LockIsTaken /\ unlocked \subseteq Procs
    BY DEF DiscussionInv, TypeOK
  <2> QED
    BY <2>1, <2>2 DEF LockIsTaken
<1>2. Discussed'
  BY DEF DiscussionInv, Discussed, Asked
<1>3. \A p \in Procs : prior'[p] = prior[p]
  BY DEF DiscussionInv, PriorOK
<1>4. ASSUME NEW o \in Procs PROVE PriorOK(o)'
  <2>1. PriorOK(o)
    BY DEF DiscussionInv
  <2>2. CASE SameClarify(o)
    BY <1>3, <2>1, <2>2 DEF PriorOK, Asked
  <2>3. CASE NoClarify(o)
    BY <1>3, <2>1, <2>3 DEF PriorOK
  <2> QED
    BY <2>2, <2>3
<1>5. ASSUME NEW o \in Procs PROVE Informed(o)'
  <2>1. Informed(o)
    BY DEF DiscussionInv
  <2>2. CASE SameClarify(o)
    <3>1. \A c \in Procs : pc[c] = "torn" => pc'[c] = "torn" /\ saw'[c] = saw[c]
      OBVIOUS
    <3> QED
      BY <2>1, <2>2, <3>1 DEF Informed, Asked
  <2>3. CASE NoClarify(o)
    BY <2>3 DEF Informed
  <2> QED
    BY <2>2, <2>3
<1>6. RoundsKept'
  BY DEF DiscussionInv, RoundsKept
<1>7. RoundsRecoverable'
  BY <1>3 DEF DiscussionInv, RoundsRecoverable
<1> QED
  BY <1>1, <1>2, <1>4, <1>5, <1>6, <1>7 DEF DiscussionInv

\* The ids of what a command means.
LEMMA SawIds == ASSUME TypeOK, Meant, NEW o \in Procs,
                       pc[o] \in {"listed", "asked", "torn", "written"}
                PROVE  saw[o] \in Handles /\ saw[o].id \in Ids
BY DEF TypeOK, Meant, Handles

LEMMA DiscussionAsk == ASSUME DiscussionInv, (TypeOK /\ Meant)', NEW o \in Procs, Ask(o)
                       PROVE  DiscussionInv'
<1> DEFINE i == saw[o].id
<1>1. PICK t \in Handles, r \in Rounds :
         /\ t.id = i
         /\ about[r] = NoItem /\ about' = [about EXCEPT ![r] = t]
         /\ prior' = [prior EXCEPT ![o] = disc[i] \cup {r}]
  <2>1. PICK t \in TasksOf(Loaded), r \in Rounds :
           /\ t.id = i
           /\ about[r] = NoItem /\ about' = [about EXCEPT ![r] = t]
           /\ prior' = [prior EXCEPT ![o] = disc[i] \cup {r}]
    BY DEF Ask
  <2>2. saw[o] \in Handles /\ i \in Ids
    BY SawIds DEF Ask, Goto, DiscussionInv
  <2>3. t \in Handles
    BY <2>1, <2>2, NamesAssumption
       DEF Loaded, TasksOf, IsTask, DiscussionInv, TypeOK, Lines, Tasks, Handles
  <2> QED
    BY <2>1, <2>3
<1>2. /\ pc[o] = "listed" /\ pc' = [pc EXCEPT ![o] = "asked"]
      /\ UNCHANGED <<disc, history, lock, recorded, unsaved, crossed, unlocked, mingled, saw>>
      /\ i \in Ids
  BY SawIds DEF Ask, Goto, files, ghosts, DiscussionInv
<1>3. /\ pc \in [Procs -> Stages] /\ prior \in [Procs -> SUBSET Rounds]
      /\ about \in [Rounds -> Handles \cup {NoItem}] /\ disc \in [Ids -> SUBSET Rounds]
      /\ recorded \subseteq Rounds
  BY DEF DiscussionInv, TypeOK
<1> HIDE DEF i
<1> USE NamesAssumption DEF Clarifying
<1>4. \A s \in Rounds : about[s] # NoItem => about'[s] = about[s]
  BY <1>1, <1>3
<1>5. LockIsTaken'
  <2>1. \A p \in Procs : Within(p)' <=> Within(p)
    BY <1>2, <1>3 DEF Within
  <2> QED
    BY <1>2, <2>1 DEF DiscussionInv, LockIsTaken, TypeOK
<1>6. Discussed'
  BY <1>2, <1>3, <1>4 DEF DiscussionInv, Discussed, Asked
<1>7. r \notin recorded /\ \A c \in Procs : r \notin prior[c]
  BY <1>1 DEF DiscussionInv, Discussed, PriorOK, Asked
<1>8. \A s \in disc[i] : s \in recorded /\ Asked(s, i)
  BY <1>2 DEF DiscussionInv, Discussed
<1>9. Asked(r, i)' /\ \A s \in disc[i] : Asked(s, i)'
  <2>1. i' = i
    BY <1>2 DEF i
  <2>2. Asked(r, i)'
    BY <1>1, <1>2, <1>3, <2>1 DEF Asked
  <2> QED
    BY <1>4, <1>8, <2>1, <2>2, <1>3 DEF Asked
<1>10. ASSUME NEW p \in Procs PROVE PriorOK(p)'
  <2>1. PriorOK(p)
    BY DEF DiscussionInv
  <2>2. CASE p = o
    <3>1. prior'[o] = disc[i] \cup {r}
      BY <1>1, <1>3
    <3>2. \A c \in Procs \ {o} : prior'[c] = prior[c]
      BY <1>1, <1>3
    <3>3. \A s \in prior'[o] : Asked(s, i)'
      BY <1>9, <3>1
    <3>4. \A c \in Procs \ {o} : prior'[o] \cap prior'[c] \subseteq recorded
      BY <1>7, <1>8, <3>1, <3>2
    <3> QED
      BY <1>2, <1>3, <2>2, <3>3, <3>4 DEF PriorOK, Asked, i
  <2>3. CASE p # o
    <3>1. prior'[p] = prior[p] /\ pc'[p] = pc[p] /\ r \notin prior[p]
      BY <1>1, <1>2, <1>3, <1>7, <2>3
    <3>2. \A s \in prior[p] : Asked(s, saw[p].id)'
      BY <1>2, <1>3, <1>4, <2>1 DEF PriorOK, Asked
    <3>3. \A c \in Procs \ {p} : prior'[c] = prior[c] \/ prior'[c] = disc[i] \cup {r}
      BY <1>1, <1>3
    <3>4. \A c \in Procs \ {p} : prior[p] \cap prior'[c] \subseteq recorded
      BY <1>8, <2>1, <3>1, <3>3 DEF PriorOK
    <3> QED
      BY <1>2, <2>1, <3>1, <3>2, <3>4 DEF PriorOK, Asked
  <2> QED
    BY <2>2, <2>3
<1>11. ASSUME NEW p \in Procs PROVE Informed(p)'
  <2>1. Informed(p)
    BY DEF DiscussionInv
  <2>2. \A j : \A s \in recorded : Asked(s, j)' => Asked(s, j)
    BY <1>3, <1>4 DEF DiscussionInv, Discussed, Asked
  <2>3. CASE p = o
    <3>1. ASSUME NEW s \in recorded, Asked(s, i)
          PROVE  \/ s \in disc[i]
                 \/ i \in crossed
                 \/ \E c \in Procs \ {o} : pc[c] = "torn" /\ saw[c].id = i
      BY <1>2, <3>1 DEF DiscussionInv, RoundsKept, Asked
    <3>2. \A c \in Procs \ {o} : pc'[c] = pc[c]
      BY <1>2, <1>3
    <3>3. prior'[o] = disc[i] \cup {r}
      BY <1>1, <1>3
    <3> QED
      BY <1>2, <2>2, <2>3, <3>1, <3>2, <3>3 DEF Informed, Asked, i
  <2>4. CASE p # o
    <3>1. prior'[p] = prior[p] /\ pc'[p] = pc[p]
      BY <1>1, <1>2, <1>3, <2>4
    <3>2. \A c \in Procs : pc[c] = "torn" => pc'[c] = "torn"
      BY <1>2, <1>3
    <3> QED
      BY <1>2, <2>1, <2>2, <3>1, <3>2 DEF Informed, Asked
  <2> QED
    BY <2>3, <2>4
<1>12. RoundsKept'
  <2>1. \A s \in recorded : about'[s] = about[s]
    BY <1>3, <1>4 DEF DiscussionInv, Discussed
  <2>2. \A c \in Procs : pc[c] = "torn" => pc'[c] = "torn"
    BY <1>2, <1>3
  <2> QED
    BY <1>2, <2>1, <2>2 DEF DiscussionInv, RoundsKept
<1>13. RoundsRecoverable'
  <2>1. \A c \in Procs : pc[c] = "written" => pc'[c] = "written" /\ prior'[c] = prior[c]
    BY <1>1, <1>2, <1>3
  <2>2. \A s \in recorded : about'[s] = about[s]
    BY <1>3, <1>4 DEF DiscussionInv, Discussed
  <2> QED
    BY <1>2, <2>1, <2>2 DEF DiscussionInv, RoundsRecoverable
<1> QED
  BY <1>5, <1>6, <1>10, <1>11, <1>12, <1>13 DEF DiscussionInv

\* Only o's own round is withdrawn: whatever it shares is recorded.
LEMMA DiscussionFail == ASSUME DiscussionInv, (TypeOK /\ Meant)', NEW o \in Procs, ClarifyFail(o)
                        PROVE  DiscussionInv'
<1>1. /\ pc[o] = "asked" /\ pc' = [pc EXCEPT ![o] = "idle"]
      /\ about' = [r \in Rounds |-> IF r \in prior[o] \ recorded THEN NoItem ELSE about[r]]
      /\ prior' = [prior EXCEPT ![o] = {}] /\ saw' = [saw EXCEPT ![o] = NoItem]
      /\ UNCHANGED <<disc, history, lock, recorded, unsaved, crossed, unlocked, mingled>>
  BY DEF ClarifyFail, Goto, Idle, files, ghosts
<1>2. /\ pc \in [Procs -> Stages] /\ prior \in [Procs -> SUBSET Rounds]
      /\ saw \in [Procs -> Handles \cup {NoItem}]
      /\ about \in [Rounds -> Handles \cup {NoItem}] /\ disc \in [Ids -> SUBSET Rounds]
      /\ recorded \subseteq Rounds
  BY DEF DiscussionInv, TypeOK
<1> USE DEF Clarifying
<1>3. \A r \in recorded : about'[r] = about[r]
  BY <1>1, <1>2
<1>4. LockIsTaken'
  <2>1. \A p \in Procs : (Within(p)' <=> Within(p)) /\ (Within(p) => saw'[p] = saw[p])
    BY <1>1, <1>2 DEF Within
  <2> QED
    BY <1>1, <2>1 DEF DiscussionInv, LockIsTaken, TypeOK
<1>5. Discussed'
  BY <1>1, <1>2, <1>3 DEF DiscussionInv, Discussed, Asked
<1>6. \A p \in Procs \ {o} : /\ pc'[p] = pc[p] /\ prior'[p] = prior[p] /\ saw'[p] = saw[p]
                             /\ \A r \in prior[p] : about'[r] = about[r]
  <2>1. \A p \in Procs \ {o} : prior[p] \cap prior[o] \subseteq recorded
    BY DEF DiscussionInv, PriorOK
  <2> QED
    BY <1>1, <1>2, <2>1
<1>7. prior'[o] = {} /\ pc'[o] = "idle"
  BY <1>1, <1>2
<1>8. ASSUME NEW p \in Procs PROVE PriorOK(p)'
  <2>1. PriorOK(p)
    BY DEF DiscussionInv
  <2>2. CASE p = o
    BY <1>7, <2>2 DEF PriorOK
  <2>3. CASE p # o
    <3>1. \A c \in Procs \ {p} : prior'[p] \cap prior'[c] \subseteq recorded
      BY <1>6, <1>7, <2>1, <2>3 DEF PriorOK
    <3>2. \A r \in prior'[p] : Asked(r, saw[p].id)'
      BY <1>6, <2>1, <2>3 DEF PriorOK, Asked
    <3> QED
      BY <1>1, <1>6, <2>1, <2>3, <3>1, <3>2 DEF PriorOK
  <2> QED
    BY <2>2, <2>3
<1>9. ASSUME NEW p \in Procs PROVE Informed(p)'
  <2>1. Informed(p)
    BY DEF DiscussionInv
  <2>2. CASE p = o
    BY <1>7, <2>2 DEF Informed
  <2>3. CASE p # o
    <3>1. \A c \in Procs : pc[c] = "torn" => pc'[c] = "torn" /\ saw'[c] = saw[c]
      BY <1>1, <1>2
    <3> QED
      BY <1>1, <1>3, <1>6, <2>1, <2>3, <3>1 DEF Informed, Asked
  <2> QED
    BY <2>2, <2>3
<1>10. RoundsKept'
  <2>1. \A c \in Procs : pc[c] = "torn" => pc'[c] = "torn" /\ saw'[c] = saw[c]
    BY <1>1, <1>2
  <2>2. ASSUME NEW r \in recorded
        PROVE  \/ r \in disc[about[r].id]
               \/ about[r].id \in crossed
               \/ \E c \in Procs : pc'[c] = "torn" /\ saw'[c].id = about[r].id
    BY <2>1 DEF DiscussionInv, RoundsKept
  <2>3. UNCHANGED <<disc, recorded, crossed>>
    BY <1>1
  <2> QED
    BY <1>3, <2>2, <2>3 DEF RoundsKept
<1>11. RoundsRecoverable'
  <2>1. \A c \in Procs : pc[c] = "written" => pc'[c] = "written" /\ prior'[c] = prior[c]
    BY <1>1, <1>2
  <2> QED
    BY <1>1, <1>3, <2>1 DEF DiscussionInv, RoundsRecoverable
<1> QED
  BY <1>4, <1>5, <1>8, <1>9, <1>10, <1>11 DEF DiscussionInv

LEMMA DiscussionOpen == ASSUME DiscussionInv, (TypeOK /\ Meant)', NEW o \in Procs,
                               OpenDisc(o) \/ OpenUnlocked(o)
                        PROVE  DiscussionInv'
<1> DEFINE i == saw[o].id
<1>1. /\ pc[o] = "asked" /\ pc' = [pc EXCEPT ![o] = "torn"]
      /\ disc' = [disc EXCEPT ![i] = {}] /\ i \in Ids
      /\ UNCHANGED <<history, about, recorded, unsaved, crossed, saw, prior>>
  BY SawIds DEF OpenDisc, OpenUnlocked, Truncate, Goto, locals, DiscussionInv
<1>2. pc \in [Procs -> Stages] /\ disc \in [Ids -> SUBSET Rounds] /\ unlocked \subseteq Procs
  BY DEF DiscussionInv, TypeOK
<1>3. \/ lock = None /\ lock' = o /\ unlocked' = unlocked
      \/ lock' = lock /\ unlocked' = unlocked \cup {o}
  BY DEF OpenDisc, OpenUnlocked
<1>4. /\ mingled \subseteq mingled'
      /\ \A c \in Procs \ {o} : Within(c) /\ saw[c].id = i /\ {o, c} \cap unlocked' # {} => i \in mingled'
  BY DEF OpenDisc, OpenUnlocked, Truncate, Within
<1>5. LockIsTaken
  BY DEF DiscussionInv
<1> USE NamesAssumption DEF Clarifying
<1>6. Within(o)' /\ ~Within(o) /\ \A p \in Procs \ {o} : (Within(p)' <=> Within(p)) /\ pc'[p] = pc[p]
  BY <1>1, <1>2 DEF Within
\* The lock keeps apart those who have it.
<1>7. \A c \in Procs \ {o} : Within(c) /\ saw[c].id = i => i \in mingled'
  <2>1. \A c \in Procs \ {o} : Within(c) => c \in unlocked \/ o \in unlocked'
    BY <1>3, <1>5 DEF LockIsTaken
  <2> QED
    BY <1>3, <1>4, <2>1
<1> HIDE DEF i
<1>8. saw'[o].id = i /\ saw[o].id = i
  BY <1>1 DEF i
<1>9. LockIsTaken'
  <2>1. \A p \in Procs : lock' = p <=> Within(p)' /\ p \notin unlocked'
    BY <1>2, <1>3, <1>5, <1>6 DEF LockIsTaken
  <2>2. \A p \in unlocked' : Within(p)'
    BY <1>2, <1>3, <1>5, <1>6 DEF LockIsTaken
  <2>3. ASSUME NEW p \in Procs, NEW c \in Procs, p # c, Within(p)', Within(c)',
               saw[p].id = saw[c].id
        PROVE  saw[p].id \in mingled'
    BY <1>4, <1>5, <1>6, <1>7, <1>8, <2>3 DEF LockIsTaken
  <2> QED
    BY <1>1, <2>1, <2>2, <2>3 DEF LockIsTaken
<1>10. Discussed'
  BY <1>1, <1>2 DEF DiscussionInv, Discussed, Asked
<1>11. ASSUME NEW p \in Procs PROVE PriorOK(p)'
  <2>1. PriorOK(p)
    BY DEF DiscussionInv
  <2>2. pc'[p] \in Clarifying <=> pc[p] \in Clarifying
    BY <1>1, <1>2
  <2>3. ASSUME pc'[p] = "written" PROVE disc'[saw[p].id] = prior[p] \/ saw[p].id \in mingled'
    <3>1. p # o /\ pc[p] = "written" /\ Within(p)
      BY <1>1, <1>2, <2>3 DEF Within
    <3>2. CASE saw[p].id = i
      BY <1>7, <3>1, <3>2
    <3>3. CASE saw[p].id # i
      <4>1. saw[p].id \in Ids
        BY <3>1, SawIds DEF DiscussionInv
      <4> QED
        BY <1>1, <1>2, <1>4, <2>1, <3>1, <3>3, <4>1 DEF PriorOK
    <3> QED
      BY <3>2, <3>3
  <2> QED
    BY <1>1, <2>1, <2>2, <2>3 DEF PriorOK, Asked
<1>12. ASSUME NEW p \in Procs PROVE Informed(p)'
  <2>1. Informed(p)
    BY DEF DiscussionInv
  <2>2. pc'[p] \in {"asked", "torn"} => pc[p] \in {"asked", "torn"}
    BY <1>1, <1>2
  <2>3. \A c \in Procs : pc[c] = "torn" => pc'[c] = "torn"
    BY <1>1, <1>2
  <2> QED
    BY <1>1, <2>1, <2>2, <2>3 DEF Informed, Asked
<1>13. RoundsKept'
  <2>1. pc'[o] = "torn" /\ \A c \in Procs : pc[c] = "torn" => pc'[c] = "torn"
    BY <1>1, <1>2
  <2>2. ASSUME NEW r \in recorded, about[r].id # i
        PROVE  \/ r \in disc'[about[r].id] \/ about[r].id \in crossed
               \/ \E c \in Procs : pc[c] = "torn" /\ saw[c].id = about[r].id
    <3>1. \/ r \in disc[about[r].id] \/ about[r].id \in crossed
          \/ \E c \in Procs : pc[c] = "torn" /\ saw[c].id = about[r].id
      BY DEF DiscussionInv, RoundsKept
    <3>2. about[r] # NoItem /\ about[r].id \in Ids
      BY DEF DiscussionInv, Discussed, TypeOK, Handles
    <3> QED
      BY <1>1, <1>2, <2>2, <3>1, <3>2
  <2> QED
    BY <1>1, <1>8, <2>1, <2>2 DEF RoundsKept
<1>14. RoundsRecoverable'
  <2>1. \A c \in Procs : pc[c] = "written" => pc'[c] = "written"
    BY <1>1, <1>2
  <2> QED
    BY <1>1, <1>4, <2>1 DEF DiscussionInv, RoundsRecoverable
<1> QED
  BY <1>9, <1>10, <1>11, <1>12, <1>13, <1>14 DEF DiscussionInv

LEMMA DiscussionWrite == ASSUME DiscussionInv, (TypeOK /\ Meant)', NEW o \in Procs, WriteDisc(o)
                         PROVE  DiscussionInv'
<1> DEFINE i == saw[o].id
<1>1. /\ pc[o] = "torn" /\ pc' = [pc EXCEPT ![o] = "written"]
      /\ disc' = [disc EXCEPT ![i] = prior[o]] /\ i \in Ids
      /\ recorded' = recorded \cup prior[o]
      /\ crossed' = IF Crossing(o) THEN crossed \cup {i} ELSE crossed
      /\ UNCHANGED <<history, lock, about, unsaved, saw, prior, unlocked, mingled>>
  BY SawIds DEF WriteDisc, Goto, locals, DiscussionInv
<1>2. pc \in [Procs -> Stages] /\ disc \in [Ids -> SUBSET Rounds] /\ crossed \subseteq crossed'
  BY <1>1 DEF DiscussionInv, TypeOK
<1>3. /\ \A p \in Procs \ {o} : pc'[p] = pc[p]
      /\ \A p \in Procs \ {o} : Within(p) /\ saw[p].id = i => i \in mingled
  BY <1>1, <1>2 DEF DiscussionInv, LockIsTaken, Within
<1>4. \A r \in prior[o] : Asked(r, i)
  BY DEF DiscussionInv, PriorOK
<1>5. Crossing(o) <=> \E c \in Procs \ {o} : pc[c] \in {"asked", "torn"} /\ saw[c].id = i
  BY DEF Crossing
<1> HIDE DEF i
<1>6. saw[o].id = i /\ saw'[o].id = i /\ pc'[o] = "written"
  BY <1>1, <1>2 DEF i
<1> USE DEF Clarifying
<1>7. LockIsTaken'
  <2>1. \A p \in Procs : Within(p)' <=> Within(p)
    BY <1>1, <1>2 DEF Within
  <2> QED
    BY <1>1, <2>1 DEF DiscussionInv, LockIsTaken, TypeOK
<1>8. Discussed'
  BY <1>1, <1>2, <1>4 DEF DiscussionInv, Discussed, Asked
<1>9. ASSUME NEW p \in Procs PROVE PriorOK(p)'
  <2>1. PriorOK(p)
    BY DEF DiscussionInv
  <2>2. CASE p = o
    BY <1>1, <1>2, <1>6, <2>1, <2>2 DEF PriorOK, Asked
  <2>3. CASE p # o
    <3>1. ASSUME pc[p] = "written" PROVE disc'[saw[p].id] = prior[p] \/ saw[p].id \in mingled
      <4>1. Within(p) /\ saw[p].id \in Ids
        BY <3>1, SawIds DEF Within, DiscussionInv
      <4>2. CASE saw[p].id = i
        BY <1>3, <2>3, <4>1, <4>2
      <4>3. CASE saw[p].id # i
        BY <1>1, <1>2, <2>1, <3>1, <4>1, <4>3 DEF PriorOK
      <4> QED
        BY <4>2, <4>3
    <3> QED
      BY <1>1, <1>3, <2>1, <2>3, <3>1 DEF PriorOK, Asked
  <2> QED
    BY <2>2, <2>3
<1>10. ASSUME NEW p \in Procs PROVE Informed(p)'
  <2>1. CASE p = o
    BY <1>6, <2>1 DEF Informed
  <2>2. CASE p # o /\ pc[p] \in {"asked", "torn"} /\ saw[p].id = i
    <3>1. i \in crossed'
      BY <1>1, <1>5, <2>2
    <3> QED
      BY <1>1, <2>2, <3>1 DEF Informed
  <2>3. CASE p # o /\ pc[p] \in {"asked", "torn"} /\ saw[p].id # i
    <3>1. ASSUME NEW r \in recorded', Asked(r, saw[p].id)
          PROVE  \/ r \in prior[p] \/ saw[p].id \in crossed
                 \/ \E c \in Procs \ {p} : pc'[c] = "torn" /\ saw[c].id = saw[p].id
      <4>1. r \in recorded
        BY <1>1, <1>4, <2>3, <3>1 DEF Asked
      <4>2. Informed(p)
        BY DEF DiscussionInv
      <4> QED
        BY <1>3, <1>6, <2>3, <3>1, <4>1, <4>2 DEF Informed
    <3> QED
      BY <1>1, <1>2, <3>1 DEF Informed, Asked
  <2>4. CASE p # o /\ pc[p] \notin {"asked", "torn"}
    BY <1>3, <2>4 DEF Informed
  <2> QED
    BY <2>1, <2>2, <2>3, <2>4
<1>11. RoundsKept'
  <2>1. ASSUME NEW r \in recorded'
        PROVE  \/ r \in disc'[about[r].id] \/ about[r].id \in crossed'
               \/ \E c \in Procs : pc'[c] = "torn" /\ saw[c].id = about[r].id
    <3>1. CASE r \in prior[o]
      BY <1>1, <1>2, <1>4, <3>1 DEF Asked
    <3>2. CASE r \notin prior[o] /\ about[r].id = i
      <4>1. r \in recorded /\ Asked(r, i)
        BY <1>1, <2>1, <3>2 DEF Asked, DiscussionInv, Discussed
      <4>2. Informed(o)
        BY DEF DiscussionInv
      <4> QED
        BY <1>1, <1>2, <1>3, <1>6, <3>2, <4>1, <4>2 DEF Informed
    <3>3. CASE r \notin prior[o] /\ about[r].id # i
      <4>1. r \in recorded
        BY <1>1, <2>1, <3>3
      <4>2. \/ r \in disc[about[r].id] \/ about[r].id \in crossed
            \/ \E c \in Procs : pc'[c] = "torn" /\ saw[c].id = about[r].id
        BY <1>3, <1>6, <3>3, <4>1 DEF DiscussionInv, RoundsKept
      <4>3. about[r].id \in Ids
        BY <4>1 DEF DiscussionInv, Discussed, TypeOK, Handles
      <4> QED
        BY <1>1, <1>2, <3>3, <4>2, <4>3
    <3> QED
      BY <3>1, <3>2, <3>3
  <2> QED
    BY <1>1, <2>1 DEF RoundsKept
<1>12. RoundsRecoverable'
  BY <1>1, <1>3, <1>6 DEF DiscussionInv, RoundsRecoverable
<1> QED
  BY <1>7, <1>8, <1>9, <1>10, <1>11, <1>12 DEF DiscussionInv

\* What o has written is in the discussion until o commits it, or is unsaved.
LEMMA DiscussionEnd ==
  ASSUME DiscussionInv, (TypeOK /\ Meant)', NEW o \in Procs,
         Commit(o) \/ (Crash(o) /\ pc[o] \in {"torn", "written"})
  PROVE  DiscussionInv'
<1> DEFINE i == saw[o].id
<1>1. /\ pc[o] \in {"torn", "written"} /\ pc' = [pc EXCEPT ![o] = "idle"]
      /\ EndTxn(o) /\ mingled' = mingled
      /\ saw' = [saw EXCEPT ![o] = NoItem] /\ prior' = [prior EXCEPT ![o] = {}]
      /\ UNCHANGED <<disc, about, recorded>>
      /\ i \in Ids
  BY SawIds DEF Commit, Crash, Goto, Idle, DiscussionInv, LockIsTaken
<1>2. /\ pc \in [Procs -> Stages] /\ prior \in [Procs -> SUBSET Rounds]
      /\ saw \in [Procs -> Handles \cup {NoItem}] /\ disc \in [Ids -> SUBSET Rounds]
  BY DEF DiscussionInv, TypeOK
<1>3. /\ history \cup unsaved \subseteq history' \cup unsaved'
      /\ crossed \subseteq crossed'
      /\ pc[o] = "torn" => i \in crossed'
  BY <1>1, <1>2 DEF Commit, Crash, Goto
<1>4. pc[o] = "written" => prior[o] \subseteq history' \cup unsaved' \/ i \in mingled
  <2>1. pc[o] = "written" => disc[i] = prior[o] \/ i \in mingled
    BY DEF DiscussionInv, PriorOK
  <2> QED
    BY <1>1, <1>2, <2>1 DEF Commit, Crash, Goto
<1>5. \A p \in Procs \ {o} : pc'[p] = pc[p] /\ saw'[p] = saw[p] /\ prior'[p] = prior[p]
  BY <1>1, <1>2
<1>6. pc'[o] = "idle" /\ prior'[o] = {}
  BY <1>1, <1>2
<1> USE NamesAssumption DEF Clarifying
<1>7. LockIsTaken'
  <2>1. ~Within(o)' /\ \A p \in Procs \ {o} : Within(p)' <=> Within(p)
    BY <1>5, <1>6 DEF Within
  <2>2. LockIsTaken /\ unlocked \subseteq Procs
    BY DEF DiscussionInv, TypeOK
  <2> QED
    BY <1>1, <1>5, <2>1, <2>2 DEF LockIsTaken, EndTxn
<1>8. Discussed'
  BY <1>1 DEF DiscussionInv, Discussed, Asked
<1>9. ASSUME NEW p \in Procs PROVE PriorOK(p)'
  <2>1. PriorOK(p)
    BY DEF DiscussionInv
  <2>2. CASE p = o
    BY <1>6, <2>2 DEF PriorOK
  <2>3. CASE p # o
    BY <1>1, <1>5, <1>6, <2>1, <2>3 DEF PriorOK, Asked
  <2> QED
    BY <2>2, <2>3
<1>10. ASSUME NEW p \in Procs PROVE Informed(p)'
  <2>1. CASE p = o
    BY <1>6, <2>1 DEF Informed
  <2>2. CASE p # o
    <3>1. ASSUME pc[p] \in {"asked", "torn"}, NEW r \in recorded, Asked(r, saw[p].id)
          PROVE  \/ r \in prior[p] \/ saw[p].id \in crossed'
                 \/ \E c \in Procs \ {p} : pc'[c] = "torn" /\ saw'[c].id = saw[p].id
      <4>1. Informed(p)
        BY DEF DiscussionInv
      <4> QED
        BY <1>3, <1>5, <3>1, <4>1 DEF Informed
    <3> QED
      BY <1>1, <1>5, <2>2, <3>1 DEF Informed, Asked
  <2> QED
    BY <2>1, <2>2
<1>11. RoundsKept'
  <2>1. ASSUME NEW r \in recorded
        PROVE  \/ r \in disc[about[r].id] \/ about[r].id \in crossed'
               \/ \E c \in Procs : pc'[c] = "torn" /\ saw'[c].id = about[r].id
    <3>1. \/ r \in disc[about[r].id]
          \/ about[r].id \in crossed
          \/ \E c \in Procs : pc[c] = "torn" /\ saw[c].id = about[r].id
      BY DEF DiscussionInv, RoundsKept
    <3> QED
      BY <1>3, <1>5, <3>1
  <2> QED
    BY <1>1, <2>1 DEF RoundsKept
<1>12. RoundsRecoverable'
  <2>1. ASSUME NEW r \in recorded
        PROVE  \/ r \in history' \cup unsaved' \/ about[r].id \in mingled
               \/ \E c \in Procs : pc'[c] = "written" /\ r \in prior'[c]
    <3>1. \/ r \in history \cup unsaved \/ about[r].id \in mingled
          \/ \E c \in Procs : pc[c] = "written" /\ r \in prior[c]
      BY DEF DiscussionInv, RoundsRecoverable
    <3>2. r \in prior[o] => about[r].id = i
      BY DEF DiscussionInv, PriorOK, Asked
    <3> QED
      BY <1>3, <1>4, <1>5, <3>1, <3>2
  <2> QED
    BY <1>1, <2>1 DEF RoundsRecoverable
<1> QED
  BY <1>7, <1>8, <1>9, <1>10, <1>11, <1>12 DEF DiscussionInv

LEMMA DiscussionNext == DiscussionInv /\ [Next]_vars => DiscussionInv'
<1> SUFFICES ASSUME DiscussionInv, [Next]_vars PROVE DiscussionInv'
  OBVIOUS
<1>1. (TypeOK /\ Meant)'
  BY NextType, NextMeant DEF DiscussionInv
<1>2. /\ pc \in [Procs -> Stages] /\ prior \in [Procs -> SUBSET Rounds]
      /\ saw \in [Procs -> Handles \cup {NoItem}]
      /\ \A p \in Procs : pc[p] \notin Clarifying => prior[p] = {}
  BY DEF DiscussionInv, TypeOK, PriorOK
<1> USE DEF SameClarify, NoClarify, Clarifying, DiscussionFiles
<1>3. ASSUME NEW o \in Procs, List(o) \/ Load(o) PROVE DiscussionInv'
  <2>1. UNCHANGED DiscussionFiles /\ prior' = prior
    BY <1>3 DEF List, Load, files, ghosts
  <2>2. pc[o] \notin Clarifying /\ pc'[o] \notin Clarifying
    BY <1>2, <1>3 DEF List, Load, Goto
  <2>3. \A p \in Procs \ {o} : pc'[p] = pc[p] /\ saw'[p] = saw[p]
    BY <1>2, <1>3 DEF List, Load, Goto
  <2> QED
    BY <1>1, <1>2, <2>1, <2>2, <2>3, DiscussionQuiet
<1>4. ASSUME NEW o \in Procs, NEW d, Change(o, d), UNCHANGED <<about, recorded, unsaved, crossed>>
      PROVE  DiscussionInv'
  <2>1. UNCHANGED DiscussionFiles /\ prior' = prior /\ saw' = saw
    BY <1>4 DEF Change
  <2>2. pc[o] \notin Clarifying /\ pc'[o] \notin Clarifying /\ \A p \in Procs \ {o} : pc'[p] = pc[p]
    BY <1>2, <1>4 DEF Change
  <2> QED
    BY <1>1, <1>2, <2>1, <2>2, DiscussionQuiet
<1>5. ASSUME NEW o \in Procs, NoteDone(o) \/ NoteRm(o) \/ \E k \in Items : NoteAdd(o, k)
      PROVE  DiscussionInv'
  <2>1. PICK d : Change(o, d)
    BY <1>5 DEF NoteDone, NoteRm, NoteAdd
  <2> QED
    BY <1>4, <2>1 DEF Change
<1>6. ASSUME NEW o \in Procs,
             \/ NoteShow(o) \/ NoteBail(o) \/ ClarifyBail(o) \/ Save(o)
             \/ Crash(o) /\ pc[o] = "open"
      PROVE  DiscussionInv'
  <2>1. UNCHANGED <<disc, history, about, recorded, unsaved, crossed, mingled>> /\ Idle(o)
    BY <1>6 DEF NoteShow, NoteBail, ClarifyBail, Save, Crash, files, ghosts
  <2>2. pc[o] \in {"loaded", "blind", "listed", "open"} /\ pc' = [pc EXCEPT ![o] = "idle"]
    BY <1>6 DEF NoteShow, NoteBail, ClarifyBail, Save, Crash, Goto
  <2>3. o \notin unlocked /\ lock # o
    BY <2>2 DEF DiscussionInv, LockIsTaken, Within
  <2>4. UNCHANGED <<lock, unlocked>>
    BY <1>6, <2>3 DEF NoteShow, NoteBail, ClarifyBail, Save, Crash, EndTxn, files, ghosts
  <2> QED
    BY <1>1, <1>2, <2>1, <2>2, <2>4, DiscussionQuiet DEF Idle
<1>7. CASE \/ \E k \in Items : HandAdd(k)
           \/ \E t \in TasksOf(lines) : HandDrop(t)
           \/ Recode \/ UNCHANGED vars
  <2>1. UNCHANGED DiscussionFiles /\ UNCHANGED <<pc, saw, prior>>
    BY <1>7 DEF HandAdd, HandDrop, Recode, locals, ghosts, vars
  <2> QED
    BY <1>1, <2>1, DiscussionQuiet
<1>8. ASSUME NEW o \in Procs, Crash(o) PROVE pc[o] \in {"open", "torn", "written"}
  BY <1>8 DEF Crash
<1> QED
  BY <1>1, <1>3, <1>5, <1>6, <1>7, <1>8, DiscussionAsk, DiscussionFail, DiscussionOpen,
     DiscussionWrite, DiscussionEnd DEF Next

LEMMA DiscussionsHold == Spec => []DiscussionInv
BY DiscussionInit, DiscussionNext, PTL DEF Spec

(* A recorded round stays in its discussion, however many commands extend  *)
(* however many discussions, until two extend the same one at once or one  *)
(* dies writing it.                                                        *)
THEOREM RoundsStay == Spec => []RoundsKept
<1>1. DiscussionInv => RoundsKept
  BY DEF DiscussionInv
<1> QED
  BY <1>1, DiscussionsHold, PTL

(* And it is in a commit once its command has ended, unless that commit    *)
(* failed, or the discussion was also in a transaction without the lock.   *)
THEOREM RoundsAreCommitted == Spec => []RoundsRecoverable
<1>1. DiscussionInv => RoundsRecoverable
  BY DEF DiscussionInv
<1> QED
  BY <1>1, DiscussionsHold, PTL

-----------------------------------------------------------------------------
(* Which item an id means, in the list, in the commands and in the rounds. *)

Everywhere == {t \in TasksOf(lines) \cup UNION {TasksOf(copy[p]) : p \in Procs} : t.id # NoId}
Seen       == {saw[o] : o \in Procs} \ {NoItem}
AskedAbout == {about[r] : r \in Rounds} \ {NoItem}

\* Was removed on purpose; it never comes back.
Gone == written \ kept

IdsGiven == \A t \in Everywhere \cup Seen \cup AskedAbout : t.id \in given

\* An id that was given once means one item ...
OneMeaning == \A s, t \in Everywhere \cup AskedAbout :
                s.id = t.id /\ s.id \notin reused => s.key = t.key

\* ... and whoever means another item by it finds only items at risk.
Confusion == \A s \in Everywhere \cup Seen, t \in Everywhere :
               s.id = t.id /\ s.key # t.key => t.key \in risk \cup Gone

SeenWritten == NamesOf(lines) \subseteq written /\ \A s \in Seen : s.key \in written

TagInv == IdsGiven /\ OneMeaning /\ Confusion /\ SeenWritten

LEMMA TasksNames == ASSUME NEW d \in SUBSET Lines
                    PROVE  /\ \A t \in TasksOf(d) : t.key \in NamesOf(d) /\ t \in Tasks
                           /\ \A e \in SUBSET d : NamesOf(e) \subseteq NamesOf(d)
BY DEF NamesOf, TasksOf, IsTask, Lines, Tasks

LEMMA EverywhereTasks == ASSUME TypeOK
                         PROVE  /\ Everywhere \subseteq Handles
                                /\ Seen \subseteq Handles /\ AskedAbout \subseteq Handles
<1>1. Everywhere \subseteq Handles
  BY DEF Everywhere, TasksOf, IsTask, TypeOK, Lines, Tasks, Handles
<1>2. Seen \subseteq Handles
  BY DEF Seen, TypeOK
<1>3. AskedAbout \subseteq Handles
  BY DEF AskedAbout, TypeOK
<1> QED
  BY <1>1, <1>2, <1>3

\* A step that brings up no new id.
LEMMA TagsKept ==
  ASSUME TagInv,
         Everywhere' \subseteq Everywhere,
         Seen' \subseteq Seen \cup Everywhere,
         AskedAbout' \subseteq AskedAbout \cup Everywhere,
         given \subseteq given', reused \subseteq reused',
         risk \cup Gone \subseteq (risk \cup Gone)',
         SeenWritten'
  PROVE  TagInv'
<1>1. IdsGiven'
  BY DEF TagInv, IdsGiven
<1>2. OneMeaning'
  BY DEF TagInv, OneMeaning
<1>3. Confusion'
  BY DEF TagInv, Confusion
<1> QED
  BY <1>1, <1>2, <1>3 DEF TagInv

\* Loading, or forgetting, a list brings up nothing.
LEMMA EverywhereShrinks ==
  ASSUME TypeOK, NEW o \in Procs, NEW d, NEW e,
         TasksOf(d) \subseteq TasksOf(lines) \cup UNION {TasksOf(copy[p]) : p \in Procs},
         TasksOf(e) \subseteq TasksOf(lines) \cup UNION {TasksOf(copy[p]) : p \in Procs},
         lines' = d, copy' = [copy EXCEPT ![o] = e]
  PROVE  Everywhere' \subseteq Everywhere
<1>1. \A p \in Procs : copy'[p] = e \/ copy'[p] = copy[p]
  BY DEF TypeOK
<1> QED
  BY <1>1 DEF Everywhere

LEMMA TagInit == Init => TagInv
<1> SUFFICES ASSUME Init PROVE TagInv
  OBVIOUS
<1>1. Everywhere = {}
  BY DEF Init, Everywhere, TasksOf, IsTask
<1>2. Seen = {} /\ AskedAbout = {}
  BY DEF Init, Seen, AskedAbout
<1> QED
  BY <1>1, <1>2 DEF Init, TagInv, IdsGiven, OneMeaning, Confusion, SeenWritten

LEMMA TagAdd == ASSUME TypeOK, TypeOK', TagInv, NEW o \in Procs, NEW k \in Items, NoteAdd(o, k)
                PROVE  TagInv'
<1> DEFINE i == FreshId(k, copy[o])
           new == [key |-> k, id |-> i]
<1>1. /\ i \in Ids
      /\ given' = given \cup {i}
      /\ reused' = IF i \in given THEN reused \cup {i} ELSE reused
      /\ risk' = risk \cup (IF i \in given THEN {k} \cup Holders(i) ELSE {})
                      \cup (IF pc[o] = "blind" THEN kept ELSE {})
      /\ kept' = kept /\ copy' = [copy EXCEPT ![o] = AddTo(copy[o], k)]
      /\ lines' = {} /\ UNCHANGED <<written, saw, about>>
  BY FreshIsFresh DEF NoteAdd, Change
<1>2. AddTo(copy[o], k) = copy[o] \cup {new}
  BY DEF AddTo
<1> HIDE DEF i
<1>3. Everywhere' \subseteq Everywhere \cup {new}
  <2>1. \A p \in Procs : copy'[p] = copy[o] \cup {new} \/ copy'[p] = copy[p]
    BY <1>1, <1>2 DEF TypeOK
  <2>2. TasksOf(copy[o] \cup {new}) \subseteq TasksOf(copy[o]) \cup {new}
    BY DEF TasksOf
  <2>3. TasksOf(lines') = {}
    BY <1>1 DEF TasksOf
  <2> QED
    BY <2>1, <2>2, <2>3 DEF Everywhere
<1>4. Seen' = Seen /\ AskedAbout' = AskedAbout /\ Gone' = Gone
  BY <1>1 DEF Seen, AskedAbout, Gone
<1>5. IdsGiven'
  BY <1>1, <1>3, <1>4 DEF TagInv, IdsGiven
<1>6. OneMeaning'
  <2>1. CASE i \in given
    BY <1>1, <1>3, <1>4, <2>1 DEF TagInv, OneMeaning
  <2>2. CASE i \notin given
    <3>1. \A t \in Everywhere \cup AskedAbout : t.id # i
      BY <2>2 DEF TagInv, IdsGiven
    <3> QED
      BY <1>1, <1>3, <1>4, <2>2, <3>1 DEF TagInv, OneMeaning
  <2> QED
    BY <2>1, <2>2
<1>7. Confusion'
  <2>1. CASE i \in given
    <3>1. \A t \in Everywhere : t.id = i => t.key \in Holders(i)
      BY DEF Everywhere, Holders, TasksOf
    <3> QED
      BY <1>1, <1>3, <1>4, <2>1, <3>1 DEF TagInv, Confusion
  <2>2. CASE i \notin given
    <3>1. \A t \in Everywhere \cup Seen : t.id # i
      BY <2>2 DEF TagInv, IdsGiven
    <3> QED
      BY <1>1, <1>3, <1>4, <2>2, <3>1 DEF TagInv, Confusion
  <2> QED
    BY <2>1, <2>2
<1>8. SeenWritten'
  BY <1>1, <1>4 DEF TagInv, SeenWritten, NamesOf
<1> QED
  BY <1>5, <1>6, <1>7, <1>8 DEF TagInv

LEMMA TagNext == TypeOK /\ TagInv /\ TypeOK' /\ [Next]_vars => TagInv'
<1> SUFFICES ASSUME TypeOK, TagInv, TypeOK', [Next]_vars PROVE TagInv'
  OBVIOUS
<1> DEFINE All == TasksOf(lines) \cup UNION {TasksOf(copy[p]) : p \in Procs}
<1>0. /\ copy \in [Procs -> SUBSET Lines] /\ saw \in [Procs -> Handles \cup {NoItem}]
      /\ about \in [Rounds -> Handles \cup {NoItem}] /\ lines \in SUBSET Lines
      /\ SeenWritten /\ TasksOf({}) = {} /\ NamesOf({}) = {}
  BY DEF TypeOK, TagInv, TasksOf, NamesOf
\* The histories that an idle command leaves alone.
<1>i. ASSUME NEW o \in Procs, Idle(o),
             lines' = lines \/ lines' \in SUBSET (lines \cup copy[o]),
             AskedAbout' \subseteq AskedAbout,
             given' = given, reused' = reused, risk \cup Gone \subseteq (risk \cup Gone)',
             NamesOf(lines') \subseteq written', written \subseteq written'
      PROVE  TagInv'
  <2>1. Everywhere' \subseteq Everywhere
    <3>1. TasksOf(lines') \subseteq All
      BY <1>i DEF TasksOf
    <3> QED
      BY <1>0, <1>i, <3>1, EverywhereShrinks DEF Idle
  <2>2. Seen' \subseteq Seen
    BY <1>0, <1>i DEF Idle, Seen
  <2> QED
    BY <1>0, <1>i, <2>1, <2>2, TagsKept DEF SeenWritten
<1>1. ASSUME NEW o \in Procs, List(o) PROVE TagInv'
  <2>1. PICK s \in Listed(Loaded) : saw' = [saw EXCEPT ![o] = s]
    BY <1>1 DEF List
  <2>2. s \in Everywhere /\ s.key \in NamesOf(lines)
    BY <1>0, <2>1, TasksNames DEF Listed, Loaded, Everywhere, TasksOf
  <2>3. Seen' \subseteq Seen \cup {s}
    BY <1>0, <2>1 DEF Seen
  <2>4. UNCHANGED <<lines, copy, about, ghosts>>
    BY <1>1 DEF List, files
  <2> QED
    BY <1>0, <2>2, <2>3, <2>4, TagsKept DEF SeenWritten, Everywhere, AskedAbout, Gone, ghosts
<1>2. ASSUME NEW o \in Procs, Load(o) PROVE TagInv'
  <2>1. TasksOf(Loaded) \subseteq All /\ TasksOf(lines) \subseteq All
    BY DEF Loaded, TasksOf
  <2>2. copy' = [copy EXCEPT ![o] = Loaded] /\ UNCHANGED <<lines, saw, about, ghosts>>
    BY <1>2 DEF Load, files
  <2>3. Everywhere' \subseteq Everywhere
    BY <2>1, <2>2, EverywhereShrinks
  <2> QED
    BY <1>0, <2>2, <2>3, TagsKept DEF SeenWritten, Seen, AskedAbout, Gone, ghosts
<1>3. ASSUME NEW o \in Procs, NEW d \in SUBSET copy[o], Change(o, d),
             UNCHANGED <<given, reused>>, risk \cup Gone \subseteq (risk \cup Gone)'
      PROVE  TagInv'
  <2>1. TasksOf(d) \subseteq All /\ TasksOf({}) \subseteq All
    BY <1>0 DEF TasksOf
  <2>2. /\ copy' = [copy EXCEPT ![o] = d] /\ lines' = {} /\ UNCHANGED <<saw, about, written>>
    BY <1>3 DEF Change
  <2>3. Everywhere' \subseteq Everywhere
    BY <2>1, <2>2, EverywhereShrinks
  <2> QED
    BY <1>0, <1>3, <2>2, <2>3, TagsKept DEF SeenWritten, Seen, AskedAbout
<1>4. ASSUME NEW o \in Procs, NoteDone(o) PROVE TagInv'
  <2>1. risk \cup Gone \subseteq (risk \cup Gone)'
    BY <1>4 DEF NoteDone, Change, Gone
  <2> QED
    BY <1>3, <1>4, <2>1 DEF NoteDone
<1>5. ASSUME NEW o \in Procs, NoteRm(o) PROVE TagInv'
  <2>1. saw[o].key \in written
    BY <1>0, <1>5 DEF NoteRm, SeenWritten, Seen
  <2>2. risk \cup Gone \subseteq (risk \cup Gone)'
    BY <1>5, <2>1 DEF NoteRm, Change, Gone
  <2>3. RemoveFrom(copy[o], saw[o].id) \in SUBSET copy[o]
    BY DEF RemoveFrom
  <2> QED
    BY <1>3, <1>5, <2>2, <2>3 DEF NoteRm
<1>6. ASSUME NEW o \in Procs, NoteShow(o) \/ NoteBail(o) \/ ClarifyBail(o) PROVE TagInv'
  BY <1>0, <1>6, <1>i
     DEF NoteShow, NoteBail, ClarifyBail, files, ghosts, AskedAbout, Gone, SeenWritten
<1>7. ASSUME NEW o \in Procs, ClarifyFail(o) PROVE TagInv'
  <2>1. AskedAbout' \subseteq AskedAbout
    BY <1>7 DEF ClarifyFail, AskedAbout
  <2> QED
    BY <1>0, <1>7, <2>1, <1>i DEF ClarifyFail, files, ghosts, Gone, SeenWritten
<1>8. ASSUME NEW o \in Procs, Commit(o) \/ Crash(o) PROVE TagInv'
  <2>1. UNCHANGED <<lines, about, written, kept, given, reused>> /\ risk \subseteq risk' /\ Idle(o)
    BY <1>8 DEF Commit, Crash
  <2> QED
    BY <1>0, <2>1, <1>i DEF AskedAbout, Gone, SeenWritten
<1>9. ASSUME NEW o \in Procs, Save(o) PROVE TagInv'
  <2>1. lines' \in SUBSET (lines \cup copy[o])
    BY <1>9 DEF Save
  <2>2. NamesOf(lines') \subseteq NamesOf(lines) \cup NamesOf(copy[o])
    BY <2>1 DEF NamesOf
  <2>3. /\ written' = written \cup NamesOf(copy[o])
        /\ risk \subseteq risk' /\ Gone' = Gone
        /\ UNCHANGED <<about, given, reused>> /\ Idle(o)
    BY <1>9 DEF Save, Gone
  <2> QED
    BY <1>0, <2>1, <2>2, <2>3, <1>i DEF AskedAbout, SeenWritten
<1>10. ASSUME NEW k \in Items, HandAdd(k) PROVE TagInv'
  <2>1. /\ lines' = lines \cup {[key |-> k, id |-> NoId]}
        /\ written' = written \cup {k} /\ kept' = kept \cup {k}
        /\ risk \subseteq risk' /\ k \notin written
        /\ UNCHANGED <<copy, saw, about, given, reused>>
    BY <1>10 DEF HandAdd, locals
  <2>2. TasksOf(lines') \subseteq TasksOf(lines) \cup {[key |-> k, id |-> NoId]}
    BY <2>1 DEF TasksOf
  <2>3. Everywhere' \subseteq Everywhere
    BY <2>1, <2>2 DEF Everywhere
  <2>4. NamesOf(lines') \subseteq NamesOf(lines) \cup {k}
    BY <2>1 DEF NamesOf, IsTask
  <2> QED
    BY <1>0, <2>1, <2>3, <2>4, TagsKept DEF SeenWritten, Seen, AskedAbout, Gone
<1>11. ASSUME NEW t \in TasksOf(lines), HandDrop(t) PROVE TagInv'
  <2>1. /\ lines' = lines \ {t}
        /\ kept' = kept \ {t.key} /\ risk' = risk \ {t.key}
        /\ UNCHANGED <<copy, saw, about, written, given, reused>>
    BY <1>11 DEF HandDrop, locals
  <2>2. t.key \in written
    BY <1>0, TasksNames DEF SeenWritten
  <2>3. risk \cup Gone \subseteq (risk \cup Gone)'
    BY <2>1, <2>2 DEF Gone
  <2>4. Everywhere' \subseteq Everywhere
    BY <2>1 DEF Everywhere, TasksOf
  <2>5. NamesOf(lines') \subseteq NamesOf(lines)
    BY <2>1 DEF NamesOf
  <2> QED
    BY <1>0, <2>1, <2>3, <2>4, <2>5, TagsKept DEF SeenWritten, Seen, AskedAbout
<1>12. ASSUME NEW o \in Procs, Ask(o) PROVE TagInv'
  <2>1. PICK t \in TasksOf(Loaded), r \in Rounds :
           saw[o] \in Handles /\ t.id = saw[o].id /\ about' = [about EXCEPT ![r] = t]
    BY <1>0, <1>12 DEF Ask
  <2>2. t \in Everywhere
    BY <2>1, NamesAssumption DEF Loaded, Everywhere, TasksOf, Handles
  <2>3. AskedAbout' \subseteq AskedAbout \cup {t}
    BY <1>0, <2>1 DEF AskedAbout
  <2>4. UNCHANGED <<lines, copy, saw, ghosts>>
    BY <1>12 DEF Ask, files
  <2> QED
    BY <1>0, <2>2, <2>3, <2>4, TagsKept DEF SeenWritten, Everywhere, Seen, Gone, ghosts
<1>13. ASSUME UNCHANGED <<lines, copy, saw, about, written, kept, risk, given, reused>>
       PROVE  TagInv'
  BY <1>13, <1>0, TagsKept DEF SeenWritten, Everywhere, Seen, AskedAbout, Gone
<1>14. CASE \/ \E o \in Procs : OpenDisc(o) \/ OpenUnlocked(o) \/ WriteDisc(o)
            \/ Recode \/ UNCHANGED vars
  BY <1>13, <1>14 DEF OpenDisc, OpenUnlocked, Truncate, WriteDisc, Recode, locals, ghosts, vars
<1> QED
  BY <1>1, <1>2, <1>4, <1>5, <1>6, <1>7, <1>8, <1>9, <1>10, <1>11, <1>12, <1>14, TagAdd
     DEF Next

(* The discussion of an item of the list is about that item, whatever is    *)
(* added, removed and asked in whatever order, unless its id was given      *)
(* again.                                                                   *)
THEOREM DiscussionsAreOwn == Spec => []DiscussionIsOwn
<1>1. DiscussionInv /\ TagInv => DiscussionIsOwn
  <2> SUFFICES ASSUME DiscussionInv, TagInv, NEW t \in TasksOf(lines), t.id \in Ids \ reused,
                      NEW r \in disc[t.id]
               PROVE  about[r].key = t.key
    BY DEF DiscussionIsOwn
  <2>1. about[r] # NoItem /\ about[r].id = t.id /\ r \in Rounds
    BY DEF DiscussionInv, Discussed, Asked, TypeOK
  <2>2. t \in Everywhere /\ about[r] \in AskedAbout
    BY <2>1, NamesAssumption DEF Everywhere, AskedAbout
  <2> QED
    BY <2>1, <2>2 DEF TagInv, OneMeaning
<1> QED
  BY <1>1, DiscussionsHold, TypeCorrect, TagInit, TagNext, PTL DEF Spec

-----------------------------------------------------------------------------
(* What is in the list.                                                    *)

Loaders == {"loaded", "blind", "open"}

\* All that is to be kept is in d, or at risk.
Has(d) == kept \subseteq NamesOf(d) \cup risk

\* The list has it whenever nobody has the file open, and also while somebody
\* has, once another has written it.
ListKept == Has(lines) \/ (Opened /\ lines = {})

\* Every copy of the list has it, but for that of a command that found the file
\* empty or unreadable.
CopyKept(o) == pc[o] \in Loaders => Has(copy[o]) \/ (pc[o] = "blind" /\ copy[o] = {})

KeptInv == ListKept /\ \A o \in Procs : CopyKept(o)

LEMMA KeptInit == Init => KeptInv
BY DEF Init, KeptInv, ListKept, CopyKept, Has, Loaders

\* Whoever does not take part, while nothing else is to be kept.
LEMMA CopyAlone ==
  ASSUME KeptInv, NEW p \in Procs, pc'[p] = pc[p], copy'[p] = copy[p],
         pc[p] \in Loaders => kept' \ risk' \subseteq kept \ risk
  PROVE  CopyKept(p)'
BY DEF KeptInv, CopyKept, Has

LEMMA KeptQuiet ==
  ASSUME TypeOK, KeptInv, UNCHANGED <<lines, kept, risk>>,
         \A p \in Procs : /\ pc'[p] \in Loaders => pc'[p] = pc[p] /\ copy'[p] = copy[p]
                          /\ pc[p] = "open" => pc'[p] = "open"
  PROVE  KeptInv'
<1>1. ListKept'
  BY DEF KeptInv, ListKept, Has, Opened
<1>2. ASSUME NEW p \in Procs PROVE CopyKept(p)'
  BY DEF KeptInv, CopyKept, Has
<1> QED
  BY <1>1, <1>2 DEF KeptInv

LEMMA KeptLoad == ASSUME TypeOK, KeptInv, NEW o \in Procs, Load(o) PROVE KeptInv'
<1>1. /\ pc[o] \in {"idle", "listed"}
      /\ pc' = [pc EXCEPT ![o] = IF ~readable \/ Opened THEN "blind" ELSE "loaded"]
      /\ copy' = [copy EXCEPT ![o] = Loaded]
      /\ UNCHANGED <<lines, kept, risk>>
  BY DEF Load, files, ghosts
<1>2. pc \in [Procs -> Stages] /\ copy \in [Procs -> SUBSET Lines]
  BY DEF TypeOK
<1>3. ListKept'
  <2>1. Opened => Opened'
    BY <1>1, <1>2 DEF Opened
  <2> QED
    BY <1>1, <2>1 DEF KeptInv, ListKept, Has
<1>4. ASSUME NEW p \in Procs PROVE CopyKept(p)'
  <2>1. CASE p = o
    <3>1. copy'[o] = Loaded /\ pc'[o] = IF ~readable \/ Opened THEN "blind" ELSE "loaded"
      BY <1>1, <1>2
    <3>2. Has(Loaded) \/ (pc'[o] = "blind" /\ Loaded = {})
      BY <3>1 DEF Loaded, KeptInv, ListKept
    <3> QED
      BY <1>1, <2>1, <3>1, <3>2 DEF CopyKept, Has
  <2>2. CASE p # o
    BY <1>1, <1>2, <2>2, CopyAlone
  <2> QED
    BY <2>1, <2>2
<1> QED
  BY <1>3, <1>4 DEF KeptInv

\* A changed copy has what the list had, and the file is empty from here on.
LEMMA KeptChange ==
  ASSUME TypeOK, KeptInv, NEW o \in Procs, NEW d \in SUBSET Lines, Change(o, d),
         kept' \ risk' \subseteq kept \ risk, kept' \subseteq NamesOf(d) \cup risk'
  PROVE  KeptInv'
<1>1. /\ pc' = [pc EXCEPT ![o] = "open"] /\ copy' = [copy EXCEPT ![o] = d] /\ lines' = {}
      /\ pc \in [Procs -> Stages] /\ copy \in [Procs -> SUBSET Lines]
  BY DEF Change, TypeOK
<1>2. ListKept'
  BY <1>1 DEF ListKept, Opened
<1>3. ASSUME NEW p \in Procs PROVE CopyKept(p)'
  <2>1. CASE p = o
    BY <1>1, <2>1 DEF CopyKept, Has
  <2>2. CASE p # o
    BY <1>1, <2>2, CopyAlone
  <2> QED
    BY <2>1, <2>2
<1> QED
  BY <1>2, <1>3 DEF KeptInv

LEMMA KeptNote == ASSUME TypeOK, TagInv, KeptInv, NEW o \in Procs,
                         NoteDone(o) \/ NoteRm(o) \/ \E k \in Items : NoteAdd(o, k)
                  PROVE  KeptInv'
<1>1. /\ copy[o] \in SUBSET Lines
      /\ pc[o] \in {"loaded", "blind"}
      /\ kept \subseteq NamesOf(copy[o]) \cup risk \/ (pc[o] = "blind" /\ copy[o] = {})
  BY DEF NoteDone, NoteRm, NoteAdd, Change, TypeOK, KeptInv, CopyKept, Has, Loaders
<1>2. ASSUME NEW k \in Items, NoteAdd(o, k) PROVE KeptInv'
  <2>1. /\ kept' = kept /\ risk \subseteq risk' /\ Change(o, AddTo(copy[o], k))
        /\ pc[o] = "blind" => kept \subseteq risk'
    BY <1>2 DEF NoteAdd
  <2>2. /\ AddTo(copy[o], k) \in SUBSET Lines
        /\ NamesOf(copy[o]) \subseteq NamesOf(AddTo(copy[o], k))
    BY <1>1, <1>2, AddType DEF NoteAdd, NamesOf, AddTo
  <2> QED
    BY <1>1, <2>1, <2>2, KeptChange
<1>3. CASE NoteDone(o)
  <2>1. copy[o] # {}
    BY <1>3 DEF NoteDone, IdsOf, TasksOf
  <2> QED
    BY <1>1, <1>3, <2>1, KeptChange DEF NoteDone
<1>4. CASE NoteRm(o)
  <2> DEFINE d == RemoveFrom(copy[o], saw[o].id)
  <2>1. /\ d \in SUBSET copy[o] /\ d # copy[o] /\ Change(o, d)
        /\ kept' = kept \ {saw[o].key} /\ risk' = risk \ {saw[o].key}
        /\ saw[o] \in Handles /\ saw[o] \in Seen
    BY <1>4 DEF NoteRm, RemoveFrom, TypeOK, Seen
  <2>2. kept \subseteq NamesOf(copy[o]) \cup risk
    BY <1>1, <2>1
  \* Whatever else goes with the id is another item, and at risk.
  <2>3. ASSUME NEW n \in kept', n \notin risk' PROVE n \in NamesOf(d)
    <3>1. n \in kept /\ n \notin risk /\ n # saw[o].key
      BY <2>1, <2>3
    <3>2. PICK l \in copy[o] : n = IF IsTask(l) THEN l.key ELSE l.raw
      BY <2>2, <3>1 DEF NamesOf
    <3>3. ASSUME IsTask(l), l.id = saw[o].id PROVE FALSE
      <4>1. l \in Everywhere
        BY <2>1, <3>3, NamesAssumption DEF Everywhere, TasksOf, Handles
      <4>2. l.key \in risk \cup Gone
        BY <2>1, <3>1, <3>2, <3>3, <4>1 DEF TagInv, Confusion
      <4> QED
        BY <3>1, <3>2, <3>3, <4>2 DEF Gone
    <3>4. l \in d
      BY <3>3 DEF RemoveFrom
    <3> QED
      BY <3>2, <3>4 DEF NamesOf
  <2>4. kept' \subseteq NamesOf(d) \cup risk'
    BY <2>3
  <2>5. d \in SUBSET Lines /\ kept' \ risk' \subseteq kept \ risk
    BY <1>1, <2>1
  <2> HIDE DEF d
  <2> QED
    BY <2>1, <2>4, <2>5, KeptChange
<1> QED
  BY <1>2, <1>3, <1>4

LEMMA KeptSave == ASSUME TypeOK, KeptInv, NEW o \in Procs, Save(o) PROVE KeptInv'
<1> DEFINE new == NamesOf(copy[o]) \ written
<1>1. /\ pc[o] = "open" /\ pc' = [pc EXCEPT ![o] = "idle"] /\ copy' = [copy EXCEPT ![o] = {}]
      /\ copy[o] \subseteq lines'
      /\ kept' = kept \cup new /\ risk' = IF Busy(o) THEN risk \cup new ELSE risk
      /\ pc \in [Procs -> Stages] /\ copy \in [Procs -> SUBSET Lines]
  BY DEF Save, Goto, Idle, TypeOK
<1>2. Has(copy[o])
  BY <1>1 DEF KeptInv, CopyKept, Loaders
<1>3. NamesOf(copy[o]) \subseteq NamesOf(lines')
  BY <1>1 DEF NamesOf
<1>4. ListKept'
  BY <1>1, <1>2, <1>3 DEF ListKept, Has
<1>5. ASSUME NEW p \in Procs PROVE CopyKept(p)'
  <2>1. CASE p = o
    BY <1>1, <2>1 DEF CopyKept, Loaders
  <2>2. CASE p # o
    <3>1. pc[p] \in Loaders => Busy(o)
      BY <2>2 DEF Loaders, Busy
    <3> QED
      BY <1>1, <2>2, <3>1, CopyAlone
  <2> QED
    BY <2>1, <2>2
<1> QED
  BY <1>4, <1>5 DEF KeptInv

LEMMA KeptHand == ASSUME TypeOK, KeptInv,
                         \/ \E k \in Items : HandAdd(k)
                         \/ \E t \in TasksOf(lines) : HandDrop(t)
                  PROVE  KeptInv'
<1>1. ASSUME NEW k \in Items, HandAdd(k) PROVE KeptInv'
  <2>1. /\ ~Opened /\ lines' = lines \cup {[key |-> k, id |-> NoId]}
        /\ kept' = kept \cup {k} /\ risk' = IF Busy(None) THEN risk \cup {k} ELSE risk
        /\ UNCHANGED <<pc, copy>>
    BY <1>1 DEF HandAdd, locals
  <2>2. NamesOf(lines) \cup {k} \subseteq NamesOf(lines')
    <3>1. /\ IsTask([key |-> k, id |-> NoId]) /\ [key |-> k, id |-> NoId] \in lines'
          /\ [key |-> k, id |-> NoId].key = k
      BY <2>1 DEF IsTask
    <3>2. k \in NamesOf(lines')
      BY <3>1 DEF NamesOf
    <3> QED
      BY <2>1, <3>2 DEF NamesOf
  <2>3. ListKept'
    BY <2>1, <2>2 DEF KeptInv, ListKept, Has
  <2>4. ASSUME NEW p \in Procs PROVE CopyKept(p)'
    <3>1. pc[p] \in Loaders => Busy(None)
      BY NamesAssumption DEF Loaders, Busy
    <3> QED
      BY <2>1, <3>1, CopyAlone
  <2> QED
    BY <2>3, <2>4 DEF KeptInv
<1>2. ASSUME NEW t \in TasksOf(lines), HandDrop(t) PROVE KeptInv'
  <2>1. /\ ~Opened /\ lines' = lines \ {t}
        /\ kept' = kept \ {t.key} /\ risk' = risk \ {t.key}
        /\ UNCHANGED <<pc, copy>>
    BY <1>2 DEF HandDrop, locals
  <2>2. NamesOf(lines) \subseteq NamesOf(lines') \cup {t.key}
    BY <2>1 DEF NamesOf, TasksOf
  <2>3. ListKept'
    BY <2>1, <2>2 DEF KeptInv, ListKept, Has
  <2>4. ASSUME NEW p \in Procs PROVE CopyKept(p)'
    BY <2>1, CopyAlone
  <2> QED
    BY <2>3, <2>4 DEF KeptInv
<1> QED
  BY <1>1, <1>2

LEMMA KeptNext == TypeOK /\ TagInv /\ KeptInv /\ [Next]_vars => KeptInv'
<1> SUFFICES ASSUME TypeOK, TagInv, KeptInv, [Next]_vars PROVE KeptInv'
  OBVIOUS
<1>0. pc \in [Procs -> Stages] /\ copy \in [Procs -> SUBSET Lines]
  BY DEF TypeOK
<1> USE DEF Loaders
<1>1. ASSUME NEW o \in Procs, List(o) \/ Ask(o) \/ OpenDisc(o) \/ OpenUnlocked(o) \/ WriteDisc(o)
      PROVE  KeptInv'
  <2>1. UNCHANGED <<lines, kept, risk, copy>>
    BY <1>1 DEF List, Ask, OpenDisc, OpenUnlocked, Truncate, WriteDisc, files, ghosts, locals
  <2>2. /\ pc[o] # "open" /\ pc'[o] \notin Loaders
        /\ \A p \in Procs \ {o} : pc'[p] = pc[p]
    BY <1>0, <1>1 DEF List, Ask, OpenDisc, OpenUnlocked, Truncate, WriteDisc, Goto
  <2> QED
    BY <2>1, <2>2, KeptQuiet
<1>2. ASSUME NEW o \in Procs,
             \/ NoteShow(o) \/ NoteBail(o) \/ ClarifyBail(o) \/ ClarifyFail(o) \/ Commit(o)
             \/ Crash(o) /\ pc[o] # "open"
      PROVE  KeptInv'
  <2>1. UNCHANGED <<lines, kept, risk>> /\ Idle(o)
    BY <1>2 DEF NoteShow, NoteBail, ClarifyBail, ClarifyFail, Commit, Crash, files, ghosts
  <2>2. pc[o] # "open" /\ pc' = [pc EXCEPT ![o] = "idle"]
    BY <1>2 DEF NoteShow, NoteBail, ClarifyBail, ClarifyFail, Commit, Crash, Goto
  <2> QED
    BY <1>0, <2>1, <2>2, KeptQuiet DEF Idle
<1>3. ASSUME NEW o \in Procs, Crash(o), pc[o] = "open" PROVE KeptInv'
  <2>1. kept' = kept /\ risk' = risk \cup kept
    BY <1>3 DEF Crash
  <2> QED
    BY <2>1 DEF KeptInv, ListKept, CopyKept, Has
<1>4. CASE Recode \/ UNCHANGED vars
  BY <1>4, KeptQuiet DEF Recode, locals, ghosts, vars
<1> QED
  BY <1>1, <1>2, <1>3, <1>4, KeptLoad, KeptNote, KeptSave, KeptHand DEF Next

(* Whatever the editor and any number of commands do with the list: what   *)
(* nobody has removed is in it or at risk.                                 *)
THEOREM NothingIsDropped == Spec => []NothingDropped
<1>1. KeptInv => NothingDropped
  BY DEF KeptInv, ListKept, Has, NothingDropped
<1> QED
  BY <1>1, KeptInit, KeptNext, TypeCorrect, TagInit, TagNext, PTL DEF Spec
=============================================================================
