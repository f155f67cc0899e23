--------------------------------- MODULE Notes ---------------------------------
(***************************************************************************)
(* One project's next-action list, notes/next.md, and the discussions      *)
(* auto/clarify/<id>.md of its items.  `omniproj note` loads the list,     *)
(* changes its copy and writes the file again, without the store lock and  *)
(* in place; the user edits the same file by hand.  `omniproj clarify`     *)
(* reads an item and its discussion, waits for a model, and then writes    *)
(* the longer discussion in a store transaction.                           *)
(*                                                                         *)
(* An item is a model value; the text of an item is only the sequence of   *)
(* ids its hashes give.  The order of lines, the check box, the `?` mark   *)
(* and the indentation (which render drops) are left out; a document is a  *)
(* set of lines.                                                           *)
(***************************************************************************)
EXTENDS Integers, Sequences, FiniteSets

CONSTANTS
  Items,      \* everything that may ever be written down, each once
  Ids,        \* the ids a hash can give
  HashIds,    \* HashIds[k][n]: the id of item k's text with salt n - 1
  Raws,       \* headings and prose
  Procs,      \* terminals in which `note` and `clarify` run, again and again
  NoId, NoItem, None,
  Rounds,     \* bound: everything a model may ever answer
  MaxFaults   \* bound: deaths of a command, failed commits, locks that cannot be
              \* taken, saves in another encoding

Tasks   == [key : Items, id : Ids \cup {NoId}]
Handles == [key : Items, id : Ids]
Lines   == Tasks \cup [raw : Raws]

ASSUME HashAssumption == HashIds \in [Items -> Seq(Ids)]
ASSUME NamesAssumption == /\ NoId \notin Ids /\ NoItem \notin Handles
                          /\ Items \cap Raws = {} /\ None \notin Procs
ASSUME BoundAssumption == MaxFaults \in Nat

VARIABLES
  \* the files
  lines,      \* next.md
  readable,   \* it is UTF-8 and may be read
  disc,       \* disc[i]: the rounds in the discussion of id i
  history,    \* rounds that are in some commit
  lock,       \* the store lock
  \* the processes
  pc,
  saw,        \* saw[o]: the task o's user read in the list and means, or NoItem
  copy,       \* copy[o]: the document as o loaded and changed it
  prior,      \* prior[o]: the discussion as o read it, then with o's round
  about,      \* about[r]: the task that round r was asked about, or NoItem
  \* history
  written,    \* items that were ever in the file
  kept,       \* those of them that nobody has meant to remove
  risk,       \* items whose write, or whose id, met another command half way
  mixed,      \* two commands wrote the list through each other
  given,      \* ids that were given to an item
  reused,     \* ids that were given again
  crossed,    \* ids whose discussion two commands extended at once, or a crash cut
  unlocked,   \* commands whose transaction runs without the lock
  mingled,    \* ids whose discussion was in such a transaction and in another
  recorded,   \* rounds that were written to a discussion
  unsaved,    \* rounds whose commit failed
  faults

files   == <<lines, readable, disc, history, lock>>
ghosts  == <<written, kept, risk, mixed, given, reused, crossed, unlocked, mingled, recorded, unsaved>>
locals  == <<saw, copy, prior>>
vars    == <<lines, readable, disc, history, lock, pc, saw, copy, prior, about,
             written, kept, risk, mixed, given, reused, crossed, unlocked, mingled,
             recorded, unsaved, faults>>

IsTask(l)  == "key" \in DOMAIN l
TasksOf(d) == {l \in d : IsTask(l)}
IdsOf(d)   == {l.id : l \in TasksOf(d)} \ {NoId}
Names      == Items \cup Raws
NamesOf(d) == {IF IsTask(l) THEN l.key ELSE l.raw : l \in d}

Stages == {"idle", "listed", "loaded", "blind", "open", "asked", "torn", "written"}

TypeOK == /\ lines \in SUBSET Lines
          /\ readable \in BOOLEAN
          /\ disc \in [Ids -> SUBSET Rounds]
          /\ history \in SUBSET Rounds
          /\ lock \in Procs \cup {None}
          /\ pc \in [Procs -> Stages]
          /\ saw \in [Procs -> Handles \cup {NoItem}]
          /\ copy \in [Procs -> SUBSET Lines]
          /\ prior \in [Procs -> SUBSET Rounds]
          /\ about \in [Rounds -> Handles \cup {NoItem}]
          /\ written \in SUBSET Names /\ kept \in SUBSET Names /\ risk \in SUBSET Names
          /\ mixed \in BOOLEAN
          /\ given \in SUBSET Ids /\ reused \in SUBSET Ids /\ crossed \in SUBSET Ids
          /\ unlocked \in SUBSET Procs /\ mingled \in SUBSET Ids
          /\ recorded \in SUBSET Rounds /\ unsaved \in SUBSET Rounds
          /\ faults \in 0 .. MaxFaults

Init == /\ lines = {[raw |-> r] : r \in Raws}
        /\ readable = TRUE
        /\ disc = [i \in Ids |-> {}] /\ history = {} /\ lock = None
        /\ pc = [o \in Procs |-> "idle"]
        /\ saw = [o \in Procs |-> NoItem]
        /\ copy = [o \in Procs |-> {}]
        /\ prior = [o \in Procs |-> {}]
        /\ about = [r \in Rounds |-> NoItem]
        /\ written = NamesOf(lines) /\ kept = written /\ risk = {} /\ mixed = FALSE
        /\ given = {} /\ reused = {} /\ crossed = {} /\ unlocked = {} /\ mingled = {}
        /\ recorded = {} /\ unsaved = {}
        /\ faults = 0

Goto(o, from, to) == /\ pc[o] = from
                     /\ pc' = [pc EXCEPT ![o] = to]

Idle(o) == /\ saw' = [saw EXCEPT ![o] = NoItem]
           /\ copy' = [copy EXCEPT ![o] = {}]
           /\ prior' = [prior EXCEPT ![o] = {}]

\* A command other than o has loaded the list and may still write it.
Busy(o) == \E n \in Procs \ {o} : pc[n] \in {"loaded", "blind", "open"}
Opened  == \E n \in Procs : pc[n] = "open"

-----------------------------------------------------------------------------
(* The list, as notes.rs has it                                            *)

\* load: whatever cannot be read, for whatever reason, is an empty document.
Loaded == IF readable THEN lines ELSE {}

\* Mutant: the salt is left out.
FirstId(k, d) == HashIds[k][1]

\* fresh_id: the first id of the text's hashes that the document does not use.
First(k, d, n) == /\ HashIds[k][n] \notin IdsOf(d)
                  /\ \A m \in 1 .. n - 1 : HashIds[k][m] \in IdsOf(d)
FreshId(k, d)  == HashIds[k][CHOOSE n \in DOMAIN HashIds[k] : First(k, d, n)]

\* add; when all hashes are in use fresh_id searches on.
Addable(k, d) == \E n \in DOMAIN HashIds[k] : First(k, d, n)
AddTo(d, k)   == d \cup {[key |-> k, id |-> FreshId(k, d)]}

\* Mutant: only lines that carry an id survive.
RemoveUnstamped(d, i) == {l \in d : IsTask(l) /\ l.id \notin {i, NoId}}

\* remove: every line with this id.
RemoveFrom(d, i) == {l \in d : IsTask(l) => l.id # i}

\* Mutant: the items without an id are offered too.
ListedAll(d) == TasksOf(d)

\* print_note_list: the items a command can name; the others show "----".
Listed(d) == {t \in TasksOf(d) : t.id # NoId}

-----------------------------------------------------------------------------
(* omniproj note                                                           *)

\* The user reads the list, and remembers one item of it.
List(o) == /\ Goto(o, "idle", "listed")
           /\ saw' \in {[saw EXCEPT ![o] = s] : s \in Listed(Loaded)}
           /\ UNCHANGED <<files, copy, prior, about, ghosts, faults>>

\* cmd_note loads the list ...
Load(o) == /\ pc[o] \in {"idle", "listed"}
           /\ pc' = [pc EXCEPT ![o] = IF ~readable \/ Opened THEN "blind" ELSE "loaded"]
           /\ copy' = [copy EXCEPT ![o] = Loaded]
           /\ UNCHANGED <<files, saw, prior, about, ghosts, faults>>

\* ... changes its copy, and opens the file, which is empty from here on ...
Change(o, d) == /\ pc[o] \in {"loaded", "blind"} /\ pc' = [pc EXCEPT ![o] = "open"]
                /\ copy' = [copy EXCEPT ![o] = d]
                /\ lines' = {} /\ readable' = TRUE
                /\ UNCHANGED <<disc, history, lock, saw, prior, about, written, mixed,
                               crossed, unlocked, mingled, recorded, unsaved, faults>>

\* The items that have id i, in the file or in some command's copy.
Holders(i) == {t.key : t \in {u \in TasksOf(lines \cup UNION {copy[p] : p \in Procs}) : u.id = i}}

NoteAdd(o, k) ==
  /\ saw[o] = NoItem
  /\ k \notin written \cup UNION {NamesOf(copy[p]) : p \in Procs}
  /\ Addable(k, copy[o])
  /\ LET i == FreshId(k, copy[o])
     IN  /\ given' = given \cup {i}
         /\ reused' = IF i \in given THEN reused \cup {i} ELSE reused
         /\ risk' = risk \cup (IF i \in given THEN {k} \cup Holders(i) ELSE {})
                         \cup (IF pc[o] = "blind" THEN kept ELSE {})
  /\ kept' = kept
  /\ Change(o, AddTo(copy[o], k))

\* set_done ticks one line with the id; nothing else changes.
NoteDone(o) ==
  /\ saw[o] # NoItem /\ saw[o].id \in IdsOf(copy[o])
  /\ Change(o, copy[o])
  /\ UNCHANGED <<kept, risk, given, reused>>

NoteRm(o) ==
  /\ saw[o] # NoItem
  /\ RemoveFrom(copy[o], saw[o].id) # copy[o]
  /\ kept' = kept \ {saw[o].key} /\ risk' = risk \ {saw[o].key}
  /\ UNCHANGED <<given, reused>>
  /\ Change(o, RemoveFrom(copy[o], saw[o].id))

\* The list is printed; nothing is written.
NoteShow(o) == /\ saw[o] = NoItem
               /\ pc[o] \in {"loaded", "blind"} /\ pc' = [pc EXCEPT ![o] = "idle"]
               /\ Idle(o)
               /\ UNCHANGED <<files, about, ghosts, faults>>

\* "no item with id": nothing is written.
NoteBail(o) ==
  /\ saw[o] # NoItem /\ saw[o].id \notin IdsOf(copy[o])
  /\ pc[o] \in {"loaded", "blind"} /\ pc' = [pc EXCEPT ![o] = "idle"]
  /\ Idle(o)
  /\ UNCHANGED <<files, about, ghosts, faults>>

\* ... and writes it, over what somebody else may have written since: of a
\* longer text the end remains.
Save(o) ==
  /\ Goto(o, "open", "idle")
  /\ IF lines = {}
     THEN lines' = copy[o] /\ readable' = TRUE
     ELSE /\ lines' \in {copy[o] \cup rest : rest \in SUBSET lines}
          /\ readable' \in BOOLEAN
  /\ mixed' = (mixed \/ lines # {})
  /\ LET new == NamesOf(copy[o]) \ written
     IN  /\ written' = written \cup new
         /\ kept' = kept \cup new
         /\ risk' = IF Busy(o) THEN risk \cup new ELSE risk
  /\ Idle(o)
  /\ UNCHANGED <<disc, history, lock, about, given, reused, crossed, unlocked,
                 mingled, recorded, unsaved, faults>>

-----------------------------------------------------------------------------
(* The user's editor; it writes what it has just read.                     *)

HandAdd(k) ==
  /\ ~Opened /\ readable
  /\ k \notin written \cup UNION {NamesOf(copy[p]) : p \in Procs}
  /\ lines' = lines \cup {[key |-> k, id |-> NoId]}
  /\ written' = written \cup {k} /\ kept' = kept \cup {k}
  /\ risk' = IF Busy(None) THEN risk \cup {k} ELSE risk
  /\ UNCHANGED <<readable, disc, history, lock, pc, locals, about, mixed, given, reused,
                 crossed, unlocked, mingled, recorded, unsaved, faults>>

HandDrop(t) ==
  /\ ~Opened /\ readable /\ t \in TasksOf(lines)
  /\ lines' = lines \ {t}
  /\ kept' = kept \ {t.key} /\ risk' = risk \ {t.key}
  /\ UNCHANGED <<readable, disc, history, lock, pc, locals, about, written, mixed, given, reused,
                 crossed, unlocked, mingled, recorded, unsaved, faults>>

\* Saved in another encoding, or with other permissions.
Recode == /\ faults < MaxFaults /\ faults' = faults + 1
          /\ ~Opened /\ lines # {} /\ readable' = ~readable
          /\ UNCHANGED <<lines, disc, history, lock, pc, locals, about, ghosts>>

-----------------------------------------------------------------------------
(* omniproj clarify                                                        *)

\* Mutant: the first item of the list, whatever its id.
AskAny(o) ==
  /\ saw[o] # NoItem
  /\ Goto(o, "listed", "asked")
  /\ \E t \in Listed(Loaded), r \in Rounds :
        /\ about[r] = NoItem /\ about' = [about EXCEPT ![r] = [t EXCEPT !.id = saw[o].id]]
        /\ prior' = [prior EXCEPT ![o] = disc[saw[o].id] \cup {r}]
  /\ UNCHANGED <<files, saw, copy, ghosts, faults>>

\* The item's text and the discussion so far; a discussion that is being
\* written at that moment reads as empty.
Ask(o) ==
  /\ saw[o] # NoItem
  /\ Goto(o, "listed", "asked")
  /\ \E t \in TasksOf(Loaded), r \in Rounds :
        /\ t.id = saw[o].id
        /\ about[r] = NoItem /\ about' = [about EXCEPT ![r] = t]
        /\ prior' = [prior EXCEPT ![o] = disc[saw[o].id] \cup {r}]
  /\ UNCHANGED <<files, saw, copy, ghosts, faults>>

ClarifyBail(o) ==
  /\ Goto(o, "listed", "idle")
  /\ saw[o].id \notin IdsOf(Loaded)
  /\ Idle(o)
  /\ UNCHANGED <<files, about, ghosts, faults>>

\* The provider fails: nothing has been written.
ClarifyFail(o) ==
  /\ Goto(o, "asked", "idle")
  /\ about' = [r \in Rounds |-> IF r \in prior[o] \ recorded THEN NoItem ELSE about[r]]
  /\ Idle(o)
  /\ UNCHANGED <<files, ghosts, faults>>

\* Another clarify of the same id is under way.
Crossing(o) == \E c \in Procs \ {o} : /\ pc[c] \in {"asked", "torn"}
                                      /\ saw[c].id = saw[o].id

\* The file is truncated.  An id is mingled if another transaction has its
\* discussion open, and the lock does not keep the two apart.
Truncate(o) ==
  /\ Goto(o, "asked", "torn")
  /\ disc' = [disc EXCEPT ![saw[o].id] = {}]
  /\ mingled' = IF \E c \in Procs \ {o} : /\ pc[c] \in {"torn", "written"}
                                        /\ saw[c].id = saw[o].id
                                        /\ {o, c} \cap unlocked' # {}
               THEN mingled \cup {saw[o].id} ELSE mingled
  /\ UNCHANGED <<lines, readable, history, locals, about, written, kept, risk, mixed,
                 given, reused, crossed, recorded, unsaved>>

\* store_txn: the lock, and then what it guards ...
OpenDisc(o) == /\ lock = None /\ lock' = o
               /\ UNCHANGED <<unlocked, faults>>
               /\ Truncate(o)

\* ... or, when the lock cannot be taken, the same without it.
OpenUnlocked(o) == /\ faults < MaxFaults /\ faults' = faults + 1
                   /\ unlocked' = unlocked \cup {o}
                   /\ lock' = lock
                   /\ Truncate(o)

\* Mutant: the round is written without what was there before.
WriteRound(o) == /\ Goto(o, "torn", "written")
                 /\ disc' = [disc EXCEPT ![saw[o].id] = prior[o] \ recorded]
                 /\ recorded' = recorded \cup prior[o]
                 /\ crossed' = IF Crossing(o) THEN crossed \cup {saw[o].id} ELSE crossed
                 /\ UNCHANGED <<lines, readable, history, lock, locals, about, written,
                                kept, risk, mixed, given, reused, unlocked, mingled,
                                unsaved, faults>>

\* Mutant: the commit comes after the transaction, not in it.
WriteAndUnlock(o) ==
  /\ Goto(o, "torn", "written")
  /\ disc' = [disc EXCEPT ![saw[o].id] = prior[o]]
  /\ lock' = IF lock = o THEN None ELSE lock
  /\ recorded' = recorded \cup prior[o]
  /\ crossed' = IF Crossing(o) THEN crossed \cup {saw[o].id} ELSE crossed
  /\ UNCHANGED <<lines, readable, history, locals, about, written, kept, risk, mixed,
                 given, reused, unlocked, mingled, unsaved, faults>>

\* ... and written.
WriteDisc(o) == /\ Goto(o, "torn", "written")
                /\ disc' = [disc EXCEPT ![saw[o].id] = prior[o]]
                /\ recorded' = recorded \cup prior[o]
                /\ crossed' = IF Crossing(o) THEN crossed \cup {saw[o].id} ELSE crossed
                /\ UNCHANGED <<lines, readable, history, lock, locals, about, written,
                               kept, risk, mixed, given, reused, unlocked, mingled,
                               unsaved, faults>>

EndTxn(o) == /\ lock' = IF lock = o THEN None ELSE lock
             /\ unlocked' = unlocked \ {o}

\* commit_all takes in every discussion; when git fails, as it may while another
\* commits, nobody is told.
Commit(o) == /\ Goto(o, "written", "idle")
             /\ EndTxn(o)
             /\ \/ /\ history' = history \cup UNION {disc[i] : i \in Ids}
                   /\ UNCHANGED <<unsaved, faults>>
                \/ /\ IF \E c \in Procs \ {o} : pc[c] = "written"
                      THEN faults' = faults
                      ELSE faults < MaxFaults /\ faults' = faults + 1
                   /\ history' = history
                   /\ unsaved' = unsaved \cup (prior[o] \ history)
             /\ Idle(o)
             /\ UNCHANGED <<lines, readable, disc, about, written, kept, risk, mixed, given,
                            reused, crossed, mingled, recorded>>

-----------------------------------------------------------------------------

\* A command dies; the kernel drops its lock.
Crash(o) ==
  /\ pc[o] \in {"open", "torn", "written"}
  /\ faults < MaxFaults /\ faults' = faults + 1
  /\ pc' = [pc EXCEPT ![o] = "idle"]
  /\ EndTxn(o)
  /\ risk' = IF pc[o] = "open" THEN risk \cup kept ELSE risk
  /\ crossed' = IF pc[o] = "torn" THEN crossed \cup {saw[o].id} ELSE crossed
  /\ unsaved' = IF pc[o] = "open" THEN unsaved ELSE unsaved \cup (prior[o] \ history)
  /\ Idle(o)
  /\ UNCHANGED <<lines, readable, disc, history, about, written, kept, mixed,
                 given, reused, mingled, recorded>>

Next == \/ \E o \in Procs :
              \/ List(o) \/ Load(o) \/ NoteDone(o) \/ NoteRm(o) \/ NoteShow(o) \/ NoteBail(o)
              \/ Save(o) \/ Crash(o)
              \/ Ask(o) \/ ClarifyBail(o) \/ ClarifyFail(o)
              \/ OpenDisc(o) \/ OpenUnlocked(o) \/ WriteDisc(o) \/ Commit(o)
              \/ \E k \in Items : NoteAdd(o, k)
        \/ \E k \in Items : HandAdd(k)
        \/ \E t \in TasksOf(lines) : HandDrop(t)
        \/ Recode

Spec == Init /\ [][Next]_vars

-----------------------------------------------------------------------------
(* Properties.                                                             *)

UniqueIds(d) == \A s, t \in TasksOf(d) : s.id = t.id /\ s.id # NoId => s = t

(* "assigning it a fresh id unique within this document" (add): no two      *)
(* items of the list, or of any command's copy of it, have the same id, so  *)
(* that `done` marks and `rm` removes the one item that was named; unless   *)
(* two commands have had the file open for writing at the same time.        *)
IdsUnique == mixed \/ (UniqueIds(lines) /\ \A o \in Procs : UniqueIds(copy[o]))

(* An item that was written and that nobody has removed is in the list      *)
(* whenever no command is in the middle of writing it.  The exceptions are  *)
(* the items at risk: those that were written while another command held    *)
(* an older copy, all of them when `note add` loaded the list while it was  *)
(* unreadable or half written or a command died while writing it, and those *)
(* whose id was another item's before.                                      *)
NothingDropped == Opened \/ kept \subseteq NamesOf(lines) \cup risk

(* "hand-editing is never clobbered" (notes.rs): a command that saves the   *)
(* list while nobody else writes it loses nothing of what was in it.        *)
NeverClobbered == [][\A o \in Procs : Save(o) => kept \subseteq NamesOf(lines')]_vars

(* A round that was written stays in the discussion of its id until         *)
(* another command has extended the same discussion at the same time, or    *)
(* died writing it (cmd_clarify: prior is read, then the model is asked,    *)
(* then prior and the new round are written).                               *)
RoundsKept ==
  \A r \in recorded :
     \/ r \in disc[about[r].id]
     \/ about[r].id \in crossed
     \/ \E c \in Procs : pc[c] = "torn" /\ saw[c].id = about[r].id

(* And whatever happens to the discussion afterwards, a round whose command *)
(* has ended is in a commit ("commit it (revertable)", cmd_clarify), unless *)
(* that commit failed or never happened, or unless the discussion was then  *)
(* in two transactions, one of them without the lock.                       *)
RoundsRecoverable ==
  \A r \in recorded : \/ r \in history \cup unsaved
                      \/ about[r].id \in mingled
                      \/ \E c \in Procs : pc[c] = "written" /\ r \in prior[c]

(* The discussion of an item of the list is about that item ("a stable id   *)
(* so a clarification discussion stays attached", notes.rs), unless its id  *)
(* was given again after it had been removed or lost.                       *)
DiscussionIsOwn ==
  \A t \in TasksOf(lines) :
     t.id \in Ids \ reused => \A r \in disc[t.id] : about[r].key = t.key
=============================================================================
