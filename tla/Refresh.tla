-------------------------------- MODULE Refresh --------------------------------
(***************************************************************************)
(* One project's way from its substrate to its state files: the capture,   *)
(* which reads git and the session transcripts one after the other while   *)
(* they go on changing, the staleness gate, and the transaction that       *)
(* writes the state and then the cursor in meta.toml.  The daemon's worker *)
(* and the command line refresh at the same time; `add` and `remove` also  *)
(* touch meta.toml, without the store lock.                                *)
(*                                                                         *)
(* A turn of a conversation is the time at which it was written; a file's  *)
(* mtime is the time of its last turn.  head counts the commits and the    *)
(* changes of the porcelain status; 0 means that there is no repository.   *)
(* A git command that fails is taken for one that had nothing to say.      *)
(***************************************************************************)
EXTENDS Integers, FiniteSets

CONSTANTS
  Transcripts,  \* session files of the project
  Codex,        \* those of Codex; the others are Claude Code's
  Refreshers,   \* processes that refresh the project, again and again
  Forced,       \* those that ask no cursor (`omniproj briefing`)
  Failing,      \* bound: those whose git commands and whose lock may fail
  Adders,       \* processes that run `omniproj add`
  None, Missing, Torn, Nothing, NoCursor,
  MaxTurns,     \* bound: turns of all conversations
  MaxCommits    \* bound: commits and changes of the status

ASSUME BoundAssumption == MaxTurns \in Nat /\ MaxCommits \in Nat
ASSUME ProcsAssumption == /\ Codex \subseteq Transcripts /\ Forced \subseteq Refreshers
                          /\ Failing \subseteq Refreshers
                          /\ Refreshers \cap Adders = {} /\ None \notin Refreshers
                          /\ None \notin Transcripts

Times        == 0 .. MaxTurns
Heads        == 0 .. MaxCommits
NoAnswer     == -1                \* git failed: what it was asked for is empty
Answers      == Heads \cup {NoAnswer}
Fingerprints == [head : Answers, mtime : Times]
Captures     == [head : Answers, mtime : Times, log : Answers, turns : SUBSET (1 .. MaxTurns)]
States       == [log : Answers, turns : SUBSET (1 .. MaxTurns)]
Cursors      == Fingerprints \cup {NoCursor}   \* what a registered project's meta.toml can say

ASSUME MetaAssumption == /\ Missing \notin Cursors /\ Torn \notin Cursors /\ Missing # Torn
                         /\ NoCursor \notin Fingerprints /\ Nothing \notin States

Procs == Refreshers \cup Adders

VARIABLES
  \* the substrate
  clock,    \* the time of the last turn
  turns,    \* turns[t]: the turns transcript t holds; none: there is no file
  mtime,    \* mtime[t]
  head,
  \* the store
  meta,     \* meta.toml: a cursor, Missing, or Torn (truncated, not yet written)
  state,    \* the capture auto/ was distilled from, or Nothing
  lock,
  \* the processes
  pc,
  cap,      \* cap[o]: what refresher o has captured
  unread,   \* unread[o]: transcripts it has yet to read
  file,     \* file[o]: the one it has read and not yet asked for its mtime
  loaded,   \* loaded[o]: meta.toml as o read it
  \* history
  late,     \* turns added to a file after a capture had read it, before the capture ended
  crossed   \* a crash, a remove or another writer of meta.toml came in between
            \* the write of the state and the write of the cursor, or a
            \* transaction ran without the lock

substrate == <<clock, turns, mtime, head>>
store     == <<meta, state, lock>>
capture   == <<cap, unread, file>>
vars      == <<clock, turns, mtime, head, meta, state, lock, pc, cap, unread, file,
               loaded, late, crossed>>

Stages == {"idle", "log", "scan", "stat", "llm",
           "locked", "written", "loaded", "torn", "void"}

TypeOK == /\ clock \in Times
          /\ turns \in [Transcripts -> SUBSET (1 .. MaxTurns)]
          /\ mtime \in [Transcripts -> Times]
          /\ head \in Heads
          /\ meta \in Cursors \cup {Missing, Torn}
          /\ state \in States \cup {Nothing}
          /\ lock \in Refreshers \cup {None}
          /\ pc \in [Procs -> Stages]
          /\ cap \in [Refreshers -> Captures]
          /\ unread \in [Refreshers -> SUBSET Transcripts]
          /\ file \in [Refreshers -> Transcripts \cup {None}]
          /\ loaded \in [Procs -> Cursors \cup {Missing}]
          /\ late \in SUBSET (1 .. MaxTurns)
          /\ crossed \in BOOLEAN

NoCapture == [head |-> 0, mtime |-> 0, log |-> 0, turns |-> {}]

Init == /\ clock = 0
        /\ turns = [t \in Transcripts |-> {}] /\ mtime = [t \in Transcripts |-> 0]
        /\ head \in Heads
        /\ meta \in {Missing, NoCursor} /\ state = Nothing /\ lock = None
        /\ pc = [o \in Procs |-> "idle"]
        /\ cap = [o \in Refreshers |-> NoCapture]
        /\ unread = [o \in Refreshers |-> {}]
        /\ file = [o \in Refreshers |-> None]
        /\ loaded = [o \in Procs |-> Missing]
        /\ late = {} /\ crossed = FALSE

Goto(o, from, to) == /\ pc[o] = from
                     /\ pc' = [pc EXCEPT ![o] = to]

Unlock(o) == lock' = IF lock = o THEN None ELSE lock

\* o is done, or dead: nothing of what it knew matters any more.
Forget(o) == /\ IF o \in Refreshers
                THEN /\ cap' = [cap EXCEPT ![o] = NoCapture]
                     /\ unread' = [unread EXCEPT ![o] = {}]
                     /\ file' = [file EXCEPT ![o] = None]
                ELSE UNCHANGED capture
             /\ loaded' = [loaded EXCEPT ![o] = Missing]

-----------------------------------------------------------------------------
(* The developer and the agents.                                           *)

\* A turn is appended.  It is late for a capture that has passed the file.
Turn(t) == /\ clock < MaxTurns
           /\ clock' = clock + 1
           /\ turns' = [turns EXCEPT ![t] = @ \cup {clock'}]
           /\ mtime' = [mtime EXCEPT ![t] = clock']
           /\ late' = IF \E o \in Refreshers : pc[o] \in {"scan", "stat"} /\ t \notin unread[o]
                      THEN late \cup {clock'} ELSE late
           /\ UNCHANGED <<head, store, pc, capture, loaded, crossed>>

GitChange == /\ head < MaxCommits
             /\ head' = head + 1
             /\ UNCHANGED <<clock, turns, mtime, store, pc, capture, loaded, late, crossed>>

-----------------------------------------------------------------------------
(* capture                                                                 *)

\* collect: HEAD and the status, empty if git fails ...
ReadHead(o) == /\ o \in Refreshers
               /\ Goto(o, "idle", "log")
               /\ \E h \in {head} \cup (IF head # 0 /\ o \in Failing THEN {NoAnswer} ELSE {}) :
                    cap' = [cap EXCEPT ![o].head = h]
               /\ UNCHANGED <<substrate, store, unread, file, loaded, late, crossed>>

\* ... then the log, also empty if git fails; a repository that appeared
\* meanwhile was not one.
ReadLog(o) == /\ Goto(o, "log", "scan")
              /\ \E l \in IF cap[o].head = 0 THEN {0}
                          ELSE {head} \cup (IF o \in Failing THEN {NoAnswer} ELSE {}) :
                   cap' = [cap EXCEPT ![o].log = l]
              /\ unread' = [unread EXCEPT ![o] = Transcripts]
              /\ UNCHANGED <<substrate, store, file, loaded, late, crossed>>

\* parse_file: the content of the next transcript, Claude's before Codex's.
\* Without a turn it is no session.
ReadTurns(o, t) ==
  /\ t \in unread[o]
  /\ t \in Codex => unread[o] \subseteq Codex
  /\ unread' = [unread EXCEPT ![o] = @ \ {t}]
  /\ IF turns[t] = {}
     THEN Goto(o, "scan", "scan") /\ UNCHANGED <<cap, file>>
     ELSE /\ Goto(o, "scan", "stat")
          /\ cap' = [cap EXCEPT ![o].turns = @ \cup turns[t]]
          /\ file' = [file EXCEPT ![o] = t]
  /\ UNCHANGED <<substrate, store, loaded, late, crossed>>

\* The end of parse_file: the mtime; latest_session_mtime is the largest.
ReadMtime(o) ==
  /\ Goto(o, "stat", "scan")
  /\ cap' = [cap EXCEPT ![o].mtime =
               IF mtime[file[o]] > @ THEN mtime[file[o]] ELSE @]
  /\ file' = [file EXCEPT ![o] = None]
  /\ UNCHANGED <<substrate, store, unread, loaded, late, crossed>>

-----------------------------------------------------------------------------
(* refresh_project, after the capture                                      *)

Fingerprint(c) == [head |-> c.head, mtime |-> c.mtime]

IsStale(p, m) == \/ m = NoCursor
                 \/ p.head # m.head
                 \/ p.mtime > m.mtime

Wanted(o) == /\ cap[o].turns # {} \/ cap[o].head # 0
             /\ \/ o \in Forced
                \/ meta \in Cursors /\ IsStale(Fingerprint(cap[o]), meta)

Gate(o) == /\ unread[o] = {}
           /\ IF Wanted(o)
              THEN Goto(o, "scan", "llm") /\ UNCHANGED <<capture, loaded>>
              ELSE Goto(o, "scan", "idle") /\ Forget(o)
           /\ UNCHANGED <<substrate, store, late, crossed>>

\* The model has answered; store_txn.
BeginTxn(o) == /\ lock = None
               /\ Goto(o, "llm", "locked")
               /\ lock' = o
               /\ UNCHANGED <<substrate, meta, state, capture, loaded, late, crossed>>

\* The lock cannot be taken: store_txn runs its closure all the same.
BeginUnlocked(o) == /\ o \in Failing
                    /\ Goto(o, "llm", "locked")
                    /\ crossed' = TRUE
                    /\ UNCHANGED <<substrate, store, capture, loaded, late>>

\* write_outputs
WriteState(o) ==
  /\ Goto(o, "locked", "written")
  /\ state' = [log |-> cap[o].log, turns |-> cap[o].turns]
  /\ UNCHANGED <<substrate, meta, lock, capture, loaded, late, crossed>>

\* set_last_distilled: load_meta; nothing to do if there is none, or half of one.
LoadCursor(o) ==
  /\ IF meta \in Cursors
     THEN /\ Goto(o, "written", "loaded")
          /\ loaded' = [loaded EXCEPT ![o] = meta]
          /\ UNCHANGED <<lock, capture, crossed>>
     ELSE /\ Goto(o, "written", "idle")
          /\ Unlock(o) /\ Forget(o)
          /\ crossed' = (crossed \/ meta = Torn)
  /\ UNCHANGED <<substrate, meta, state, late>>

\* Mutant of LoadOrCreate: takes half a file for what it says.
LoadTorn(o) == /\ o \in Adders
               /\ Goto(o, "idle", "loaded")
               /\ loaded' = [loaded EXCEPT ![o] = meta]
               /\ UNCHANGED <<substrate, store, capture, late, crossed>>

\* register: load_meta; half a file is as good as none.
LoadOrCreate(o) ==
  /\ o \in Adders
  /\ Goto(o, "idle", "loaded")
  /\ loaded' = [loaded EXCEPT ![o] = IF meta = Torn THEN Missing ELSE meta]
  /\ crossed' = (crossed \/ meta = Torn)
  /\ UNCHANGED <<substrate, store, capture, late>>

\* write_meta: fs::write truncates the file ...
OpenMeta(o) == /\ Goto(o, "loaded", "torn")
               /\ meta' = Torn
               /\ crossed' = (crossed \/ meta # loaded[o])
               /\ UNCHANGED <<substrate, state, lock, capture, loaded, late>>

\* Mutant of NewMeta: the substrate is asked again when the cursor is written.
NewMetaNow(o) ==
  IF o \in Adders
  THEN IF loaded[o] = Missing THEN NoCursor ELSE loaded[o]
  ELSE [Fingerprint(cap[o]) EXCEPT !.head = head]

\* What o writes: the captured fingerprint, or the bookkeeping it has read.
NewMeta(o) == IF o \in Adders
              THEN IF loaded[o] = Missing THEN NoCursor ELSE loaded[o]
              ELSE Fingerprint(cap[o])

\* ... and fills it.  Over another's text, the longer one's tail may stay behind.
WriteMeta(o) ==
  /\ Goto(o, "torn", "idle")
  /\ meta' \in {NewMeta(o)} \cup (IF meta = Torn THEN {} ELSE {Torn})
  /\ crossed' = (crossed \/ meta # Torn)
  /\ Unlock(o) /\ Forget(o)
  /\ UNCHANGED <<substrate, state, late>>

\* The file it has opened was removed; nobody will see what it writes.
WriteVoid(o) == /\ Goto(o, "void", "idle")
                /\ Unlock(o) /\ Forget(o)
                /\ UNCHANGED <<substrate, meta, state, late, crossed>>

\* The process dies, or the model does not answer.
Stop(o) == /\ pc[o] # "idle"
           /\ pc' = [pc EXCEPT ![o] = "idle"]
           /\ crossed' = (crossed \/ pc[o] \in {"written", "loaded", "torn"})
           /\ Unlock(o) /\ Forget(o)
           /\ UNCHANGED <<substrate, meta, state, late>>

\* `omniproj remove`: meta.toml and auto/ go.
Remove == /\ meta \in Cursors
          /\ meta' = Missing
          /\ state' = Nothing
          /\ pc' = [o \in Procs |-> IF pc[o] = "torn" THEN "void" ELSE pc[o]]
          /\ crossed' = (crossed \/ \E o \in Procs : pc[o] \in {"written", "loaded", "torn"})
          /\ UNCHANGED <<substrate, lock, capture, loaded, late>>

-----------------------------------------------------------------------------
World   == GitChange \/ \E t \in Transcripts : Turn(t)
Read(o) == \/ ReadHead(o) \/ ReadLog(o) \/ ReadMtime(o)
           \/ \E t \in Transcripts : ReadTurns(o, t)
Write(o) == \/ BeginTxn(o) \/ BeginUnlocked(o) \/ WriteState(o) \/ LoadCursor(o)
            \/ OpenMeta(o) \/ WriteMeta(o) \/ WriteVoid(o)

Next == \/ World
        \/ Remove
        \/ \E o \in Refreshers : Read(o) \/ Gate(o)
        \/ \E o \in Adders : LoadOrCreate(o)
        \/ \E o \in Procs : Write(o) \/ Stop(o)

Spec == Init /\ [][Next]_vars

-----------------------------------------------------------------------------
(* Properties.                                                             *)

Now == [head |-> head,
        mtime |-> LET last == {mtime[t] : t \in Transcripts}
                  IN CHOOSE m \in last : \A n \in last : n <= m]

UpToDate == meta \in Cursors /\ ~IsStale(Now, meta)

(* What the gate would skip is distilled: while a capture of the substrate  *)
(* as it is would be called up to date, the state files know its commits    *)
(* and every turn, except those that were added to a transcript behind the  *)
(* back of a capture, and unless git failed when it was asked for the log.   *)
(* (Until a crash, a remove or another writer of meta.toml has crossed a    *)
(* transaction, or one has run without the lock.)                           *)
NothingSkipped ==
  UpToDate /\ lock = None /\ ~crossed =>
    /\ state # Nothing
    /\ state.log >= head \/ state.log = NoAnswer
    /\ UNION {turns[t] : t \in Transcripts} \subseteq state.turns \cup late
=============================================================================
