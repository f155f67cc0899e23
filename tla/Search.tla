------------------------------- MODULE Search -------------------------------
(***************************************************************************)
(* The full-text index of one directory (omniproj-index) over the          *)
(* transcripts that capture attributes to it (omniproj-capture).  Claude   *)
(* Code and Codex append to transcripts and remove old ones.  A search     *)
(* captures, compares the signature, rebuilds the index if it differs and  *)
(* queries it; any number of processes do so at once, and every SQL        *)
(* statement is a transaction of its own.                                  *)
(*                                                                         *)
(* A line of a transcript is a header (no cwd, no text), quiet (a cwd, but *)
(* no text: tool traffic) or text (a message).  The cwd of a transcript is *)
(* a constant of it.  A message is <<file, line>>.                         *)
(***************************************************************************)
EXTENDS Integers, Sequences, FiniteSets, FiniteSetsExt

CONSTANTS
  Searchers,
  Files,      \* transcripts
  CwdOf,      \* CwdOf[f]: the directory session f runs in
  DirOf,      \* DirOf[f]: the directory the agent keeps a Claude transcript in
  Codex,      \* the transcripts that are Codex rollouts
  Here,       \* the directory that is searched
  None,
  Peek,       \* first_cwd looks at so many lines
  MaxWrites,  \* bound: lines that are ever written
  MaxFaults   \* bound: deaths, failing statements, expired transcripts

ASSUME BoundAssumption == Peek \in Nat /\ MaxWrites \in Nat /\ MaxFaults \in Nat
ASSUME NamesAssumption == Codex \subseteq Files /\ IsFiniteSet(Files)

Kinds    == {"header", "quiet", "text"}
Messages == Files \X (1 .. MaxWrites)

VARIABLES
  lines,      \* lines[f]: the content of transcript f
  mtime,      \* mtime[f]: when it was written last; 0 if it does not exist
  clock,
  rows,       \* rows[m]: how many rows of the index hold message m
  stamp,      \* the signature in idx_meta, or None
  pc,
  cap,        \* cap[o]: the messages of the sessions o captured
  sess,       \* sess[o]: those sessions
  sig,        \* sig[o]: the signature of its capture
  todo,       \* todo[o]: messages o has yet to insert
  alone,      \* history: no other process wrote the index since o emptied it
  behind,     \* history: those that captured before the index was stamped last
  overlapped, \* history: the rows and the stamp may be of different rebuilds
  late,       \* history: messages written behind the back of a capture
  expired,    \* history: transcripts that were removed
  faults

indexVars   == <<rows, stamp>>
worldVars   == <<lines, mtime, clock, expired>>
captureVars == <<cap, sess, sig>>
vars == <<lines, mtime, clock, rows, stamp, pc, cap, sess, sig, todo,
          alone, behind, overlapped, late, expired, faults>>

Signatures == Nat \X Nat
Stages     == {"idle", "read", "captured", "stale", "fill", "query"}

TypeOK == /\ lines \in [Files -> Seq(Kinds)]
          /\ mtime \in [Files -> Nat] /\ clock \in Nat
          /\ rows \in [Messages -> Nat]
          /\ stamp \in Signatures \cup {None}
          /\ pc \in [Searchers -> Stages]
          /\ cap \in [Searchers -> SUBSET Messages]
          /\ sess \in [Searchers -> SUBSET Files]
          /\ sig \in [Searchers -> Signatures]
          /\ todo \in [Searchers -> SUBSET Messages]
          /\ alone \in [Searchers -> BOOLEAN] /\ behind \in SUBSET Searchers
          /\ overlapped \in BOOLEAN
          /\ late \in SUBSET Messages /\ expired \in SUBSET Files
          /\ faults \in 0 .. MaxFaults

Init == /\ lines = [f \in Files |-> <<>>] /\ mtime = [f \in Files |-> 0] /\ clock = 0
        /\ rows = [m \in Messages |-> 0] /\ stamp = None
        /\ pc = [o \in Searchers |-> "idle"]
        /\ cap = [o \in Searchers |-> {}] /\ sess = [o \in Searchers |-> {}]
        /\ sig = [o \in Searchers |-> <<0, 0>>]
        /\ todo = [o \in Searchers |-> {}]
        /\ alone = [o \in Searchers |-> FALSE] /\ behind = {} /\ overlapped = FALSE
        /\ late = {} /\ expired = {} /\ faults = 0

-----------------------------------------------------------------------------
(* Which transcripts belong to Here                                        *)

\* first_cwd: one of the first lines of a Claude transcript names its cwd.
HasCwd(f) == \E n \in 1 .. Len(lines[f]) : n <= Peek /\ lines[f][n] # "header"

\* meta_cwd: the first line of a rollout does.
HasMeta(f) == lines[f] # <<>> /\ lines[f][1] = "quiet"

\* parse_file: the messages of a transcript.
TextOf(f) == {<<f, n>> : n \in {k \in 1 .. Len(lines[f]) : lines[f][k] = "text"}}

Shares(f, g) == {f, g} \cap Codex = {} /\ DirOf[f] = DirOf[g]

\* A directory of Claude transcripts belongs to the cwd of the first one that
\* has any; in which order they are read is up to the file system.
MayBeHere(f)  == \E g \in Files : Shares(f, g) /\ HasCwd(g) /\ CwdOf[g] = Here
MustBeHere(f) == MayBeHere(f) /\ \A g \in Files : Shares(f, g) /\ HasCwd(g) => CwdOf[g] = Here

\* Mutant: the directory of a transcript is not looked at.
CapturesByName == {{f \in Files : TextOf(f) # {}}}

\* sessions_for_cwd of both sources: the sets of sessions a capture may give.
Captures ==
  LET rollouts == {f \in Codex : HasMeta(f) /\ CwdOf[f] = Here}
      together(S) == \A f \in S, g \in Files \ Codex : Shares(f, g) => g \in S
  IN  {{f \in S \cup rollouts : TextOf(f) # {}} :
         S \in {T \in SUBSET {f \in Files \ Codex : MayBeHere(f)} :
                  /\ together(T)
                  /\ \A f \in Files \ Codex : MustBeHere(f) => f \in T}}

Signature(S) == <<Cardinality(S), IF S = {} THEN 0 ELSE Max({mtime[f] : f \in S})>>

Rebuilding(o) == pc[o] = "fill"
Intruding(o)  == \E c \in Searchers \ {o} : Rebuilding(c)

-----------------------------------------------------------------------------
(* The agents                                                              *)

Write(f, k) ==
  /\ f \notin expired /\ clock < MaxWrites
  /\ (f \in Codex /\ lines[f] = <<>>) => k = "quiet"
  /\ lines' = [lines EXCEPT ![f] = Append(@, k)]
  /\ clock' = clock + 1
  /\ mtime' = [mtime EXCEPT ![f] = clock']
  /\ late' = IF k = "text" /\ \E o \in Searchers : pc[o] = "read"
             THEN late \cup {<<f, Len(lines'[f])>>} ELSE late
  /\ UNCHANGED <<indexVars, pc, captureVars, todo, alone, behind, overlapped, expired, faults>>

\* The agent removes an old transcript.
Expire(f) ==
  /\ faults < MaxFaults /\ faults' = faults + 1
  /\ lines[f] # <<>> /\ expired' = expired \cup {f}
  /\ lines' = [lines EXCEPT ![f] = <<>>]
  /\ mtime' = [mtime EXCEPT ![f] = 0]
  /\ UNCHANGED <<clock, indexVars, pc, captureVars, todo, alone, behind, overlapped, late>>

-----------------------------------------------------------------------------
(* search_project: capture, ensure_index, search                           *)

Goto(o, from, to) == pc[o] = from /\ pc' = [pc EXCEPT ![o] = to]

\* capture: the content of the transcripts ...
ReadContent(o) ==
  /\ Goto(o, "idle", "read")
  /\ \E S \in Captures : /\ sess' = [sess EXCEPT ![o] = S]
                         /\ cap' = [cap EXCEPT ![o] = UNION {TextOf(f) : f \in S}]
  /\ behind' = behind \ {o}
  /\ UNCHANGED <<worldVars, indexVars, sig, todo, alone, overlapped, late, faults>>

\* ... and then their times; 0 when a file has gone.
ReadTimes(o) ==
  /\ Goto(o, "read", "captured")
  /\ sig' = [sig EXCEPT ![o] = Signature(sess[o])]
  /\ UNCHANGED <<worldVars, indexVars, cap, sess, todo, alone, behind, overlapped, late, faults>>

Check(o) ==
  /\ pc[o] = "captured"
  /\ pc' = [pc EXCEPT ![o] = IF stamp = sig[o] THEN "query" ELSE "stale"]
  /\ UNCHANGED <<worldVars, indexVars, captureVars, todo, alone, behind, overlapped, late, faults>>

\* Mutant: the rows are left in place.
EmptyNothing(o) ==
  /\ Goto(o, "stale", "fill")
  /\ rows' = rows
  /\ todo' = [todo EXCEPT ![o] = cap[o]]
  /\ alone' = [c \in Searchers |-> c = o]
  /\ overlapped' = (overlapped \/ Intruding(o) \/ o \in behind)
  /\ UNCHANGED <<worldVars, stamp, captureVars, behind, late, faults>>

\* DELETE FROM msg
Empty(o) ==
  /\ Goto(o, "stale", "fill")
  /\ rows' = [m \in Messages |-> 0]
  /\ todo' = [todo EXCEPT ![o] = cap[o]]
  /\ alone' = [c \in Searchers |-> c = o]
  /\ overlapped' = (overlapped \/ Intruding(o) \/ o \in behind)
  /\ UNCHANGED <<worldVars, stamp, captureVars, behind, late, faults>>

\* INSERT INTO msg, one message
Fill(o) ==
  /\ pc[o] = "fill"
  /\ \E m \in todo[o] : /\ rows' = [rows EXCEPT ![m] = @ + 1]
                        /\ todo' = [todo EXCEPT ![o] = @ \ {m}]
  /\ alone' = [c \in Searchers |-> c = o /\ alone[o]]
  /\ overlapped' = (overlapped \/ Intruding(o) \/ o \in behind)
  /\ UNCHANGED <<worldVars, stamp, pc, captureVars, behind, late, faults>>

\* Mutant: the signature is taken when the index is stamped.
StampNow(o) ==
  /\ Goto(o, "fill", "query")
  /\ todo[o] = {}
  /\ stamp' = Signature(sess[o])
  /\ behind' = {c \in Searchers \ {o} : pc[c] # "idle"}
  /\ overlapped' = (Intruding(o) \/ ~alone[o])
  /\ UNCHANGED <<worldVars, rows, captureVars, todo, alone, late, faults>>

\* INSERT INTO idx_meta ... ON CONFLICT DO UPDATE
Stamp(o) ==
  /\ Goto(o, "fill", "query")
  /\ todo[o] = {}
  /\ stamp' = sig[o]
  /\ behind' = {c \in Searchers \ {o} : pc[c] # "idle"}
  /\ overlapped' = (Intruding(o) \/ ~alone[o])
  /\ UNCHANGED <<worldVars, rows, captureVars, todo, alone, late, faults>>

Forget(o) == /\ cap' = [cap EXCEPT ![o] = {}] /\ sess' = [sess EXCEPT ![o] = {}]
             /\ sig' = [sig EXCEPT ![o] = <<0, 0>>]
             /\ todo' = [todo EXCEPT ![o] = {}] /\ alone' = [alone EXCEPT ![o] = FALSE]

\* SELECT ... MATCH
Query(o) == /\ Goto(o, "query", "idle")
            /\ Forget(o)
            /\ UNCHANGED <<worldVars, indexVars, behind, overlapped, late, faults>>

\* A statement fails (the index is busy for too long, the disk is full), or
\* the process dies: what was done stays done.
Fail(o) == /\ faults < MaxFaults /\ faults' = faults + 1
           /\ pc[o] # "idle" /\ pc' = [pc EXCEPT ![o] = "idle"]
           /\ Forget(o)
           /\ UNCHANGED <<worldVars, indexVars, behind, overlapped, late>>

\* "can be deleted freely"
DeleteIndex == /\ \A o \in Searchers : pc[o] \in {"idle", "read"}
               /\ stamp # None
               /\ rows' = [m \in Messages |-> 0] /\ stamp' = None
               /\ overlapped' = FALSE /\ behind' = {}
               /\ UNCHANGED <<worldVars, pc, captureVars, todo, alone, late, faults>>

World == \/ \E f \in Files : Expire(f) \/ \E k \in Kinds : Write(f, k)
         \/ DeleteIndex
Step(o) == \/ ReadContent(o) \/ ReadTimes(o) \/ Check(o) \/ Empty(o) \/ Fill(o)
           \/ Stamp(o) \/ Query(o)

Next == World \/ \E o \in Searchers : Step(o) \/ Fail(o)
Spec == Init /\ [][Next]_vars

-----------------------------------------------------------------------------
(* Properties.                                                             *)

Count(S) == [m \in Messages |-> IF m \in S THEN 1 ELSE 0]

(* A search that rebuilt the index (ensure_index returned true) queries     *)
(* exactly the messages it captured, each in one row, whatever earlier      *)
(* searches left behind half-way, unless another process has written to the *)
(* index since.                                                             *)
FoundIsCaptured == \A o \in Searchers : pc[o] = "query" /\ alone[o] => rows = Count(cap[o])

(* "Disposable contract": an index whose stamp is the signature of what a   *)
(* capture would find now, so that nobody will rebuild it, holds every      *)
(* message there is once and nothing else, in spite of rebuilds that were   *)
(* cut short; except messages written while a capture was between the       *)
(* content and the time of a transcript, and unless two rebuilds have       *)
(* overlapped, a transcript has been removed (the signature may then come   *)
(* back to that of a rebuild cut short), or a directory is shared.          *)
UpToDateIsWhole ==
  \/ stamp = None \/ overlapped \/ expired # {}
  \/ Cardinality(Captures) # 1
  \/ \A S \in Captures : stamp = Signature(S) =>
        \A m \in Messages : \/ m \in late
                            \/ rows[m] = Count(UNION {TextOf(f) : f \in S})[m]

(* The index of Here holds only sessions that ran in Here, or whose         *)
(* transcript lies in a directory with one that did (sessions_for_cwd).     *)
OwnOnly == \A f \in Files, n \in 1 .. MaxWrites :
              rows[<<f, n>>] > 0 =>
                 CwdOf[f] = Here \/ \E g \in Files : Shares(f, g) /\ CwdOf[g] = Here
=============================================================================
