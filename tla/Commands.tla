------------------------------- MODULE Commands -------------------------------
(***************************************************************************)
(* The commands that ask a model and write what they made of its answer:   *)
(* distill (daemon, briefing, refresh), opinion, correct and curate.  They *)
(* run at the same time; each reads first, waits for the model without a   *)
(* lock, makes sure of the store (Home) and writes under the store lock.   *)
(*                                                                         *)
(* A completion is a sequence of section markers and of citations, which   *)
(* are commit hashes, paths, or paths that contain what looks like a hash. *)
(***************************************************************************)
EXTENDS Home, Sequences, FiniteSets, FiniteSetsExt, Functions

CONSTANTS
  Does,         \* the commands each process may run
  Hashes, Paths, Mixed,
  Commits,      \* what a commit may add to them
  Completions,  \* what the model may answer
  Rewrites,     \* the texts it may make of a file it curates
  Corrections,  \* what the user may correct
  None,
  MaxCommands   \* bound: commands in all

Markers   == {"BRIEFING", "DECISIONS", "OPEN"}
Citations == Hashes \cup Paths \cup Mixed
Sections  == {"briefing", "decisions", "open"}
Files     == Sections \cup {"opinion"}
Texts     == [cites : SUBSET Citations, marked : SUBSET Citations]

ASSUME CitationAssumption == /\ Hashes \cap (Paths \cup Mixed) = {} /\ Paths \cap Mixed = {}
                             /\ Citations \cap Markers = {}
ASSUME CompletionAssumption == Completions \subseteq Seq(Markers \cup Citations)
ASSUME TextAssumption == Rewrites \subseteq Texts /\ Commits \subseteq SUBSET Citations
ASSUME ProcsAssumption == None \notin Procs /\ MaxCommands \in Nat

VARIABLES
  repo,     \* the commits and files of the repository
  auto,     \* auto[f]: what the file says
  report,   \* cache/verify-report.json: the citations it lists; None: there is none
  learned,  \* learned.md: the corrections it holds
  lock,
  pc, kind,
  facts,    \* facts[p]: the repository as p has captured it
  had,      \* had[p]: learned.md as p has read it
  out,      \* out[p]: the texts p will write, a function of the files it will write
  next,     \* next[p]: learned.md as p will write it, or None
  commands,
  \* history
  basis,    \* basis[f]: the facts that what f says was checked against; None: it was not
  reporter, \* who wrote the report last
  wrote,    \* what the report of the last distill that wrote briefing.md listed
  crossed,  \* another distill, a crash or a parked briefing came in between
  recorded, \* corrections that were written to learned.md, but for those that a
            \* model was shown and left out
  exposed   \* those another command did not know of when it read, or that a crash met

store   == <<auto, report, learned, lock>>
job     == <<kind, facts, had, out, next>>
history == <<basis, reporter, wrote, crossed, recorded, exposed>>
vars    == <<homeVars, repo, store, pc, job, commands, history>>

-----------------------------------------------------------------------------
(* From a completion to the files.                                         *)

\* section: what follows the first start marker, up to the first end marker
\* after it, if there is one.
Section(raw, start, end) ==
    LET starts == {i \in DOMAIN raw : raw[i] = start}
        stops  == {i \in DOMAIN raw : raw[i] = end /\ i > Min(starts)}
        last   == IF stops = {} THEN Len(raw) ELSE Min(stops) - 1
    IN IF starts = {} THEN {} ELSE {raw[i] : i \in Min(starts) + 1 .. last}

\* parse_output: a completion without the first marker is all briefing.
ParseOutput(raw) ==
    IF "BRIEFING" \in Range(raw)
    THEN [briefing  |-> Section(raw, "BRIEFING", "DECISIONS"),
          decisions |-> Section(raw, "DECISIONS", "OPEN"),
          open      |-> Section(raw, "OPEN", None)]
    ELSE [briefing |-> Range(raw), decisions |-> {}, open |-> {}]

\* The FactSheet: what the commits, and what the list of files vouch for.  The
\* hash in a Mixed path is none of a commit.
KnowsHash(t, known)  == t \in Hashes \cap known
KnowsPath(t, known)  == t \in (Paths \cup Mixed) \cap known
HasWhitelist(known)  == known \cap (Paths \cup Mixed) # {}

\* verify_hashes, then verify_paths: the mark of the first pass splits a path
\* that contains a hash, and the second no longer sees it; without a list of
\* files there is no second pass.
UnknownHashes(cites, known) == {t \in cites \cap (Hashes \cup Mixed) : ~KnowsHash(t, known)}
UnknownPaths(cites, known)  == {t \in cites \cap Paths : HasWhitelist(known) /\ ~KnowsPath(t, known)}
Unverified(cites, known)    == UnknownHashes(cites, known) \cup UnknownPaths(cites, known)
\* A bug: the marks are those of the whole completion, its markers included.
VerifyTextWhole(text, known) ==
    [cites |-> text, marked |-> Unverified(text \cap Citations, known)]
VerifyText(text, known) == LET cites == text \cap Citations
                           IN [cites |-> cites, marked |-> Unverified(cites, known)]
\* A bug: only what the user reads first is checked.
VerifyBriefing(sections, known) ==
    [f \in DOMAIN sections |-> IF f = "briefing" THEN VerifyText(sections[f], known)
                               ELSE [cites |-> sections[f] \cap Citations, marked |-> {}]]
VerifyOutput(sections, known) == [f \in DOMAIN sections |-> VerifyText(sections[f], known)]

\* write_outputs: an empty decisions or open leaves the file as it is.
Written(sections) == {f \in DOMAIN sections : f = "briefing" \/ sections[f] # {}}

-----------------------------------------------------------------------------
(* The commands.                                                           *)

NoText == [cites |-> {}, marked |-> {}]
NoOut  == [f \in {} |-> NoText]

CGoto(p, from, to) == pc[p] = from /\ pc' = [pc EXCEPT ![p] = to]

\* p has nothing to write any more.
Forget(p) == /\ facts' = [facts EXCEPT ![p] = {}] /\ had' = [had EXCEPT ![p] = {}]
             /\ out' = [out EXCEPT ![p] = NoOut] /\ next' = [next EXCEPT ![p] = None]
             /\ UNCHANGED kind
Unlock(p) == lock' = IF lock = p THEN None ELSE lock

\* What a command reads before it asks.
Begin(p, k) == /\ commands < MaxCommands /\ commands' = commands + 1
               /\ k \in Does[p] /\ CGoto(p, "idle", "ask")
               /\ kind' = [kind EXCEPT ![p] = k]
               /\ UNCHANGED <<homeVars, repo, store, next, history>>

BeginDistill(p) == /\ Begin(p, "distill")
                   /\ facts' = [facts EXCEPT ![p] = repo]
                   /\ UNCHANGED <<had, out>>

\* From the command line or the dashboard; there must be something to oppose.
BeginOpinion(p) == /\ Begin(p, "opinion")
                   /\ auto["briefing"] # NoText
                   /\ facts' = [facts EXCEPT ![p] = repo]
                   /\ UNCHANGED <<had, out>>

BeginCorrect(p) == /\ Begin(p, "correct")
                   /\ had' = [had EXCEPT ![p] = learned]
                   /\ UNCHANGED <<facts, out>>

BeginCurate(p) == LET files == {f \in {"decisions", "open"} : auto[f] # NoText}
                  IN /\ Begin(p, "curate")
                     /\ files # {} \/ learned # {}
                     /\ had' = [had EXCEPT ![p] = learned]
                     /\ out' = [out EXCEPT ![p] = Restrict(auto, files)]
                     /\ UNCHANGED facts

\* No provider, no answer, or not in time: nothing has been written.
Fail(p) == /\ CGoto(p, "ask", "idle")
           /\ Forget(p)
           /\ UNCHANGED <<homeVars, repo, store, commands, history>>

Answered(p) == /\ CGoto(p, "ask", "home")
               /\ EnterHome(p)
               /\ UNCHANGED <<repo, store, kind, facts, had, commands, history>>

AnswerDistill(p, raw) ==
    /\ kind[p] = "distill" /\ Answered(p)
    /\ LET sections == ParseOutput(raw)
           checked  == VerifyOutput(sections, facts[p])
       IN out' = [out EXCEPT ![p] = Restrict(checked, Written(sections))]
    /\ UNCHANGED next

AnswerOpinion(p, raw) ==
    /\ kind[p] = "opinion" /\ Answered(p)
    /\ out' = [out EXCEPT ![p] = [f \in {"opinion"} |-> VerifyText(Range(raw), facts[p])]]
    /\ UNCHANGED next

\* The model is asked to merge, to let the new one override and to add nothing
\* that does not generalise: what it keeps of all it is shown, c included, is
\* its own choice, and is not checked.
AnswerCorrect(p, c) == /\ kind[p] = "correct" /\ Answered(p)
                       /\ \E kept \in SUBSET (had[p] \cup {c}) :
                            next' = [next EXCEPT ![p] = kept]
                       /\ UNCHANGED out

\* Nor is this answer; learned.md is consolidated only when it is too long.
AnswerCurate(p, text, overCap) ==
    /\ kind[p] = "curate" /\ Answered(p)
    /\ DOMAIN out[p] # {} \/ (overCap /\ had[p] # {})
    /\ out' = [out EXCEPT ![p] = [f \in DOMAIN @ |-> text]]
    /\ IF overCap /\ had[p] # {}
       THEN \E kept \in SUBSET had[p] : next' = [next EXCEPT ![p] = kept]
       ELSE UNCHANGED next

AtHome(p) == /\ pc[p] = "home" /\ EnsureHome(p)
             /\ UNCHANGED <<repo, store, pc, job, commands, history>>

HomeReady(p) == /\ hpc[p] = "ready" /\ LeaveHome(p)
                /\ CGoto(p, "home", IF kind[p] = "distill" THEN "report" ELSE "lock")
                /\ UNCHANGED <<repo, store, job, commands, history>>

HomeRefused(p) == /\ hpc[p] = "refused" /\ LeaveHome(p)
                  /\ CGoto(p, "home", "idle") /\ Forget(p)
                  /\ UNCHANGED <<repo, store, commands, history>>

Flagged(p) == UNION {out[p][f].marked : f \in DOMAIN out[p]}

\* A bug: a clean report is not worth a write.
WriteReportIfDirty(p) ==
    /\ CGoto(p, "report", "lock")
    /\ report' = IF Flagged(p) = {} THEN report ELSE Flagged(p)
    /\ reporter' = p
    /\ UNCHANGED <<homeVars, repo, auto, learned, lock, job, commands, basis, wrote,
                   crossed, recorded, exposed>>

\* Best effort, and outside the transaction.
WriteReport(p) == /\ CGoto(p, "report", "lock")
                  /\ \/ report' = Flagged(p) /\ reporter' = p
                     \/ UNCHANGED <<report, reporter>>
                  /\ UNCHANGED <<homeVars, repo, auto, learned, lock, job, commands, basis,
                                 wrote, crossed, recorded, exposed>>

Lock(p) == /\ CGoto(p, "lock", "write")
           /\ lock = None /\ lock' = p
           /\ UNCHANGED <<homeVars, repo, auto, report, learned, job, commands, history>>

\* store_txn is best effort: if store.lock cannot be opened or locked, the
\* command writes without it.
LockFails(p) == /\ CGoto(p, "lock", "write")
                /\ UNCHANGED <<homeVars, repo, store, job, commands, history>>

\* The files; of a distill, those in `diverted` are parked in .incoming
\* (Store says which).  Then learned.md is truncated, if it is due.
WriteFiles(p, diverted) ==
    LET files == DOMAIN out[p] \ diverted
    IN /\ pc[p] = "write"
       /\ diverted # {} => kind[p] = "distill"
       /\ auto' = [f \in Files |-> IF f \in files THEN out[p][f] ELSE auto[f]]
       /\ basis' = [f \in Files |-> IF f \notin files THEN basis[f]
                                    ELSE IF kind[p] = "curate" THEN None ELSE facts[p]]
       /\ crossed' = IF kind[p] = "distill"
                     THEN reporter # p \/ "briefing" \in diverted ELSE crossed
       /\ wrote' = IF kind[p] = "distill" /\ "briefing" \notin diverted
                   THEN Flagged(p) ELSE wrote
       /\ reporter' = IF reporter = p THEN None ELSE reporter
       /\ IF next[p] = None
          THEN CGoto(p, "write", "idle") /\ Forget(p) /\ Unlock(p) /\ UNCHANGED learned
          ELSE /\ CGoto(p, "write", "torn") /\ learned' = {}
               /\ UNCHANGED <<lock, job>>
       /\ UNCHANGED <<homeVars, repo, report, commands, recorded, exposed>>

\* Those that have read learned.md and will, or may, write it.
Rewriting(p) == {q \in Procs \ {p} : pc[q] # "idle" /\ kind[q] \in {"correct", "curate"}}

\* What p wrote counts as recorded, and what it was shown and left out no more.
Recorded(p) ==
    /\ recorded' = (recorded \ had[p]) \cup next[p]
    /\ exposed' = (exposed \ next[p]) \cup UNION {next[p] \ had[q] : q \in Rewriting(p)}

\* A bug: correct writes only what it was told.
WriteLearnedNew(p) ==
    /\ CGoto(p, "torn", "idle")
    /\ learned' = IF kind[p] = "correct" THEN next[p] \ had[p] ELSE next[p]
    /\ Recorded(p)
    /\ Forget(p) /\ Unlock(p)
    /\ UNCHANGED <<homeVars, repo, auto, report, commands, basis, reporter, wrote,
                   crossed>>

\* A command without the lock may have written since p truncated the file: the
\* rest of what it wrote, if that was longer, stays behind what p writes.
WriteLearned(p) == /\ CGoto(p, "torn", "idle")
                   /\ \E rest \in SUBSET learned : learned' = next[p] \cup rest
                   /\ Recorded(p)
                   /\ Forget(p) /\ Unlock(p)
                   /\ UNCHANGED <<homeVars, repo, auto, report, commands, basis, reporter,
                                  wrote, crossed>>

\* p is killed, or a write fails.
Crash(p) == /\ pc[p] # "idle" /\ pc' = [pc EXCEPT ![p] = "idle"]
            /\ HomeCrash(p) /\ Forget(p) /\ Unlock(p)
            /\ crossed' = (crossed \/ reporter = p)
            /\ reporter' = IF reporter = p THEN None ELSE reporter
            /\ exposed' = IF pc[p] = "torn" THEN exposed \cup recorded ELSE exposed
            /\ UNCHANGED <<repo, auto, report, learned, commands, basis, wrote, recorded>>

\* The developer commits: t is what it adds to the log and to the list of files.
Commit(t) == /\ repo' = repo \cup t
             /\ UNCHANGED <<homeVars, store, pc, job, commands, history>>

-----------------------------------------------------------------------------
Init == /\ HomeInit
        /\ repo = {}
        /\ auto = [f \in Files |-> NoText] /\ report = None /\ learned = {} /\ lock = None
        /\ pc = [p \in Procs |-> "idle"] /\ kind = [p \in Procs |-> "distill"]
        /\ facts = [p \in Procs |-> {}] /\ had = [p \in Procs |-> {}]
        /\ out = [p \in Procs |-> NoOut] /\ next = [p \in Procs |-> None]
        /\ commands = 0
        /\ basis = [f \in Files |-> {}] /\ reporter = None /\ wrote = None /\ crossed = FALSE
        /\ recorded = {} /\ exposed = {}

Ask(p) == \/ Fail(p)
          \/ \E raw \in Completions : AnswerDistill(p, raw) \/ AnswerOpinion(p, raw)
          \/ \E c \in Corrections : AnswerCorrect(p, c)
          \/ \E text \in Rewrites, b \in BOOLEAN : AnswerCurate(p, text, b)
Step(p) == \/ Ask(p) \/ AtHome(p) \/ HomeReady(p) \/ HomeRefused(p)
           \/ WriteReport(p) \/ Lock(p) \/ LockFails(p) \/ WriteLearned(p)
           \/ \E diverted \in SUBSET DOMAIN out[p] : WriteFiles(p, diverted)

Next == \/ \E p \in Procs : \/ Step(p) \/ Crash(p)
                            \/ BeginDistill(p) \/ BeginOpinion(p)
                            \/ BeginCorrect(p) \/ BeginCurate(p)
        \/ \E t \in Commits : Commit(t)

Spec == Init /\ [][Next]_vars

-----------------------------------------------------------------------------
TypeOK == /\ HomeTypeOK
          /\ repo \subseteq Citations
          /\ auto \in [Files -> Texts]
          /\ report \in (SUBSET Citations) \cup {None}
          /\ learned \subseteq Corrections
          /\ lock \in Procs \cup {None}
          /\ pc \in [Procs -> {"idle", "ask", "home", "report", "lock", "write", "torn"}]
          /\ kind \in [Procs -> {"distill", "opinion", "correct", "curate"}]
          /\ facts \in [Procs -> SUBSET Citations] /\ had \in [Procs -> SUBSET Corrections]
          /\ DOMAIN out = Procs
          /\ \A p \in Procs : /\ DOMAIN out[p] \subseteq Files
                              /\ \A f \in DOMAIN out[p] : out[p][f] \in Texts
          /\ next \in [Procs -> (SUBSET Corrections) \cup {None}]
          /\ commands \in 0 .. MaxCommands
          /\ basis \in [Files -> (SUBSET Citations) \cup {None}]
          /\ reporter \in Procs \cup {None} /\ crossed \in BOOLEAN
          /\ wrote \in (SUBSET Citations) \cup {None}
          /\ recorded \subseteq Corrections /\ exposed \subseteq Corrections

\* What the dashboard shows as the trust of a project is that of the briefing
\* beside it: the report on disk is that of the distill that wrote briefing.md,
\* but while a distill is between its report and its transaction, and after one
\* that another crossed, that died there, that could not write its report or
\* whose briefing was parked (refresh.rs; trust_summary of omniproj-api).
TrustIsOwn == reporter = None /\ ~crossed => report = wrote

\* README.md: unverified citations are flagged, never silently passed.  A
\* citation of a file that no mark follows was in the repository when its
\* distill captured it, or is a path and there was no list of files to check;
\* but for what curate wrote, which passes no gate.
NothingUnmarked ==
    \A f \in Files : basis[f] # None =>
      \A t \in auto[f].cites \ auto[f].marked :
        \/ t \in basis[f]
        \/ t \in Paths /\ ~HasWhitelist(basis[f])

\* A correction stays in learned.md until a model that was shown it leaves it
\* out: otherwise it can only be lost to a command that had read the file before
\* it was written, or to a crash in a write of the file, lock or no lock
\* (cmd_correct, cmd_curate).
LearnedKept == recorded \ exposed \subseteq learned \/ \E p \in Procs : pc[p] = "torn"

=============================================================================
