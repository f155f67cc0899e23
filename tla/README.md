# OmniProj in TLA+

OmniProj keeps, for each registered project, a small set of markdown files that an LLM distils
from the project's git history and from the transcripts of coding agents. The state lives in
`~/.omniproj`, a directory versioned by its own git repository. A background daemon watches the
worktrees and the transcripts and distils again when something has changed; the command line
registers projects, starts and queries the daemon, resolves conflicts and edits the state.

The program is sequential code in many processes and tasks that share files, a lock, a channel
and a socket. That is what these modules are about. What the model answers, how it is prompted
and how files are worded is data and is left out.

Paths below are relative to `src/crates/`.

## 1. Inventory

| Component | State | Operations | Talks to |
|---|---|---|---|
| Daemon loop (`omniproj-daemon/src/daemon.rs`, `run`) | copy of the registry, watched worktrees, session deadlines, published status | select over worktree events, transcript events, quiet deadline, 24 h floor, reload, shutdown | watchers (callbacks), worker (channel of 256 jobs), IPC (control channel), registry (files) |
| Worker (`daemon.rs`, `worker`; `refresh.rs`) | `pending` hashes shared with the loop, `in_flight` | receive, clear mark, capture, gate on the cursor, distil, write | capture, provider, store |
| Lifecycle and IPC (`daemon.rs`, `omniproj-ipc`, `cmd_status`) | `daemon.lock`, `daemon.sock` | acquire, bind, serve, ping, status, reload, lazy start, SIGTERM, cleanup | command line, service manager |
| State store (`omniproj-core/src/store.rs`, `omniproj-distill/src/lib.rs`) | working tree, index, HEAD, `store.lock` | `store_txn`, `commit_all`, `worktree_diff`, `write_outputs`, `ensure_home`, schema version | every writer |
| Registry (`omniproj-core/src/project.rs`) | `meta.toml` per project, cursor `last_distilled` | register, remove, set cursor, staleness, longest-prefix owner | daemon, command line |
| Reconcile (`omniproj-cli/src/main.rs`) | `.incoming` files | list, keep mine, take AI's | store |
| Capture (`omniproj-capture`) | none; reads git and transcripts | collect, digest, fingerprint | refresh |
| Distil pipeline (`omniproj-distill`) | none | shallow call, deep map and reduce, parse | provider, store |
| Provider (`provider.rs`, `config.rs`) | none | resolve, call, retry with backoff | network |
| Verify gate (`verify.rs`, `factsheet.rs`) | whitelists of hashes and paths | check, annotate | distil |
| Learn, curate, clarify, opinion | `learned.md`, `decisions.md`, `open.md`, `open.clarify.md`, `opinion.md` | read, ask a model, write back | store |
| Notes (`notes.rs`) | `next.md` | add, done, remove, save | command line, dashboard |
| Search index (`omniproj-index`) | a SQLite file and its signature | rebuild if stale, search | command line, MCP |
| Privacy, user model, paths, evaluation, doctor, service installer, MCP server, dashboard, desktop shell | configuration or none | filters, views, I/O | - |

### What is hard, and what makes each part correct

* **Daemon loop and worker.** Events, timers, commands and jobs interleave; an arm of the select
  waits while the channel is full; the pending mark, the queue and the capture must be ordered so
  that no change is lost; work is taken from a copy of the registry that other processes change; a
  job runs for minutes between reading and writing the cursor. Correct: a mark is a job, no change
  is lost while the daemon runs, cursors never run ahead, a project ends up fresh, the loop comes
  back, the status is true.
* **Lifecycle.** Several starts at once, stale sockets, crashes, a signal at any moment. Correct:
  one daemon, its socket stays its own, a lazy start reaches a daemon, a signal that is heard ends it.
* **Store.** Several processes write files and commit all of them, a user edits the same files
  without a lock, git fails silently, a process dies between write and commit. Correct:
  transactions do not mix, AI text is committed between transactions (that is how hand edits are
  told apart), no edit is lost, a conflict stays until it is resolved, nobody waits for ever.
* **Registry.** `meta.toml` is rewritten in place by processes that read it some time ago.
  Correct: no cursor is lost or invented.
* **Capture.** The substrate moves while it is read. Correct: a cursor covers only what was read.
* **Distil pipeline and provider.** The configuration is read again at each use, the digest drops
  lines, retries multiply. Correct: a notice is about the provider that is then sent to, a job that is
  not in trouble ends within its ceiling.
* **Verify gate.** The model answers minutes after the facts were captured. Correct: no citation is
  both unmarked and unknown, and the trust report is that of the briefing beside it.
* **First commands.** `ensure_home` is several steps without a lock. Correct: nobody is locked out
  without cause, and a newer binary's stamp survives where there is a `.git`.
* **Notes, learn, clarify.** Read, change, write, without a lock or with one that is taken late.
  Correct: no item or round is lost, no correction but by a model's answer, an id names one item.
* **Index.** A rebuild in several statements, by any process. Correct: an index that says it is up to
  date is whole, and holds only what belongs to its directory.
* **MCP server.** One line in, at most one answer out, by one loop. Its searches share the index with
  the other processes, which is what can go wrong.

## 2. Modules

| Module | What it is |
|---|---|
| `Freshness` | Abstract promise: cursors of registered projects name states the substrate was in, and move forward |
| `Daemon` | The loop, the channel, the worker, the status; implements `Freshness` |
| `DaemonProofs` | Theorems about `Daemon` |
| `Store` | Working tree, index, HEAD, store lock; distil, curate, reconcile, add, remove; hand edits |
| `StoreProofs` | Theorems about `Store` |
| `Refresh` | One project's captures, staleness gate, distil transaction and `meta.toml`, with several writers |
| `RefreshProofs` | With one refresher, `Refresh` implements `Freshness`; theorems about `Refresh` |
| `Lifecycle` | Daemon processes, lock, socket, lazy start, signals, crashes |
| `LifecycleProofs` | Theorems about `Lifecycle` |
| `Distill` | One distil from the privacy notice to the last answer: configuration, calls, retries, ceiling; a second opinion's call |
| `DistillProofs` | Theorems about `Distill` |
| `Home` | `ensure_home` by several first commands: the promise that the store opens |
| `Commands` | Distil, opinion, correct and curate as read, ask, enter `Home`, verify, write; extends `Home` |
| `CommandsProofs` | `Commands` implements `Home`; theorems about both |
| `Notes` | `next.md` and the clarify discussions, two terminals and an editor |
| `NotesProofs` | Theorems about `Notes` |
| `Search` | Captured transcripts of one directory and the index over them, several searchers |
| `Mcp` | The MCP server and the dashboard's search as clients of `Search` |
| `SearchProofs` | `Mcp` implements `Search`; theorems about the index |
| `MC...` | Small instances for TLC |

`Daemon` uses a store transaction as one step (`Distill`); `Store` shows what such a transaction is
worth. `Daemon` reads the substrate and writes the cursor at once, with one worker; `Refresh` does both
in the code's steps, with several refreshers. `Daemon` implements `Freshness`, and so does `Refresh` as long as the
project has one refresher. `Daemon` models one daemon that is up or down; `Lifecycle` shows that there is one.

### Daemon

A project stands for its path, its hash and its metadata. Its substrate is a version number: any
commit, edit or session turn increases it. The digest, the git state and the transcript times that
`fingerprint` compares are thus one number. A capture is one read of it.

| Model | Code |
|---|---|
| `registry`, `cursor` | `meta.toml` files and `last_distilled` |
| `fsEvents`, `sessEvents` | batches in the two channels fed by the notify callbacks |
| `reloads` | `Control::ReloadRegistry` messages |
| `handler`, `todo`, `sending` | the running arm, the projects it has yet to visit, the send it waits in |
| `projects`, `watched`, `sessPending` | locals of `run` |
| `pending`, `queue` | the shared set, the channel |
| `wpc`, `job`, `fp` | the worker and what it captured |
| `inFlight`, `published` | `Shared` |
| `owed` | history: changes nothing but a new sweep or event will pick up, each with its reason |
| `spent` | how much of each bound is used |

Time is left out: a debounce, a quiet window or the floor may run out at any moment. Which file
events are noise (`is_git_noise`) is left out too: `Touch` is an event without a change.

### Store

A file's content is its writer: a command, a hand edit, or `Base`. Each project has one AI file,
its `.incoming` and its `meta.toml`. `Dirty` is `git diff HEAD -- f` for an existing file:
git says nothing of a file that is in neither index nor HEAD. `CurateRead` and `CurateWrite` are the two ends
of a read, model call, write; `opinion.rs` has the same shape as the second. `GitFails` is any git
command that returns an error, which `commit_all` ignores: the usual cause is `index.lock`, held by
another commit, which can happen because `add` and `remove` commit outside the lock.

`store_txn` ends its attempt at the lock in `.ok()` and runs its closure all the same (store.rs:214-220). That
is `BeginUnlocked`, here and in `Refresh` and `Notes`, and `LockFails` in `Commands`: a fault by which a
transaction starts while another one may hold the lock. `unlocked` remembers it.

### Refresh

| Model | Code |
|---|---|
| `turns`, `mtime`, `clock` | the transcripts; a turn is the time at which it was written |
| `head` | HEAD together with the porcelain status, as one version; 0 is no repository |
| `ReadHead`, `ReadLog`, `ReadTurns`, `ReadMtime` | `git::collect`, then each transcript's content and then its mtime, Claude's before Codex's |
| `cap` | the `Substrate`, as far as the fingerprint and the distil tell it apart |
| `NoAnswer` | the empty default of a git command that failed (`unwrap_or_default`), for HEAD and for the log |
| `Gate` | the staleness floor of `refresh_project` |
| `BeginTxn`, `WriteState`, `LoadCursor`, `OpenMeta`, `WriteMeta` | the transaction: `write_outputs`, then `set_last_distilled`, whose `fs::write` truncates and then fills `meta.toml` |
| `LoadOrCreate`, `OpenMeta`, `WriteMeta` by an adder | `register`, without the store lock |
| `meta` | `meta.toml`: a cursor, missing, or cut short, which `load_meta` takes for missing |
| `state` | the capture that `auto/` (or its `.incoming`) was distilled from |
| `late`, `crossed` | history: turns added behind a capture's back; a transaction crossed by a crash, a remove or another writer of `meta.toml` |

HEAD and the status are two git calls read as one version that only grows: a checkout back to an
old commit, and a status that returns to an old value, are left out. In the model the two fail together;
a status that fails alone, and looks like a clean tree, is left out. A project's directory is taken to be the top of its
worktree, so that `is_git_repo` sees the `.git` itself and cannot fail. Only the processes in `Failing` meet such failures. A digest holds a window of the
captured sessions; the model says what was captured, not what the window kept. `Remove` deletes
`meta.toml` and `auto/` in one step.

### Lifecycle

Each element of `Daemons` is one process that runs once; any number are started by `Launch` or
`LazyStart`. A SIGTERM before the first select has its default effect; in the select
`shutdown_signal` sees it; in an arm's handler nobody does, because the listener is made anew in
each iteration and tokio has replaced the default action. The first select is taken to have polled
the signal future; tokio's select picks a random order, so a first iteration can miss it, in which
case the process still dies by default, as in the earlier states.

### Distill

One command (`briefing`, `refresh`), one job of the worker, or one second opinion, which sends the same digest
in one call, from the command line or the dashboard. `Load` is a reading of `config.toml` as it
is now; the user may save another file, or a broken one, between any two readings. A provider is a
name whose endpoint is on the machine, off it, or unusable; `is_local_provider` decides that by
looking for `localhost` and its like in the base URL, which the model takes at its word.

| Model | Code |
|---|---|
| `Choice`, `NoticeChoice`, `DepthOf` | `resolve`, what `notify_send_consent` works out for itself, `resolve_depth` |
| `Consent`, `Locality`, `Resolve` | the three readings of the configuration before a command sends; an opinion and the worker begin at the third |
| `history`, `Older`, `Maps` | the number of sessions, those `older_session_texts` gives, those of them that `distill_deep` compresses |
| `Calls` | 1 for shallow; extraction, draft and critic and one per older session for deep |
| `call`, `attempt`, `fails` | the call under way, its try, all failed tries; `TryAgain` is `with_retry` |
| `elapsed`, `Cut` | `tokio::time::timeout` of the worker |

Durations are seconds and are chosen, not counted: a try takes any of `Durations`, a pause is the backoff.

### Home and Commands

`Home` is `ensure_home`: `git init`, the stamp truncated and filled, the stamp read and compared, by
processes that take no lock. It starts from any stamp, with or without a `.git` beside it: a `git init` that
fails is not noticed, so the code makes such homes itself. Its second part, a commit of the stamp, changes no variable of it. `Commands`
gives each process a life between `EnterHome` and `LeaveHome`: it reads what it needs, asks the model,
enters `Home`, verifies, takes the store lock and writes.

| Model | Code |
|---|---|
| `Completions`, `ParseOutput` | what a model answers, as markers and citations; `parse_output` |
| `KnowsHash`, `KnowsPath`, `VerifyText`, `VerifyOutput` | the whitelists of the captured facts and the gate |
| `auto`, `basis` | each file's citations and marks; the facts the writer checked it against |
| `report`, `WriteReport` | `cache/<hash>/verify-report.json`, written before the lock and outside the transaction |
| `learned`, `BeginCorrect`, `WriteLearned` | `learned.md`, read first, written whole in a transaction |
| `AnswerCorrect`, `AnswerCurate` | the model's new `learned.md`: any part of what it was shown, for `correct` with or without the new one |
| `Lock`, `LockFails` | `store_txn` with the lock, and without it |
| `facts`, `Commit` | what the repository held when captured; the developer commits meanwhile |
| `recorded` | history: corrections written to `learned.md` that no model which saw them has left out since |
| `crossed`, `exposed`, `wrote`, `reporter` | history, for `TrustIsOwn` and `LearnedKept` |

### Notes

| Model | Code |
|---|---|
| `lines` | `next.md` as a set: tasks (an item, its text, its id), other lines, or `unreadable` |
| `copy`, `Load`, `Save` | a command's `NextDoc`; `fs::write`, which truncates and fills |
| `FreshId` | `fresh_id`: salts are tried until one gives an id no task of the copy has |
| `HandAdd`, `HandDrop`, `Recode` | the user's editor, which may also save in another encoding |
| `Ask`, `OpenDisc`, `OpenUnlocked`, `WriteDisc`, `Commit` | a `clarify` round: the discussion is read before the model is asked and written as prior plus round, in a transaction, with the lock or without |

### Search and Mcp

`Captures` is the set of answers `sessions_for_cwd` may give: a directory of Claude transcripts belongs
to the cwd of the first file read that names one, and the file system chooses the order; a rollout names
its own. The signature is the number of sessions and the newest mtime. Every SQL statement is a step, and
any of them may fail or be the last one of its process. `Mcp` adds the request loop: a line is read,
answered or not, and a search is the steps of `Search` by the process `Server`, so `Mcp` implements `Search`.

## 3. Runs

| Run | Shows | Instance |
|---|---|---|
| `daemon_events` | `OneJobPerMark`, `NoLostUpdate`, `PromiseKept` (refinement of `Freshness`) | 2 projects, channel of 1, 2 versions, one spurious event, one add or remove |
| `daemon_registry` | `TypeOK`, `StatusIsTrue` | 2 projects, two add/remove, one exit, one fault |
| `daemon_liveness` | `EventuallyFresh`, `LoopReturns` | 2 projects, one fault, fairness |
| `store_txns` | `TxnsIndependent`, `AIFilesAreClean`, `IncomingMeansEdit`, `EditsRecoverable`, `IncomingBlocks` | 3 distils and a curate of 2 projects, both reconciles, 2 hand edits |
| `store_faults` | `TxnsIndependent`, `EveryCommandEnds` | a distil, a curate, an add and a remove of one project, one crash, git failure or lock not taken, fairness |
| `refresh_capture` | `TypeOK`, `NothingSkipped` | a worker, a forced briefing, an add, removes; one rollout, 2 turns, one git change; git and the lock may fail the worker; up to the first crossed transaction |
| `life_daemons` | `OneDaemon`, `ServingIsReachable`, `AnswerIsHolder`, `LazyStartWorks` | 3 daemons, 2 clients, 2 kills, 2 SIGTERMs, fairness |
| `distill` | `TypeOK`, `CutMeansTrouble`, `NoticeIsExact`, `EveryJobEnds` | 2 providers, 4 configurations and a broken one, 0, 2 or 6 conversations, fairness |
| `commands` | `TypeOK`, `HomeKept`, `TrustIsOwn`, `NothingUnmarked`, `LearnedKept` | 2 terminals (a distil may as well be the worker's), 3 commands, 2 completions, 2 corrections (symmetric), any home |
| `notes` | `TypeOK`, `IdsUnique`, `NothingDropped`, `RoundsKept`, `RoundsRecoverable`, `DiscussionIsOwn` | 2 terminals, 2 items of the same text, 2 ids, 2 rounds (symmetric), one fault |
| `search` | `McpTypeOK`, `FoundIsCaptured`, `UpToDateIsWhole`, `OwnOnly` | a server and a dashboard, 2 transcripts of 2 directories, 2 lines, 2 requests, one fault |
| `notes_unreadable` | `NeverClobbered` is violated | one terminal, one item, one hand edit |

**Bounds.** Two projects are enough for one project's job to stand in another's way; a channel of
one slot is full as soon as a second project has a job, where 256 slots would need 257 projects.
Two versions let a change arrive at every point of a job for the previous one. Two commands are
a remove and an add of the same project. The two-project store has two distils of
one project and a distil and a curate of the other. Two turns and one git change let the substrate move
between any two reads and again after the capture; one transcript is enough for a turn to arrive
behind the read of its file, and that Claude's are read before Codex's is left to the theorem. `refresh_capture`
follows a history up to the first transaction that is crossed, and through the writes of `meta.toml` that cross it
(`Uncrossed`); about what comes after, `NothingSkipped` says nothing. Git and the lock fail only the worker (`Failing`),
since a briefing's failure is the same steps. Three daemons are a serving one, a starting one and a third at
the lock.

`distill`: two sessions are left to the digest and deep mode compresses two, so six sessions are more than both
together. The ceiling is scaled with
the number of calls, from 1800 s and nine calls to 1000 s and five, and so is the number of failed tries it takes to reach
it: 4 of up to 15 here, where the code's constants give 6. Two tries' durations, none and the timeout,
are the extremes. `commands`: three commands are a command, one that crosses it, and one that starts
from what they left. A home starts without a stamp or with a torn, a current or a newer one, each with and
without a `.git`; an older layout than the current one does not exist yet. The two completions are one cut short
before the open questions and one without markers. The corrections are interchangeable. `notes`: two items of the
same text are what makes `fresh_id` look for a second id, two ids let a freed one be given again; headings
are left to `notes_unreadable`, where one is lost.
`search`: the transcripts are a Claude one of the searched directory and a rollout of another; two
lines are a header and a message, or two messages. A directory of transcripts that two cwds share, and several
transcripts of one cwd, are left to the theorems, which hold for every `CwdOf` and `DirOf`: each further
file makes the run three times as long.

Faults, kills, exits and edits are few because each is an independent disturbance; the
theorems hold for any number. `CHECK_DEADLOCK FALSE` is set where every command, process or budget
runs out and the system then stops (store, lifecycle, commands, search).

**Fairness.** All of it is weak fairness. `Daemon`: the runtime polls both tasks, an LLM call returns or
times out (120 s per request, 30 min per job), timers expire, and select picks among ready arms at random,
so that no ready arm waits for ever. Nothing is fair about starting the daemon, about developers or faults.
`Store`: a command that can take a step takes one; the lock is blocking.
`Lifecycle`: processes are scheduled, and a client polls until it has an answer; the code
gives up after 5 s, which stands for "long enough for a daemon to start". `Distill`: a try ends within its
timeout and the process goes on; nothing makes a try succeed. The other modules are about safety and
have no fairness.

**The violation.** `notes_unreadable`: `NextDoc::load` takes every error of `read_to_string` for "no
file", so a `next.md` that is not UTF-8, or cannot be read at that moment, is an empty list, and the next
`note add` writes the list with its one item over it. `notes.rs` says hand-editing is never clobbered.

**Exceptions written into properties that hold.** Each is a behaviour of the code that a reader should know.

* `TxnsIndependent`: `add` and `remove` commit the whole store outside `store_txn`, so a distil's files
  can enter the history in their commit. A transaction that could not take the lock runs all the same
  (store.rs:214-220) and mixes with those beside it; the property speaks of those that had the lock, and lets
  them take up what such a one left, as it lets them take up what a dead one left. That is the
  exception `unlocked` or `Guarded` of the other properties of `Store`, `mingled` of `Notes`, and part of `crossed` of
  `Refresh`. No property of `Commands` rests on the lock.
* `IncomingMeansEdit`: a distil that dies between its write and its commit leaves a file that the next
  one takes for a hand edit; the property is for runs without faults.
* `EditsRecoverable`: a hand edit saved between a distil's check and its write is gone, and so is one
  that `curate` writes over, with an unresolved conflict (`IncomingBlocks` lets curate write). A hand edit that another
  project's commit made part of HEAD is no longer recognised and written over, but is in the history.
* `NoLostUpdate`: a project removed and added again under a running daemon is not queued by the reload,
  because the loop never forgets a watched worktree; it is among the debts the floor pays (`owed`).
* `NothingSkipped`: a turn written between the read of a transcript and of its mtime is covered by the
  cursor and in no state file until the next change (`late`). An add that reads `meta.toml`
  before a distil's cursor is written, or half-written, puts back an older cursor or none (`crossed`).
* `LazyStartWorks`: a status that finds nobody while a daemon is stopping starts one that gives up at the
  lock. A SIGTERM during an arm's handler is lost (`Terminate`); the daemon serves on.
* `CutMeansTrouble`: a deep distil may run into its ceiling after six failed tries, though none of its
  calls is wedged; the comment at the ceiling counts calls and forgets retries.
* `NothingSkipped` also leaves out the log of a capture that git did not answer when it was asked for it: HEAD is then
  covered, and its commits are not in the digest.
* `NoticeIsExact`: for a configuration that is not saved between the notice and the send, and only for `briefing` and
  `refresh`. `opinion` (main.rs:851, opinion.rs:58-101) and the daemon send the same digest and give no notice. The notice
  informs and does not ask, where config.rs:95-97 says that the command line "prompts for consent before the first
  distill" and `SECURITY.md` that it reminds; neither is stated as a property, for the code has no step that could keep it.
* `HomeKept`: a command that reads the stamp while another has it truncated, or after one died there, is refused.
  Where there is no `.git` (it was removed, or `git init` failed, which ensure_home ignores), the store is taken
  for fresh and its stamp overwritten, a newer or malformed one as well (`fresh`), although the repository's `README.md:68` says
  that an older binary refuses to touch such a store, and store.rs:56-57 that neither is ever overwritten.
* `NothingUnmarked`: what `curate` writes passes no gate, and a path is not checked where there was no list
  of files. `TrustIsOwn`: the report is written outside the transaction, so a crash, a second distil or a
  parked briefing leaves a report about another text.
* `LearnedKept`: what a model was shown of `learned.md` and left out of its answer is gone, because the answer replaces the
  file unchecked: the prompt asks it to merge, to override and at times to add nothing (learn.rs:10-15, curate.rs:73-84). Otherwise
  an entry may be lost to a command that had read the file before it was written (`exposed`), or
  to a crash in a write.
* `IdsUnique`, `NothingDropped`: two commands that have `next.md` open at once undo each other; an id is
  given again after a removal, and `DiscussionIsOwn` excepts such ids, whose discussions go on.
* `RoundsKept`: two rounds on one id at once: the later one is written without the earlier, which stays
  in the history (`RoundsRecoverable`).
* `UpToDateIsWhole`: two overlapping rebuilds may leave a stamp beside rows of the other, and a removed
  transcript may bring the signature back to an old one; such an index stays wrong until the next turn.
* `OwnOnly`: sessions of a transcript directory two cwds share are attributed to the first that names one.

## 4. Proofs

TLAPS checks every theorem for all values of the constants, under the named `ASSUME`s of the
modules: bounds are naturals, the channel has a slot, the names for "nothing" are not
projects, processes, requests or contents, versions and citations are what they are called, and (`Distill`) a
pause is at most `MaxWait` and `MinFails` is as large as `Ceiling` and `MapCap` allow.

* **Daemon.** `WorkerOK` (a worker has a job exactly while it works) and type correctness carry each
  other. `MarksAreJobs`: `OneJobPerMark` is inductive with those two; two lemmas say which members
  `Append` and `Tail` leave in the queue. `NothingLost`: `NoLostUpdate` needs `LoopOK` (an idle loop
  has nothing to visit) and `OrderOK` (a captured version lies between cursor and substrate, a
  removed project has no cursor): without it a worker could be about to write a cursor that is
  older than the one on disk. `DaemonKeepsPromise`: under the same invariant every step is a step of
  `Freshness` or a stutter; the interesting one is `Distill`, a `Record` if the project is
  registered. `StatusCorrect`: the published set is that of the loop whenever it waits.
* **Store.** `LockOK` says who holds the lock, `StageOK` which command can be where. `TransactionsDoNotMix`
  rests on `Provenance`: content of a transaction is found in tree or index only if it is committed,
  or the transaction is under way or among the debris, where one that
  had no lock is from its first step. `NothingUncommitted` rests on `AllClean`, which
  says of every path what the writer of its content is doing. `ConflictsAreReal` is stated for `MaxFaults =
  0`, without which it fails, and rests on `IncomingInv`: content in the AI file
  comes from its own project, and a diverted distil has seen an edit. `ConflictsBlock` rests on `BlockOK`:
  a distil that is past its check and writes the file itself saw no `.incoming`, and nobody else
  makes one meanwhile. `EditsAreKept` (`MaxFaults = 0`) rests on `EditInv`: what a file of a living project holds is
  tracked (`TrackedOK`), what HEAD holds was once committed (`CommittedOK`), and what a distil that checked
  is about to write over is in a commit, or came after the check (`CheckedOK`).
* **Refresh.** `NothingIsSkipped`: `Captured` says what a capture has at each stage. The mtime is read after the
  content of the same file, so once all files are read the capture has every turn up to its fingerprint's mtime
  (`SubstrateInv`: no turn of a transcript is younger than it), but for the `late` ones; and what it read stays true
  while the world goes on. `Stored` says that the state files cover the cursor (`Covers`), also the one
  that an `add` is about to write back, and, between the two writes of a transaction, are the lock
  holder's capture (`Exclusive`). That the newest mtime exists is `HasMax`; the library's induction over
  finite sets takes an operator, so the lemma uses that strict inclusion is well-founded on a finite set.
  `CursorMovesForward`: with one refresher, and any adders and removes, each step of `Refresh` that crosses no
  transaction is a step of `Freshness` or a stutter, where the cursor of a half-written `meta.toml` is what it said
  before (`Text`) and a version is HEAD plus clock, unless the cursor is one git had not answered for (`Blinded`; such a
  cursor names no HEAD, and the gate finds it stale as soon as git answers); so what `Daemon` does at once is what the code's steps amount
  to. It rests on `Ahead`: what the cursor names a capture has read, or has yet to read. Two
  refreshers, such as the worker and a `briefing`, do not keep that promise: the slower one writes back its own, older state and cursor, and the
  next refresh distils again (`NothingIsSkipped` holds for any number).
* **Lifecycle.** `LockOK` (the lock is held exactly by the daemon past `acquire_lock`) and
  `ServingIsReachable` are inductive together: whoever unlinks the socket holds the lock, so nobody
  else serves. `SingleInstance`, `SocketIsOwn` and `PeerIsHolder` follow.
* **Distill.** `CeilingCorrect` rests on `Paced`: the elapsed time of a job is at most one timeout for each
  try that ended and one pause for each that failed; a deep job has `MapCap + 3` calls at
  most, so a job at its ceiling has failed `MinFails` times; a shallow job cannot reach it. `NoticeCorrect` rests on `Noticed`: as
  long as no file is saved, each stage holds what the choice of provider makes of the same file.
* **Home and Commands.** `HomeCorrect` is an induction over `HomeInv`: a torn stamp was there
  from the start, has a writer, or met `caught`; and as long as nobody saw a home without `.git`, nobody is on the way to
  write a stamp over a newer one.
  `HomeImplemented` shows each command's step to be a step of `Home` or a stutter, and `HomeHolds` brings
  the promise over. `Inv` says what a command holds at each stage (`Holds`): what a distil or an opinion is
  about to write is vouched for by its facts, which gives `GateCorrect`. `TrustCorrect` adds `Reported` (an
  uncrossed reporter's report is its own), `LearnedCorrect` adds `Remembered` (a command that has read
  `learned.md` was shown everything that is recorded and safe), whatever part of it the model gives back.
* **Notes.** `IdsStayUnique`: ids are unique in the list and every copy, where a copy that is about to be
  saved has been read from the list or there are two. `RoundsStay`, `RoundsAreCommitted`: a `clarify` writes
  what it read before it asked (`PriorOK`), and that is every recorded round of its item unless another
  command extends or extended the same discussion (`Informed`). `DiscussionsAreOwn`: every id in the list, in a
  copy or in a round was `given`, and one that was given once means one item (`OneMeaning`); `Confusion` bounds
  whom a command with an old id can hit to items at risk or removed. `NothingIsDropped`: the list, and every
  copy a command will save, has all that is kept and not at risk (`ListKept`, `CopyKept`); a `done` or `rm`
  removes only what `Confusion` allows.
* **Search.** `ServerSearches`: every step of `McpSpec` is a step of `Search` or a stutter. `RebuildIsExact`
  rests on `AloneOK`: what the index of a lone rebuilder lacks of its capture is what it has yet to
  insert. `IndexIsOwn` rests on `OwnInv`: captures hold only own transcripts, and rows come from captures.
  `UpToDateIndexIsWhole`: while no transcript is removed and no directory is shared, sessions are only added
  and grow, and signatures, ordered by count and then by mtime (`Leq`), grow with them (`SignaturesGrow`). Whoever
  finds the index stale has a greater signature than the stamp (`Since`), so what its rebuild leaves half-way
  is never up to date again; a stamp that can still be current stands beside the rows of a capture taken at
  that signature (`StampOK`, `Taken`). The property excepts directories whose captures can differ; `OneCapture`
  says that where they cannot, the cwd of every session with text is certain.

**Only model-checked.** Liveness under fairness (`EventuallyFresh`, `LoopReturns`,
`EveryCommandEnds`, `LazyStartWorks`, `EveryJobEnds`) is out of the prover's reach. Every invariant and action
property of the passing runs is a theorem.

## 5. What is not modelled

`PROJECT.json` lists every component with its reason. The doctor and the evaluation read and print, the
installer writes a unit file, the desktop shell and the web client are user interfaces, and the other
routes of the dashboard show files. Left out of the modelled components, as data:

* what is parsed and worded: JSON of transcripts, prompts, request bodies, rendering of notes and
  digests, recognition of hashes and paths in text, redaction and the deny list, full-text matching;
* the longest-prefix match of a directory to a project (`project_recall` of the MCP server uses it,
  `project_search` uses the directory itself), which `Mcp` reduces to registered or not;
* the length of time: a quiet window may run out at any moment, so a conversation that never pauses,
  and is refreshed only by the floor, is not seen. `Distill` has time, in seconds;
* what the digest shows of the conversations. Against the repository's `README.md:144`, by which deep mode compresses older
  sessions "instead of discarded": those older than the newest `MapCap` of them are neither shown nor compressed, nor is one
  of the last `LastK` whose lines no longer fit the digest's cap beside newer ones (capture lib.rs:322-333). The two
  `LastK` are independent literals (refresh.rs:178 and `DigestOpts`);
* the order of the MCP server's answers: it is one loop that answers a line before it reads the next. A line that is not UTF-8 ends it;
* that the stamp of the layout may be in no commit after a crash;
* several AI files of one project are one file in `Store`, so a reconcile that fails half-way is not seen;
* a checkout back to an old commit, and a status that returns to an old value (`Refresh`).

Next: the longest-prefix match as a pure operator.
