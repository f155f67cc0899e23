-------------------------------- MODULE Daemon --------------------------------
(***************************************************************************)
(* The background daemon of OmniProj (crates/omniproj-daemon): a select    *)
(* loop that turns file-system events, agent-session events, registry      *)
(* reloads and a floor timer into jobs, a bounded job channel guarded by a *)
(* set of pending hashes, and one worker that refreshes a project when its *)
(* substrate differs from the recorded cursor.                             *)
(*                                                                         *)
(* A project stands for its path, its hash and its metadata.  Its          *)
(* substrate is a version number that every commit, edit or session turn   *)
(* increases; 0 means there is neither a git repository nor a session.     *)
(* Wall-clock time is left out: a debounce, a quiet window or the floor    *)
(* timer may run out at any moment, and fairness says that it does.        *)
(***************************************************************************)
EXTENDS Integers, Sequences, FiniteSets

CONSTANTS
  Projects,    \* every project the developer may register
  None,        \* no project
  NoCursor,    \* a project that was never distilled
  Capacity,    \* slots of the job channel (256 in the code)
  MaxVersion,  \* bound: substrate versions of a project
  MaxTouches,  \* bound: file events that leave the substrate as it was
  MaxCommands, \* bound: `omniproj add` / `omniproj remove` commands
  MaxExits,    \* bound: crashes and shutdowns of the daemon
  MaxFaults    \* bound: lost events, failed watches, failed refreshes

ASSUME CapacityAssumption == Capacity \in Nat \ {0}
ASSUME NoneAssumption == None \notin Projects
ASSUME CursorAssumption == NoCursor \notin Nat
ASSUME BoundAssumption ==
  MaxVersion \in Nat \ {0} /\ {MaxTouches, MaxCommands, MaxExits, MaxFaults} \subseteq Nat

VARIABLES
  \* on disk
  registry,    \* the registered projects
  cursor,      \* cursor[p]: substrate version of the last recorded distill
  sub,         \* sub[p]: current version of p's substrate
  \* the watchers: events between the kernel and the loop
  fsEvents,    \* projects with an undelivered worktree event
  sessEvents,  \* projects with an undelivered session-transcript event
  reloads,     \* Reload requests in the control channel
  \* the select loop
  up,          \* the daemon runs
  handler,     \* which arm of the select is running
  todo,        \* projects that arm has yet to visit
  sending,     \* the project whose job the loop is sending (it may wait)
  projects,    \* the loop's in-memory copy of the registry
  watched,     \* the projects whose worktree is watched
  sessPending, \* projects waiting for their conversation to pause
  \* shared with the worker
  pending,     \* hashes that have a job, as far as enqueue knows
  queue,       \* the job channel
  \* the worker
  wpc,         \* where the worker is
  job,         \* the project it works on
  fp,          \* the fingerprint it captured
  \* the status that `omniproj status` reads
  inFlight,
  published,
  \* history and budgets
  owed,        \* projects with a change nothing but a new sweep or event will pick up
  spent        \* how much of each bound has been used

disk     == <<registry, cursor, sub>>
events   == <<fsEvents, sessEvents>>
loopVars == <<handler, todo, sending, projects, watched, sessPending>>
jobs     == <<pending, queue>>
worker   == <<wpc, job, fp, inFlight>>
vars     == <<registry, cursor, sub, fsEvents, sessEvents, reloads, up, handler,
              todo, sending, projects, watched, sessPending, pending, queue,
              wpc, job, fp, inFlight, published, owed, spent>>

Handlers == {"idle", "startup", "events", "tick", "reload"}
Stages   == {"idle", "received", "capture", "gate", "llm"}
Budgets  == {"touch", "command", "exit", "fault"}
Bound    == [b \in Budgets |->
               CASE b = "touch"   -> MaxTouches
                 [] b = "command" -> MaxCommands
                 [] b = "exit"    -> MaxExits
                 [] b = "fault"   -> MaxFaults]

TypeOK ==
  /\ registry \in SUBSET Projects
  /\ cursor \in [Projects -> 1 .. MaxVersion \cup {NoCursor}]
  /\ sub \in [Projects -> 0 .. MaxVersion]
  /\ fsEvents \in SUBSET Projects
  /\ sessEvents \in SUBSET Projects
  /\ reloads \in Nat
  /\ up \in BOOLEAN
  /\ handler \in Handlers
  /\ todo \in SUBSET Projects
  /\ sending \in Projects \cup {None}
  /\ projects \in SUBSET Projects
  /\ watched \in SUBSET Projects
  /\ sessPending \in SUBSET Projects
  /\ pending \in SUBSET Projects
  /\ queue \in Seq(Projects)
  /\ wpc \in Stages
  /\ job \in Projects \cup {None}
  /\ fp \in 0 .. MaxVersion
  /\ inFlight \in Projects \cup {None}
  /\ published \in SUBSET Projects
  /\ owed \in SUBSET Projects
  /\ spent \in [Budgets -> Nat]

Spend(b) == /\ spent[b] < Bound[b]
            /\ spent' = [spent EXCEPT ![b] = @ + 1]

-----------------------------------------------------------------------------
(* A daemon that does not run remembers nothing.                           *)

Init == /\ registry \in SUBSET Projects
        /\ sub \in [Projects -> {0, 1}]
        /\ cursor = [p \in Projects |-> NoCursor]
        /\ fsEvents = {} /\ sessEvents = {} /\ reloads = 0
        /\ up = FALSE
        /\ handler = "idle" /\ todo = {} /\ sending = None
        /\ projects = {} /\ watched = {} /\ sessPending = {}
        /\ pending = {} /\ queue = << >>
        /\ wpc = "idle" /\ job = None /\ fp = 0
        /\ inFlight = None /\ published = {}
        /\ owed = {}
        /\ spent = [b \in Budgets |-> 0]

\* run: read the registry, then visit every project (watch it, queue it).
Start == /\ ~up
         /\ up' = TRUE
         /\ handler' = "startup"
         /\ projects' = registry
         /\ todo' = registry
         /\ owed' = {}
         /\ UNCHANGED <<disk, events, reloads, sending, watched, sessPending,
                        jobs, worker, published, spent>>

\* A crash, or SIGTERM: everything in memory is gone, the disk stays.
Exit == /\ up
        /\ Spend("exit")
        /\ fsEvents' = {} /\ sessEvents' = {} /\ reloads' = 0
        /\ up' = FALSE
        /\ handler' = "idle" /\ todo' = {} /\ sending' = None
        /\ projects' = {} /\ watched' = {} /\ sessPending' = {}
        /\ pending' = {} /\ queue' = << >>
        /\ wpc' = "idle" /\ job' = None /\ fp' = 0
        /\ inFlight' = None /\ published' = {}
        /\ UNCHANGED <<disk, owed>>

-----------------------------------------------------------------------------
(* The world: the developer, the agents and the command line.              *)

\* A worktree change.  The kernel reports it if the worktree is watched.
DevChange(p) ==
  /\ sub[p] < MaxVersion
  /\ sub' = [sub EXCEPT ![p] = @ + 1]
  /\ IF p \in watched
     THEN fsEvents' = fsEvents \cup {p} /\ UNCHANGED owed
     ELSE owed' = owed \cup {p} /\ UNCHANGED fsEvents
  /\ UNCHANGED <<registry, cursor, sessEvents, reloads, up, loopVars, jobs,
                 worker, published, spent>>

\* A file event without a change of fingerprint (a build, an ignored file).
Touch(p) ==
  /\ p \in watched
  /\ Spend("touch")
  /\ fsEvents' = fsEvents \cup {p}
  /\ UNCHANGED <<disk, sessEvents, reloads, up, loopVars, jobs, worker,
                 published, owed>>

\* An agent appends to a transcript.  The session roots are watched only once
\* the startup sweep has been queued.
SessionWrite(p) ==
  /\ sub[p] < MaxVersion
  /\ sub' = [sub EXCEPT ![p] = @ + 1]
  /\ IF up /\ handler # "startup"
     THEN sessEvents' = sessEvents \cup {p} /\ UNCHANGED owed
     ELSE owed' = owed \cup {p} /\ UNCHANGED sessEvents
  /\ UNCHANGED <<registry, cursor, fsEvents, reloads, up, loopVars, jobs,
                 worker, published, spent>>

\* The watcher reports an error instead of the event, or the kernel's queue
\* overflows: the batch is dropped.
LoseEvent(p) ==
  /\ Spend("fault")
  /\ \/ p \in fsEvents /\ fsEvents' = fsEvents \ {p} /\ UNCHANGED sessEvents
     \/ p \in sessEvents /\ sessEvents' = sessEvents \ {p} /\ UNCHANGED fsEvents
  /\ owed' = owed \cup {p}
  /\ UNCHANGED <<disk, reloads, up, loopVars, jobs, worker, published>>

\* `omniproj add`: write meta.toml (bookkeeping kept), then ask a running
\* daemon to reload.  A project the loop still watches is not picked up.
Add(p) ==
  /\ Spend("command")
  /\ registry' = registry \cup {p}
  /\ reloads' = IF up THEN reloads + 1 ELSE reloads
  /\ owed' = IF p \in watched \ registry THEN owed \cup {p} ELSE owed
  /\ UNCHANGED <<cursor, sub, events, up, loopVars, jobs, worker, published>>

\* `omniproj remove`: meta.toml goes, and the cursor with it.
Remove(p) ==
  /\ p \in registry
  /\ Spend("command")
  /\ registry' = registry \ {p}
  /\ cursor' = [cursor EXCEPT ![p] = NoCursor]
  /\ reloads' = IF up THEN reloads + 1 ELSE reloads
  /\ UNCHANGED <<sub, events, up, loopVars, jobs, worker, published, owed>>

-----------------------------------------------------------------------------
(* The select loop: an arm runs to its end before the next is chosen.      *)

Selecting == up /\ handler = "idle"

\* Mutant: enqueue ignores what the set's insert returns.
EnqueueAlways(p) == /\ pending' = pending \cup {p}
                    /\ sending' = p

\* enqueue: mark the hash; only a new mark sends a job.
Enqueue(p) == /\ pending' = pending \cup {p}
              /\ sending' = IF p \in pending THEN None ELSE p

\* The channel send returns once there is a free slot.
Send == /\ sending # None
        /\ Len(queue) < Capacity
        /\ queue' = Append(queue, sending)
        /\ sending' = None
        /\ UNCHANGED <<disk, events, reloads, up, handler, todo, projects, watched,
                       sessPending, pending, worker, published, owed, spent>>

\* A debounced batch of worktree events: owners the loop does not know (yet)
\* are skipped.
FsBatch == /\ Selecting
           /\ \E batch \in (SUBSET fsEvents) \ {{}} :
                /\ fsEvents' = fsEvents \ batch
                /\ todo' = batch \cap projects
                /\ owed' = owed \cup (batch \ projects)
           /\ handler' = "events"
           /\ UNCHANGED <<disk, sessEvents, reloads, up, sending, projects, watched,
                          sessPending, jobs, worker, published, spent>>

\* A batch of transcript events (re)arms the quiet deadline of its owners.
SessBatch == /\ Selecting
             /\ \E batch \in (SUBSET sessEvents) \ {{}} :
                  /\ sessEvents' = sessEvents \ batch
                  /\ sessPending' = sessPending \cup (batch \cap projects)
                  /\ owed' = owed \cup (batch \ projects)
             /\ UNCHANGED <<disk, fsEvents, reloads, up, handler, todo, sending,
                            projects, watched, jobs, worker, published, spent>>

\* Some conversations have been quiet long enough: they are all due at once.
SessWake == /\ Selecting
            /\ \E due \in (SUBSET sessPending) \ {{}} :
                 /\ sessPending' = sessPending \ due
                 /\ todo' = due
            /\ handler' = "events"
            /\ UNCHANGED <<disk, events, reloads, up, sending, projects, watched,
                           jobs, worker, published, owed, spent>>

\* Mutant: the floor only visits what it does not watch yet.
TickNewOnly == /\ Selecting
               /\ projects' = registry
               /\ todo' = registry \ watched
               /\ handler' = "tick"
               /\ UNCHANGED <<disk, events, reloads, up, sending, watched, sessPending,
                              jobs, worker, published, owed, spent>>

\* The floor timer: re-read the registry, sweep every project.
Tick == /\ Selecting
        /\ projects' = registry
        /\ todo' = registry
        /\ handler' = "tick"
        /\ UNCHANGED <<disk, events, reloads, up, sending, watched, sessPending,
                       jobs, worker, published, owed, spent>>

\* Mutant: the reload arm also runs when nothing was received.
ReloadUnasked == /\ Selecting
                 /\ reloads' = reloads - 1
                 /\ projects' = registry
                 /\ todo' = registry
                 /\ handler' = "reload"
                 /\ UNCHANGED <<disk, events, up, sending, watched, sessPending,
                                jobs, worker, published, owed, spent>>

\* Control::ReloadRegistry: re-read the registry, look for new worktrees.
Reload == /\ Selecting
          /\ reloads > 0
          /\ reloads' = reloads - 1
          /\ projects' = registry
          /\ todo' = registry
          /\ handler' = "reload"
          /\ UNCHANGED <<disk, events, up, sending, watched, sessPending,
                         jobs, worker, published, owed, spent>>

\* debouncer.watch: an unwatched worktree becomes watched, or the call fails.
Watch(p) == \/ watched' = watched \cup {p} /\ UNCHANGED spent
            \/ p \notin watched /\ Spend("fault") /\ UNCHANGED watched

Visiting(p, arms) == /\ handler \in arms
                     /\ sending = None
                     /\ p \in todo
                     /\ todo' = todo \ {p}

\* The owner of a changed path, or a conversation that paused.
EventItem(p) == /\ Visiting(p, {"events"})
                /\ Enqueue(p)
                /\ UNCHANGED <<disk, events, reloads, up, handler, projects, watched,
                               sessPending, queue, worker, published, owed, spent>>

\* Startup and floor sweep: watched or not, the project is queued.
SweepItem(p) == /\ Visiting(p, {"startup", "tick"})
                /\ Watch(p)
                /\ Enqueue(p)
                /\ UNCHANGED <<disk, events, reloads, up, handler, projects,
                               sessPending, queue, worker, published, owed>>

\* Reload: only a worktree that was not watched, and can be, is queued.
ReloadItem(p) ==
  /\ Visiting(p, {"reload"})
  /\ IF p \in watched
     THEN UNCHANGED <<watched, spent, pending, sending, owed>>
     ELSE /\ Watch(p)
          /\ IF p \in watched'
             THEN Enqueue(p) /\ UNCHANGED owed
             ELSE owed' = owed \cup {p} /\ UNCHANGED <<pending, sending>>
  /\ UNCHANGED <<disk, events, reloads, up, handler, projects, sessPending,
                 queue, worker, published>>

\* Mutant: only the startup sweep publishes what is watched.
FinishStartupOnly ==
  /\ handler # "idle" /\ todo = {} /\ sending = None
  /\ published' = IF handler = "startup" THEN watched ELSE published
  /\ handler' = "idle"
  /\ UNCHANGED <<disk, events, reloads, up, todo, sending, projects, watched,
                 sessPending, jobs, worker, owed, spent>>

\* The arm is through: startup, tick and reload publish what is watched.
Finish == /\ handler # "idle" /\ todo = {} /\ sending = None
          /\ published' = IF handler = "events" THEN published ELSE watched
          /\ handler' = "idle"
          /\ UNCHANGED <<disk, events, reloads, up, todo, sending, projects, watched,
                         sessPending, jobs, worker, owed, spent>>

-----------------------------------------------------------------------------
(* The worker: one job at a time.                                          *)

Recv == /\ wpc = "idle"
        /\ queue # << >>
        /\ job' = Head(queue)
        /\ queue' = Tail(queue)
        /\ wpc' = "received"
        /\ UNCHANGED <<disk, events, reloads, up, loopVars, pending, fp, inFlight,
                       published, owed, spent>>

\* Mutant: the mark is not cleared before the capture.
ClearLate == /\ wpc = "received"
             /\ inFlight' = job
             /\ wpc' = "capture"
             /\ UNCHANGED <<disk, events, reloads, up, loopVars, jobs, job, fp,
                            published, owed, spent>>

\* The pending mark goes at the start of processing, before the capture.
Clear == /\ wpc = "received"
         /\ pending' = pending \ {job}
         /\ inFlight' = job
         /\ wpc' = "capture"
         /\ UNCHANGED <<disk, events, reloads, up, loopVars, queue, job, fp,
                        published, owed, spent>>

\* capture: the fingerprint of the substrate as it is now.
Capture == /\ wpc = "capture"
           /\ fp' = sub[job]
           /\ owed' = owed \ {job}
           /\ wpc' = "gate"
           /\ UNCHANGED <<disk, events, reloads, up, loopVars, jobs, job, inFlight,
                          published, spent>>

JobOver == /\ wpc' = "idle" /\ job' = None /\ fp' = 0
           /\ inFlight' = None

\* Nothing to distill, not registered, or the cursor matches: no LLM call.
Skippable == fp = 0 \/ job \notin registry \/ cursor[job] = fp

\* Mutant: a job without work never ends.
GateWedged == /\ wpc = "gate"
              /\ ~Skippable
              /\ wpc' = "llm"
              /\ UNCHANGED <<disk, events, reloads, up, loopVars, jobs, job, fp,
                             inFlight, published, owed, spent>>

Gate == /\ wpc = "gate"
        /\ IF Skippable
           THEN JobOver
           ELSE wpc' = "llm" /\ UNCHANGED <<job, fp, inFlight>>
        /\ UNCHANGED <<disk, events, reloads, up, loopVars, jobs, published, owed,
                       spent>>

\* Mutant: the cursor is written without looking for a meta.toml.
DistillUnchecked == /\ wpc = "llm"
                    /\ cursor' = [cursor EXCEPT ![job] = fp]
                    /\ JobOver
                    /\ UNCHANGED <<registry, sub, events, reloads, up, loopVars, jobs,
                                   published, owed, spent>>

\* The model has answered: write the state files and the captured fingerprint
\* in one store transaction.  Without a meta.toml there is no cursor to advance.
Distill == /\ wpc = "llm"
           /\ cursor' = IF job \in registry
                        THEN [cursor EXCEPT ![job] = fp] ELSE cursor
           /\ JobOver
           /\ UNCHANGED <<registry, sub, events, reloads, up, loopVars, jobs,
                          published, owed, spent>>

\* No provider, an LLM error, a timeout, a panic, a failed write: the job is
\* dropped and logged; nothing is queued again.
Fail == /\ wpc \in {"capture", "gate", "llm"}
        /\ Spend("fault")
        /\ owed' = owed \cup {job}
        /\ JobOver
        /\ UNCHANGED <<disk, events, reloads, up, loopVars, jobs, published>>

-----------------------------------------------------------------------------
World == \E p \in Projects : DevChange(p) \/ Touch(p) \/ SessionWrite(p)
                               \/ LoseEvent(p) \/ Add(p) \/ Remove(p)
Arm   == FsBatch \/ SessBatch \/ SessWake \/ Tick \/ Reload
Item  == \E p \in Projects : EventItem(p) \/ SweepItem(p) \/ ReloadItem(p)
Work  == Recv \/ Clear \/ Capture \/ Gate \/ Distill

Next == Start \/ Exit \/ World \/ Arm \/ Item \/ Send \/ Finish \/ Work \/ Fail

Spec == Init /\ [][Next]_vars

(***************************************************************************)
(* The runtime polls the loop's task and the worker's, an LLM call returns *)
(* or times out, every timer runs out, and select picks among the ready    *)
(* arms at random.  Nobody promises that the daemon is started, that a     *)
(* developer works, or that a fault happens.                               *)
(***************************************************************************)
Fairness == /\ WF_vars(Item) /\ WF_vars(Send) /\ WF_vars(Finish)
            /\ WF_vars(FsBatch) /\ WF_vars(SessBatch) /\ WF_vars(SessWake)
            /\ WF_vars(Reload) /\ WF_vars(Tick)
            /\ WF_vars(Work)

FairSpec == Spec /\ Fairness

-----------------------------------------------------------------------------
(* Properties.                                                             *)

Queued == {queue[i] : i \in DOMAIN queue}

(* A pending mark and a waiting job are the same thing: a hash is marked    *)
(* exactly while its one job is being sent, is in the channel, or has just  *)
(* been received.  enqueue can thus never drop the wake of a project that   *)
(* has no job, and never queues a project twice.                            *)
OneJobPerMark ==
  /\ pending = Queued \cup ({sending} \ {None})
                      \cup (IF wpc = "received" THEN {job} ELSE {})
  /\ \A i, j \in DOMAIN queue : queue[i] = queue[j] => i = j
  /\ sending \notin Queued
  /\ wpc = "received" => job \notin Queued /\ job # sending

Stale(p) == sub[p] # 0 /\ cursor[p] # sub[p]

(* Something in the daemon will still look at p as it is now. *)
Wakeable(p) ==
  \/ p \in Queued
  \/ p = sending
  \/ p = job /\ (wpc \in {"received", "capture"} \/ fp = sub[p])
  \/ p \in todo /\ (handler = "reload" => p \notin watched)
  \/ p \in fsEvents \cup sessEvents
  \/ p \in sessPending
  \/ reloads > 0 /\ p \notin watched

(* No lost updates (the comment in worker): a running daemon that has not   *)
(* yet distilled the current state of a registered project still has a job, *)
(* an event, a deadline or a reload for it.  The only exceptions are those  *)
(* kept in owed: a change no watcher reported, an event that was lost or    *)
(* came before the loop knew its project, a failed refresh, and a project   *)
(* registered again while its worktree was still watched.                   *)
NoLostUpdate ==
  up => \A p \in registry : Stale(p) => Wakeable(p) \/ p \in owed

(* What `omniproj status` shows is so: the loop has published exactly what  *)
(* it watches whenever it waits, and a project is in flight exactly while   *)
(* the worker processes it.                                                 *)
StatusIsTrue ==
  /\ Selecting => published = watched
  /\ inFlight = IF wpc \in {"idle", "received"} THEN None ELSE job

(* The daemon keeps the promise of module Freshness. *)
Promise == INSTANCE Freshness WITH Projects <- Projects, NoCursor <- NoCursor,
                               registry <- registry, sub <- sub, cursor <- cursor
PromiseKept == Promise!Spec

(* A project that stays registered with a daemon that stays up is           *)
(* eventually up to date, whatever was lost or failed before: the floor     *)
(* timer pays every debt.  (Changes and faults are bounded.)                *)
EventuallyFresh ==
  \A p \in Projects :
    <>[](up /\ p \in registry /\ sub[p] # 0) => <>[](cursor[p] = sub[p])

(* The loop cannot be stuck behind a full channel: an arm that has begun    *)
(* comes back to the select, or the daemon exits.                           *)
LoopReturns == (up /\ handler # "idle") ~> (~up \/ handler = "idle")
=============================================================================
