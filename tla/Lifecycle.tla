------------------------------ MODULE Lifecycle -------------------------------
(***************************************************************************)
(* Daemon processes and the command line that starts and queries them: the *)
(* single-instance lock daemon.lock, the socket file daemon.sock, lazy     *)
(* start by `omniproj status`, SIGTERM, crashes.                           *)
(*                                                                         *)
(* Each element of Daemons is one process, which runs once.  Many may be   *)
(* started: by a user, a service manager or a `status` that found nobody.  *)
(***************************************************************************)
EXTENDS Integers, FiniteSets

CONSTANTS
  Daemons,   \* processes running `omniproj daemon`
  Clients,   \* processes running `omniproj status`
  Stale,     \* the socket file of a daemon long dead
  None,
  MaxKills,  \* bound: processes killed or crashed
  MaxTerms   \* bound: SIGTERMs sent

ASSUME NamesAssumption ==
  {Stale, None} \cap Daemons = {} /\ Stale # None /\ {MaxKills, MaxTerms} \subseteq Nat

VARIABLES
  dpc,    \* where each daemon is
  lock,   \* the holder of the flock on daemon.lock
  sock,   \* whose listener the socket file names; None: there is no file
  cpc,    \* where each client is
  peer,   \* the daemon that answered the client's ping
  termed, \* daemons that were sent SIGTERM
  kills

vars == <<dpc, lock, sock, cpc, peer, termed, kills>>

Serving == {"startup", "select", "handler", "stopping"}  \* the listener answers
Locked  == {"locked", "unlinked", "closed"} \cup Serving
Stages  == {"off", "boot", "exited"} \cup Locked

TypeOK == /\ dpc \in [Daemons -> Stages]
          /\ lock \in Daemons \cup {None}
          /\ sock \in Daemons \cup {Stale, None}
          /\ cpc \in [Clients -> {"start", "waiting", "query", "answered", "failed"}]
          /\ peer \in [Clients -> Daemons \cup {None}]
          /\ termed \in SUBSET Daemons
          /\ kills \in Nat

Init == /\ dpc = [d \in Daemons |-> "off"]
        /\ lock = None
        /\ sock \in {Stale, None}
        /\ cpc = [c \in Clients |-> "start"]
        /\ peer = [c \in Clients |-> None]
        /\ termed = {} /\ kills = 0

Step(d, from, to) == /\ dpc[d] = from
                     /\ dpc' = [dpc EXCEPT ![d] = to]

Drop(d) == lock' = IF lock = d THEN None ELSE lock

-----------------------------------------------------------------------------
(* A daemon process.                                                       *)

\* By hand, at login, or by the service manager after a crash.
Launch(d) == /\ Step(d, "off", "boot")
             /\ UNCHANGED <<lock, sock, cpc, peer, termed, kills>>

\* Mutant of AcquireLock: a shared lock instead of an exclusive one.
AcquireShared(d) == /\ Step(d, "boot", "locked")
                    /\ lock' = d
                    /\ UNCHANGED <<sock, cpc, peer, termed, kills>>

\* acquire_lock: try_lock_exclusive; an error ends the process.
AcquireLock(d) ==
  /\ IF lock = None
     THEN Step(d, "boot", "locked") /\ lock' = d
     ELSE Step(d, "boot", "exited") /\ UNCHANGED lock
  /\ UNCHANGED <<sock, cpc, peer, termed, kills>>

\* Mutant of Unlink: the old file stays.
UnlinkNothing(d) == /\ Step(d, "locked", "unlinked")
                    /\ UNCHANGED <<lock, sock, cpc, peer, termed, kills>>

\* bind: remove whatever file is there ...
Unlink(d) == /\ Step(d, "locked", "unlinked")
             /\ sock' = None
             /\ UNCHANGED <<lock, cpc, peer, termed, kills>>

\* ... and create the socket; a file that is there again is an error.
Bind(d) == /\ IF sock = None
              THEN Step(d, "unlinked", "startup") /\ sock' = d /\ UNCHANGED lock
              ELSE Step(d, "unlinked", "exited") /\ Drop(d) /\ UNCHANGED sock
           /\ UNCHANGED <<cpc, peer, termed, kills>>

\* The startup sweep is done, or an arm of the select is through.
Select(d) == /\ Step(d, "startup", "select") \/ Step(d, "handler", "select")
             /\ UNCHANGED <<lock, sock, cpc, peer, termed, kills>>

\* Some arm other than shutdown is ready.
Handle(d) == /\ Step(d, "select", "handler")
             /\ UNCHANGED <<lock, sock, cpc, peer, termed, kills>>

\* Mutant of Terminate: the lock goes when the loop is left, before the cleanup.
TerminateUnlocked(d) == /\ d \notin termed
                        /\ Cardinality(termed) < MaxTerms
                        /\ termed' = termed \cup {d}
                        /\ Step(d, "select", "stopping")
                        /\ Drop(d)
                        /\ UNCHANGED <<sock, cpc, peer, kills>>

\* SIGTERM.  Before the first select its default action ends the process.  In
\* the select shutdown_signal sees it.  In a handler nobody listens:
\* shutdown_signal is a new future, with a new listener, in every iteration.
\* (The first select is taken to have polled it.)
Terminate(d) ==
  /\ d \notin termed
  /\ Cardinality(termed) < MaxTerms
  /\ termed' = termed \cup {d}
  /\ \/ /\ \/ Step(d, "boot", "exited") \/ Step(d, "locked", "exited")
           \/ Step(d, "unlinked", "exited") \/ Step(d, "startup", "exited")
        /\ Drop(d)
     \/ Step(d, "select", "stopping") /\ UNCHANGED lock
     \/ Step(d, "handler", "handler") /\ UNCHANGED lock
  /\ UNCHANGED <<sock, cpc, peer, kills>>

\* cleanup: remove the socket file, whosever it is.
Cleanup(d) == /\ Step(d, "stopping", "closed")
              /\ sock' = None
              /\ UNCHANGED <<lock, cpc, peer, termed, kills>>

\* run returns and the lock file is closed.
Exit(d) == /\ Step(d, "closed", "exited")
           /\ Drop(d)
           /\ UNCHANGED <<sock, cpc, peer, termed, kills>>

\* A crash or SIGKILL: the kernel drops the flock, the socket file stays.
Kill(d) == /\ dpc[d] \notin {"off", "exited"}
           /\ kills < MaxKills
           /\ kills' = kills + 1
           /\ dpc' = [dpc EXCEPT ![d] = "exited"]
           /\ Drop(d)
           /\ UNCHANGED <<sock, cpc, peer, termed>>

-----------------------------------------------------------------------------
(* `omniproj status`.                                                      *)

\* Whom a connection to the socket reaches.
Listener == IF sock \in Daemons /\ dpc[sock] \in Serving THEN sock ELSE None

\* ping, at first or while waiting: the daemon answers.
Ping(c) == /\ cpc[c] \in {"start", "waiting"}
           /\ Listener # None
           /\ cpc' = [cpc EXCEPT ![c] = "query"]
           /\ peer' = [peer EXCEPT ![c] = Listener]
           /\ UNCHANGED <<dpc, lock, sock, termed, kills>>

\* Nobody answers: spawn_daemon, then wait.
LazyStart(c, d) == /\ cpc[c] = "start"
                   /\ Listener = None
                   /\ Step(d, "off", "boot")
                   /\ cpc' = [cpc EXCEPT ![c] = "waiting"]
                   /\ UNCHANGED <<lock, sock, peer, termed, kills>>

\* request(Status): a second connection.
Query(c) == /\ cpc[c] = "query"
            /\ cpc' = [cpc EXCEPT ![c] = IF Listener = None THEN "failed" ELSE "answered"]
            /\ UNCHANGED <<dpc, lock, sock, peer, termed, kills>>

Run(d)  == \/ AcquireLock(d) \/ Unlink(d) \/ Bind(d) \/ Select(d) \/ Cleanup(d) \/ Exit(d)
Next == \/ \E d \in Daemons : Launch(d) \/ Run(d) \/ Handle(d) \/ Terminate(d) \/ Kill(d)
        \/ \E c \in Clients : Ping(c) \/ Query(c) \/ \E d \in Daemons : LazyStart(c, d)

Spec == Init /\ [][Next]_vars

\* Processes are scheduled; a client keeps polling (its 5 s are long enough).
FairSpec == /\ Spec
            /\ \A d \in Daemons : WF_vars(Run(d))
            /\ \A c \in Clients : WF_vars(Ping(c)) /\ WF_vars(Query(c))

-----------------------------------------------------------------------------
(* Properties.                                                             *)

(* The single-instance lock: at most one daemon is past acquire_lock.       *)
OneDaemon == \A d, e \in Daemons :
  dpc[d] \in Locked /\ dpc[e] \in Locked => d = e

(* "the new instance already holds the single-instance flock, so the old    *)
(* socket is dead": no bind and no cleanup ever removes the socket of       *)
(* another daemon that still serves, so a serving daemon can be reached.    *)
ServingIsReachable == \A d \in Daemons : dpc[d] \in Serving => sock = d

(* The daemon that `status` reaches is the one that holds the lock, even if *)
(* several are started at once.                                             *)
AnswerIsHolder ==
  [][\A c \in Clients : peer'[c] # peer[c] => peer'[c] = lock]_vars

(* "status lazy-starts the daemon": a status that found nobody and started a *)
(* daemon gets to talk to one, whoever else starts daemons at that moment, unless   *)
(* a daemon is killed or told to stop.                                      *)
LazyStartWorks == \A c \in Clients :
  cpc[c] = "waiting" ~> cpc[c] \in {"query", "answered"} \/ kills > 0 \/ termed # {}
=============================================================================
