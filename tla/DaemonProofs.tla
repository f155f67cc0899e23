----------------------------- MODULE DaemonProofs -----------------------------
(***************************************************************************)
(* What holds of the daemon for every set of projects, every channel       *)
(* capacity and every bound.                                               *)
(***************************************************************************)
EXTENDS Daemon, TLAPS

\* The worker has a job exactly while it works, and only takes a captured
\* substrate to the model.
WorkerOK == /\ wpc = "idle" <=> job = None
            /\ wpc = "llm" => fp # 0

(***************************************************************************)
(* Type correctness, action by action.                                     *)
(***************************************************************************)
LEMMA SpendType ==
  ASSUME spent \in [Budgets -> Nat], NEW b, Spend(b)
  PROVE  spent' \in [Budgets -> Nat]
<1>1. CASE b \in Budgets
  BY <1>1 DEF Spend
<1>2. CASE b \notin Budgets
  BY <1>2 DEF Spend
<1> QED
  BY <1>1, <1>2

LEMMA InitType == Init => TypeOK
<1> SUFFICES ASSUME Init PROVE TypeOK
  OBVIOUS
<1>1. queue \in Seq(Projects)
  BY DEF Init
<1>2. sub \in [Projects -> 0 .. MaxVersion]
  BY BoundAssumption DEF Init
<1>3. cursor \in [Projects -> 1 .. MaxVersion \cup {NoCursor}]
  BY DEF Init
<1>4. fp \in 0 .. MaxVersion
  BY BoundAssumption DEF Init
<1>5. spent \in [Budgets -> Nat]
  BY DEF Init
<1> QED
  BY <1>1, <1>2, <1>3, <1>4, <1>5 DEF Init, TypeOK, Handlers, Stages

LEMMA NextType == TypeOK /\ WorkerOK /\ [Next]_vars => TypeOK'
<1> SUFFICES ASSUME TypeOK, WorkerOK, [Next]_vars PROVE TypeOK'
  OBVIOUS
<1>0. MaxVersion \in Nat
  BY BoundAssumption
<1> USE <1>0, SpendType DEF disk, events, loopVars, jobs, worker
<1>1. CASE Start
  BY <1>1 DEF Start, TypeOK, Handlers
<1>2. CASE Exit
  <2>1. spent' \in [Budgets -> Nat]
    BY <1>2 DEF Exit, TypeOK
  <2>2. queue' \in Seq(Projects)
    BY <1>2 DEF Exit
  <2>3. fp' \in 0 .. MaxVersion /\ reloads' \in Nat
    BY <1>2 DEF Exit
  <2>4. UNCHANGED <<registry, cursor, sub, owed>>
    BY <1>2 DEF Exit
  <2> QED
    BY <1>2, <2>1, <2>2, <2>3, <2>4 DEF Exit, TypeOK, Handlers, Stages
<1>3. ASSUME NEW p \in Projects, DevChange(p) PROVE TypeOK'
  BY <1>3 DEF DevChange, TypeOK
<1>4. ASSUME NEW p \in Projects, Touch(p) PROVE TypeOK'
  BY <1>4 DEF Touch, TypeOK
<1>5. ASSUME NEW p \in Projects, SessionWrite(p) PROVE TypeOK'
  BY <1>5 DEF SessionWrite, TypeOK
<1>6. ASSUME NEW p \in Projects, LoseEvent(p) PROVE TypeOK'
  BY <1>6 DEF LoseEvent, TypeOK
<1>7. ASSUME NEW p \in Projects, Add(p) PROVE TypeOK'
  BY <1>7 DEF Add, TypeOK
<1>8. ASSUME NEW p \in Projects, Remove(p) PROVE TypeOK'
  BY <1>8 DEF Remove, TypeOK
<1>9. CASE Arm
  <2>1. CASE FsBatch
    BY <2>1 DEF FsBatch, TypeOK, Handlers
  <2>2. CASE SessBatch
    BY <2>2 DEF SessBatch, TypeOK
  <2>3. CASE SessWake
    BY <2>3 DEF SessWake, TypeOK, Handlers
  <2>4. CASE Tick \/ Reload
    BY <2>4 DEF Tick, Reload, TypeOK, Handlers
  <2> QED
    BY <1>9, <2>1, <2>2, <2>3, <2>4 DEF Arm
<1>10. ASSUME NEW p \in Projects, EventItem(p) PROVE TypeOK'
  BY <1>10 DEF EventItem, Visiting, Enqueue, TypeOK
<1>11. ASSUME NEW p \in Projects, SweepItem(p) PROVE TypeOK'
  BY <1>11 DEF SweepItem, Visiting, Watch, Enqueue, TypeOK
<1>12. ASSUME NEW p \in Projects, ReloadItem(p) PROVE TypeOK'
  BY <1>12 DEF ReloadItem, Visiting, Watch, Enqueue, TypeOK
<1>13. CASE Send
  BY <1>13 DEF Send, TypeOK
<1>14. CASE Finish
  BY <1>14 DEF Finish, TypeOK, Handlers
<1>15. CASE Recv
  <2>1. Head(queue) \in Projects /\ Tail(queue) \in Seq(Projects)
    BY <1>15 DEF Recv, TypeOK
  <2> QED
    BY <1>15, <2>1 DEF Recv, TypeOK, Stages
<1>16. CASE Clear
  BY <1>16 DEF Clear, TypeOK, Stages
<1>17. CASE Capture
  BY <1>17 DEF Capture, TypeOK, WorkerOK, Stages
<1>18. CASE Gate
  BY <1>18 DEF Gate, JobOver, TypeOK, Stages
<1>19. CASE Distill
  BY <1>19 DEF Distill, JobOver, TypeOK, Stages, WorkerOK
<1>20. CASE Fail
  BY <1>20 DEF Fail, JobOver, TypeOK, WorkerOK, Stages
<1>21. CASE UNCHANGED vars
  BY <1>21 DEF vars, TypeOK
<1> QED
  BY <1>1, <1>2, <1>3, <1>4, <1>5, <1>6, <1>7, <1>8, <1>9, <1>10, <1>11, <1>12,
     <1>13, <1>14, <1>15, <1>16, <1>17, <1>18, <1>19, <1>20, <1>21
     DEF Next, World, Item, Work

LEMMA NextWorker == TypeOK /\ WorkerOK /\ [Next]_vars => WorkerOK'
<1> SUFFICES ASSUME TypeOK, WorkerOK, [Next]_vars PROVE WorkerOK'
  OBVIOUS
<1> USE NoneAssumption DEF worker, WorkerOK
<1>1. CASE Recv
  <2>1. Head(queue) \in Projects
    BY <1>1 DEF Recv, TypeOK
  <2> QED
    BY <1>1, <2>1 DEF Recv
<1>2. CASE Clear \/ Capture
  BY <1>2 DEF Clear, Capture
<1>3. CASE Gate
  BY <1>3 DEF Gate, JobOver, Skippable
<1>4. CASE Distill \/ Fail
  BY <1>4 DEF Distill, Fail, JobOver
<1>5. CASE Exit
  BY <1>5 DEF Exit
<1>6. ASSUME UNCHANGED worker PROVE WorkerOK'
  BY <1>6
<1>7. ASSUME Start \/ World \/ Arm \/ Item \/ Send \/ Finish \/ UNCHANGED vars
      PROVE UNCHANGED worker
  BY <1>7 DEF Start, World, DevChange, Touch, SessionWrite, LoseEvent, Add, Remove,
              Arm, FsBatch, SessBatch, SessWake, Tick, Reload, Item, EventItem,
              SweepItem, ReloadItem, Send, Finish, vars
<1> QED
  BY <1>1, <1>2, <1>3, <1>4, <1>5, <1>6, <1>7 DEF Next, Work

(* Every variable of the daemon keeps its type. *)
THEOREM TypeCorrect == Spec => []TypeOK
<1>1. Init => TypeOK /\ WorkerOK
  BY InitType DEF Init, WorkerOK
<1> QED
  BY <1>1, NextType, NextWorker, PTL DEF Spec

-----------------------------------------------------------------------------
(***************************************************************************)
(* The job channel: what sending and receiving do to the set of queued     *)
(* projects and to their being distinct.                                   *)
(***************************************************************************)
Distinct(q) == \A i, j \in DOMAIN q : q[i] = q[j] => i = j
Members(q)  == {q[i] : i \in DOMAIN q}

LEMMA AppendMembers ==
  ASSUME NEW S, NEW q \in Seq(S), NEW x \in S, Distinct(q), x \notin Members(q)
  PROVE  /\ Members(Append(q, x)) = Members(q) \cup {x}
         /\ Distinct(Append(q, x))
<1> DEFINE r == Append(q, x)
<1>1. /\ DOMAIN q = 1 .. Len(q) /\ DOMAIN r = 1 .. Len(q) + 1
      /\ Len(q) \in Nat
      /\ r[Len(q) + 1] = x
      /\ \A i \in 1 .. Len(q) : r[i] = q[i]
  OBVIOUS
<1>2. Members(r) = Members(q) \cup {x}
  <2>1. ASSUME NEW y \in Members(r) PROVE y \in Members(q) \cup {x}
    <3>1. PICK i \in 1 .. Len(q) + 1 : y = r[i]
      BY <1>1 DEF Members
    <3>2. CASE i = Len(q) + 1
      BY <3>1, <3>2, <1>1
    <3>3. CASE i \in 1 .. Len(q)
      BY <3>1, <3>3, <1>1 DEF Members
    <3> QED
      BY <3>2, <3>3, <1>1
  <2>2. ASSUME NEW y \in Members(q) PROVE y \in Members(r)
    <3>1. PICK i \in 1 .. Len(q) : y = q[i]
      BY <1>1 DEF Members
    <3>2. i \in 1 .. Len(q) + 1 /\ y = r[i]
      BY <3>1, <1>1
    <3> QED
      BY <3>2, <1>1 DEF Members
  <2>3. x \in Members(r)
    <3>1. Len(q) + 1 \in 1 .. Len(q) + 1
      BY <1>1
    <3> QED
      BY <3>1, <1>1 DEF Members
  <2> QED
    BY <2>1, <2>2, <2>3
<1>3. Distinct(r)
  <2> SUFFICES ASSUME NEW i \in 1 .. Len(q) + 1, NEW j \in 1 .. Len(q) + 1, r[i] = r[j]
               PROVE  i = j
    BY <1>1 DEF Distinct
  <2>1. CASE i \in 1 .. Len(q) /\ j \in 1 .. Len(q)
    BY <2>1, <1>1 DEF Distinct
  <2>2. ASSUME NEW k \in 1 .. Len(q) PROVE r[k] # x
    BY <2>2, <1>1 DEF Members
  <2> QED
    BY <2>1, <2>2, <1>1
<1> QED
  BY <1>2, <1>3

LEMMA TailMembers ==
  ASSUME NEW S, NEW q \in Seq(S), q # << >>, Distinct(q)
  PROVE  /\ Members(q) = Members(Tail(q)) \cup {Head(q)}
         /\ Head(q) \notin Members(Tail(q))
         /\ Distinct(Tail(q))
<1> DEFINE r == Tail(q)
<1>1. /\ DOMAIN q = 1 .. Len(q) /\ DOMAIN r = 1 .. Len(q) - 1
      /\ Len(q) \in Nat \ {0}
      /\ Head(q) = q[1]
      /\ \A i \in 1 .. Len(q) - 1 : r[i] = q[i + 1]
  OBVIOUS
<1>2. ASSUME NEW y \in Members(q) PROVE y \in Members(r) \cup {Head(q)}
  <2>1. PICK i \in 1 .. Len(q) : y = q[i]
    BY <1>1 DEF Members
  <2>2. CASE i = 1
    BY <2>1, <2>2, <1>1
  <2>3. CASE i # 1
    <3>1. i - 1 \in 1 .. Len(q) - 1 /\ r[i - 1] = y
      BY <2>1, <2>3, <1>1
    <3> QED
      BY <3>1, <1>1 DEF Members
  <2> QED
    BY <2>2, <2>3
<1>3. ASSUME NEW y \in Members(r) PROVE y \in Members(q) /\ y # Head(q)
  <2>1. PICK i \in 1 .. Len(q) - 1 : y = r[i]
    BY <1>1 DEF Members
  <2>2. i + 1 \in 1 .. Len(q) /\ y = q[i + 1] /\ i + 1 # 1
    BY <2>1, <1>1
  <2>3. 1 \in 1 .. Len(q)
    BY <1>1
  <2> QED
    BY <2>2, <2>3, <1>1 DEF Members, Distinct
<1>4. Distinct(r)
  <2> SUFFICES ASSUME NEW i \in 1 .. Len(q) - 1, NEW j \in 1 .. Len(q) - 1, r[i] = r[j]
               PROVE  i = j
    BY <1>1 DEF Distinct
  <2>1. i + 1 \in 1 .. Len(q) /\ j + 1 \in 1 .. Len(q) /\ q[i + 1] = q[j + 1]
    BY <1>1
  <2> QED
    BY <2>1, <1>1 DEF Distinct
<1>5. Head(q) \in Members(q)
  BY <1>1 DEF Members
<1> QED
  BY <1>2, <1>3, <1>4, <1>5

(***************************************************************************)
(* One job per pending mark.                                               *)
(***************************************************************************)
Inv1 == TypeOK /\ WorkerOK /\ OneJobPerMark

LEMMA QueuedIsMembers == Queued = Members(queue)
BY DEF Queued, Members

LEMMA NextMark == Inv1 /\ [Next]_vars => OneJobPerMark'
<1> SUFFICES ASSUME Inv1, [Next]_vars PROVE OneJobPerMark'
  OBVIOUS
<1> USE NoneAssumption DEF Inv1
<1>1. CASE Exit
  BY <1>1 DEF Exit, OneJobPerMark, Queued
<1>2. ASSUME NEW p \in Projects, Enqueue(p), sending = None,
             UNCHANGED <<queue, wpc, job>>
      PROVE  OneJobPerMark'
  BY <1>2 DEF Enqueue, OneJobPerMark, Queued, WorkerOK
<1>3. CASE Item
  <2>1. ASSUME NEW p \in Projects, EventItem(p) PROVE OneJobPerMark'
    BY <2>1, <1>2 DEF EventItem, Visiting, worker
  <2>2. ASSUME NEW p \in Projects, SweepItem(p) PROVE OneJobPerMark'
    BY <2>2, <1>2 DEF SweepItem, Visiting, worker
  <2>3. ASSUME NEW p \in Projects, ReloadItem(p) PROVE OneJobPerMark'
    <3>1. UNCHANGED <<queue, wpc, job>> /\ sending = None
      BY <2>3 DEF ReloadItem, Visiting, worker
    <3>2. Enqueue(p) \/ UNCHANGED <<pending, sending>>
      BY <2>3 DEF ReloadItem
    <3>3. CASE UNCHANGED <<pending, sending>>
      BY <3>1, <3>3 DEF OneJobPerMark, Queued
    <3> QED
      BY <3>1, <3>2, <3>3, <1>2
  <2> QED
    BY <1>3, <2>1, <2>2, <2>3 DEF Item
<1>4. CASE Send
  <2>1. sending \in Projects /\ sending \notin Members(queue) /\ Distinct(queue)
    BY <1>4, QueuedIsMembers DEF Send, TypeOK, OneJobPerMark, Distinct
  <2>2. queue' = Append(queue, sending) /\ queue \in Seq(Projects)
    BY <1>4 DEF Send, TypeOK
  <2>3. Members(queue') = Members(queue) \cup {sending} /\ Distinct(queue')
    BY <2>1, <2>2, AppendMembers
  <2>4. Queued' = Queued \cup {sending}
    BY <2>3 DEF Queued, Members
  <2>5. sending' = None /\ UNCHANGED <<pending, wpc, job>>
    BY <1>4 DEF Send, worker
  <2>6. Queued' \subseteq Projects
    BY <2>1, <2>4 DEF OneJobPerMark, TypeOK
  <2> QED
    BY <2>1, <2>3, <2>4, <2>5, <2>6, <1>4 DEF OneJobPerMark, Distinct, Send, WorkerOK
<1>5. CASE Recv
  <2>1. Distinct(queue) /\ queue # << >> /\ queue \in Seq(Projects)
    BY <1>5 DEF Recv, OneJobPerMark, Distinct, TypeOK
  <2>2. /\ Members(queue) = Members(Tail(queue)) \cup {Head(queue)}
        /\ Head(queue) \notin Members(Tail(queue))
        /\ Distinct(Tail(queue))
    BY <2>1, TailMembers
  <2>3. Queued = Queued' \cup {job'} /\ job' \notin Queued' /\ Distinct(queue')
    BY <2>2, <1>5 DEF Recv, Queued, Members
  <2>4. wpc = "idle" /\ wpc' = "received" /\ UNCHANGED <<pending, sending>>
    BY <1>5 DEF Recv, loopVars
  <2> QED
    BY <2>3, <2>4 DEF OneJobPerMark, Distinct
<1>6. CASE Clear
  BY <1>6 DEF Clear, OneJobPerMark, Queued, loopVars, WorkerOK
<1>7. CASE Capture \/ Gate \/ Distill \/ Fail
  BY <1>7 DEF Capture, Gate, Distill, Fail, JobOver, jobs, loopVars, OneJobPerMark, Queued
<1>8. CASE Start \/ World \/ Arm \/ Finish \/ UNCHANGED vars
  <2>1. UNCHANGED <<pending, queue, sending, wpc, job>>
    BY <1>8 DEF Start, World, DevChange, Touch, SessionWrite, LoseEvent, Add, Remove,
                Arm, FsBatch, SessBatch, SessWake, Tick, Reload, Finish, vars, jobs,
                worker, loopVars
  <2> QED
    BY <2>1 DEF OneJobPerMark, Queued
<1> QED
  BY <1>1, <1>3, <1>4, <1>5, <1>6, <1>7, <1>8 DEF Next, Work

LEMMA InitInv1 == Init => Inv1
<1> SUFFICES ASSUME Init PROVE WorkerOK /\ OneJobPerMark
  BY InitType DEF Inv1
<1>1. WorkerOK
  BY DEF Init, WorkerOK
<1>2. Queued = {}
  BY DEF Init, Queued
<1> QED
  BY <1>1, <1>2, NoneAssumption DEF Init, OneJobPerMark

LEMMA NextInv1 == Inv1 /\ [Next]_vars => Inv1'
BY NextType, NextWorker, NextMark DEF Inv1

(* A hash is marked pending exactly while one job for it waits: no wake is  *)
(* dropped by enqueue for a project without a job, none is queued twice.    *)
THEOREM MarksAreJobs == Spec => []OneJobPerMark
<1>1. Inv1 => OneJobPerMark
  BY DEF Inv1
<1> QED
  BY InitInv1, NextInv1, <1>1, PTL DEF Spec

-----------------------------------------------------------------------------
(***************************************************************************)
(* No lost updates.  The invariant is inductive once the loop is known to  *)
(* have nothing left to visit when it waits, and a mark to be a job.       *)
(***************************************************************************)
LoopOK == handler = "idle" => todo = {}

\* Versions only grow and one worker writes the cursor, so neither the cursor
\* nor a captured fingerprint is ahead of the substrate, and a distillation in
\* progress is newer than the recorded one.
OrderOK ==
  /\ \A p \in Projects : cursor[p] # NoCursor => p \in registry /\ cursor[p] <= sub[p]
  /\ wpc \in {"gate", "llm"} =>
       /\ fp <= sub[job]
       /\ cursor[job] # NoCursor => cursor[job] <= fp
  /\ wpc = "llm" /\ job \in registry => cursor[job] # fp

Inv2 == Inv1 /\ LoopOK /\ OrderOK /\ NoLostUpdate

LEMMA NextLoop == Inv2 /\ [Next]_vars => LoopOK'
<1> SUFFICES ASSUME Inv2, [Next]_vars PROVE LoopOK'
  OBVIOUS
<1> USE DEF Inv2, LoopOK
<1>1. CASE Start
  BY <1>1 DEF Start
<1>2. CASE Exit
  BY <1>2 DEF Exit
<1>3. CASE Arm
  BY <1>3 DEF Arm, FsBatch, SessBatch, SessWake, Tick, Reload
<1>4. CASE Item
  BY <1>4 DEF Item, EventItem, SweepItem, ReloadItem, Visiting
<1>5. CASE Finish \/ Send
  BY <1>5 DEF Finish, Send
<1>6. CASE World \/ Work \/ Fail \/ UNCHANGED vars
  <2>1. UNCHANGED loopVars
    BY <1>6 DEF World, DevChange, Touch, SessionWrite, LoseEvent, Add, Remove,
                Work, Recv, Clear, Capture, Gate, Distill, Fail, vars, loopVars
  <2> QED
    BY <2>1 DEF loopVars
<1> QED
  BY <1>1, <1>2, <1>3, <1>4, <1>5, <1>6 DEF Next

LEMMA NextOrder == Inv2 /\ [Next]_vars => OrderOK'
<1> SUFFICES ASSUME Inv2, [Next]_vars PROVE OrderOK'
  OBVIOUS
<1> USE CursorAssumption, NoneAssumption DEF Inv2, Inv1
<1>0. /\ registry \in SUBSET Projects /\ fp \in Nat
      /\ \A p \in Projects : sub[p] \in Nat /\ (cursor[p] # NoCursor => cursor[p] \in Nat)
      /\ wpc # "idle" => job \in Projects
      /\ sub \in [Projects -> 0 .. MaxVersion]
      /\ cursor \in [Projects -> 1 .. MaxVersion \cup {NoCursor}]
  BY BoundAssumption DEF TypeOK, WorkerOK
<1>1. ASSUME NEW c \in Projects, DevChange(c) \/ SessionWrite(c) PROVE OrderOK'
  <2>1. sub' = [sub EXCEPT ![c] = @ + 1] /\ UNCHANGED <<registry, cursor, worker>>
    BY <1>1 DEF DevChange, SessionWrite
  <2>2. \A p \in Projects : sub'[p] \in Nat /\ sub[p] <= sub'[p]
    BY <2>1, <1>0
  <2> QED
    BY <2>1, <2>2, <1>0 DEF OrderOK, worker
<1>2. ASSUME NEW c \in Projects, Add(c) PROVE OrderOK'
  <2>1. registry' = registry \cup {c} /\ UNCHANGED <<cursor, sub, worker>>
    BY <1>2 DEF Add
  <2> QED
    BY <2>1, <1>0 DEF OrderOK, worker
<1>3. ASSUME NEW c \in Projects, Remove(c) PROVE OrderOK'
  <2>1. /\ registry' = registry \ {c} /\ cursor' = [cursor EXCEPT ![c] = NoCursor]
        /\ UNCHANGED <<sub, worker>>
    BY <1>3 DEF Remove
  <2>2. \A p \in Projects : cursor'[p] = IF p = c THEN NoCursor ELSE cursor[p]
    BY <2>1, <1>0
  <2> QED
    BY <2>1, <2>2, <1>0 DEF OrderOK, worker
<1>4. CASE Capture
  BY <1>4, <1>0 DEF Capture, OrderOK, disk
<1>5. CASE Gate
  BY <1>5, <1>0 DEF Gate, JobOver, Skippable, OrderOK, disk
<1>6. CASE Distill
  <2>1. wpc = "llm" /\ wpc' = "idle" /\ sub' = sub /\ job \in Projects
    BY <1>6, <1>0 DEF Distill, JobOver
  <2>2. /\ registry' = registry
        /\ \A p \in Projects : \/ cursor'[p] = cursor[p]
                               \/ p = job /\ cursor'[p] = fp /\ job \in registry
    BY <1>6, <2>1, <1>0 DEF Distill
  <2> QED
    BY <2>1, <2>2, <1>0 DEF OrderOK
<1>7. CASE Fail \/ Exit
  BY <1>7 DEF Fail, Exit, JobOver, OrderOK, disk
<1>8. CASE Recv \/ Clear
  BY <1>8 DEF Recv, Clear, OrderOK, disk
<1>9. CASE Start \/ Arm \/ Item \/ Send \/ Finish \/ UNCHANGED vars
  <2>1. UNCHANGED <<registry, cursor, sub, wpc, job, fp>>
    BY <1>9 DEF Start, Arm, FsBatch, SessBatch, SessWake, Tick, Reload, Item, EventItem,
                SweepItem, ReloadItem, Send, Finish, vars, disk, worker
  <2> QED
    BY <2>1 DEF OrderOK
<1>10. ASSUME NEW c \in Projects, Touch(c) \/ LoseEvent(c) PROVE OrderOK'
  BY <1>10 DEF Touch, LoseEvent, disk, worker, OrderOK
<1> QED
  BY <1>1, <1>2, <1>3, <1>4, <1>5, <1>6, <1>7, <1>8, <1>9, <1>10 DEF Next, World, Work

\* A project that enqueue has visited is one something will look at.
LEMMA EnqueueWakes ==
  ASSUME OneJobPerMark', NEW p \in Projects, Enqueue(p)
  PROVE  Wakeable(p)'
BY DEF OneJobPerMark, Wakeable, Enqueue

LEMMA NextLost == Inv2 /\ [Next]_vars => NoLostUpdate'
<1> SUFFICES ASSUME Inv2, [Next]_vars, up',
                    NEW p \in registry', Stale(p)'
             PROVE  Wakeable(p)' \/ p \in owed'
  BY DEF NoLostUpdate
<1> USE DEF Inv2
<1>0. Inv1' /\ OneJobPerMark'
  BY NextInv1 DEF Inv1
<1>p. p \in Projects /\ None \notin Projects
  BY <1>0, NoneAssumption DEF Inv1, TypeOK
<1>q. queue' = queue => Queued' = Queued
  BY DEF Queued
<1>1. CASE Start
  BY <1>1 DEF Start, Wakeable, disk
<1>2. CASE Exit
  BY <1>2 DEF Exit
<1> SUFFICES ASSUME ~Start, ~Exit
             PROVE  Wakeable(p)' \/ p \in owed'
  BY <1>1, <1>2
<1>3. up
  BY DEF Next, World, DevChange, Touch, SessionWrite, LoseEvent, Add, Remove, Arm,
         FsBatch, SessBatch, SessWake, Tick, Reload, Item, EventItem, SweepItem,
         ReloadItem, Send, Finish, Work, Recv, Clear, Capture, Gate, Distill, Fail, vars
<1>4. p \in registry /\ Stale(p) => Wakeable(p) \/ p \in owed
  BY <1>3 DEF NoLostUpdate
<1>5. ASSUME NEW c \in Projects, DevChange(c)
      PROVE  Wakeable(p)' \/ p \in owed'
  <2>1. p = c => Wakeable(p)' \/ p \in owed'
    BY <1>5 DEF DevChange, Wakeable
  <2>2. p # c => sub'[p] = sub[p] /\ p \in registry /\ Stale(p)
    BY <1>5, <1>p DEF DevChange, Stale, Inv1, TypeOK
  <2>3. Wakeable(p) /\ p # c => Wakeable(p)'
    BY <1>5, <1>q, <2>2 DEF DevChange, Wakeable, loopVars, jobs, worker
  <2>4. owed \subseteq owed'
    BY <1>5 DEF DevChange
  <2> QED
    BY <1>4, <2>1, <2>2, <2>3, <2>4
<1>6. ASSUME NEW c \in Projects, SessionWrite(c)
      PROVE  Wakeable(p)' \/ p \in owed'
  <2>1. p = c => Wakeable(p)' \/ p \in owed'
    BY <1>6 DEF SessionWrite, Wakeable
  <2>2. p # c => sub'[p] = sub[p] /\ p \in registry /\ Stale(p)
    BY <1>6, <1>p DEF SessionWrite, Stale, Inv1, TypeOK
  <2>3. Wakeable(p) /\ p # c => Wakeable(p)'
    BY <1>6, <1>q, <2>2 DEF SessionWrite, Wakeable, loopVars, jobs, worker
  <2>4. owed \subseteq owed'
    BY <1>6 DEF SessionWrite
  <2> QED
    BY <1>4, <2>1, <2>2, <2>3, <2>4
<1>7. ASSUME NEW c \in Projects, Touch(c) \/ LoseEvent(c)
      PROVE  Wakeable(p)' \/ p \in owed'
  <2>1. p \in registry /\ Stale(p)
    BY <1>7 DEF Touch, LoseEvent, disk, Stale
  <2>2. Wakeable(p) => Wakeable(p)' \/ p \in owed'
    BY <1>7, <1>q DEF Touch, LoseEvent, disk, Wakeable, loopVars, jobs, worker
  <2>3. owed \subseteq owed'
    BY <1>7 DEF Touch, LoseEvent
  <2> QED
    BY <1>4, <2>1, <2>2, <2>3
<1>8. ASSUME NEW c \in Projects, Add(c)
      PROVE  Wakeable(p)' \/ p \in owed'
  <2>1. Stale(p) /\ reloads' > 0
    BY <1>8, <1>3 DEF Add, Stale, Inv1, TypeOK
  <2>2. Wakeable(p) => Wakeable(p)'
    BY <1>8, <1>q, <2>1 DEF Add, Wakeable, events, loopVars, jobs, worker
  <2>3. p \notin registry => Wakeable(p)' \/ p \in owed'
    BY <1>8, <2>1 DEF Add, Wakeable, loopVars
  <2>4. owed \subseteq owed'
    BY <1>8 DEF Add
  <2> QED
    BY <1>4, <2>1, <2>2, <2>3, <2>4
<1>9. ASSUME NEW c \in Projects, Remove(c)
      PROVE  Wakeable(p)' \/ p \in owed'
  <2>1. p # c /\ p \in registry /\ Stale(p) /\ reloads' > 0
    BY <1>9, <1>3, <1>p DEF Remove, Stale, Inv1, TypeOK
  <2>2. Wakeable(p) => Wakeable(p)'
    BY <1>9, <1>q, <2>1 DEF Remove, Wakeable, events, loopVars, jobs, worker
  <2> QED
    BY <1>4, <1>9, <2>1, <2>2 DEF Remove
\* From here on the disk stands still, except for what Distill records.
<1>10. CASE Arm
  <2>1. p \in registry /\ Stale(p) /\ todo = {} /\ handler = "idle"
    BY <1>10 DEF Arm, FsBatch, SessBatch, SessWake, Tick, Reload, Selecting, disk,
                 Stale, LoopOK
  <2>2. CASE FsBatch
    BY <2>1, <2>2, <1>4, <1>q DEF FsBatch, Wakeable, jobs, worker, disk
  <2>3. CASE SessBatch
    BY <2>1, <2>3, <1>4, <1>q DEF SessBatch, Wakeable, jobs, worker, disk
  <2>4. CASE SessWake
    BY <2>1, <2>4, <1>4, <1>q DEF SessWake, Wakeable, jobs, worker, events, disk
  <2>5. CASE Tick
    BY <2>1, <2>5 DEF Tick, Wakeable
  <2>6. CASE Reload
    BY <2>1, <2>6, <1>4, <1>q DEF Reload, Wakeable, jobs, worker, events, disk
  <2> QED
    BY <1>10, <2>2, <2>3, <2>4, <2>5, <2>6 DEF Arm
<1>11. CASE Item
  <2>1. PICK c \in Projects : EventItem(c) \/ SweepItem(c) \/ ReloadItem(c)
    BY <1>11 DEF Item
  <2>2. /\ p \in registry /\ Stale(p) /\ owed \subseteq owed'
        /\ sending = None /\ queue' = queue /\ todo' = todo \ {c}
        /\ UNCHANGED <<events, reloads, handler, sessPending, worker, sub>>
    BY <2>1 DEF EventItem, SweepItem, ReloadItem, Visiting, disk, Stale
  <2>3. watched \subseteq watched' /\ watched' \subseteq watched \cup {c}
    BY <2>1 DEF EventItem, SweepItem, ReloadItem, Watch
  <2>4. p # c /\ Wakeable(p) => Wakeable(p)'
    BY <2>2, <2>3, <1>q, <1>p DEF Wakeable, events, worker
  <2>5. CASE p = c
    <3>1. CASE Enqueue(c)
      BY <3>1, <2>5, <1>0, EnqueueWakes
    <3>2. CASE ~Enqueue(c)
      <4>1. ReloadItem(c)
        BY <3>2, <2>1 DEF EventItem, SweepItem
      <4>2. c \in owed' \/ (handler = "reload" /\ watched' = watched /\ c \in watched)
        BY <3>2, <4>1 DEF ReloadItem, Visiting
      <4>3. CASE handler = "reload" /\ watched' = watched /\ c \in watched
        BY <4>3, <2>2, <2>5, <1>4, <1>q, <1>p DEF Wakeable, events, worker
      <4> QED
        BY <4>2, <4>3, <2>5
    <3> QED
      BY <3>1, <3>2
  <2> QED
    BY <2>2, <2>4, <2>5, <1>4
<1>12. CASE Send
  <2>1. p \in registry /\ Stale(p) /\ queue \in Seq(Projects) /\ sending \in Projects
    BY <1>12 DEF Send, disk, Stale, Inv1, TypeOK
  <2>2. sending \notin Members(queue) /\ Distinct(queue)
    BY <1>12, QueuedIsMembers DEF Send, Inv1, OneJobPerMark, Distinct
  <2>3. Queued' = Queued \cup {sending}
    BY <2>1, <2>2, <1>12, AppendMembers DEF Send, Queued, Members
  <2>4. UNCHANGED <<fsEvents, sessEvents, reloads, handler, todo, watched, sessPending,
                    sub, wpc, job, fp, owed>>
    BY <1>12 DEF Send, disk, events, worker
  <2>5. Wakeable(p) => Wakeable(p)'
    BY <2>3, <2>4 DEF Wakeable
  <2> QED
    BY <2>1, <2>4, <2>5, <1>4
<1>13. CASE Finish
  BY <1>13, <1>4, <1>q DEF Finish, Wakeable, disk, Stale, events, jobs, worker
<1>14. CASE Recv
  <2>1. p \in registry /\ Stale(p) /\ job = None /\ owed' = owed
    BY <1>14 DEF Recv, disk, Stale, Inv1, WorkerOK
  <2>2. Distinct(queue) /\ queue # << >> /\ queue \in Seq(Projects)
    BY <1>14 DEF Recv, Inv1, OneJobPerMark, Distinct, TypeOK
  <2>3. Queued = Queued' \cup {job'}
    BY <2>2, <1>14, TailMembers DEF Recv, Queued, Members
  <2>4. Wakeable(p) => Wakeable(p)'
    BY <2>1, <2>3, <1>14, <1>p DEF Recv, Wakeable, events, loopVars
  <2> QED
    BY <2>1, <2>4, <1>4
<1>15. CASE Clear
  BY <1>15, <1>4, <1>q DEF Clear, Wakeable, disk, Stale, events, loopVars
<1>16. CASE Capture
  BY <1>16, <1>4, <1>q DEF Capture, Wakeable, disk, Stale, events, loopVars, jobs
<1>17. CASE Gate
  <2>1. p \in registry /\ Stale(p) /\ owed' = owed
    BY <1>17 DEF Gate, disk, Stale
  <2>2. p = job /\ fp = sub[p] => ~Skippable
    BY <2>1 DEF Skippable, Stale
  <2>3. Wakeable(p) => Wakeable(p)'
    BY <2>2, <1>17, <1>q DEF Gate, JobOver, Wakeable, disk, events, loopVars, jobs
  <2> QED
    BY <2>1, <2>3, <1>4
<1>18. CASE Distill
  <2>1. p \in registry /\ owed' = owed /\ sub' = sub /\ cursor \in [Projects -> 1 .. MaxVersion \cup {NoCursor}]
    BY <1>18 DEF Distill, Inv1, TypeOK
  <2>2. p = job => cursor'[p] = fp /\ fp # sub[p]
    BY <2>1, <1>18, <1>p DEF Distill, Stale
  <2>3. p # job => cursor'[p] = cursor[p]
    BY <2>1, <1>18, <1>p DEF Distill
  <2>4. wpc = "llm" /\ (p = job => fp # 0)
    BY <1>18 DEF Distill, Inv1, WorkerOK
  <2>5. ASSUME Wakeable(p) PROVE Wakeable(p)'
    BY <2>1, <2>2, <2>4, <2>5, <1>18, <1>q DEF Distill, JobOver, Wakeable, events, loopVars, jobs
  <2>6. CASE p # job
    <3>1. Stale(p)
      BY <2>1, <2>3, <2>6 DEF Stale
    <3> QED
      BY <3>1, <2>1, <2>5, <1>4
  <2>7. CASE p = job /\ Stale(p)
    BY <2>7, <2>1, <2>5, <1>4
  <2>8. CASE p = job /\ ~Stale(p)
    <3>1. cursor[p] = sub[p] /\ cursor[p] # NoCursor /\ cursor[p] # fp
      BY <2>8, <2>1, <2>4, <1>p, CursorAssumption DEF Stale, OrderOK, Inv1, TypeOK
    <3>2. sub[p] <= fp /\ fp <= sub[p]
      BY <3>1, <2>4, <2>8 DEF OrderOK
    <3>3. sub[p] \in Nat /\ fp \in Nat
      BY <1>p, BoundAssumption DEF Inv1, TypeOK
    <3> QED
      BY <3>1, <3>2, <3>3
  <2> QED
    BY <2>6, <2>7, <2>8
<1>19. CASE Fail
  BY <1>19, <1>4, <1>q DEF Fail, JobOver, Wakeable, disk, Stale, events, loopVars, jobs
<1>20. CASE UNCHANGED vars
  BY <1>20, <1>4, <1>q DEF vars, Wakeable, Stale
<1> QED
  BY <1>5, <1>6, <1>7, <1>8, <1>9, <1>10, <1>11, <1>12, <1>13, <1>14, <1>15, <1>16,
     <1>17, <1>18, <1>19, <1>20 DEF Next, World, Work

LEMMA Inv2Always == Spec => []Inv2
<1>1. Init => Inv2
  BY InitInv1 DEF Inv2, Init, LoopOK, OrderOK, NoLostUpdate
<1>2. Inv2 /\ [Next]_vars => Inv2'
  BY NextInv1, NextLoop, NextOrder, NextLost DEF Inv2
<1> QED
  BY <1>1, <1>2, PTL DEF Spec

(* A change of a registered project is never lost silently: it is queued,   *)
(* announced, or one of the listed debts the next sweep pays.               *)
THEOREM NothingLost == Spec => []NoLostUpdate
<1>1. Inv2 => NoLostUpdate
  BY DEF Inv2
<1> QED
  BY Inv2Always, <1>1, PTL

-----------------------------------------------------------------------------
(***************************************************************************)
(* The daemon implements Freshness.  The variables of the promise are      *)
(* variables of the daemon, so the refinement mapping is the identity.     *)
(***************************************************************************)
LEMMA StepKeepsPromise == Inv2 /\ [Next]_vars => [Promise!Next]_(Promise!vars)
<1> SUFFICES ASSUME Inv2, [Next]_vars
             PROVE  Promise!Next \/ UNCHANGED <<registry, sub, cursor>>
  BY DEF Promise!vars
<1> USE DEF Inv2, Inv1
<1>1. ASSUME NEW c \in Projects, DevChange(c) \/ SessionWrite(c) PROVE Promise!Next
  <2>1. Promise!Change(c)
    BY <1>1 DEF DevChange, SessionWrite, Promise!Change
  <2> QED
    BY <2>1 DEF Promise!Next
<1>2. ASSUME NEW c \in Projects, Add(c) PROVE Promise!Next
  <2>1. Promise!Register(c)
    BY <1>2 DEF Add, Promise!Register
  <2> QED
    BY <2>1 DEF Promise!Next
<1>3. ASSUME NEW c \in Projects, Remove(c) PROVE Promise!Next
  <2>1. Promise!Forget(c)
    BY <1>3 DEF Remove, Promise!Forget
  <2> QED
    BY <2>1 DEF Promise!Next
<1>4. CASE Distill
  <2>1. CASE job \notin registry
    BY <1>4, <2>1 DEF Distill
  <2>2. CASE job \in registry
    <3>1. /\ wpc = "llm" /\ job \in Projects /\ fp # 0
          /\ fp \in 0 .. MaxVersion /\ sub[job] \in 0 .. MaxVersion
          /\ cursor[job] \in 1 .. MaxVersion \cup {NoCursor}
      BY <1>4, <2>2 DEF Distill, TypeOK, WorkerOK
    <3>2. fp <= sub[job] /\ (cursor[job] = NoCursor \/ cursor[job] < fp)
      BY <3>1, <2>2, BoundAssumption DEF OrderOK
    <3>3. fp \in 1 .. sub[job]
      BY <3>1, <3>2, BoundAssumption
    <3>4. Promise!Record(job)
      BY <1>4, <2>2, <3>2, <3>3 DEF Distill, Promise!Record
    <3> QED
      BY <3>1, <3>4 DEF Promise!Next
  <2> QED
    BY <2>1, <2>2
<1>5. ASSUME NEW c \in Projects, Touch(c) \/ LoseEvent(c)
      PROVE  UNCHANGED <<registry, sub, cursor>>
  BY <1>5 DEF Touch, LoseEvent, disk
<1>6. CASE Start \/ Exit \/ Arm \/ Item \/ Send \/ Finish \/ Fail \/ UNCHANGED vars
  BY <1>6 DEF Start, Exit, Arm, FsBatch, SessBatch, SessWake, Tick, Reload, Item,
              EventItem, SweepItem, ReloadItem, Send, Finish, Fail, vars, disk
<1>7. CASE Recv \/ Clear \/ Capture \/ Gate
  BY <1>7 DEF Recv, Clear, Capture, Gate, disk
<1> QED
  BY <1>1, <1>2, <1>3, <1>4, <1>5, <1>6, <1>7 DEF Next, World, Work

(* The recorded cursor of a registered project only moves forward and is    *)
(* never ahead of the substrate; only a removal drops it.                   *)
THEOREM DaemonKeepsPromise == Spec => PromiseKept
<1>1. Init => Promise!Init
  BY DEF Init, Promise!Init
<1> QED
  BY <1>1, Inv2Always, StepKeepsPromise, PTL DEF Spec, PromiseKept, Promise!Spec

(***************************************************************************)
(* What `omniproj status` shows.                                           *)
(***************************************************************************)
\* An arm for events watches nothing, so what was published stays the truth
\* while it runs; every other arm publishes what it has left.
StatusInv == /\ handler \in {"idle", "events"} => published = watched
             /\ inFlight = IF wpc \in {"idle", "received"} THEN None ELSE job

LEMMA NextStatus == StatusInv /\ [Next]_vars => StatusInv'
<1> SUFFICES ASSUME StatusInv, [Next]_vars PROVE StatusInv'
  OBVIOUS
<1> USE DEF StatusInv, loopVars, jobs, worker
<1>1. CASE UNCHANGED vars
  BY <1>1 DEF vars
<1>2. CASE Start \/ Exit
  BY <1>2 DEF Start, Exit
<1>3. CASE World
  BY <1>3 DEF World, DevChange, Touch, SessionWrite, LoseEvent, Add, Remove
<1>4. CASE Arm
  BY <1>4 DEF Arm, FsBatch, SessBatch, SessWake, Tick, Reload, Selecting
<1>5. CASE Item
  BY <1>5 DEF Item, EventItem, SweepItem, ReloadItem, Visiting, Watch
<1>6. CASE Send \/ Finish
  BY <1>6 DEF Send, Finish
<1>7. CASE Work
  BY <1>7 DEF Work, Recv, Clear, Capture, Gate, Distill, JobOver
<1>8. CASE Fail
  BY <1>8 DEF Fail, JobOver
<1> QED
  BY <1>1, <1>2, <1>3, <1>4, <1>5, <1>6, <1>7, <1>8 DEF Next

(* Whatever is added, removed, lost or crashed: a waiting loop has published *)
(* what it watches, and the project in flight is the worker's.              *)
THEOREM StatusCorrect == Spec => []StatusIsTrue
<1>1. Init => StatusInv
  BY DEF Init, StatusInv
<1>2. StatusInv => StatusIsTrue
  BY DEF StatusInv, StatusIsTrue, Selecting
<1> QED
  BY <1>1, <1>2, NextStatus, PTL DEF Spec
=============================================================================
