--------------------------- MODULE LifecycleProofs ----------------------------
(***************************************************************************)
(* One daemon at a time, and its socket is its own: for any number of      *)
(* processes, crashes and signals.                                         *)
(***************************************************************************)
EXTENDS Lifecycle, TLAPS

\* The lock is held exactly by the daemon that is past acquire_lock.
LockOK == \A d \in Daemons : dpc[d] \in Locked <=> lock = d

Inv == TypeOK /\ LockOK /\ ServingIsReachable

LEMMA InitInv == Init => Inv
BY NamesAssumption
   DEF Init, Inv, TypeOK, LockOK, ServingIsReachable, Stages, Locked, Serving

\* A step of one daemon leaves the others where they are.
LEMMA StepMoves ==
  ASSUME TypeOK, NEW d \in Daemons, NEW from, NEW to \in Stages, Step(d, from, to)
  PROVE  /\ dpc[d] = from /\ dpc'[d] = to
         /\ \A e \in Daemons \ {d} : dpc'[e] = dpc[e]
         /\ dpc' \in [Daemons -> Stages]
BY DEF Step, TypeOK

LEMMA NextType == TypeOK /\ [Next]_vars => TypeOK'
<1> SUFFICES ASSUME TypeOK, [Next]_vars PROVE TypeOK'
  OBVIOUS
<1> USE DEF TypeOK
<1>1. ASSUME NEW d \in Daemons, Launch(d) \/ Run(d) \/ Handle(d) PROVE TypeOK'
  BY <1>1 DEF Launch, Run, Handle, AcquireLock, Unlink, Bind, Select, Cleanup, Exit,
              Drop, Step, Stages, Locked, Serving
<1>2. ASSUME NEW d \in Daemons, Terminate(d) PROVE TypeOK'
  BY <1>2 DEF Terminate, Drop, Step, Stages, Locked, Serving
<1>3. ASSUME NEW d \in Daemons, Kill(d) PROVE TypeOK'
  BY <1>3 DEF Kill, Drop, Stages
<1>4. ASSUME NEW c \in Clients, Ping(c) \/ Query(c) PROVE TypeOK'
  BY <1>4 DEF Ping, Query, Listener
<1>5. ASSUME NEW c \in Clients, NEW d \in Daemons, LazyStart(c, d) PROVE TypeOK'
  BY <1>5 DEF LazyStart, Step, Stages
<1>6. CASE UNCHANGED vars
  BY <1>6 DEF vars
<1> QED
  BY <1>1, <1>2, <1>3, <1>4, <1>5, <1>6 DEF Next

(* Every variable keeps its type.                                          *)
THEOREM TypeCorrect == Spec => []TypeOK
<1>1. Init => TypeOK
  BY InitInv DEF Inv
<1> QED
  BY <1>1, NextType, PTL DEF Spec

LEMMA NextInv == Inv /\ [Next]_vars => Inv'
<1> SUFFICES ASSUME Inv, [Next]_vars PROVE LockOK' /\ ServingIsReachable'
  BY NextType DEF Inv
<1> USE NamesAssumption DEF Inv, TypeOK, LockOK, ServingIsReachable, Locked, Serving
<1>1. ASSUME NEW d \in Daemons, Launch(d) PROVE LockOK' /\ ServingIsReachable'
  BY <1>1 DEF Launch, Step
<1>2. ASSUME NEW d \in Daemons, AcquireLock(d) PROVE LockOK' /\ ServingIsReachable'
  BY <1>2 DEF AcquireLock, Step
<1>3. ASSUME NEW d \in Daemons, Unlink(d) \/ Cleanup(d)
      PROVE  LockOK' /\ ServingIsReachable'
  <2>1. lock = d /\ dpc'[d] \in {"unlinked", "closed"} /\ UNCHANGED lock
        /\ \A e \in Daemons \ {d} : dpc'[e] = dpc[e]
    BY <1>3 DEF Unlink, Cleanup, Step
  <2>2. \A e \in Daemons \ {d} : dpc[e] \notin Serving
    BY <2>1
  <2> QED
    BY <2>1, <2>2
<1>4. ASSUME NEW d \in Daemons, Bind(d) PROVE LockOK' /\ ServingIsReachable'
  BY <1>4 DEF Bind, Step, Drop
<1>5. ASSUME NEW d \in Daemons, Select(d) \/ Handle(d)
      PROVE  LockOK' /\ ServingIsReachable'
  BY <1>5 DEF Select, Handle, Step
<1>6. ASSUME NEW d \in Daemons, Exit(d) PROVE LockOK' /\ ServingIsReachable'
  BY <1>6 DEF Exit, Step, Drop
<1>7. ASSUME NEW d \in Daemons, Terminate(d) PROVE LockOK' /\ ServingIsReachable'
  <2>1. CASE \E s \in {"boot", "locked", "unlinked", "startup"} :
               Step(d, s, "exited") /\ Drop(d) /\ UNCHANGED sock
    BY <2>1 DEF Step, Drop
  <2>2. CASE /\ Step(d, "select", "stopping") \/ Step(d, "handler", "handler")
             /\ UNCHANGED <<lock, sock>>
    BY <2>2 DEF Step
  <2> QED
    BY <1>7, <2>1, <2>2 DEF Terminate
<1>8. ASSUME NEW d \in Daemons, Kill(d) PROVE LockOK' /\ ServingIsReachable'
  BY <1>8 DEF Kill, Drop
<1>9. ASSUME NEW c \in Clients, Ping(c) \/ Query(c) PROVE LockOK' /\ ServingIsReachable'
  BY <1>9 DEF Ping, Query
<1>10. ASSUME NEW c \in Clients, NEW d \in Daemons, LazyStart(c, d)
       PROVE  LockOK' /\ ServingIsReachable'
  BY <1>10 DEF LazyStart, Step
<1>11. CASE UNCHANGED vars
  BY <1>11 DEF vars
<1> QED
  BY <1>1, <1>2, <1>3, <1>4, <1>5, <1>6, <1>7, <1>8, <1>9, <1>10, <1>11 DEF Next, Run

LEMMA Invariant == Spec => []Inv
BY InitInv, NextInv, PTL DEF Spec

(* At most one daemon is past acquire_lock.                                *)
THEOREM SingleInstance == Spec => []OneDaemon
<1>1. Inv => OneDaemon
  BY NamesAssumption DEF Inv, LockOK, OneDaemon
<1> QED
  BY <1>1, Invariant, PTL

(* No bind and no cleanup removes the socket of a daemon that still serves. *)
THEOREM SocketIsOwn == Spec => []ServingIsReachable
<1>1. Inv => ServingIsReachable
  BY DEF Inv
<1> QED
  BY <1>1, Invariant, PTL

(* A ping is answered by the holder of the lock.                           *)
THEOREM PeerIsHolder == Spec => AnswerIsHolder
<1> DEFINE Answer == \A c \in Clients : peer'[c] # peer[c] => peer'[c] = lock
<1>1. ASSUME Inv, [Next]_vars PROVE Answer \/ UNCHANGED vars
  <2>1. ASSUME NEW c \in Clients, Ping(c) PROVE Answer
    <3>1. Listener = lock
      <4>1. Listener # None
        BY <2>1 DEF Ping
      <4>2. sock \in Daemons /\ dpc[sock] \in Serving /\ Listener = sock
        BY <4>1 DEF Listener
      <4>3. dpc[sock] \in Locked
        BY <4>2 DEF Locked
      <4> QED
        BY <4>2, <4>3, <1>1 DEF Inv, LockOK
    <3> QED
      BY <2>1, <3>1 DEF Ping, Inv, TypeOK
  <2>2. UNCHANGED peer => Answer
    OBVIOUS
  <2>3. ASSUME NEW d \in Daemons, Launch(d) \/ Run(d) \/ Handle(d) \/ Terminate(d) \/ Kill(d)
        PROVE  UNCHANGED peer
    BY <2>3 DEF Launch, Run, AcquireLock, Unlink, Bind, Select, Cleanup, Exit, Handle,
                Terminate, Kill
  <2>4. ASSUME NEW c \in Clients, Query(c) \/ \E d \in Daemons : LazyStart(c, d)
        PROVE  UNCHANGED peer
    BY <2>4 DEF Query, LazyStart
  <2> QED
    BY <1>1, <2>1, <2>2, <2>3, <2>4 DEF Next
<1>2. Inv /\ [Next]_vars => [Answer]_vars
  BY <1>1
<1>3. Spec => [][Answer]_vars
  BY <1>2, Invariant, PTL DEF Spec
<1> QED
  BY <1>3 DEF AnswerIsHolder
=============================================================================
