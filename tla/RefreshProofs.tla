----------------------------- MODULE RefreshProofs -----------------------------
(* Proofs about a project's refreshes: whatever the number of transcripts, of *)
(* processes and of turns, what the staleness gate would skip is distilled;   *)
(* and one refresher moves the cursor as module Freshness promises.           *)
EXTENDS Refresh, FiniteSetTheorems, TLAPS

-----------------------------------------------------------------------------
(* The largest of the mtimes.                                                 *)

\* A bounded set of naturals has a largest element: the sets of the numbers
\* above its members are well-founded under inclusion.
LEMMA HasMax == ASSUME NEW N \in Nat, NEW S \in SUBSET (0 .. N), S # {}
                PROVE  \E m \in S : \A n \in S : n <= m
  <1>. DEFINE above(m) == (m + 1) .. N
              T == {above(m) : m \in S}
  <1>1. IsFiniteSet(0 .. N)
    BY FS_Interval
  <1>2. T # {} /\ T \subseteq SUBSET (0 .. N)
    <2>1. \A m \in S : above(m) \in SUBSET (0 .. N)
      OBVIOUS
    <2>. QED  BY <2>1
  <1>3. T \subseteq FiniteSubsetsOf(0 .. N)
    BY <1>1, <1>2, FS_Subset DEF FiniteSubsetsOf
  <1>4. PICK x \in T : \A y \in T : <<y, x>> \notin StrictSubsetOrdering(0 .. N)
    BY <1>2, <1>3, FS_StrictSubsetOrderingWellFounded, WFMin
  <1>5. PICK m \in S : x = above(m)
    OBVIOUS
  <1>6. ASSUME NEW n \in S, n > m PROVE FALSE
    <2>1. above(n) \subseteq above(m) /\ n \in above(m) /\ n \notin above(n)
      BY <1>6
    <2>2. above(n) \in T
      OBVIOUS
    <2>. HIDE DEF above, T
    <2>. QED  BY <1>2, <1>4, <1>5, <2>1, <2>2 DEF StrictSubsetOrdering
  <1>. QED  BY <1>6

\* No transcript is younger than a capture of the substrate as it is.
LEMMA NowIsLatest == ASSUME mtime \in [Transcripts -> Times], NEW t \in Transcripts
                     PROVE  Now.mtime \in Times /\ mtime[t] <= Now.mtime
  <1>. DEFINE last == {mtime[s] : s \in Transcripts}
  <1>1. last \in SUBSET (0 .. MaxTurns) /\ last # {} /\ mtime[t] \in last
    BY DEF Times
  <1>2. \E m \in last : \A n \in last : n <= m
    BY <1>1, HasMax, BoundAssumption
  <1>3. Now.mtime = CHOOSE m \in last : \A n \in last : n <= m
    BY DEF Now
  <1>. HIDE DEF last
  <1>4. Now.mtime \in last /\ \A n \in last : n <= Now.mtime
    BY <1>2, <1>3
  <1>. QED  BY <1>1, <1>4 DEF Times

-----------------------------------------------------------------------------
(* Types.  An adder never enters the capture; who is about to ask for an      *)
(* mtime has read a file.                                                     *)

AdderStages == {"idle", "loaded", "torn", "void"}

StagesOK == /\ \A o \in Refreshers : pc[o] = "stat" => file[o] # None
            /\ \A a \in Adders : pc[a] \in AdderStages

TypeInv == TypeOK /\ StagesOK

LEMMA TypeInit == Init => TypeInv
  <1>. SUFFICES ASSUME Init PROVE TypeInv
    OBVIOUS
  <1>. USE BoundAssumption
  <1>1. 0 \in Times /\ 0 \in Heads /\ NoCapture \in Captures
    BY DEF Times, Heads, Answers, NoCapture, Captures
  <1>2. /\ turns \in [Transcripts -> SUBSET (1 .. MaxTurns)]
        /\ mtime \in [Transcripts -> Times]
        /\ pc \in [Procs -> Stages]
        /\ cap \in [Refreshers -> Captures]
        /\ unread \in [Refreshers -> SUBSET Transcripts]
        /\ file \in [Refreshers -> Transcripts \cup {None}]
        /\ loaded \in [Procs -> Cursors \cup {Missing}]
    BY <1>1 DEF Init, Stages
  <1>3. meta \in Cursors \cup {Missing, Torn}
    BY DEF Init, Cursors
  <1>4. StagesOK
    BY ProcsAssumption DEF Init, StagesOK, AdderStages, Procs
  <1>. QED  BY <1>1, <1>2, <1>3, <1>4 DEF Init, TypeOK, TypeInv

LEMMA ForgetType == ASSUME TypeOK, NEW o \in Procs, Forget(o)
                    PROVE  /\ cap' \in [Refreshers -> Captures]
                           /\ unread' \in [Refreshers -> SUBSET Transcripts]
                           /\ file' \in [Refreshers -> Transcripts \cup {None}]
                           /\ loaded' \in [Procs -> Cursors \cup {Missing}]
  <1>1. NoCapture \in Captures
    BY BoundAssumption DEF NoCapture, Captures, Times, Heads, Answers
  <1>. QED  BY <1>1 DEF Forget, TypeOK, capture

LEMMA TypeWorld == ASSUME TypeInv, World PROVE TypeInv'
  <1>. USE BoundAssumption DEF TypeInv, TypeOK, StagesOK, store, capture
  <1>1. CASE GitChange
    BY <1>1 DEF GitChange, Heads
  <1>2. ASSUME NEW t \in Transcripts, Turn(t) PROVE TypeInv'
    <2>1. clock' \in Times /\ clock' \in 1 .. MaxTurns
      BY <1>2 DEF Turn, Times
    <2>2. /\ turns' \in [Transcripts -> SUBSET (1 .. MaxTurns)]
          /\ mtime' \in [Transcripts -> Times]
          /\ late' \in SUBSET (1 .. MaxTurns)
      BY <1>2, <2>1 DEF Turn
    <2>. QED  BY <1>2, <2>1, <2>2 DEF Turn
  <1>. QED  BY <1>1, <1>2 DEF World

LEMMA TypeRead == ASSUME TypeInv, NEW o \in Refreshers, Read(o) \/ Gate(o) PROVE TypeInv'
  <1>. USE BoundAssumption, ProcsAssumption
       DEF TypeInv, TypeOK, StagesOK, store, capture, substrate, Goto, Procs, AdderStages
  <1>1. CASE ReadHead(o)
    <2>1. cap' \in [Refreshers -> Captures]
      <3>1. PICK h \in {head, NoAnswer} : cap' = [cap EXCEPT ![o].head = h]
        BY <1>1 DEF ReadHead
      <3>2. h \in Answers
        BY DEF Answers
      <3>. QED  BY <3>1, <3>2 DEF Captures
    <2>2. pc' \in [Procs -> Stages] /\ StagesOK'
      BY <1>1 DEF ReadHead, Stages
    <2>3. UNCHANGED <<clock, turns, mtime, head, meta, state, lock, unread, file, loaded,
                      late, crossed>>
      BY <1>1 DEF ReadHead
    <2>. QED  BY <2>1, <2>2, <2>3
  <1>2. CASE ReadLog(o)
    <2>1. cap' \in [Refreshers -> Captures]
      <3>1. PICK l \in {0, head, NoAnswer} : cap' = [cap EXCEPT ![o].log = l]
        BY <1>2 DEF ReadLog
      <3>2. l \in Answers
        BY DEF Answers, Heads
      <3>. QED  BY <3>1, <3>2 DEF Captures
    <2>2. pc' \in [Procs -> Stages] /\ StagesOK'
      BY <1>2 DEF ReadLog, Stages
    <2>3. /\ UNCHANGED <<clock, turns, mtime, head, meta, state, lock, file, loaded, late, crossed>>
          /\ unread' \in [Refreshers -> SUBSET Transcripts]
      BY <1>2 DEF ReadLog
    <2>. QED  BY <2>1, <2>2, <2>3
  <1>3. ASSUME NEW t \in Transcripts, ReadTurns(o, t) PROVE TypeInv'
    <2>1. cap' \in [Refreshers -> Captures]
      BY <1>3 DEF ReadTurns, Captures
    <2>2. pc' \in [Procs -> Stages] /\ StagesOK'
      BY <1>3 DEF ReadTurns, Stages
    <2>3. /\ unread' \in [Refreshers -> SUBSET Transcripts]
          /\ file' \in [Refreshers -> Transcripts \cup {None}]
      BY <1>3 DEF ReadTurns
    <2>4. UNCHANGED <<substrate, store, loaded, late, crossed>>
      BY <1>3 DEF ReadTurns
    <2>. QED  BY <2>1, <2>2, <2>3, <2>4
  <1>4. CASE ReadMtime(o)
    <2>1. PICK m \in Times : cap' = [cap EXCEPT ![o].mtime = m]
      <3>1. mtime[file[o]] \in Times /\ cap[o].mtime \in Times
        BY <1>4 DEF ReadMtime, Captures
      <3>. QED  BY <1>4, <3>1 DEF ReadMtime
    <2>2. cap' \in [Refreshers -> Captures]
      BY <2>1 DEF Captures
    <2>. QED  BY <1>4, <2>2 DEF ReadMtime, Stages
  <1>5. CASE Gate(o)
    <2>1. CASE Wanted(o)
      BY <1>5, <2>1 DEF Gate, Stages
    <2>2. CASE ~Wanted(o)
      <3>1. Forget(o) /\ pc' = [pc EXCEPT ![o] = "idle"]
        BY <1>5, <2>2 DEF Gate
      <3>2. \A q \in Refreshers : pc'[q] = "stat" => file'[q] # None
        BY <3>1 DEF Forget
      <3>3. pc' \in [Procs -> Stages]
        BY <3>1 DEF Stages
      <3>. QED  BY <1>5, <3>1, <3>2, <3>3, ForgetType DEF Gate
    <2>. QED  BY <2>1, <2>2
  <1>. QED  BY <1>1, <1>2, <1>3, <1>4, <1>5 DEF Read

\* A process that goes idle and forgets.
LEMMA TypeDone == ASSUME TypeInv, NEW o \in Procs, Forget(o), pc' = [pc EXCEPT ![o] = "idle"],
                         Unlock(o), UNCHANGED substrate, late' = late, crossed' \in BOOLEAN,
                         meta' \in Cursors \cup {Missing, Torn}, state' \in States \cup {Nothing}
                  PROVE  TypeInv'
  <1>1. pc' \in [Procs -> Stages] /\ lock' \in Refreshers \cup {None}
    BY DEF TypeInv, TypeOK, Stages, Unlock
  <1>2. StagesOK'
    BY DEF TypeInv, TypeOK, StagesOK, Forget, capture, AdderStages, Procs
  <1>. QED  BY <1>1, <1>2, ForgetType DEF TypeInv, TypeOK, substrate

LEMMA TypeWrite == ASSUME TypeInv, NEW o \in Procs, Write(o) \/ Stop(o) PROVE TypeInv'
  <1>. USE BoundAssumption, ProcsAssumption, MetaAssumption
  <1>1. CASE BeginTxn(o) \/ BeginUnlocked(o)
    <2>1. o \in Refreshers
      BY <1>1 DEF BeginTxn, BeginUnlocked, Goto, TypeInv, StagesOK, Procs, AdderStages
    <2>2. lock' \in Refreshers \cup {None} /\ crossed' \in BOOLEAN
      BY <1>1, <2>1 DEF BeginTxn, BeginUnlocked, TypeInv, TypeOK, store
    <2>. QED
      BY <1>1, <2>1, <2>2 DEF BeginTxn, BeginUnlocked, Goto, TypeInv, TypeOK, StagesOK, Stages,
                              Procs, AdderStages, substrate, store, capture
  <1>2. CASE WriteState(o)
    <2>1. o \in Refreshers
      BY <1>2 DEF WriteState, Goto, TypeInv, StagesOK, Procs, AdderStages
    <2>2. state' \in States
      BY <1>2, <2>1 DEF WriteState, TypeInv, TypeOK, States, Captures
    <2>. QED
      BY <1>2, <2>1, <2>2 DEF WriteState, Goto, TypeInv, TypeOK, StagesOK, Stages, Procs,
                              AdderStages, substrate, capture
  <1>3. CASE LoadCursor(o)
    <2>1. o \in Refreshers
      BY <1>3 DEF LoadCursor, Goto, TypeInv, StagesOK, Procs, AdderStages
    <2>2. CASE meta \in Cursors
      BY <1>3, <2>1, <2>2 DEF LoadCursor, Goto, TypeInv, TypeOK, StagesOK, Stages, Procs,
                              AdderStages, substrate, capture
    <2>3. CASE meta \notin Cursors
      <3>1. crossed' \in BOOLEAN
        BY <1>3, <2>3 DEF LoadCursor
      <3>. QED  BY <1>3, <2>3, <3>1, TypeDone DEF LoadCursor, Goto, TypeInv, TypeOK
    <2>. QED  BY <2>2, <2>3
  <1>4. CASE OpenMeta(o)
    <2>1. crossed' \in BOOLEAN
      BY <1>4 DEF OpenMeta
    <2>. QED
      BY <1>4, <2>1 DEF OpenMeta, Goto, TypeInv, TypeOK, StagesOK, Stages, Procs,
                        AdderStages, substrate, capture
  <1>5. CASE WriteMeta(o)
    <2>1. crossed' \in BOOLEAN
      BY <1>5 DEF WriteMeta
    <2>2. NewMeta(o) \in Cursors
      <3>1. CASE o \in Adders
        BY <3>1 DEF NewMeta, TypeInv, TypeOK, Cursors
      <3>2. CASE o \notin Adders
        <4>1. cap[o] \in Captures
          BY <3>2 DEF Procs, TypeInv, TypeOK
        <4>. QED  BY <3>2, <4>1 DEF NewMeta, Fingerprint, Fingerprints, Captures, Cursors
      <3>. QED  BY <3>1, <3>2
    <2>3. meta' \in Cursors \cup {Torn}
      BY <1>5, <2>2 DEF WriteMeta
    <2>. QED  BY <1>5, <2>1, <2>3, TypeDone DEF WriteMeta, Goto, TypeInv, TypeOK
  <1>6. CASE WriteVoid(o)
    BY <1>6, TypeDone DEF WriteVoid, Goto, TypeInv, TypeOK
  <1>7. CASE Stop(o)
    <2>1. crossed' \in BOOLEAN
      BY <1>7 DEF Stop
    <2>. QED  BY <1>7, <2>1, TypeDone DEF Stop, TypeInv, TypeOK
  <1>. QED  BY <1>1, <1>2, <1>3, <1>4, <1>5, <1>6, <1>7 DEF Write

LEMMA TypeStep == TypeInv /\ [Next]_vars => TypeInv'
  <1>. SUFFICES ASSUME TypeInv, [Next]_vars PROVE TypeInv'
    OBVIOUS
  <1>1. CASE Remove
    <2>1. /\ meta' \in Cursors \cup {Missing, Torn} /\ state' \in States \cup {Nothing}
          /\ crossed' \in BOOLEAN
      BY <1>1 DEF Remove
    <2>2. pc' \in [Procs -> Stages] /\ StagesOK'
      BY <1>1 DEF Remove, TypeInv, TypeOK, StagesOK, Stages, Procs, AdderStages, capture
    <2>. QED  BY <1>1, <2>1, <2>2 DEF Remove, TypeInv, TypeOK, substrate, capture
  <1>2. ASSUME NEW o \in Adders, LoadOrCreate(o) PROVE TypeInv'
    <2>1. loaded' \in [Procs -> Cursors \cup {Missing}] /\ crossed' \in BOOLEAN
      BY <1>2 DEF LoadOrCreate, TypeInv, TypeOK
    <2>2. pc' \in [Procs -> Stages] /\ StagesOK'
      BY <1>2, ProcsAssumption
         DEF LoadOrCreate, Goto, TypeInv, TypeOK, StagesOK, Stages, Procs, AdderStages, capture
    <2>. QED  BY <1>2, <2>1, <2>2 DEF LoadOrCreate, TypeInv, TypeOK, substrate, store, capture
  <1>3. CASE UNCHANGED vars
    BY <1>3 DEF vars, TypeInv, TypeOK, StagesOK
  <1>. QED  BY <1>1, <1>2, <1>3, TypeWorld, TypeRead, TypeWrite DEF Next

\* Every variable of a refresh keeps its type.
THEOREM TypeCorrect == Spec => []TypeOK
  <1>1. TypeInv => TypeOK
    BY DEF TypeInv
  <1>. QED  BY <1>1, TypeInit, TypeStep, PTL DEF Spec

-----------------------------------------------------------------------------
(* What a capture knows, and the store after it.                              *)

\* ts holds every turn up to time m, but for those that came behind a
\* capture's back.
Known(ts, m) == \A t \in Transcripts : \A n \in turns[t] : n <= m => n \in ts \cup late

SubstrateInv == \A t \in Transcripts :
                  mtime[t] <= clock /\ \A n \in turns[t] : n <= mtime[t]

\* While it reads, a capture has the turns of what it has read; once it has
\* read everything, those up to its fingerprint's mtime, whatever comes later.
\* Its log is as new as its fingerprint's HEAD, if git has answered.
Captured(o) ==
  /\ cap[o].mtime <= clock
  /\ pc[o] \in {"scan", "stat"} =>
       \A t \in Transcripts \ unread[o] : turns[t] \subseteq cap[o].turns \cup late
  /\ pc[o] \notin {"idle", "log", "scan", "stat"} => Known(cap[o].turns, cap[o].mtime)
  /\ pc[o] = "log" => cap[o].head <= head
  /\ pc[o] \notin {"idle", "log"} => /\ cap[o].head <= cap[o].log \/ cap[o].log = NoAnswer
                                     /\ cap[o].head <= head

Exclusive == \A o \in Refreshers :
               lock = o <=> pc[o] \in {"locked", "written", "loaded", "torn", "void"}

\* The state files are those of this capture or of a later one.
Covers(m) == m \in Fingerprints => /\ state # Nothing
                                   /\ m.head <= state.log \/ state.log = NoAnswer
                                   /\ m.mtime <= clock
                                   /\ Known(state.turns, m.mtime)

\* Between the write of the state and the write of the cursor.
Between == {"written", "loaded", "torn"}

\* Unless something has crossed a transaction: who is in one holds the lock;
\* one writer at a time has truncated meta.toml; in a transaction, the state files are the capture of
\* who holds the lock; outside, they cover the cursor, and the one that an
\* `add` is about to write back.
Stored == /\ Exclusive
          /\ \A o \in Procs : pc[o] = "torn" =>
               meta = Torn /\ \A q \in Procs : pc[q] = "torn" => q = o
          /\ \A o \in Refreshers : pc[o] \in Between =>
               state = [log |-> cap[o].log, turns |-> cap[o].turns]
          /\ (\A o \in Refreshers : pc[o] \notin Between) =>
               /\ Covers(meta)
               /\ \A a \in Adders : pc[a] = "torn" => Covers(loaded[a])

Inv == /\ TypeInv /\ SubstrateInv
       /\ \A o \in Refreshers : Captured(o)
       /\ ~crossed => Stored

LEMMA InvInit == Init => Inv
  <1>. SUFFICES ASSUME Init PROVE Inv
    OBVIOUS
  <1>1. TypeInv
    BY TypeInit
  <1>2. SubstrateInv
    BY DEF Init, SubstrateInv
  <1>3. Exclusive
    BY ProcsAssumption DEF Init, Exclusive, Procs
  <1>4. \A o \in Refreshers : Captured(o)
    BY DEF Init, Captured, Procs, NoCapture
  <1>5. meta \notin Fingerprints
    BY MetaAssumption DEF Init, Cursors
  <1>6. Stored
    BY <1>3, <1>5 DEF Init, Stored, Procs, Covers, Between
  <1>. QED  BY <1>1, <1>2, <1>4, <1>6 DEF Inv

\* The times that the invariant compares are numbers.
LEMMA Numbers == ASSUME TypeOK
                 PROVE  /\ clock \in Nat /\ head \in Nat /\ Fingerprints \subseteq [head : Int, mtime : Nat]
                        /\ \A t \in Transcripts : mtime[t] \in Nat /\ turns[t] \subseteq Nat
                        /\ \A o \in Refreshers : /\ cap[o] \in Captures
                                                 /\ cap[o] \in [head : Int, mtime : Nat, log : Int,
                                                                turns : SUBSET Nat]
                        /\ state # Nothing => state.log \in Int
  <1>. USE BoundAssumption DEF Times, Heads, Answers, NoAnswer
  <1>1. Fingerprints \subseteq [head : Int, mtime : Nat]
    BY DEF Fingerprints
  <1>2. Captures \subseteq [head : Int, mtime : Nat, log : Int, turns : SUBSET Nat]
    BY DEF Captures
  <1>3. state # Nothing => state.log \in Int
    BY DEF TypeOK, States
  <1>. QED  BY <1>1, <1>2, <1>3 DEF TypeOK

\* What is known stays known: the turn that is appended is younger than m.
LEMMA KnownStays == ASSUME Inv, TypeInv', NEW ts, NEW m \in Nat, m <= clock, Known(ts, m),
                           World \/ UNCHANGED <<turns, late>>
                    PROVE  Known(ts, m)'
  <1>1. CASE UNCHANGED <<turns, late>>
    BY <1>1 DEF Known
  <1>2. CASE GitChange
    BY <1>2 DEF GitChange, Known
  <1>3. ASSUME NEW t \in Transcripts, Turn(t) PROVE Known(ts, m)'
    <2>1. /\ turns' = [turns EXCEPT ![t] = @ \cup {clock + 1}]
          /\ late \subseteq late' /\ clock \in Nat /\ turns \in [Transcripts -> SUBSET (1 .. MaxTurns)]
      BY <1>3, Numbers DEF Turn, Inv, TypeInv, TypeOK
    <2>2. ~(clock + 1 <= m)
      BY <2>1
    <2>. QED  BY <2>1, <2>2 DEF Known
  <1>. QED  BY <1>1, <1>2, <1>3 DEF World

LEMMA CoversStays == ASSUME Inv, TypeInv', NEW m, Covers(m), state' = state,
                            \/ World
                            \/ UNCHANGED <<turns, late, clock>>
                     PROVE  Covers(m)'
  <1>. SUFFICES ASSUME m \in Fingerprints
                PROVE  Known(state.turns, m.mtime)' /\ m.mtime <= clock'
    BY DEF Covers
  <1>1. m.mtime \in Nat /\ clock \in Nat /\ clock <= clock' /\ clock' \in Nat
    BY Numbers DEF Inv, TypeInv, TypeOK, Times, World, GitChange, Turn
  <1>2. m.mtime <= clock /\ Known(state.turns, m.mtime)
    BY DEF Covers
  <1>3. Known(state.turns, m.mtime)'
    BY <1>1, <1>2, KnownStays
  <1>. QED  BY <1>1, <1>2, <1>3

-----------------------------------------------------------------------------
(* Captures.                                                                  *)

\* Whoever does not take part in a step keeps what it has captured.
LEMMA CapturedAlone == ASSUME Inv, TypeInv', NEW q \in Refreshers,
                              pc'[q] = pc[q], cap'[q] = cap[q], unread'[q] = unread[q],
                              \/ World
                              \/ UNCHANGED <<turns, late, clock, head>>
                       PROVE  Captured(q)'
  <1>0. Captured(q) /\ cap[q].mtime \in Nat /\ cap[q].mtime <= clock
    BY Numbers DEF Inv, TypeInv, Captured
  <1>1. /\ clock \in Nat /\ clock' \in Nat /\ head \in Nat /\ head' \in Nat
        /\ clock <= clock' /\ head <= head' /\ late \subseteq late'
        /\ cap[q].head \in Int
    BY Numbers DEF Inv, TypeInv, TypeOK, Times, Heads, World, GitChange, Turn
  <1>2. cap'[q].mtime <= clock'
    BY <1>0, <1>1
  <1>3. pc'[q] \notin {"idle", "log", "scan", "stat"} => Known(cap[q].turns, cap[q].mtime)'
    BY <1>0, KnownStays DEF Captured
  <1>4. ASSUME pc'[q] \in {"scan", "stat"}, NEW s \in Transcripts \ unread[q]
        PROVE  turns'[s] \subseteq cap[q].turns \cup late'
    <2>1. turns[s] \subseteq cap[q].turns \cup late
      BY <1>0, <1>4 DEF Captured
    <2>2. CASE UNCHANGED <<turns, late>> \/ GitChange
      BY <2>1, <2>2 DEF GitChange
    <2>3. ASSUME NEW t \in Transcripts, Turn(t)
          PROVE  turns'[s] \subseteq cap[q].turns \cup late'
      <3>1. turns \in [Transcripts -> SUBSET (1 .. MaxTurns)]
        BY DEF Inv, TypeInv, TypeOK
      <3>2. CASE s = t
        BY <1>4, <2>1, <2>3, <3>1, <3>2 DEF Turn
      <3>3. CASE s # t
        BY <2>1, <2>3, <3>1, <3>3 DEF Turn
      <3>. QED  BY <3>2, <3>3
    <2>. QED  BY <2>2, <2>3 DEF World
  <1>5. pc'[q] = "log" => cap[q].head <= head'
    BY <1>0, <1>1 DEF Captured
  <1>6. pc'[q] \notin {"idle", "log"} => /\ cap[q].head <= cap[q].log \/ cap[q].log = NoAnswer
                                        /\ cap[q].head <= head'
    BY <1>0, <1>1 DEF Captured
  <1>. QED  BY <1>2, <1>3, <1>4, <1>5, <1>6 DEF Captured

LEMMA CapturedNothing == ASSUME Inv, NEW o \in Refreshers, pc'[o] = "idle", cap'[o] = NoCapture,
                                clock' = clock
                         PROVE  Captured(o)'
  BY Numbers DEF Inv, TypeInv, Captured, NoCapture

LEMMA CapturedRead == ASSUME Inv, TypeInv', NEW o \in Refreshers, Read(o) \/ Gate(o)
                      PROVE  Captured(o)'
  <1>0. /\ Captured(o) /\ cap[o].mtime <= clock /\ cap[o].turns \subseteq Nat
        /\ clock \in Nat /\ head \in Nat /\ cap[o].head \in Int
        /\ cap \in [Refreshers -> Captures] /\ pc \in [Procs -> Stages] /\ o \in Procs
        /\ unread \in [Refreshers -> SUBSET Transcripts]
    BY Numbers DEF Inv, TypeInv, TypeOK, Captured, Procs
  <1>. USE DEF Goto, substrate, store, capture
  <1>1. CASE ReadHead(o)
    <2>1. /\ pc'[o] = "log" /\ cap'[o].head \in {head, NoAnswer} /\ cap'[o].mtime = cap[o].mtime
          /\ UNCHANGED <<clock, head>>
      BY <1>0, <1>1 DEF ReadHead, Captures
    <2>2. cap'[o].head <= head
      BY <1>0, <2>1 DEF NoAnswer
    <2>. QED  BY <1>0, <2>1, <2>2 DEF Captured
  <1>2. CASE ReadLog(o)
    <2>1. /\ pc[o] = "log" /\ pc'[o] = "scan" /\ unread'[o] = Transcripts
          /\ cap'[o].head = cap[o].head /\ cap'[o].mtime = cap[o].mtime
          /\ \/ cap[o].head = 0 /\ cap'[o].log = 0
             \/ cap'[o].log \in {head, NoAnswer}
          /\ UNCHANGED <<clock, head>>
      BY <1>0, <1>2 DEF ReadLog, Captures
    <2>2. cap[o].head <= head
      BY <1>0, <2>1 DEF Captured
    <2>3. (cap'[o].head <= cap'[o].log \/ cap'[o].log = NoAnswer) /\ cap'[o].head <= head
      BY <1>0, <2>1, <2>2
    <2>. QED  BY <1>0, <2>1, <2>3 DEF Captured
  <1>3. ASSUME NEW t \in Transcripts, ReadTurns(o, t) PROVE Captured(o)'
    <2>1. /\ pc[o] = "scan" /\ pc'[o] \in {"scan", "stat"}
          /\ unread'[o] = unread[o] \ {t}
          /\ UNCHANGED <<clock, head, turns, late>>
      BY <1>0, <1>3 DEF ReadTurns
    <2>2. /\ cap'[o].head = cap[o].head /\ cap'[o].mtime = cap[o].mtime /\ cap'[o].log = cap[o].log
          /\ cap'[o].turns = cap[o].turns \cup turns[t]
      BY <1>0, <1>3 DEF ReadTurns, Captures
    <2>3. \A s \in Transcripts \ unread[o] : turns[s] \subseteq cap[o].turns \cup late
      BY <1>0, <2>1 DEF Captured
    <2>4. \A s \in Transcripts \ unread'[o] : turns[s] \subseteq cap'[o].turns \cup late
      BY <2>1, <2>2, <2>3
    <2>5. (cap[o].head <= cap[o].log \/ cap[o].log = NoAnswer) /\ cap[o].head <= head
      BY <1>0, <2>1 DEF Captured
    <2>. QED  BY <1>0, <2>1, <2>2, <2>4, <2>5 DEF Captured
  <1>4. CASE ReadMtime(o)
    <2>1. /\ pc[o] = "stat" /\ pc'[o] = "scan" /\ file[o] \in Transcripts
          /\ UNCHANGED <<clock, head, turns, late, unread>>
      BY <1>0, <1>4 DEF ReadMtime, Inv, TypeInv, TypeOK, StagesOK
    <2>2. mtime[file[o]] <= clock
      BY <2>1 DEF Inv, SubstrateInv
    <2>3. /\ cap'[o].head = cap[o].head /\ cap'[o].turns = cap[o].turns /\ cap'[o].log = cap[o].log
          /\ cap'[o].mtime \in {cap[o].mtime, mtime[file[o]]}
      BY <1>0, <1>4 DEF ReadMtime, Captures
    <2>4. cap'[o].mtime <= clock
      BY <1>0, <2>2, <2>3
    <2>. QED  BY <1>0, <2>1, <2>3, <2>4 DEF Captured
  <1>5. CASE Gate(o)
    <2>1. CASE Wanted(o)
      <3>1. /\ pc[o] = "scan" /\ pc'[o] = "llm" /\ unread[o] = {}
            /\ UNCHANGED <<clock, head, turns, late, cap>>
        BY <1>0, <1>5, <2>1 DEF Gate
      <3>2. \A s \in Transcripts : turns[s] \subseteq cap[o].turns \cup late
        BY <1>0, <3>1 DEF Captured
      <3>3. Known(cap[o].turns, cap[o].mtime)'
        BY <3>1, <3>2 DEF Known
      <3>. QED  BY <1>0, <3>1, <3>3 DEF Captured
    <2>2. CASE ~Wanted(o)
      BY <1>0, <1>5, <2>2, CapturedNothing DEF Gate, Forget
    <2>. QED  BY <2>1, <2>2
  <1>. QED  BY <1>1, <1>2, <1>3, <1>4, <1>5 DEF Read

\* After the capture it is only carried along, or forgotten.
LEMMA CapturedWrite == ASSUME Inv, TypeInv', NEW o \in Refreshers, Write(o) \/ Stop(o)
                       PROVE  Captured(o)'
  <1>0. /\ pc \in [Procs -> Stages] /\ o \in Procs
        /\ cap \in [Refreshers -> Captures] /\ unread \in [Refreshers -> SUBSET Transcripts]
    BY DEF Inv, TypeInv, TypeOK, Procs
  <1>1. UNCHANGED substrate /\ late' = late
    BY DEF Write, Stop, BeginTxn, BeginUnlocked, WriteState, LoadCursor, OpenMeta, WriteMeta, WriteVoid
  <1>2. \/ cap'[o] = NoCapture /\ pc'[o] = "idle"
        \/ /\ pc[o] \notin {"idle", "log", "scan", "stat"}
           /\ pc'[o] \notin {"idle", "log", "scan", "stat"}
           /\ cap' = cap
    <2>1. CASE BeginTxn(o) \/ BeginUnlocked(o)
      BY <1>0, <2>1 DEF BeginTxn, BeginUnlocked, Goto, capture
    <2>2. CASE WriteState(o)
      BY <1>0, <2>2 DEF WriteState, Goto, capture
    <2>3. CASE LoadCursor(o)
      BY <1>0, <2>3 DEF LoadCursor, Goto, Forget, capture
    <2>4. CASE OpenMeta(o)
      BY <1>0, <2>4 DEF OpenMeta, Goto, capture
    <2>5. CASE WriteMeta(o) \/ WriteVoid(o) \/ Stop(o)
      BY <1>0, <2>5 DEF WriteMeta, WriteVoid, Stop, Goto, Forget
    <2>. QED  BY <2>1, <2>2, <2>3, <2>4, <2>5 DEF Write
  <1>3. CASE cap'[o] = NoCapture /\ pc'[o] = "idle"
    BY <1>1, <1>3, CapturedNothing DEF substrate
  <1>4. CASE /\ pc[o] \notin {"idle", "log", "scan", "stat"}
             /\ pc'[o] \notin {"idle", "log", "scan", "stat"}
             /\ cap' = cap
    <2>1. Captured(o)
      BY DEF Inv
    <2>. QED  BY <1>1, <1>4, <2>1 DEF Captured, Known, substrate
  <1>. QED  BY <1>2, <1>3, <1>4

\* A step of one process leaves the others' captures and stages alone.
LEMMA Others == ASSUME TypeInv, NEW o \in Procs, NEW q \in Procs, q # o,
                       \/ o \in Refreshers /\ (Read(o) \/ Gate(o))
                       \/ o \in Adders /\ LoadOrCreate(o)
                       \/ Write(o) \/ Stop(o)
                PROVE  /\ pc'[q] = pc[q] /\ loaded'[q] = loaded[q]
                       /\ q \in Refreshers => /\ cap'[q] = cap[q] /\ unread'[q] = unread[q]
                                              /\ file'[q] = file[q]
  <1>. USE DEF TypeInv, TypeOK, Goto, Forget, capture
  <1>1. CASE o \in Refreshers /\ Read(o)
    BY <1>1 DEF Read, ReadHead, ReadLog, ReadTurns, ReadMtime
  <1>2. CASE o \in Refreshers /\ Gate(o)
    BY <1>2 DEF Gate
  <1>3. CASE o \in Adders /\ LoadOrCreate(o)
    BY <1>3 DEF LoadOrCreate
  <1>4. CASE BeginTxn(o) \/ BeginUnlocked(o) \/ WriteState(o) \/ OpenMeta(o)
    BY <1>4 DEF BeginTxn, BeginUnlocked, WriteState, OpenMeta
  <1>5. CASE LoadCursor(o)
    BY <1>5 DEF LoadCursor
  <1>6. CASE WriteMeta(o) \/ WriteVoid(o) \/ Stop(o)
    BY <1>6 DEF WriteMeta, WriteVoid, Stop
  <1>. QED  BY <1>1, <1>2, <1>3, <1>4, <1>5, <1>6 DEF Write

LEMMA CapturedStep == ASSUME Inv, TypeInv', [Next]_vars, NEW q \in Refreshers
                      PROVE  Captured(q)'
  <1>1. CASE World
    BY <1>1, CapturedAlone DEF World, GitChange, Turn, capture
  <1>2. CASE Remove
    <2>1. /\ UNCHANGED <<cap, unread, clock, turns, head, late>>
          /\ pc'[q] = IF pc[q] = "torn" THEN "void" ELSE pc[q]
      BY <1>2 DEF Remove, substrate, capture, Procs
    <2>2. Captured(q)
      BY DEF Inv
    <2>. QED  BY <2>1, <2>2 DEF Captured, Known
  <1>3. ASSUME NEW o \in Procs,
               \/ o \in Refreshers /\ (Read(o) \/ Gate(o))
               \/ o \in Adders /\ LoadOrCreate(o)
               \/ Write(o) \/ Stop(o)
        PROVE  Captured(q)'
    <2>1. q \in Procs /\ Refreshers \cap Adders = {}
      BY ProcsAssumption DEF Procs
    <2>2. CASE q = o
      BY <1>3, <2>1, <2>2, CapturedRead, CapturedWrite
    <2>3. CASE q # o
      <3>1. UNCHANGED <<turns, late, clock, head>>
        BY <1>3 DEF Read, ReadHead, ReadLog, ReadTurns, ReadMtime, Gate, LoadOrCreate, Write,
                    BeginTxn, BeginUnlocked, WriteState, LoadCursor, OpenMeta, WriteMeta, WriteVoid, Stop,
                    substrate
      <3>. QED  BY <1>3, <2>1, <2>3, <3>1, Others, CapturedAlone DEF Inv
    <2>. QED  BY <2>2, <2>3
  <1>4. CASE UNCHANGED vars
    BY <1>4, CapturedAlone DEF vars
  <1>. QED  BY <1>1, <1>2, <1>3, <1>4 DEF Next, Procs

LEMMA SubstrateStep == ASSUME Inv, [Next]_vars  PROVE SubstrateInv'
  <1>1. CASE UNCHANGED <<clock, turns, mtime>>
    BY <1>1 DEF Inv, SubstrateInv
  <1>2. ASSUME NEW t \in Transcripts, Turn(t) PROVE SubstrateInv'
    <2>1. /\ clock \in Nat /\ clock' = clock + 1
          /\ turns' = [turns EXCEPT ![t] = @ \cup {clock + 1}] /\ mtime' = [mtime EXCEPT ![t] = clock + 1]
          /\ turns \in [Transcripts -> SUBSET (1 .. MaxTurns)] /\ mtime \in [Transcripts -> Times]
          /\ \A s \in Transcripts : mtime[s] \in Nat /\ turns[s] \subseteq Nat
      BY <1>2, Numbers DEF Turn, Inv, TypeInv, TypeOK
    <2>2. ASSUME NEW s \in Transcripts
          PROVE  mtime'[s] <= clock' /\ \A n \in turns'[s] : n <= mtime'[s]
      <3>1. mtime[s] <= clock /\ \A n \in turns[s] : n <= mtime[s]
        BY DEF Inv, SubstrateInv
      <3>2. CASE s = t
        <4>1. \A n \in turns[s] : n <= clock
          BY <2>1, <3>1
        <4>. QED  BY <2>1, <3>2, <4>1
      <3>3. CASE s # t
        BY <2>1, <3>1, <3>3
      <3>. QED  BY <3>2, <3>3
    <2>. QED  BY <2>2 DEF SubstrateInv
  <1>3. UNCHANGED <<clock, turns, mtime>> \/ \E t \in Transcripts : Turn(t)
    BY DEF Next, World, GitChange, Remove, Read, ReadHead, ReadLog, ReadTurns, ReadMtime, Gate,
           LoadOrCreate, Write, BeginTxn, BeginUnlocked, WriteState, LoadCursor, OpenMeta, WriteMeta, WriteVoid,
           Stop, substrate, vars
  <1>. QED  BY <1>1, <1>2, <1>3

-----------------------------------------------------------------------------
(* The store lock, and what the state files hold.                             *)

Holding == {"locked", "written", "loaded", "torn", "void"}

LEMMA ExclusiveStep == ASSUME Inv, Exclusive, [Next]_vars, ~crossed'  PROVE Exclusive'
  <1>. USE ProcsAssumption DEF Exclusive
  <1>0. Exclusive /\ TypeInv /\ pc \in [Procs -> Stages] /\ Refreshers \subseteq Procs
    BY DEF Inv, TypeInv, TypeOK, Procs
  <1>1. CASE World \/ UNCHANGED vars
    BY <1>0, <1>1 DEF World, GitChange, Turn, store, vars
  <1>2. CASE Remove
    BY <1>0, <1>2 DEF Remove, Procs
  <1>3. ASSUME NEW o \in Procs, o \in Refreshers \/ lock' = lock,
               \/ o \in Refreshers /\ (Read(o) \/ Gate(o))
               \/ o \in Adders /\ LoadOrCreate(o)
               \/ Write(o) \/ Stop(o),
               \/ lock' = lock /\ (o \in Refreshers => (pc[o] \in Holding <=> pc'[o] \in Holding))
               \/ lock = None /\ lock' = o /\ pc'[o] \in Holding
               \/ Unlock(o) /\ pc'[o] = "idle"
        PROVE  Exclusive'
    <2>1. ASSUME NEW q \in Refreshers, q # o PROVE pc'[q] = pc[q]
      BY <1>0, <1>3, <2>1, Others
    <2>. QED  BY <1>0, <1>3, <2>1 DEF Holding, Unlock
  <1>4. ASSUME NEW o \in Refreshers, Read(o) \/ Gate(o) PROVE Exclusive'
    <2>1. lock' = lock /\ (pc[o] \in Holding <=> pc'[o] \in Holding)
      BY <1>0, <1>4 DEF Read, ReadHead, ReadLog, ReadTurns, ReadMtime, Gate, Goto, store, Holding
    <2>. QED  BY <1>0, <1>3, <1>4, <2>1
  <1>5. ASSUME NEW o \in Adders, LoadOrCreate(o) PROVE Exclusive'
    <2>1. lock' = lock /\ o \in Procs /\ o \notin Refreshers
      BY <1>5 DEF LoadOrCreate, store, Procs
    <2>. QED  BY <1>3, <1>5, <2>1
  <1>6. ASSUME NEW o \in Procs, Write(o) \/ Stop(o) PROVE Exclusive'
    <2>2. CASE BeginTxn(o)
      <3>1. o \in Refreshers
        BY <2>2 DEF BeginTxn, Goto, Inv, TypeInv, StagesOK, AdderStages, Procs
      <3>2. lock = None /\ lock' = o /\ pc'[o] \in Holding
        BY <1>0, <2>2 DEF BeginTxn, Goto, Holding
      <3>. QED  BY <1>3, <1>6, <3>1, <3>2
    <2>3. CASE WriteState(o) \/ OpenMeta(o) \/ (LoadCursor(o) /\ meta \in Cursors)
      <3>1. lock' = lock /\ (pc[o] \in Holding <=> pc'[o] \in Holding)
        BY <1>0, <2>3 DEF WriteState, OpenMeta, LoadCursor, Goto, Holding
      <3>. QED  BY <1>3, <1>6, <3>1
    <2>4. CASE WriteMeta(o) \/ WriteVoid(o) \/ Stop(o) \/ (LoadCursor(o) /\ meta \notin Cursors)
      <3>1. Unlock(o) /\ pc'[o] = "idle"
        BY <1>0, <2>4 DEF WriteMeta, WriteVoid, Stop, LoadCursor, Goto
      <3>2. o \notin Refreshers => lock' = lock
        BY <3>1 DEF Unlock, Inv, TypeInv, TypeOK
      <3>. QED  BY <1>3, <1>6, <3>1, <3>2
    <2>5. ~BeginUnlocked(o)
      BY DEF BeginUnlocked
    <2>. QED  BY <1>6, <2>2, <2>3, <2>4, <2>5 DEF Write
  <1>. QED  BY <1>1, <1>2, <1>4, <1>5, <1>6 DEF Next

\* A step that leaves the store's files alone, and who writes them.
LEMMA StoredQuiet == ASSUME Inv, TypeInv', Stored, Exclusive', UNCHANGED <<meta, state>>,
                            World \/ UNCHANGED <<turns, late, clock>>,
                            \A q \in Procs : pc'[q] = "torn" => pc[q] = "torn" /\ loaded'[q] = loaded[q],
                            \A q \in Refreshers : /\ pc'[q] \in Between <=> pc[q] \in Between
                                                  /\ pc[q] \in Between => cap'[q] = cap[q]
                     PROVE  Stored'
  <1>1. /\ Exclusive'
        /\ \A o \in Procs : pc'[o] = "torn" =>
             meta' = Torn /\ \A q \in Procs : pc'[q] = "torn" => q = o
    BY DEF Stored
  <1>2. \A o \in Refreshers : pc'[o] \in Between =>
               state' = [log |-> cap'[o].log, turns |-> cap'[o].turns]
    BY DEF Stored
  <1>3. ASSUME \A o \in Refreshers : pc'[o] \notin Between
        PROVE  Covers(meta)' /\ \A a \in Adders : pc'[a] = "torn" => Covers(loaded[a])'
    <2>1. Covers(meta) /\ \A a \in Adders : pc[a] = "torn" => Covers(loaded[a])
      BY <1>3 DEF Stored
    <2>2. Covers(meta)'
      <3>1. \A m : m = meta => Covers(m)'
        BY <2>1, CoversStays
      <3>. QED  BY <3>1 DEF Covers
    <2>3. ASSUME NEW a \in Adders, pc'[a] = "torn" PROVE Covers(loaded[a])'
      <3>1. pc[a] = "torn" /\ loaded'[a] = loaded[a]
        BY <2>3 DEF Procs
      <3>2. \A m : m = loaded[a] => Covers(m)'
        BY <2>1, <3>1, CoversStays
      <3>. QED  BY <3>1, <3>2 DEF Covers
    <2>. QED  BY <2>2, <2>3
  <1>. QED  BY <1>1, <1>2, <1>3 DEF Stored

LEMMA NoCover == ~(Missing \in Fingerprints \/ Torn \in Fingerprints \/ NoCursor \in Fingerprints)
  BY MetaAssumption DEF Cursors

LEMMA StoredWriteState == ASSUME Inv, TypeInv', Stored, Exclusive', NEW o \in Procs, WriteState(o)
                          PROVE  Stored'
  <1>1. /\ pc[o] = "locked" /\ pc' = [pc EXCEPT ![o] = "written"] /\ pc \in [Procs -> Stages]
        /\ UNCHANGED <<meta, cap>>
        /\ state' = [log |-> cap[o].log, turns |-> cap[o].turns]
    BY DEF WriteState, Goto, capture, Inv, TypeInv, TypeOK
  <1>2. o \in Refreshers
    BY <1>1 DEF Inv, TypeInv, StagesOK, AdderStages, Procs
  <1>3. \A q \in Refreshers : q # o => pc[q] \notin Between
    <2>1. lock = o
      BY <1>1, <1>2 DEF Stored, Exclusive
    <2>. QED  BY <2>1 DEF Stored, Exclusive, Between
  <1>. QED  BY <1>1, <1>2, <1>3 DEF Stored, Between, Procs

LEMMA StoredLoadCursor == ASSUME Inv, TypeInv', Stored, Exclusive', NEW o \in Procs, LoadCursor(o), ~crossed'
                          PROVE  Stored'
  <1>0. pc \in [Procs -> Stages] /\ loaded \in [Procs -> Cursors \cup {Missing}]
    BY DEF Inv, TypeInv, TypeOK
  <1>1. CASE meta \in Cursors
    <2>1. /\ pc[o] = "written" /\ pc' = [pc EXCEPT ![o] = "loaded"]
          /\ loaded' = [loaded EXCEPT ![o] = meta]
          /\ UNCHANGED <<meta, state, turns, late, clock, cap>>
      BY <1>1 DEF LoadCursor, Goto, substrate, capture
    <2>2. \A q \in Procs : pc'[q] = "torn" => pc[q] = "torn" /\ loaded'[q] = loaded[q]
      BY <1>0, <2>1
    <2>3. \A q \in Refreshers : pc'[q] \in Between <=> pc[q] \in Between
      BY <1>0, <2>1 DEF Between, Procs
    <2>. QED  BY <2>1, <2>2, <2>3, StoredQuiet
  <1>2. CASE meta \notin Cursors
    <2>1. /\ pc[o] = "written" /\ pc' = [pc EXCEPT ![o] = "idle"] /\ meta = Missing
          /\ UNCHANGED <<meta, state>> /\ Forget(o)
      BY <1>2 DEF LoadCursor, Goto, Inv, TypeInv, TypeOK
    <2>2. \A q \in Procs : pc'[q] # "torn"
      BY <1>0, <2>1, MetaAssumption DEF Stored
    <2>3. \A q \in Refreshers : pc'[q] \in Between => pc[q] \in Between /\ cap'[q] = cap[q]
      BY <1>0, <2>1 DEF Forget, Between, capture, Procs, Inv, TypeInv, TypeOK
    <2>4. \A q \in Refreshers : pc'[q] \in Between =>
                 state' = [log |-> cap'[q].log, turns |-> cap'[q].turns]
      BY <2>1, <2>3 DEF Stored
    <2>5. Covers(meta)' /\ \A a \in Adders : pc'[a] # "torn"
      BY <2>1, <2>2, NoCover DEF Covers, Procs
    <2>. QED  BY <2>2, <2>4, <2>5 DEF Stored
  <1>. QED  BY <1>1, <1>2

LEMMA StoredOpen == ASSUME Inv, TypeInv', Stored, Exclusive', NEW o \in Procs, OpenMeta(o), ~crossed'
                    PROVE  Stored'
  <1>1. /\ pc[o] = "loaded" /\ pc' = [pc EXCEPT ![o] = "torn"] /\ pc \in [Procs -> Stages]
        /\ meta' = Torn /\ meta = loaded[o] /\ loaded[o] \in Cursors \cup {Missing}
        /\ UNCHANGED <<state, turns, late, clock, cap, loaded>>
    BY DEF OpenMeta, Goto, substrate, capture, Inv, TypeInv, TypeOK
  <1>2. \A q \in Procs : pc[q] # "torn"
    BY <1>1, MetaAssumption DEF Stored
  <1>3. \A q \in Refreshers : pc'[q] \in Between <=> pc[q] \in Between
    BY <1>1 DEF Between, Procs
  <1>4. ASSUME \A q \in Refreshers : pc'[q] \notin Between
        PROVE  \A a \in Adders : pc'[a] = "torn" => Covers(loaded[a])'
    <2>1. Covers(meta)
      BY <1>3, <1>4 DEF Stored
    <2>2. Covers(loaded[o])'
      BY <1>1, <2>1 DEF Covers, Known
    <2>. QED  BY <1>1, <1>2, <2>2 DEF Procs
  <1>5. \A q \in Refreshers : pc'[q] \in Between =>
               state' = [log |-> cap'[q].log, turns |-> cap'[q].turns]
    BY <1>1, <1>3 DEF Stored
  <1>. QED  BY <1>1, <1>2, <1>4, <1>5, NoCover DEF Stored, Covers

LEMMA StoredWriteMeta == ASSUME Inv, TypeInv', Stored, Exclusive', NEW o \in Procs, WriteMeta(o), ~crossed'
                         PROVE  Stored'
  <1>1. /\ pc[o] = "torn" /\ pc' = [pc EXCEPT ![o] = "idle"] /\ pc \in [Procs -> Stages]
        /\ meta = Torn /\ meta' = NewMeta(o)
        /\ UNCHANGED <<state, turns, late, clock>> /\ Forget(o)
    BY DEF WriteMeta, Goto, substrate, Inv, TypeInv, TypeOK
  <1>2. \A q \in Procs : pc'[q] # "torn"
    BY <1>1 DEF Stored
  <1>3. \A q \in Refreshers : pc'[q] \in Between => pc[q] \in Between /\ cap'[q] = cap[q]
    BY <1>1 DEF Between, Procs, Forget, capture, Inv, TypeInv, TypeOK
  <1>4. ASSUME \A q \in Refreshers : pc'[q] \notin Between  PROVE Covers(meta)'
    <2>1. CASE o \in Refreshers
      <3>1. meta' = Fingerprint(cap[o])
        BY <1>1, <2>1, ProcsAssumption DEF NewMeta
      <3>2. state = [log |-> cap[o].log, turns |-> cap[o].turns] /\ state # Nothing
        <4>1. state = [log |-> cap[o].log, turns |-> cap[o].turns]
          BY <1>1, <2>1 DEF Stored, Between
        <4>2. cap[o] \in Captures
          BY <2>1 DEF Inv, TypeInv, TypeOK
        <4>3. state \in States
          BY <4>1, <4>2 DEF States, Captures
        <4>. QED  BY <4>1, <4>3, MetaAssumption
      <3>3. /\ cap[o].mtime <= clock /\ Known(cap[o].turns, cap[o].mtime)
            /\ cap[o].head <= cap[o].log \/ cap[o].log = NoAnswer
        BY <1>1, <2>1 DEF Inv, Captured
      <3>. QED  BY <1>1, <3>1, <3>2, <3>3 DEF Covers, Known, Fingerprint
    <2>2. CASE o \notin Refreshers
      <3>1. o \in Adders
        BY <2>2 DEF Procs
      <3>2. \A q \in Refreshers : pc[q] \notin Between
        BY <1>1, <1>4, <2>2
      <3>3. Covers(loaded[o])
        BY <1>1, <3>1, <3>2 DEF Stored
      <3>4. meta' = loaded[o] \/ meta' = NoCursor
        BY <1>1, <3>1 DEF NewMeta
      <3>. QED  BY <1>1, <3>3, <3>4, NoCover DEF Covers, Known
    <2>. QED  BY <2>1, <2>2
  <1>5. \A q \in Refreshers : pc'[q] \in Between =>
               state' = [log |-> cap'[q].log, turns |-> cap'[q].turns]
    BY <1>1, <1>3 DEF Stored
  <1>6. \A a \in Adders : pc'[a] # "torn"
    BY <1>2 DEF Procs
  <1>. QED  BY <1>2, <1>4, <1>5, <1>6 DEF Stored

\* Who is not at work on the store's files.
LEMMA StoredElsewhere == ASSUME Inv, TypeInv', Stored, Exclusive', ~crossed', NEW o \in Procs,
                                \/ o \in Refreshers /\ (Read(o) \/ Gate(o))
                                \/ o \in Adders /\ LoadOrCreate(o)
                                \/ BeginTxn(o) \/ WriteVoid(o) \/ Stop(o)
                         PROVE  Stored'
  <1>0. /\ pc \in [Procs -> Stages] /\ cap \in [Refreshers -> Captures]
        /\ Refreshers \cap Adders = {} /\ Refreshers \subseteq Procs
    BY ProcsAssumption DEF Inv, TypeInv, TypeOK, Procs
  <1>. USE <1>0 DEF Goto, Between, store, substrate
  <1>1. UNCHANGED <<meta, state, turns, late, clock>>
    BY DEF Read, ReadHead, ReadLog, ReadTurns, ReadMtime, Gate, LoadOrCreate, BeginTxn,
           WriteVoid, Stop
  <1>2. pc[o] # "torn" /\ pc'[o] # "torn" /\ (o \in Refreshers => pc[o] \notin Between /\ pc'[o] \notin Between)
    <2>1. CASE o \in Refreshers /\ (Read(o) \/ Gate(o))
      BY <2>1 DEF Read, ReadHead, ReadLog, ReadTurns, ReadMtime, Gate
    <2>2. CASE o \in Adders /\ LoadOrCreate(o)
      BY <2>2 DEF LoadOrCreate
    <2>3. CASE BeginTxn(o) \/ WriteVoid(o) \/ Stop(o)
      BY <2>3 DEF BeginTxn, WriteVoid, Stop
    <2>. QED  BY <2>1, <2>2, <2>3
  <1>3. ASSUME NEW q \in Procs, q # o
        PROVE  pc'[q] = pc[q] /\ loaded'[q] = loaded[q] /\ (q \in Refreshers => cap'[q] = cap[q])
    BY <1>3, Others DEF Write, Inv
  <1>. QED  BY <1>1, <1>2, <1>3, StoredQuiet

LEMMA CrossedStays == [Next]_vars /\ crossed => crossed'
  <1>. SUFFICES ASSUME [Next]_vars, crossed PROVE crossed'
    OBVIOUS
  <1>1. CASE World \/ UNCHANGED vars
    BY <1>1 DEF World, GitChange, Turn, vars
  <1>2. CASE Remove
    BY <1>2 DEF Remove
  <1>3. ASSUME NEW o, Read(o) \/ Gate(o) \/ LoadOrCreate(o) PROVE crossed'
    BY <1>3 DEF Read, ReadHead, ReadLog, ReadTurns, ReadMtime, Gate, LoadOrCreate
  <1>4. ASSUME NEW o, Write(o) \/ Stop(o) PROVE crossed'
    BY <1>4 DEF Write, BeginTxn, BeginUnlocked, WriteState, LoadCursor, OpenMeta, WriteMeta, WriteVoid, Stop
  <1>. QED  BY <1>1, <1>2, <1>3, <1>4 DEF Next

LEMMA InvStep == Inv /\ [Next]_vars => Inv'
  <1>. SUFFICES ASSUME Inv, [Next]_vars PROVE Inv'
    OBVIOUS
  <1>1. TypeInv'
    BY TypeStep DEF Inv
  <1>2. ASSUME ~crossed' PROVE Stored'
    <2>2. Stored
      BY <1>2, CrossedStays DEF Inv
    <2>1. Exclusive'
      BY <1>2, <2>2, ExclusiveStep DEF Stored
    <2>3. CASE World \/ UNCHANGED vars
      BY <1>1, <2>1, <2>2, <2>3, StoredQuiet DEF World, GitChange, Turn, store, capture, vars
    <2>4. CASE Remove
      <3>1. /\ meta' = Missing /\ \A q \in Procs : pc[q] \notin Between /\ pc'[q] \notin Between
        BY <1>2, <2>4 DEF Remove, Between
      <3>. QED  BY <2>1, <3>1, NoCover DEF Stored, Covers, Procs, Between
    <2>5. ~crossed' => \A o : ~BeginUnlocked(o)
      BY DEF BeginUnlocked
    <2>. QED
      BY <1>1, <1>2, <2>1, <2>2, <2>3, <2>4, <2>5, StoredWriteState, StoredLoadCursor, StoredOpen,
         StoredWriteMeta, StoredElsewhere DEF Next, Write, Procs
  <1>. QED  BY <1>1, <1>2, SubstrateStep, CapturedStep DEF Inv

\* However many processes refresh one project while its agents write and its
\* developer commits, and whatever dies: unless something has crossed a
\* transaction, what the gate would skip is distilled.
THEOREM NothingIsSkipped == Spec => []NothingSkipped
  <1>1. Inv => NothingSkipped
    <2>. SUFFICES ASSUME Inv, UpToDate, lock = None, ~crossed
                  PROVE  /\ state # Nothing
                         /\ state.log >= head \/ state.log = NoAnswer
                         /\ UNION {turns[t] : t \in Transcripts} \subseteq state.turns \cup late
      BY DEF NothingSkipped
    <2>1. meta \in Fingerprints /\ Now.head = meta.head /\ ~(Now.mtime > meta.mtime)
      BY DEF UpToDate, IsStale, Cursors
    <2>2. \A o \in Refreshers : pc[o] \notin Between
      BY ProcsAssumption DEF Inv, Stored, Exclusive, Between
    <2>3. /\ state # Nothing /\ Known(state.turns, meta.mtime)
          /\ meta.head <= state.log \/ state.log = NoAnswer
      BY <2>1, <2>2 DEF Inv, Stored, Covers
    <2>4. state.log >= head \/ state.log = NoAnswer
      BY <2>1, <2>3, Numbers DEF Now, Inv, TypeInv
    <2>5. ASSUME NEW t \in Transcripts, NEW n \in turns[t] PROVE n \in state.turns \cup late
      <3>1. /\ Now.mtime \in Nat /\ mtime[t] <= Now.mtime /\ mtime[t] \in Nat /\ n \in Nat
            /\ meta.mtime \in Nat
        BY <2>1, NowIsLatest, Numbers DEF Inv, TypeInv, TypeOK, Times
      <3>2. n <= mtime[t]
        BY DEF Inv, SubstrateInv
      <3>3. n <= meta.mtime
        BY <2>1, <3>1, <3>2
      <3>. QED  BY <2>3, <3>3 DEF Known
    <2>. QED  BY <2>3, <2>4, <2>5
  <1>. QED  BY <1>1, InvInit, InvStep, PTL DEF Spec

-----------------------------------------------------------------------------
(* Module Freshness: the cursor moves forward.  What meta.toml says is, while *)
(* somebody writes it, what it said before.                                   *)

Project == "project"

Writers    == {o \in Procs : pc[o] = "torn"}
Text       == IF Writers = {} THEN meta ELSE loaded[CHOOSE o \in Writers : TRUE]
Version(m) == IF m \in Fingerprints /\ m.head # NoAnswer THEN m.head + m.mtime ELSE NoCursor

\* A commit or a turn is a new version of the substrate; a cursor without the
\* answer of git names none.
Promise == INSTANCE Freshness WITH
             Projects <- {Project},
             registry <- IF Text \in Cursors THEN {Project} ELSE {},
             sub      <- [p \in {Project} |-> head + clock],
             cursor   <- [p \in {Project} |-> Version(Text)]

\* A cursor is recorded by a capture that git has not answered.  The gate takes
\* it for stale as soon as git answers again.
Blinded == Text' \in Fingerprints /\ Text'.head = NoAnswer

Deciding == {"llm", "locked", "written", "loaded", "torn"}

\* Some session has the mtime m, or a later one.
Reached(m) == m = 0 \/ \E t \in Transcripts : turns[t] # {} /\ m <= mtime[t]

\* The fingerprint m is no later than what o captures: than what it has read,
\* or will find in the transcripts it has yet to read.
Ahead(o, m) ==
  /\ pc[o] # "idle" => m.head <= cap[o].head \/ cap[o].head = NoAnswer
  /\ pc[o] \in {"scan", "stat"} =>
       \/ m.mtime <= cap[o].mtime
       \/ pc[o] = "stat" /\ m.mtime <= mtime[file[o]]
       \/ \E t \in unread[o] : turns[t] # {} /\ m.mtime <= mtime[t]
  /\ pc[o] \in Deciding => m.mtime <= cap[o].mtime

\* A capture starts with nothing, has a time if it has a turn, and is no capture
\* of nothing once it has passed the gate; who writes meta.toml has read one.
Proper(o) == /\ Reached(cap[o].mtime)
             /\ pc[o] \in {"idle", "log"} => cap[o].turns = {} /\ cap[o].mtime = 0
             /\ pc[o] = "scan" => (cap[o].turns = {} \/ cap[o].mtime > 0)
             /\ pc[o] = "stat" => turns[file[o]] # {} /\ mtime[file[o]] > 0
             /\ pc[o] \in Deciding => cap[o].head + cap[o].mtime > 0 \/ cap[o].head = NoAnswer
             /\ pc[o] \in {"loaded", "torn"} => loaded[o] \in Cursors

Timed == \A t \in Transcripts : turns[t] # {} => mtime[t] > 0

Behind == Text \in Fingerprints => /\ Text.head <= head /\ Reached(Text.mtime)
                                   /\ \A o \in Refreshers : Ahead(o, Text)

ForwardInv == /\ Inv /\ Timed
              /\ \A o \in Refreshers : Proper(o)
              /\ ~crossed => Behind

LEMMA ForwardInit == Init => ForwardInv
  <1>. SUFFICES ASSUME Init PROVE ForwardInv
    OBVIOUS
  <1>1. Text = meta /\ Text \notin Fingerprints
    BY NoCover DEF Init, Text, Writers
  <1>2. \A o \in Refreshers : Proper(o)
    BY DEF Init, Proper, Reached, NoCapture, Deciding, Procs
  <1>3. Timed
    BY DEF Init, Timed
  <1>. QED  BY <1>1, <1>2, <1>3, InvInit DEF ForwardInv, Behind

-----------------------------------------------------------------------------
(* What meta.toml says.                                                       *)

LEMMA TextOfWriter == ASSUME Stored, NEW o \in Procs, pc[o] = "torn"  PROVE Text = loaded[o]
  <1>1. Writers = {o}
    BY DEF Stored, Writers
  <1>. QED  BY <1>1 DEF Text

LEMMA TextAlone == ASSUME Stored, meta # Torn  PROVE Writers = {} /\ Text = meta
  BY DEF Stored, Writers, Text

\* Whoever writes goes on writing, and no one else begins.
LEMMA TextStays == ASSUME meta' = meta, \A q \in Procs : pc'[q] = "torn" <=> pc[q] = "torn",
                          \A q \in Procs : pc[q] = "torn" => loaded'[q] = loaded[q]
                   PROVE  Text' = Text
  <1>1. Writers' = Writers
    BY DEF Writers
  <1>2. CASE Writers = {}
    BY <1>1, <1>2 DEF Text
  <1>3. CASE Writers # {}
    <2>. DEFINE o == CHOOSE o \in Writers : TRUE
    <2>1. o \in Procs /\ pc[o] = "torn"
      BY <1>3 DEF Writers
    <2>2. Text = loaded[o] /\ Text' = loaded'[o]
      BY <1>1, <1>3 DEF Text
    <2>. QED  BY <2>1, <2>2
  <1>. QED  BY <1>2, <1>3

\* One step of meta.toml: it is removed, an `add` makes it, or a refresher
\* records what it captured.
Removes    == Remove /\ Text \in Cursors /\ Text' = Missing
Registers  == Text = Missing /\ Text' = NoCursor
Records(o) == /\ WriteMeta(o) /\ pc[o] = "torn"
              /\ Text \in Cursors /\ Text' = Fingerprint(cap[o])

LEMMA TextOpen == ASSUME Inv, Stored, ~crossed', NEW o \in Procs, OpenMeta(o)
                  PROVE  Text' = Text
  <1>1. /\ pc[o] = "loaded" /\ pc' = [pc EXCEPT ![o] = "torn"] /\ pc \in [Procs -> Stages]
        /\ meta = loaded[o] /\ loaded' = loaded /\ loaded[o] \in Cursors \cup {Missing}
    BY DEF OpenMeta, Goto, Inv, TypeInv, TypeOK
  <1>2. Writers = {} /\ Text = meta
    BY <1>1, MetaAssumption, TextAlone
  <1>3. Writers' = {o}
    BY <1>1, <1>2 DEF Writers
  <1>. QED  BY <1>1, <1>2, <1>3 DEF Text

LEMMA TextWrite == ASSUME Inv, Stored, ~crossed', NEW o \in Procs, WriteMeta(o),
                          \A r \in Refreshers : Proper(r)
                   PROVE  \/ Text' = Text \/ Registers
                          \/ o \in Refreshers /\ Records(o)
  <1>1. /\ pc[o] = "torn" /\ pc' = [pc EXCEPT ![o] = "idle"] /\ pc \in [Procs -> Stages]
        /\ meta = Torn /\ meta' = NewMeta(o)
    BY DEF WriteMeta, Goto, Inv, TypeInv, TypeOK
  <1>2. Text = loaded[o]
    BY <1>1, TextOfWriter
  <1>3. Writers' = {}
    BY <1>1 DEF Stored, Writers
  <1>4. Text' = NewMeta(o)
    BY <1>1, <1>3 DEF Text
  <1>5. CASE o \in Adders
    BY <1>2, <1>4, <1>5 DEF NewMeta, Registers
  <1>6. CASE o \in Refreshers
    BY <1>1, <1>2, <1>4, <1>6, ProcsAssumption DEF NewMeta, Records, Proper
  <1>. QED  BY <1>5, <1>6 DEF Procs

LEMMA TextStep == ASSUME Inv, Stored, ~crossed', [Next]_vars, \A r \in Refreshers : Proper(r)
                  PROVE  \/ Text' = Text \/ Removes \/ Registers
                         \/ \E o \in Refreshers : Records(o)
  <1>. USE DEF Goto, store, capture, substrate
  <1>0. pc \in [Procs -> Stages] /\ loaded \in [Procs -> Cursors \cup {Missing}]
    BY DEF Inv, TypeInv, TypeOK
  <1>1. CASE World \/ UNCHANGED vars
    BY <1>1, TextStays DEF World, GitChange, Turn, vars
  <1>2. CASE Remove
    <2>1. meta \in Cursors /\ meta' = Missing /\ Text = meta
      BY <1>2, MetaAssumption, TextAlone DEF Remove
    <2>2. \A q \in Procs : pc'[q] # "torn"
      BY <1>2 DEF Remove
    <2>3. Text' = Missing
      BY <2>1, <2>2 DEF Text, Writers
    <2>. QED  BY <1>2, <2>1, <2>3 DEF Removes
  <1>3. ASSUME NEW o \in Procs, meta' = meta, pc[o] # "torn", pc'[o] # "torn",
               \/ o \in Refreshers /\ (Read(o) \/ Gate(o))
               \/ o \in Adders /\ LoadOrCreate(o)
               \/ Write(o) \/ Stop(o)
        PROVE  Text' = Text
    <2>1. ASSUME NEW q \in Procs, q # o PROVE pc'[q] = pc[q] /\ loaded'[q] = loaded[q]
      BY <1>3, <2>1, Others DEF Inv
    <2>. QED  BY <1>3, <2>1, TextStays
  <1>4. ASSUME NEW o \in Refreshers, Read(o) \/ Gate(o) PROVE Text' = Text
    <2>1. o \in Procs /\ meta' = meta /\ pc[o] # "torn" /\ pc'[o] # "torn"
      BY <1>0, <1>4 DEF Procs, Read, ReadHead, ReadLog, ReadTurns, ReadMtime, Gate
    <2>. QED  BY <1>3, <1>4, <2>1
  <1>5. ASSUME NEW o \in Adders, LoadOrCreate(o) PROVE Text' = Text
    <2>1. o \in Procs /\ meta' = meta /\ pc[o] # "torn" /\ pc'[o] # "torn"
      BY <1>0, <1>5 DEF Procs, LoadOrCreate
    <2>. QED  BY <1>3, <1>5, <2>1
  <1>6. ASSUME NEW o \in Procs, \/ BeginTxn(o) \/ BeginUnlocked(o) \/ WriteState(o)
                                \/ LoadCursor(o) \/ WriteVoid(o) \/ Stop(o)
        PROVE  Text' = Text
    <2>1. meta' = meta /\ pc[o] # "torn" /\ pc'[o] # "torn"
      BY <1>0, <1>6 DEF BeginTxn, BeginUnlocked, WriteState, LoadCursor, WriteVoid, Stop
    <2>. QED  BY <1>3, <1>6, <2>1 DEF Write
  <1>. QED  BY <1>1, <1>2, <1>4, <1>5, <1>6, TextOpen, TextWrite DEF Next, Write, Procs

-----------------------------------------------------------------------------
(* Captures do not fall behind.                                               *)

LEMMA TimedStep == ASSUME Inv, TypeInv', Timed, [Next]_vars  PROVE Timed'
  <1>1. CASE UNCHANGED <<turns, mtime>>
    BY <1>1 DEF Timed
  <1>2. ASSUME NEW t \in Transcripts, Turn(t) PROVE Timed'
    <2>1. /\ clock + 1 > 0 /\ mtime' = [mtime EXCEPT ![t] = clock + 1]
          /\ turns' = [turns EXCEPT ![t] = @ \cup {clock + 1}]
          /\ turns \in [Transcripts -> SUBSET (1 .. MaxTurns)] /\ mtime \in [Transcripts -> Times]
      BY <1>2, Numbers DEF Turn, Inv, TypeInv, TypeOK
    <2>. QED  BY <2>1 DEF Timed
  <1>3. UNCHANGED <<turns, mtime>> \/ \E t \in Transcripts : Turn(t)
    BY DEF Next, World, GitChange, Remove, Read, ReadHead, ReadLog, ReadTurns, ReadMtime, Gate,
           LoadOrCreate, Write, BeginTxn, BeginUnlocked, WriteState, LoadCursor, OpenMeta, WriteMeta, WriteVoid,
           Stop, substrate, vars
  <1>. QED  BY <1>1, <1>2, <1>3

\* Transcripts only grow, and a turn makes its transcript the youngest.
LEMMA WorldAges == ASSUME Inv, TypeInv', World \/ UNCHANGED <<turns, mtime, head>>
                   PROVE  /\ \A t \in Transcripts : /\ mtime[t] <= mtime'[t]
                                                    /\ turns[t] # {} => turns'[t] # {}
                          /\ head <= head'
  <1>1. CASE UNCHANGED <<turns, mtime>> /\ head' = head
    BY <1>1, Numbers DEF Inv, TypeInv
  <1>2. CASE GitChange
    BY <1>2, Numbers DEF GitChange, Inv, TypeInv
  <1>3. ASSUME NEW t \in Transcripts, Turn(t), NEW s \in Transcripts
        PROVE  mtime[s] <= mtime'[s] /\ (turns[s] # {} => turns'[s] # {}) /\ head <= head'
    <2>1. /\ clock \in Nat /\ mtime' = [mtime EXCEPT ![t] = clock + 1]
          /\ turns' = [turns EXCEPT ![t] = @ \cup {clock + 1}] /\ head' = head /\ head \in Nat
          /\ turns \in [Transcripts -> SUBSET (1 .. MaxTurns)] /\ mtime \in [Transcripts -> Times]
          /\ mtime[s] \in Nat /\ mtime[s] <= clock
      BY <1>3, Numbers DEF Turn, Inv, TypeInv, TypeOK, SubstrateInv
    <2>. QED  BY <2>1
  <1>4. ASSUME NEW t \in Transcripts, Turn(t) PROVE head <= head'
    BY <1>4, Numbers DEF Turn, Inv, TypeInv
  <1>. QED  BY <1>1, <1>2, <1>3, <1>4 DEF World

LEMMA ReachedStays == ASSUME Inv, TypeInv', World \/ UNCHANGED <<turns, mtime, head>>,
                             NEW m \in Nat, Reached(m)
                      PROVE  Reached(m)'
  <1>1. CASE m = 0
    BY <1>1 DEF Reached
  <1>2. ASSUME NEW t \in Transcripts, turns[t] # {}, m <= mtime[t] PROVE Reached(m)'
    <2>1. mtime[t] <= mtime'[t] /\ turns'[t] # {} /\ mtime[t] \in Nat /\ mtime'[t] \in Nat
      BY <1>2, WorldAges, BoundAssumption DEF Inv, TypeInv, TypeOK, Times
    <2>2. m <= mtime'[t]
      BY <1>2, <2>1
    <2>. QED  BY <2>1, <2>2 DEF Reached
  <1>. QED  BY <1>1, <1>2 DEF Reached

\* o does not take part.
LEMMA ForwardAlone == ASSUME Inv, TypeInv', NEW o \in Refreshers,
                             World \/ UNCHANGED <<turns, mtime, head>>,
                             pc'[o] = pc[o], cap'[o] = cap[o], unread'[o] = unread[o],
                             file'[o] = file[o], loaded'[o] = loaded[o]
                      PROVE  /\ Proper(o) => Proper(o)'
                             /\ \A m \in Fingerprints : Ahead(o, m) => Ahead(o, m)'
  <1>0. /\ pc[o] = "stat" => file[o] \in Transcripts
        /\ unread[o] \subseteq Transcripts /\ o \in Procs
        /\ cap[o].mtime \in Nat /\ cap[o].head \in Int
        /\ \A t \in Transcripts : mtime[t] \in Nat /\ mtime'[t] \in Nat
    BY Numbers, BoundAssumption DEF Inv, TypeInv, TypeOK, StagesOK, Procs, Times
  <1>1. \A t \in Transcripts : mtime[t] <= mtime'[t] /\ (turns[t] # {} => turns'[t] # {})
    BY WorldAges
  <1>2. ASSUME Proper(o) PROVE Proper(o)'
    <2>1. Reached(cap[o].mtime)'
      BY <1>0, <1>2, ReachedStays DEF Proper
    <2>2. pc[o] = "stat" => turns'[file[o]] # {} /\ mtime'[file[o]] > 0
      <3>. SUFFICES ASSUME pc[o] = "stat" PROVE turns'[file[o]] # {} /\ mtime'[file[o]] > 0
        OBVIOUS
      <3>1. turns[file[o]] # {} /\ mtime[file[o]] > 0 /\ file[o] \in Transcripts
        BY <1>0, <1>2 DEF Proper
      <3>2. mtime[file[o]] <= mtime'[file[o]] /\ mtime[file[o]] \in Nat /\ mtime'[file[o]] \in Nat
        BY <1>0, <1>1, <3>1
      <3>. QED  BY <1>1, <3>1, <3>2
    <2>. QED  BY <1>2, <2>1, <2>2 DEF Proper, Reached
  <1>3. ASSUME NEW m \in Fingerprints, Ahead(o, m) PROVE Ahead(o, m)'
    <2>1. m.mtime \in Nat
      BY Numbers DEF Inv, TypeInv
    <2>2. ASSUME NEW t \in Transcripts, m.mtime <= mtime[t] PROVE m.mtime <= mtime'[t]
      <3>1. mtime[t] <= mtime'[t] /\ mtime[t] \in Nat /\ mtime'[t] \in Nat
        BY <1>0, <1>1
      <3>. QED  BY <2>1, <2>2, <3>1
    <2>. QED  BY <1>0, <1>1, <1>3, <2>2 DEF Ahead
  <1>. QED  BY <1>2, <1>3

\* A process that is done has captured nothing.
LEMMA ForwardDone == ASSUME TypeInv, NEW o \in Refreshers, pc'[o] = "idle", Forget(o)
                     PROVE  Proper(o)' /\ \A m : Ahead(o, m)'
  <1>1. cap'[o] = NoCapture
    BY DEF Forget, TypeInv, TypeOK
  <1>. QED  BY <1>1 DEF Proper, Ahead, Reached, NoCapture, Deciding

LEMMA ForwardRead == ASSUME Inv, TypeInv', Timed, NEW o \in Refreshers, Proper(o), Read(o) \/ Gate(o)
                     PROVE  /\ Proper(o)'
                            /\ \A m \in Fingerprints :
                                 Ahead(o, m) /\ m.head <= head /\ Reached(m.mtime) => Ahead(o, m)'
  <1>0. /\ cap[o] \in Captures /\ cap[o].turns \subseteq Nat /\ cap[o].mtime \in Nat
        /\ head \in Nat /\ cap[o].head \in Int
        /\ cap \in [Refreshers -> Captures] /\ pc \in [Procs -> Stages] /\ o \in Procs
        /\ unread \in [Refreshers -> SUBSET Transcripts]
        /\ file \in [Refreshers -> Transcripts \cup {None}]
        /\ \A t \in Transcripts : mtime[t] \in Nat
        /\ \A m \in Fingerprints : m.head \in Int /\ m.mtime \in Nat
    BY Numbers DEF Inv, TypeInv, TypeOK, Procs
  <1>. USE DEF Goto, substrate, store, capture
  <1>1. CASE ReadHead(o)
    <2>1. /\ pc[o] = "idle" /\ pc'[o] = "log" /\ cap'[o].head \in {head, NoAnswer} /\ cap'[o].mtime = cap[o].mtime
          /\ cap'[o].turns = cap[o].turns /\ UNCHANGED <<turns, mtime>>
      BY <1>0, <1>1 DEF ReadHead, Captures
    <2>. QED  BY <2>1 DEF Proper, Ahead, Reached, Deciding
  <1>2. CASE ReadLog(o)
    <2>1. /\ pc[o] = "log" /\ pc'[o] = "scan" /\ unread'[o] = Transcripts
          /\ cap'[o].head = cap[o].head /\ cap'[o].mtime = cap[o].mtime
          /\ cap'[o].turns = cap[o].turns /\ UNCHANGED <<turns, mtime>>
      BY <1>0, <1>2 DEF ReadLog, Captures
    <2>2. cap[o].turns = {} /\ cap[o].mtime = 0
      BY <2>1 DEF Proper
    <2>3. Proper(o)'
      BY <2>1, <2>2 DEF Proper, Reached, Deciding
    <2>4. ASSUME NEW m \in Fingerprints, Ahead(o, m), Reached(m.mtime) PROVE Ahead(o, m)'
      BY <1>0, <2>1, <2>2, <2>4 DEF Ahead, Reached, Deciding
    <2>. QED  BY <2>3, <2>4
  <1>3. ASSUME NEW t \in Transcripts, ReadTurns(o, t)
        PROVE  Proper(o)' /\ \A m \in Fingerprints : Ahead(o, m) => Ahead(o, m)'
    <2>1. /\ pc[o] = "scan" /\ unread'[o] = unread[o] \ {t} /\ UNCHANGED <<turns, mtime>>
          /\ cap'[o].head = cap[o].head /\ cap'[o].mtime = cap[o].mtime
      BY <1>0, <1>3 DEF ReadTurns, Captures
    <2>2. CASE turns[t] = {}
      <3>1. pc'[o] = "scan" /\ cap' = cap
        BY <1>0, <1>3, <2>2 DEF ReadTurns
      <3>. QED  BY <2>1, <2>2, <3>1 DEF Proper, Ahead, Reached, Deciding
    <2>3. CASE turns[t] # {}
      <3>1. pc'[o] = "stat" /\ file'[o] = t /\ mtime[t] > 0
        BY <1>0, <1>3, <2>3 DEF ReadTurns, Timed
      <3>2. Proper(o)'
        BY <2>1, <2>3, <3>1 DEF Proper, Reached, Deciding
      <3>3. ASSUME NEW m \in Fingerprints, Ahead(o, m) PROVE Ahead(o, m)'
        BY <2>1, <3>1, <3>3 DEF Ahead, Deciding
      <3>. QED  BY <3>2, <3>3
    <2>. QED  BY <2>2, <2>3
  <1>4. CASE ReadMtime(o)
    <2>1. /\ pc[o] = "stat" /\ pc'[o] = "scan" /\ file[o] \in Transcripts
          /\ UNCHANGED <<turns, mtime, unread>>
      BY <1>0, <1>4 DEF ReadMtime, Inv, TypeInv, TypeOK, StagesOK
    <2>2. /\ cap'[o].head = cap[o].head
          /\ cap'[o].mtime = IF mtime[file[o]] > cap[o].mtime THEN mtime[file[o]] ELSE cap[o].mtime
      BY <1>0, <1>4 DEF ReadMtime, Captures
    <2>3. mtime[file[o]] \in Nat /\ turns[file[o]] # {} /\ mtime[file[o]] > 0
      BY <1>0, <2>1 DEF Proper
    <2>4. cap'[o].mtime \in Nat /\ cap'[o].mtime > 0 /\ mtime[file[o]] <= cap'[o].mtime
          /\ cap[o].mtime <= cap'[o].mtime
      BY <1>0, <2>2, <2>3
    <2>5. Reached(cap[o].mtime)'
      <3>1. CASE cap'[o].mtime = mtime[file[o]]
        BY <2>1, <2>3, <2>4, <3>1 DEF Reached
      <3>2. CASE cap'[o].mtime = cap[o].mtime
        BY <2>1, <3>2 DEF Proper, Reached
      <3>. QED  BY <2>2, <3>1, <3>2
    <2>6. Proper(o)'
      BY <2>1, <2>4, <2>5 DEF Proper, Deciding
    <2>7. ASSUME NEW m \in Fingerprints, Ahead(o, m) PROVE Ahead(o, m)'
      <3>1. m.mtime \in Nat
        BY <1>0
      <3>2. m.mtime <= cap[o].mtime \/ m.mtime <= mtime[file[o]] => m.mtime <= cap'[o].mtime
        BY <1>0, <2>3, <2>4, <3>1
      <3>. QED  BY <2>1, <2>2, <2>7, <3>2 DEF Ahead, Deciding
    <2>. QED  BY <2>6, <2>7
  <1>5. CASE Gate(o)
    <2>1. CASE Wanted(o)
      <3>1. /\ pc[o] = "scan" /\ pc'[o] = "llm" /\ unread[o] = {}
            /\ UNCHANGED <<turns, mtime, cap>>
        BY <1>0, <1>5, <2>1 DEF Gate
      <3>2. cap[o].head + cap[o].mtime > 0 \/ cap[o].head = NoAnswer
        BY <1>0, <2>1, <3>1 DEF Wanted, Proper, Captures, Answers, Heads, Times
      <3>3. Proper(o)'
        BY <3>1, <3>2 DEF Proper, Reached
      <3>4. ASSUME NEW m \in Fingerprints, Ahead(o, m) PROVE Ahead(o, m)'
        BY <3>1, <3>4 DEF Ahead
      <3>. QED  BY <3>3, <3>4
    <2>2. CASE ~Wanted(o)
      BY <1>0, <1>5, <2>2, ForwardDone DEF Gate, Inv
    <2>. QED  BY <2>1, <2>2
  <1>. QED  BY <1>1, <1>2, <1>3, <1>4, <1>5 DEF Read

LEMMA ForwardWrite == ASSUME Inv, TypeInv', NEW o \in Refreshers, Proper(o), Write(o) \/ Stop(o)
                      PROVE  Proper(o)' /\ \A m \in Fingerprints : Ahead(o, m) => Ahead(o, m)'
  <1>0. /\ pc \in [Procs -> Stages] /\ o \in Procs /\ loaded \in [Procs -> Cursors \cup {Missing}]
    BY DEF Inv, TypeInv, TypeOK, Procs
  <1>. USE DEF Goto, substrate, store, capture
  <1>1. UNCHANGED <<turns, mtime, head>>
    BY DEF Write, Stop, BeginTxn, BeginUnlocked, WriteState, LoadCursor, OpenMeta, WriteMeta, WriteVoid
  <1>2. ASSUME pc[o] \in Deciding, pc'[o] \in Deciding, cap' = cap,
               pc'[o] \in {"loaded", "torn"} => loaded'[o] \in Cursors
        PROVE  Proper(o)' /\ \A m \in Fingerprints : Ahead(o, m) => Ahead(o, m)'
    BY <1>1, <1>2 DEF Proper, Ahead, Reached, Deciding
  <1>3. CASE BeginTxn(o) \/ BeginUnlocked(o) \/ WriteState(o)
    BY <1>0, <1>2, <1>3 DEF BeginTxn, BeginUnlocked, WriteState, Deciding
  <1>4. CASE LoadCursor(o) /\ meta \in Cursors
    BY <1>0, <1>2, <1>4 DEF LoadCursor, Deciding
  <1>5. CASE OpenMeta(o)
    BY <1>0, <1>2, <1>5 DEF OpenMeta, Deciding, Proper
  <1>6. CASE (LoadCursor(o) /\ meta \notin Cursors) \/ WriteMeta(o) \/ WriteVoid(o) \/ Stop(o)
    BY <1>0, <1>6, ForwardDone DEF LoadCursor, WriteMeta, WriteVoid, Stop, Inv
  <1>. QED  BY <1>3, <1>4, <1>5, <1>6 DEF Write

LEMMA ProperStep == ASSUME Inv, TypeInv', Timed, \A r \in Refreshers : Proper(r), [Next]_vars,
                           NEW q \in Refreshers
                    PROVE  /\ Proper(q)'
                           /\ \A m \in Fingerprints :
                                Ahead(q, m) /\ m.head <= head /\ Reached(m.mtime) => Ahead(q, m)'
  <1>1. CASE World \/ UNCHANGED vars
    BY <1>1, ForwardAlone DEF World, GitChange, Turn, capture, vars
  <1>2. CASE Remove
    <2>1. /\ UNCHANGED <<cap, unread, file, loaded, turns, mtime>>
          /\ pc'[q] = IF pc[q] = "torn" THEN "void" ELSE pc[q]
      BY <1>2 DEF Remove, substrate, capture, Procs
    <2>. QED  BY <2>1 DEF Proper, Ahead, Reached, Deciding
  <1>3. ASSUME NEW o \in Procs, o # q,
               \/ o \in Refreshers /\ (Read(o) \/ Gate(o))
               \/ o \in Adders /\ LoadOrCreate(o)
               \/ Write(o) \/ Stop(o)
        PROVE  Proper(q)' /\ \A m \in Fingerprints : Ahead(q, m) => Ahead(q, m)'
    <2>1. UNCHANGED <<turns, mtime, head>>
      BY <1>3 DEF Read, ReadHead, ReadLog, ReadTurns, ReadMtime, Gate, LoadOrCreate, Write,
                  BeginTxn, BeginUnlocked, WriteState, LoadCursor, OpenMeta, WriteMeta, WriteVoid, Stop, substrate
    <2>2. /\ pc'[q] = pc[q] /\ cap'[q] = cap[q] /\ unread'[q] = unread[q]
          /\ file'[q] = file[q] /\ loaded'[q] = loaded[q]
      BY <1>3, Others DEF Inv, Procs
    <2>. QED  BY <2>1, <2>2, ForwardAlone
  <1>. QED
    BY <1>1, <1>2, <1>3, ForwardRead, ForwardWrite, ProcsAssumption DEF Next, Procs

LEMMA ForwardStep == ASSUME NEW w, Refreshers = {w}, ForwardInv, [Next]_vars  PROVE ForwardInv'
  <1>1. Inv /\ Inv' /\ TypeInv' /\ Timed /\ w \in Refreshers
    BY InvStep DEF ForwardInv, Inv
  <1>2. Timed'
    BY <1>1, TimedStep
  <1>3. \A r \in Refreshers : Proper(r) /\ Proper(r)'
    BY <1>1, ProperStep DEF ForwardInv
  <1>4. ASSUME ~crossed' PROVE Behind'
    <2>1. Stored /\ Behind
      BY <1>1, <1>4, CrossedStays DEF ForwardInv, Inv
    <2>2. \/ Text' = Text \/ Text' \notin Fingerprints
          \/ Records(w)
      BY <1>1, <1>3, <1>4, <2>1, TextStep, NoCover DEF Removes, Registers
    <2>3. CASE Text' = Text
      <3>. SUFFICES ASSUME NEW m \in Fingerprints, Text = m, Text' = m
                    PROVE  m.head <= head' /\ Reached(m.mtime)' /\ Ahead(w, m)'
        BY <2>3 DEF Behind, Ahead
      <3>1. m.head <= head /\ Reached(m.mtime) /\ Ahead(w, m)
        BY <2>1 DEF Behind
      <3>2. World \/ UNCHANGED <<turns, mtime, head>>
        BY DEF Next, Remove, Read, ReadHead, ReadLog, ReadTurns, ReadMtime, Gate, LoadOrCreate,
               Write, BeginTxn, BeginUnlocked, WriteState, LoadCursor, OpenMeta, WriteMeta, WriteVoid, Stop,
               substrate, vars
      <3>3. head <= head' /\ head \in Nat /\ head' \in Nat /\ m.head \in Int /\ m.mtime \in Nat
        BY <1>1, <3>2, WorldAges, Numbers, BoundAssumption DEF Inv, TypeInv, TypeOK, Heads
      <3>4. Reached(m.mtime)'
        BY <1>1, <3>1, <3>2, <3>3, ReachedStays
      <3>5. Ahead(w, m)'
        BY <1>1, <1>3, <3>1, ProperStep
      <3>. QED  BY <3>1, <3>3, <3>4, <3>5
    <2>4. CASE Text' \notin Fingerprints
      BY <2>4 DEF Behind
    <2>5. CASE Records(w)
      <3>1. /\ pc[w] = "torn" /\ pc'[w] = "idle" /\ Text' = Fingerprint(cap[w])
            /\ UNCHANGED <<turns, mtime, head>>
        BY <1>1, <2>5 DEF Records, WriteMeta, Goto, substrate, Inv, TypeInv, TypeOK, Procs
      <3>2. cap[w].head <= head
        BY <1>1, <3>1 DEF Inv, Captured
      <3>4. Text'.head = cap[w].head /\ Text'.mtime = cap[w].mtime
        BY <3>1 DEF Fingerprint
      <3>5. Text'.head <= head' /\ Reached(Text.mtime)'
        BY <1>3, <3>1, <3>2, <3>4 DEF Proper, Reached
      <3>. QED  BY <3>1, <3>5 DEF Behind, Ahead, Deciding
    <2>. QED  BY <2>2, <2>3, <2>4, <2>5
  <1>. QED  BY <1>1, <1>2, <1>3, <1>4 DEF ForwardInv

LEMMA PromiseInit == Init => Promise!Init
  <1>. SUFFICES ASSUME Init PROVE Promise!Init
    OBVIOUS
  <1>1. Text = meta /\ meta \notin Fingerprints
    BY NoCover DEF Init, Text, Writers
  <1>2. head + clock \in Nat
    BY BoundAssumption DEF Init, Heads
  <1>. QED  BY <1>1, <1>2 DEF Promise!Init, Version

LEMMA PromiseStep == ASSUME NEW w, Refreshers = {w}, ForwardInv, [Next]_vars, ~crossed'
                     PROVE  Promise!Next \/ UNCHANGED Promise!vars \/ Blinded
  <1>1. /\ Inv /\ Stored /\ Behind /\ TypeInv' /\ w \in Refreshers /\ Proper(w)
        /\ head \in Nat /\ clock \in Nat
    BY CrossedStays, InvStep, Numbers DEF ForwardInv, Inv, TypeInv
  <1>2. CASE World
    <2>1. Text' = Text
      BY <1>2, TextStays DEF World, Turn, GitChange, store
    <2>2. head' + clock' = (head + clock) + 1
      BY <1>1, <1>2 DEF World, Turn, GitChange
    <2>3. Promise!Change(Project)
      BY <2>1, <2>2 DEF Promise!Change, Version
    <2>. QED  BY <2>3 DEF Promise!Next
  <1>3. CASE ~World
    <2>1. UNCHANGED <<head, clock>>
      BY <1>3 DEF Next, Remove, Read, ReadHead, ReadLog, ReadTurns, ReadMtime, Gate, LoadOrCreate,
                  Write, BeginTxn, BeginUnlocked, WriteState, LoadCursor, OpenMeta, WriteMeta, WriteVoid, Stop,
                  substrate, vars
    <2>2. Text' = Text \/ Removes \/ Registers \/ Records(w)
      BY <1>1, TextStep
    <2>3. CASE Text' = Text
      BY <2>1, <2>3 DEF Promise!vars, Version
    <2>4. CASE Removes
      <3>1. Text' \notin Cursors /\ Text' \notin Fingerprints
        BY <2>4, NoCover, MetaAssumption DEF Removes
      <3>2. Promise!Forget(Project)
        BY <2>1, <3>1 DEF Promise!Forget, Version
      <3>. QED  BY <3>2 DEF Promise!Next
    <2>5. CASE Registers
      <3>1. Text \notin Cursors /\ Text' \in Cursors /\ Text \notin Fingerprints /\ Text' \notin Fingerprints
        BY <2>5, NoCover, MetaAssumption DEF Registers, Cursors
      <3>2. Promise!Register(Project)
        BY <2>1, <3>1 DEF Promise!Register, Version
      <3>. QED  BY <3>2 DEF Promise!Next
    <2>6. CASE Records(w)
      <3>1. /\ pc[w] = "torn" /\ Text \in Cursors /\ Text' = Fingerprint(cap[w])
            /\ cap[w] \in Captures /\ cap[w].head \in Int /\ cap[w].mtime \in Nat
        BY <1>1, <2>6, Numbers DEF Records, Inv, TypeInv
      <3>2. /\ Text' \in Fingerprints /\ Text' \in Cursors
            /\ Text'.head = cap[w].head /\ Text'.mtime = cap[w].mtime
        BY <3>1 DEF Fingerprint, Fingerprints, Captures, Cursors
      <3>3. CASE cap[w].head = NoAnswer
        BY <3>2, <3>3 DEF Blinded
      <3>4. CASE cap[w].head # NoAnswer
        <4>1. /\ cap[w].head <= head /\ cap[w].mtime <= clock /\ cap[w].head + cap[w].mtime > 0
          BY <1>1, <3>1, <3>4 DEF Inv, Captured, Proper, Deciding
        <4>2. Version(Text)' = cap[w].head + cap[w].mtime
          BY <3>2, <3>4 DEF Version
        <4>3. CASE Version(Text) = NoCursor
          <5>1. Promise!Record(Project)
            BY <1>1, <2>1, <3>1, <3>2, <4>1, <4>2, <4>3 DEF Promise!Record
          <5>. QED  BY <5>1 DEF Promise!Next
        <4>4. CASE Version(Text) # NoCursor
          <5>1. /\ Text \in Fingerprints /\ Text.head \in Int /\ Text.mtime \in Nat
                /\ Version(Text) = Text.head + Text.mtime
            BY <1>1, <4>4, Numbers DEF Inv, TypeInv, Version
          <5>2. Text.head <= cap[w].head /\ Text.mtime <= cap[w].mtime
            BY <1>1, <3>1, <3>4, <5>1 DEF Behind, Ahead, Deciding
          <5>3. CASE Version(Text)' = Version(Text)
            BY <2>1, <3>1, <3>2, <5>3 DEF Promise!vars
          <5>4. CASE Version(Text)' # Version(Text)
            <6>1. Version(Text) < cap[w].head + cap[w].mtime
              BY <3>1, <4>2, <5>1, <5>2, <5>4
            <6>2. Promise!Record(Project)
              BY <1>1, <2>1, <3>1, <3>2, <4>1, <4>2, <6>1 DEF Promise!Record
            <6>. QED  BY <6>2 DEF Promise!Next
          <5>. QED  BY <5>3, <5>4
        <4>. QED  BY <4>3, <4>4
      <3>. QED  BY <3>3, <3>4
    <2>. QED  BY <2>2, <2>3, <2>4, <2>5, <2>6
  <1>. QED  BY <1>2, <1>3

\* What module Freshness promises, in the code's own steps: however the capture,
\* the two writes of a transaction, `add`, `remove` and deaths interleave, the
\* cursor of a project with one refresher moves only forward and never ahead of
\* its substrate, until something has crossed a transaction, or run without the
\* lock; except for a cursor that a capture git did not answer records.
THEOREM CursorMovesForward ==
  ASSUME NEW w, Refreshers = {w}
  PROVE  Spec => Promise!Init /\ [][~crossed' => Promise!Next \/ UNCHANGED Promise!vars \/ Blinded]_vars
  <1>1. ForwardInv /\ [Next]_vars => ForwardInv'
    BY ForwardStep
  <1>2. ForwardInv /\ [Next]_vars => [~crossed' => Promise!Next \/ UNCHANGED Promise!vars \/ Blinded]_vars
    BY PromiseStep
  <1>. QED  BY <1>1, <1>2, ForwardInit, PromiseInit, PTL DEF Spec
=============================================================================
