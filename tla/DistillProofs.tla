---------------------------- MODULE DistillProofs ----------------------------
(* Proofs about one distill: types, the notice before a digest leaves the    *)
(* machine, and what the worker's ceiling can cut.                           *)
EXTENDS Distill, TLAPS

USE DEF Files

-----------------------------------------------------------------------------
(* Arithmetic and the number of calls.                                      *)

LEMMA TimesMonotone == ASSUME NEW a \in Nat, NEW b \in Nat, NEW t \in Nat, a <= b
                       PROVE  a * t <= b * t
  <1>1. (b - a) * t >= 0
    BY SMT
  <1>2. (b - a) * t = b * t - a * t
    BY SMT
  <1>. QED  BY <1>1, <1>2, SMT

LEMMA TimesType == ASSUME NEW a \in Nat, NEW t \in Nat  PROVE a * t \in Nat
  BY SMT

LEMMA TimesNext == ASSUME NEW a \in Nat, NEW t \in Nat  PROVE (a + 1) * t = a * t + t
  BY SMT

LEMMA PlusMonotone == ASSUME NEW a \in Nat, NEW b \in Nat, NEW c \in Nat, b <= c
                      PROVE  a + b <= a + c /\ a + c \in Nat
  BY SMT

LEMMA OlderType == ASSUME NEW n \in Histories \cup {0}
                   PROVE  Older(n) \in Nat /\ Maps(n) \in 0 .. MapCap
  BY HistoryAssumption, SizeAssumption DEF Older, Maps

LEMMA CallsType == ASSUME NEW n \in Histories \cup {0}, NEW d
                   PROVE  /\ Calls(n, d) \in 1 .. MapCap + 3
                          /\ d # "deep" => Calls(n, d) = 1
                          /\ d = "deep" => Maps(n) < Calls(n, d)
  BY OlderType, SizeAssumption DEF Calls

LEMMA LoadType == config \in Files \cup {Broken} => Load \in Config
  BY ConfigAssumption DEF Load

LEMMA ChoiceType == ASSUME NEW cfg \in Config, NEW o \in Providers \cup {None}
                    PROVE  Choice(cfg, o) \in Providers /\ cfg.base[Choice(cfg, o)] \in Bases
  <1>1. cfg.model \in Providers \cup {None} /\ cfg.base \in [Providers -> Bases]
    BY DEF Config
  <1>2. Choice(cfg, o) \in Providers
    BY <1>1, ConfigAssumption DEF Choice
  <1>. QED  BY <1>1, <1>2

-----------------------------------------------------------------------------
(* Types.                                                                   *)

LEMMA TypeInit == Init => TypeOK
  <1>. SUFFICES ASSUME Init PROVE TypeOK
    OBVIOUS
  <1>1. 0 <= Calls(history, depth)
    BY CallsType, SizeAssumption DEF Init
  <1>2. asked \in Options
    BY DEF Init, Options
  <1>3. config \in Files \cup {Broken}
    BY DEF Init
  <1>5. 0 \in 0 .. Attempts
    BY SizeAssumption
  <1>. QED  BY <1>1, <1>2, <1>3, <1>5 DEF Init, TypeOK, Bases, Kinds

\* What the jobs of a command and of the worker begin with.
LEMMA TypeJob == ASSUME NEW k \in Kinds, NEW to \in {"idle", "consent", "resolve"},
                        NEW o \in Options, NEW n \in Histories \cup {0},
                        TypeOK, Job(k, to), asked' = o, history' = n,
                        told' \in BOOLEAN, edited' \in BOOLEAN, config' \in Files \cup {Broken}
                 PROVE  TypeOK'
  <1>1. 0 <= Calls(history', depth')
    BY CallsType, SizeAssumption DEF Job
  <1>3. 0 \in 0 .. Attempts
    BY SizeAssumption
  <1>4. history' \in Histories \cup {0} /\ asked' \in Options
    OBVIOUS
  <1>. QED  BY <1>1, <1>3, <1>4 DEF Job, TypeOK, Bases

LEMMA TypeNextCall == ASSUME TypeOK, pc = "call", NextCall, UNCHANGED <<history, depth>>
                      PROVE  /\ pc' \in {"call", "done"}
                             /\ call' \in Nat /\ call' <= Calls(history', depth')
                             /\ attempt' \in 0 .. Attempts
  <1>1. Calls(history, depth) \in Nat /\ call \in Nat /\ call <= Calls(history, depth)
    BY CallsType, SizeAssumption DEF TypeOK
  <1>2. Calls(history', depth') = Calls(history, depth)
    OBVIOUS
  <1>3. 1 \in 0 .. Attempts /\ attempt \in 0 .. Attempts
    BY SizeAssumption DEF TypeOK
  <1>. QED  BY <1>1, <1>2, <1>3 DEF NextCall

LEMMA TickType == ASSUME TypeOK, NEW d \in Nat, Tick(d)  PROVE elapsed' \in Nat
  BY DEF TypeOK, Tick

LEMMA WaitType == ASSUME TypeOK, attempt < Attempts, attempt >= 1
                  PROVE  Wait(attempt) \in 0 .. MaxWait
  BY WaitAssumption, SizeAssumption DEF TypeOK

\* While a job calls, it is in some try of some call.
Started == pc = "call" => call >= 1 /\ attempt >= 1

TypeInv == TypeOK /\ Started

LEMMA TypeStep == TypeInv /\ [Next]_vars => TypeInv'
  <1>. SUFFICES ASSUME TypeOK, Started, [Next]_vars PROVE TypeOK' /\ Started'
    BY DEF TypeInv
  <1>. USE DEF plan, content, clocks
  <1>1. ASSUME NEW k \in Kinds, NEW o \in Options, NEW n \in Histories, Begin(k, o, n)
        PROVE  TypeOK' /\ Started'
    <2>1. TypeOK'
      <3>1. PICK to \in {"consent", "resolve"} : Job(k, to)
        BY <1>1 DEF Begin
      <3>. QED  BY <1>1, <3>1, TypeJob DEF Begin, TypeOK
    <2>. QED  BY <1>1, <2>1 DEF Begin, Job, Started
  <1>2. ASSUME Consent PROVE TypeOK' /\ Started'
    <2>1. ~Load.consent => chosen' \in Providers
      <3>1. asked.model \in Providers \cup {None}
        BY DEF TypeOK, Options
      <3>. QED  BY <1>2, <3>1, LoadType, ChoiceType DEF Consent, NoticeChoice, TypeOK
    <2>2. chosen' \in Providers \cup {None} /\ pc' \in {"resolve", "locality"}
      BY <1>2, <2>1 DEF Consent, TypeOK
    <2>3. Calls(history', depth') = Calls(history, depth)
      BY <1>2 DEF Consent
    <2>. QED  BY <1>2, <2>2, <2>3 DEF Consent, TypeOK, Started
  <1>3. ASSUME Locality PROVE TypeOK' /\ Started'
    <2>1. Calls(history', depth') = Calls(history, depth)
      BY <1>3 DEF Locality
    <2>2. told' \in BOOLEAN
      BY <1>3 DEF Locality
    <2>. QED  BY <1>3, <2>1, <2>2 DEF Locality, TypeOK, Started
  <1>4. ASSUME Resolve PROVE TypeOK' /\ Started'
    <2>1. Calls(history', depth') = Calls(history, depth)
      BY <1>4 DEF Resolve
    <2>2. Load.base[Choice(Load, asked.model)] \in Bases
      <3>1. asked.model \in Providers \cup {None}
        BY DEF TypeOK, Options
      <3>. QED  BY <3>1, LoadType, ChoiceType DEF TypeOK
    <2>3. target' \in Bases /\ pc' \in {"failed", "render"}
      BY <1>4, <2>2 DEF Resolve, TypeOK
    <2>. QED  BY <1>4, <2>1, <2>3 DEF Resolve, TypeOK, Started
  <1>5. ASSUME Render PROVE TypeOK' /\ Started'
    <2>1. depth' \in {"shallow", "deep"}
      BY <1>5 DEF Render, DepthOf
    <2>2. 1 <= Calls(history', depth') /\ history' \in Histories \cup {0}
      <3>1. history' \in Histories \cup {0}
        BY <1>5 DEF Render, TypeOK
      <3>2. Calls(history', depth') \in 1 .. MapCap + 3
        BY <3>1, CallsType
      <3>. QED  BY <3>1, <3>2, SizeAssumption
    <2>3. 1 \in 0 .. Attempts
      BY SizeAssumption
    <2>. QED  BY <1>5, <2>1, <2>2, <2>3 DEF Render, TypeOK, Started
  <1>6. ASSUME NEW d \in Durations, Answer(d) PROVE TypeOK' /\ Started'
    <2>1. /\ pc' \in {"call", "done"} /\ call' \in Nat /\ call' <= Calls(history', depth')
          /\ attempt' \in 0 .. Attempts
      BY <1>6, TypeNextCall DEF Answer
    <2>2. elapsed' \in Nat
      BY <1>6, TickType, TimeAssumption DEF Answer
    <2>4. Started'
      BY <1>6, <2>1 DEF Answer, NextCall, Started, TypeOK
    <2>. QED  BY <1>6, <2>1, <2>2, <2>4 DEF Answer, TypeOK
  <1>7. ASSUME NEW d \in Durations, NEW r \in Replies, TryAgain(d, r) PROVE TypeOK' /\ Started'
    <2>1. Wait(attempt) \in 0 .. MaxWait
      BY <1>7, WaitType DEF TryAgain, Started
    <2>2. elapsed' \in Nat
      BY <1>7, <2>1, TickType, TimeAssumption DEF TryAgain
    <2>3. attempt' \in 1 .. Attempts /\ fails' \in Nat
      BY <1>7, SizeAssumption DEF TryAgain, TypeOK
    <2>4. Calls(history', depth') = Calls(history, depth)
      BY <1>7 DEF TryAgain
    <2>. QED  BY <1>7, <2>2, <2>3, <2>4 DEF TryAgain, TypeOK, Started
  <1>8. ASSUME NEW d \in Durations, NEW r \in Replies, GiveUp(d, r) PROVE TypeOK' /\ Started'
    <2>1. /\ pc' \in {"call", "done", "failed"} /\ call' \in Nat
          /\ call' <= Calls(history', depth') /\ attempt' \in 0 .. Attempts
      <3>1. Calls(history', depth') = Calls(history, depth)
        BY <1>8 DEF GiveUp
      <3>2. CASE depth = "deep" /\ call <= Maps(history)
        BY <1>8, <3>2, TypeNextCall DEF GiveUp
      <3>3. CASE ~(depth = "deep" /\ call <= Maps(history))
        BY <1>8, <3>1, <3>3 DEF GiveUp, TypeOK
      <3>. QED  BY <3>2, <3>3
    <2>2. elapsed' \in Nat
      BY <1>8, TickType, TimeAssumption DEF GiveUp
    <2>3. fails' \in Nat
      BY <1>8 DEF GiveUp, TypeOK
    <2>4. Started'
      BY <1>8, <2>1 DEF GiveUp, NextCall, Started, TypeOK
    <2>. QED  BY <1>8, <2>1, <2>2, <2>3, <2>4 DEF GiveUp, TypeOK
  <1>9. ASSUME NEW d \in Durations, Cut(d) PROVE TypeOK' /\ Started'
    <2>1. Calls(history', depth') = Calls(history, depth)
      BY <1>9 DEF Cut
    <2>. QED  BY <1>9, <2>1 DEF Cut, TypeOK, Started
  <1>10. ASSUME NEW n \in Histories, NextProject(n) PROVE TypeOK' /\ Started'
    <2>1. TypeOK'
      BY <1>10, TypeJob DEF NextProject, TypeOK
    <2>. QED  BY <1>10, <2>1 DEF NextProject, Job, Started
  <1>11. ASSUME End PROVE TypeOK' /\ Started'
    <2>1. asked' \in Options /\ history' \in Histories \cup {0}
      BY <1>11 DEF End, Options
    <2>2. TypeOK'
      BY <1>11, <2>1, TypeJob DEF End, TypeOK
    <2>. QED  BY <1>11, <2>2 DEF End, Job, Started
  <1>12. ASSUME NEW f \in Files \cup {Broken}, EditConfig(f) PROVE TypeOK' /\ Started'
    <2>1. Calls(history', depth') = Calls(history, depth)
      BY <1>12 DEF EditConfig
    <2>2. edited' \in BOOLEAN
      BY <1>12 DEF EditConfig
    <2>. QED  BY <1>12, <2>1, <2>2 DEF EditConfig, TypeOK, Started
  <1>13. ASSUME UNCHANGED vars PROVE TypeOK' /\ Started'
    <2>1. Calls(history', depth') = Calls(history, depth)
      BY <1>13 DEF vars
    <2>. QED  BY <1>13, <2>1 DEF vars, TypeOK, Started
  <1>. QED
    BY <1>1, <1>2, <1>3, <1>4, <1>5, <1>6, <1>7, <1>8, <1>9, <1>10, <1>11, <1>12, <1>13
       DEF Next, Step, Try

\* TypeOK holds whatever the configuration, the conversations and the provider.
THEOREM TypeCorrect == Spec => []TypeOK
  <1>1. Init => TypeInv
    BY TypeInit DEF TypeInv, Started, Init
  <1>2. Spec => []TypeInv
    BY <1>1, TypeStep, PTL DEF Spec
  <1>3. TypeInv => TypeOK
    BY DEF TypeInv
  <1>. QED  BY <1>2, <1>3, PTL

-----------------------------------------------------------------------------
(* What the ceiling can cut.  At most a timeout has gone by for every call   *)
(* answered and every try that failed, and the longest wait after each of    *)
(* the latter.                                                               *)

Early == {"consent", "locality", "resolve", "render"}

Paced == /\ pc \in Early => elapsed = 0 /\ fails = 0
         /\ pc = "call" /\ depth = "shallow" => call = 1 /\ fails = attempt - 1
         /\ pc = "call" /\ kind = "worker" =>
              elapsed <= (call - 1 + fails) * Timeout + fails * MaxWait

PaceInv == TypeInv /\ Paced /\ CutMeansTrouble

\* A call is answered, or an older conversation is given up.
LEMMA PaceAnswered ==
    ASSUME TypeInv, Paced, pc = "call", NEW d \in Durations, Tick(d), NextCall,
           UNCHANGED <<kind, history, depth>>, fails' = fails \/ fails' = fails + 1
    PROVE  pc' # "cut" /\ Paced'
  <1>1. /\ d \in Nat /\ d <= Timeout /\ Timeout \in Nat /\ MaxWait \in Nat
        /\ call \in Nat /\ call >= 1 /\ fails \in Nat /\ elapsed \in Nat
        /\ call <= Calls(history, depth)
    BY TimeAssumption DEF TypeInv, TypeOK, Started
  <1>5. fails' \in Nat /\ fails <= fails' /\ kind' = kind
    BY <1>1
  <1>2. pc' \in {"call", "done"}
    BY DEF NextCall
  <1>3. pc' = "call" => depth' # "shallow"
    <2>1. depth # "deep" => Calls(history, depth) = 1
      BY CallsType DEF TypeInv, TypeOK
    <2>. QED  BY <1>1, <2>1 DEF NextCall
  <1>4. ASSUME pc' = "call", kind' = "worker"
        PROVE  elapsed' <= (call' - 1 + fails') * Timeout + fails' * MaxWait
    <2>1. call' = call + 1 /\ elapsed' = elapsed + d
      BY <1>4, <1>1 DEF NextCall, Tick
    <2>2. elapsed <= (call - 1 + fails) * Timeout + fails * MaxWait
      BY <1>4, <1>5 DEF Paced
    <2>0. /\ call - 1 + fails \in Nat /\ call - 1 + fails + 1 \in Nat
          /\ call' - 1 + fails' \in Nat /\ call - 1 + fails + 1 <= call' - 1 + fails'
      <3>1. call' = call + 1 /\ call' \in Nat
        BY <1>1, <2>1
      <3>2. call - 1 \in Nat /\ call' - 1 = call
        BY <1>1, <3>1
      <3>3. call' - 1 + fails' = call + fails'
        BY <3>2
      <3>4. call - 1 + fails + 1 = call + fails /\ call - 1 + fails \in Nat
        BY <1>1, <3>2
      <3>5. call \in Nat /\ fails \in Nat /\ fails' \in Nat /\ fails <= fails'
        BY <1>1, <1>5
      <3>6. call + fails <= call + fails' /\ call + fails' \in Nat
        BY <3>5, PlusMonotone
      <3>. QED  BY <3>3, <3>4, <3>5, <3>6
    <2>3. (call - 1 + fails + 1) * Timeout = (call - 1 + fails) * Timeout + Timeout
      BY <1>1, <2>0, TimesNext
    <2>4. (call - 1 + fails + 1) * Timeout <= (call' - 1 + fails') * Timeout
      BY <1>1, <2>0, TimesMonotone
    <2>5. fails * MaxWait <= fails' * MaxWait
      BY <1>1, <1>5, TimesMonotone
    <2>6. /\ (call - 1 + fails) * Timeout \in Nat /\ fails * MaxWait \in Nat
          /\ (call' - 1 + fails') * Timeout \in Nat /\ fails' * MaxWait \in Nat
          /\ (call - 1 + fails + 1) * Timeout \in Nat
      BY <1>1, <1>5, <2>0, TimesType
    <2>7. elapsed' \in Nat /\ elapsed' = elapsed + d /\ elapsed \in Nat /\ d \in Nat
      BY <1>1, <2>1
    <2>8. elapsed + d <= (call - 1 + fails + 1) * Timeout + fails * MaxWait
      BY <1>1, <2>2, <2>3, <2>6, <2>7
    <2>9. (call - 1 + fails + 1) * Timeout + fails * MaxWait
            <= (call' - 1 + fails') * Timeout + fails' * MaxWait
      BY <2>4, <2>5, <2>6
    <2>. QED  BY <2>6, <2>7, <2>8, <2>9
  <1>6. ~(pc' \in Early) /\ ~(pc' = "call" /\ depth' = "shallow") /\ pc' # "cut"
    BY <1>2, <1>3 DEF Early
  <1>. QED  BY <1>4, <1>6 DEF Paced

LEMMA PaceTryAgain == ASSUME TypeInv, Paced, NEW d \in Durations, NEW r, TryAgain(d, r)
                      PROVE  pc' # "cut" /\ Paced'
  <1>1. /\ d \in Nat /\ d <= Timeout /\ Timeout \in Nat /\ MaxWait \in Nat
        /\ call \in Nat /\ call >= 1 /\ fails \in Nat /\ elapsed \in Nat
        /\ attempt \in Nat /\ fails' = fails + 1 /\ attempt' = attempt + 1
        /\ pc = "call" /\ pc' = "call" /\ UNCHANGED <<kind, depth, call>>
    BY TimeAssumption, SizeAssumption DEF TypeInv, TypeOK, Started, TryAgain, content
  <1>2. Wait(attempt) \in Nat /\ Wait(attempt) <= MaxWait
    BY WaitType, TimeAssumption DEF TypeInv, Started, TryAgain
  <1>3. depth' = "shallow" => call' = 1 /\ fails' = attempt' - 1
    BY <1>1 DEF Paced
  <1>4. ASSUME kind' = "worker"
        PROVE  elapsed' <= (call' - 1 + fails') * Timeout + fails' * MaxWait
    <2>1. elapsed' = elapsed + (d + Wait(attempt))
      BY <1>4, <1>1 DEF TryAgain, Tick
    <2>2. elapsed <= (call - 1 + fails) * Timeout + fails * MaxWait
      BY <1>4, <1>1 DEF Paced
    <2>3. (call - 1 + fails + 1) * Timeout = (call - 1 + fails) * Timeout + Timeout
      BY <1>1, TimesNext
    <2>4. (fails + 1) * MaxWait = fails * MaxWait + MaxWait
      BY <1>1, TimesNext
    <2>5. (call - 1 + fails) * Timeout \in Nat /\ fails * MaxWait \in Nat
      BY <1>1, TimesType
    <2>6. call' - 1 + fails' = call - 1 + fails + 1
      BY <1>1
    <2>. QED  BY <1>1, <1>2, <2>1, <2>2, <2>3, <2>4, <2>5, <2>6
  <1>. QED  BY <1>1, <1>3, <1>4 DEF Paced, Early

LEMMA PaceCut == ASSUME TypeInv, Paced, NEW d \in Durations, Cut(d)
                 PROVE  depth = "deep" /\ fails >= MinFails
  <1>1. /\ d \in Nat /\ d <= Timeout /\ Timeout \in Nat /\ MaxWait \in Nat
        /\ call \in Nat /\ call >= 1 /\ fails \in Nat /\ elapsed \in Nat
        /\ attempt \in Nat /\ attempt <= Attempts /\ Attempts \in Nat
        /\ Ceiling \in Nat /\ MinFails \in Nat /\ MinFails >= 1
        /\ MapCap \in Nat /\ elapsed + Timeout >= Ceiling
    BY TimeAssumption, SizeAssumption, CeilingAssumption
       DEF TypeInv, TypeOK, Started, Cut
  <1>2. elapsed <= (call - 1 + fails) * Timeout + fails * MaxWait
    BY DEF Cut, Paced
  <1>3. (call - 1 + fails + 1) * Timeout = (call - 1 + fails) * Timeout + Timeout
    BY <1>1, TimesNext
  <1>4. /\ (call - 1 + fails) * Timeout \in Nat /\ fails * MaxWait \in Nat
        /\ (call - 1 + fails + 1) * Timeout \in Nat
    BY <1>1, TimesType
  <1>5. (call - 1 + fails + 1) * Timeout + fails * MaxWait >= Ceiling
    BY <1>1, <1>2, <1>3, <1>4
  <1>6. depth = "deep"
    <2>. SUFFICES ASSUME depth # "deep" PROVE FALSE
      OBVIOUS
    <2>1. call = 1 /\ fails = attempt - 1
      BY DEF Paced, Cut, TypeInv, TypeOK
    <2>2. (call - 1 + fails + 1) * Timeout <= Attempts * Timeout
      BY <1>1, <2>1, TimesMonotone
    <2>3. fails * MaxWait <= (Attempts - 1) * MaxWait
      BY <1>1, <2>1, TimesMonotone
    <2>4. Attempts * Timeout \in Nat /\ (Attempts - 1) * MaxWait \in Nat
      BY <1>1, <2>1, TimesType
    <2>. QED  BY <1>1, <1>4, <1>5, <2>2, <2>3, <2>4, CeilingAssumption
  <1>7. fails >= MinFails
    <2>. SUFFICES ASSUME fails <= MinFails - 1 PROVE FALSE
      BY <1>1
    <2>1. call <= MapCap + 3
      BY <1>1, CallsType DEF TypeInv, TypeOK
    <2>2. (call - 1 + fails + 1) * Timeout <= (MapCap + 2 + MinFails) * Timeout
      BY <1>1, <2>1, TimesMonotone
    <2>3. fails * MaxWait <= (MinFails - 1) * MaxWait
      BY <1>1, TimesMonotone
    <2>4. (MapCap + 2 + MinFails) * Timeout \in Nat /\ (MinFails - 1) * MaxWait \in Nat
      BY <1>1, TimesType
    <2>. QED  BY <1>1, <1>4, <1>5, <2>2, <2>3, <2>4, CeilingAssumption
  <1>. QED  BY <1>6, <1>7

LEMMA PaceStep == PaceInv /\ [Next]_vars => PaceInv'
  <1>. SUFFICES ASSUME TypeInv, Paced, CutMeansTrouble, [Next]_vars
                PROVE  TypeInv' /\ Paced' /\ CutMeansTrouble'
    BY DEF PaceInv
  <1>0. TypeInv'
    BY TypeStep
  <1>. USE DEF plan, content, clocks
  <1>1. ASSUME NEW k \in Kinds, NEW o \in Options, NEW n \in Histories, Begin(k, o, n)
        PROVE  Paced' /\ CutMeansTrouble'
    BY <1>1 DEF Begin, Job, Paced, CutMeansTrouble
  <1>2. ASSUME Consent \/ Locality \/ Resolve PROVE Paced' /\ CutMeansTrouble'
    BY <1>2 DEF Consent, Locality, Resolve, Paced, Early, CutMeansTrouble
  <1>3. ASSUME Render PROVE Paced' /\ CutMeansTrouble'
    <2>1. elapsed' = 0 /\ fails' = 0 /\ call' = 1 /\ attempt' = 1 /\ pc' = "call"
      BY <1>3 DEF Render, Paced, Early
    <2>2. (1 - 1 + 0) * Timeout + 0 * MaxWait = 0
      BY TimeAssumption
    <2>. QED  BY <2>1, <2>2 DEF Paced, Early, CutMeansTrouble
  <1>4. ASSUME NEW d \in Durations, Answer(d) PROVE Paced' /\ CutMeansTrouble'
    BY <1>4, PaceAnswered DEF Answer, CutMeansTrouble
  <1>5. ASSUME NEW d \in Durations, NEW r \in Replies, TryAgain(d, r)
        PROVE  Paced' /\ CutMeansTrouble'
    BY <1>5, PaceTryAgain DEF CutMeansTrouble
  <1>6. ASSUME NEW d \in Durations, NEW r \in Replies, GiveUp(d, r)
        PROVE  Paced' /\ CutMeansTrouble'
    <2>1. CASE depth = "deep" /\ call <= Maps(history)
      <3>1. NextCall /\ fails' = fails + 1
        BY <1>6, <2>1 DEF GiveUp
      <3>. QED  BY <1>6, <3>1, PaceAnswered DEF GiveUp, CutMeansTrouble
    <2>2. CASE ~(depth = "deep" /\ call <= Maps(history))
      BY <1>6, <2>2 DEF GiveUp, Paced, Early, CutMeansTrouble
    <2>. QED  BY <2>1, <2>2
  <1>7. ASSUME NEW d \in Durations, Cut(d) PROVE Paced' /\ CutMeansTrouble'
    BY <1>7, PaceCut DEF Cut, Paced, Early, CutMeansTrouble
  <1>8. ASSUME NEW n \in Histories, NextProject(n) PROVE Paced' /\ CutMeansTrouble'
    BY <1>8 DEF NextProject, Job, Paced, CutMeansTrouble
  <1>9. ASSUME End PROVE Paced' /\ CutMeansTrouble'
    BY <1>9 DEF End, Job, Paced, Early, CutMeansTrouble
  <1>10. ASSUME NEW f \in Files \cup {Broken}, EditConfig(f) PROVE Paced' /\ CutMeansTrouble'
    BY <1>10 DEF EditConfig, Paced, CutMeansTrouble
  <1>11. ASSUME UNCHANGED vars PROVE Paced' /\ CutMeansTrouble'
    BY <1>11 DEF vars, Paced, CutMeansTrouble
  <1>. QED
    BY <1>0, <1>1, <1>2, <1>3, <1>4, <1>5, <1>6, <1>7, <1>8, <1>9, <1>10, <1>11
       DEF Next, Step, Try

\* Whatever the provider does, the ceiling of the daemon's worker cuts only a
\* deep distill, and only one in which MinFails tries had failed.
THEOREM CeilingCorrect == Spec => []CutMeansTrouble
  <1>1. Init => PaceInv
    BY TypeInit DEF PaceInv, TypeInv, Started, Paced, Early, CutMeansTrouble, Init
  <1>2. Spec => []PaceInv
    BY <1>1, PaceStep, PTL DEF Spec
  <1>3. PaceInv => CutMeansTrouble
    BY DEF PaceInv
  <1>. QED  BY <1>2, <1>3, PTL

-----------------------------------------------------------------------------
(* The notice.  Unless config.toml was saved, the provider the notice is      *)
(* about, the one that is resolved and the one of the file are one.           *)

Place == Load.base[Choice(Load, asked.model)]

Noticed ==
    kind = "cli" /\ ~edited =>
      /\ pc = "consent" => ~told
      /\ pc = "locality" => chosen = Choice(Load, asked.model) /\ ~Load.consent
      /\ pc \notin {"idle", "consent", "locality"} =>
           (told <=> Place # "local" /\ ~Load.consent)
      /\ pc \in {"render", "call"} => target = Place /\ Place # "unusable"

LEMMA NoticeStep == TypeOK /\ Noticed /\ [Next]_vars => Noticed'
  <1>. SUFFICES ASSUME TypeOK, Noticed, [Next]_vars PROVE Noticed'
    OBVIOUS
  <1>. USE DEF plan, content, clocks, Noticed, Place
  <1>0. config' = config => Load' = Load
    BY DEF Load
  <1>1. ASSUME NEW k \in Kinds, NEW o \in Options, NEW n \in Histories, Begin(k, o, n)
        PROVE  Noticed'
    BY <1>1 DEF Begin, Job
  <1>2. ASSUME Consent PROVE Noticed'
    BY <1>0, <1>2 DEF Consent, NoticeChoice
  <1>3. ASSUME Locality PROVE Noticed'
    BY <1>0, <1>3 DEF Locality
  <1>4. ASSUME Resolve PROVE Noticed'
    BY <1>0, <1>4 DEF Resolve
  <1>5. ASSUME Render PROVE Noticed'
    BY <1>0, <1>5 DEF Render
  <1>6. ASSUME NEW d \in Durations, Answer(d) PROVE Noticed'
    BY <1>0, <1>6 DEF Answer, NextCall
  <1>7. ASSUME NEW d \in Durations, NEW r \in Replies, TryAgain(d, r) PROVE Noticed'
    BY <1>0, <1>7 DEF TryAgain
  <1>8. ASSUME NEW d \in Durations, NEW r \in Replies, GiveUp(d, r) PROVE Noticed'
    BY <1>0, <1>8 DEF GiveUp, NextCall
  <1>9. ASSUME NEW d \in Durations, Cut(d) PROVE Noticed'
    BY <1>0, <1>9 DEF Cut
  <1>10. ASSUME NEW n \in Histories, NextProject(n) PROVE Noticed'
    BY <1>0, <1>10 DEF NextProject, Job, Ended
  <1>11. ASSUME End PROVE Noticed'
    BY <1>11 DEF End, Job
  <1>12. ASSUME NEW f \in Files \cup {Broken}, EditConfig(f) PROVE Noticed'
    BY <1>12 DEF EditConfig
  <1>13. ASSUME UNCHANGED vars PROVE Noticed'
    BY <1>0, <1>13 DEF vars
  <1>. QED
    BY <1>1, <1>2, <1>3, <1>4, <1>5, <1>6, <1>7, <1>8, <1>9, <1>10, <1>11, <1>12, <1>13
       DEF Next, Step, Try

\* Whatever the options and the files, as long as none is saved meanwhile,
\* briefing and refresh print their notice exactly for who sends the digest off
\* this machine and has not set send_consent.  It says nothing of opinion and
\* the daemon, which give none, and of a consent that is asked for: none is.
THEOREM NoticeCorrect == Spec => []NoticeIsExact
  <1>1. Init => Noticed
    BY DEF Init, Noticed
  <1>2. Spec => []Noticed
    BY <1>1, NoticeStep, TypeCorrect, PTL DEF Spec
  <1>3. TypeOK /\ Noticed => NoticeIsExact
    BY DEF TypeOK, Bases, Noticed, Place, NoticeIsExact
  <1>. QED  BY <1>2, <1>3, TypeCorrect, PTL

=============================================================================
