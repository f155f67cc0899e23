---------------------------- MODULE CommandsProofs ----------------------------
(* Proofs about ensure_home and the commands that ask a model.  Home: who may *)
(* be refused, and that beside a .git the stamp of a newer store survives any *)
(* number of first commands and crashes.  Commands: they use the store as     *)
(* Home says, mark what they could not verify, lose no correction but as the  *)
(* model says, and leave a report that is that of the briefing.               *)
EXTENDS Commands, TLAPS

-----------------------------------------------------------------------------
(* ensure_home.                                                               *)

\* A torn stamp has a writer, had one that died, or was torn before; the stamp of
\* a newer binary was there before; and as long as no command saw the store
\* without its .git, nobody is on the way to a write over it.
Writing == {"init", "stamp", "put", "adopt"}

HomeInv == /\ HomeTypeOK
           /\ stamp = Torn => found = Torn \/ caught \/ \E q \in Procs : hpc[q] = "put"
           /\ stamp = Newer => found = Newer
           /\ found = Newer /\ ~fresh => /\ stamp = Newer
                                         /\ \A q \in Procs : hpc[q] \notin Writing
           /\ RefusedForCause

LEMMA HomeInitial == HomeInit => HomeInv
  <1>. SUFFICES ASSUME HomeInit PROVE HomeInv
    OBVIOUS
  <1>. QED
    BY VersionAssumption
       DEF HomeInit, HomeInv, HomeTypeOK, HomeStages, RefusedForCause, Writing

LEMMA HomeType == HomeTypeOK /\ [HomeNext]_homeVars => HomeTypeOK'
  <1>. SUFFICES ASSUME HomeTypeOK, [HomeNext]_homeVars PROVE HomeTypeOK'
    OBVIOUS
  <1>. USE DEF HomeTypeOK, HGoto, Kept
  <1>1. ASSUME NEW p \in Procs, EnterHome(p) \/ LeaveHome(p) PROVE HomeTypeOK'
    BY <1>1 DEF EnterHome, LeaveHome, HomeStages
  <1>2. ASSUME NEW p \in Procs, CheckGit(p) PROVE HomeTypeOK'
    <2>1. fresh' \in BOOLEAN
      BY <1>2 DEF CheckGit
    <2>. QED  BY <1>2, <2>1 DEF CheckGit, HomeStages
  <1>3. ASSUME NEW p \in Procs, GitInit(p) PROVE HomeTypeOK'
    <2>1. git' \in BOOLEAN
      BY <1>3 DEF GitInit
    <2>. QED  BY <1>3, <2>1 DEF GitInit, HomeStages
  <1>4. ASSUME NEW p \in Procs, Truncate(p) \/ Put(p) PROVE HomeTypeOK'
    BY <1>4 DEF Truncate, Put, HomeStages
  <1>5. ASSUME NEW p \in Procs, Read(p) PROVE HomeTypeOK'
    <2>1. caught' \in BOOLEAN
      BY <1>5 DEF Read
    <2>2. hpc' \in [Procs -> HomeStages]
      BY <1>5 DEF Read, HomeStages
    <2>. QED  BY <1>5, <2>1, <2>2 DEF Read
  <1>6. ASSUME NEW p \in Procs, Adopt(p) PROVE HomeTypeOK'
    BY <1>6 DEF Adopt, HomeStages
  <1>7. ASSUME NEW p \in Procs, HomeCrash(p) PROVE HomeTypeOK'
    <2>1. caught' \in BOOLEAN
      BY <1>7 DEF HomeCrash
    <2>. QED  BY <1>7, <2>1 DEF HomeCrash, HomeStages
  <1>8. ASSUME UNCHANGED homeVars PROVE HomeTypeOK'
    BY <1>8 DEF homeVars
  <1>. QED
    BY <1>1, <1>2, <1>3, <1>4, <1>5, <1>6, <1>7, <1>8 DEF HomeNext, EnsureHome

LEMMA HomeStep == HomeInv /\ [HomeNext]_homeVars => HomeInv'
  <1>. SUFFICES ASSUME HomeInv, [HomeNext]_homeVars PROVE HomeInv'
    OBVIOUS
  <1>0. HomeTypeOK'
    BY HomeType DEF HomeInv
  <1>. USE VersionAssumption DEF HomeInv, HomeTypeOK, RefusedForCause, Writing, HGoto, Kept
  <1>1. ASSUME NEW p \in Procs, EnterHome(p) \/ LeaveHome(p) PROVE HomeInv'
    BY <1>0, <1>1 DEF EnterHome, LeaveHome
  <1>2. ASSUME NEW p \in Procs, CheckGit(p) PROVE HomeInv'
    BY <1>0, <1>2 DEF CheckGit
  <1>3. ASSUME NEW p \in Procs, GitInit(p) PROVE HomeInv'
    BY <1>0, <1>3 DEF GitInit
  <1>4. ASSUME NEW p \in Procs, Truncate(p) PROVE HomeInv'
    BY <1>0, <1>4 DEF Truncate
  <1>5. ASSUME NEW p \in Procs, Put(p) PROVE HomeInv'
    BY <1>0, <1>5 DEF Put
  <1>6. ASSUME NEW p \in Procs, Read(p) PROVE HomeInv'
    <2>1. hpc'[p] = "refused" => found \in {Torn, Newer} \/ caught'
      <3>1. hpc'[p] = "refused" => stamp \in {Torn, Newer}
        BY <1>6 DEF Read
      <3>2. stamp = Torn => found = Torn \/ caught'
        BY <1>6 DEF Read
      <3>. QED  BY <3>1, <3>2
    <2>2. \A q \in Procs : hpc'[q] = "refused" => found' \in {Torn, Newer} \/ caught'
      BY <1>6, <2>1 DEF Read
    <2>3. \A q \in Procs : (hpc'[q] = "put") <=> (hpc[q] = "put")
      BY <1>6 DEF Read
    <2>4. found = Newer /\ ~fresh => \A q \in Procs : hpc'[q] \notin Writing
      BY <1>6 DEF Read
    <2>. QED  BY <1>0, <1>6, <2>2, <2>3, <2>4 DEF Read
  <1>7. ASSUME NEW p \in Procs, Adopt(p) PROVE HomeInv'
    BY <1>0, <1>7 DEF Adopt
  <1>8. ASSUME NEW p \in Procs, HomeCrash(p) PROVE HomeInv'
    BY <1>0, <1>8 DEF HomeCrash
  <1>9. ASSUME UNCHANGED homeVars PROVE HomeInv'
    BY <1>9 DEF homeVars
  <1>. QED
    BY <1>1, <1>2, <1>3, <1>4, <1>5, <1>6, <1>7, <1>8, <1>9 DEF HomeNext, EnsureHome

\* Whatever order any number of first commands take and wherever they die, a
\* command refuses the store only for a cause, and a newer store stays newer
\* unless a command saw it without a .git.
THEOREM HomeCorrect == HomeSpec => [](HomeTypeOK /\ HomeKept)
  <1>1. HomeSpec => []HomeInv
    BY HomeInitial, HomeStep, PTL DEF HomeSpec
  <1>2. HomeInv => HomeTypeOK /\ HomeKept
    BY DEF HomeInv, HomeKept, NewerKept
  <1>. QED  BY <1>1, <1>2, PTL

-----------------------------------------------------------------------------
(* Every step of a command is a step of ensure_home, or none.                 *)

LEMMA HomeRefined == [Next]_vars => [HomeNext]_homeVars
  <1>. SUFFICES ASSUME [Next]_vars PROVE [HomeNext]_homeVars
    OBVIOUS
  <1>1. ASSUME NEW p \in Procs, Ask(p) PROVE [HomeNext]_homeVars
    BY <1>1 DEF Ask, Fail, AnswerDistill, AnswerOpinion, AnswerCorrect, AnswerCurate,
                Answered, HomeNext
  <1>2. ASSUME NEW p \in Procs, AtHome(p) \/ HomeReady(p) \/ HomeRefused(p) \/ Crash(p)
        PROVE  [HomeNext]_homeVars
    BY <1>2 DEF AtHome, HomeReady, HomeRefused, Crash, HomeNext
  <1>3. ASSUME NEW p \in Procs, WriteReport(p) \/ Lock(p) \/ LockFails(p) \/ WriteLearned(p)
        PROVE  [HomeNext]_homeVars
    BY <1>3 DEF WriteReport, Lock, LockFails, WriteLearned
  <1>4. ASSUME NEW p \in Procs, NEW diverted, WriteFiles(p, diverted)
        PROVE  [HomeNext]_homeVars
    BY <1>4 DEF WriteFiles
  <1>5. ASSUME NEW p \in Procs,
               BeginDistill(p) \/ BeginOpinion(p) \/ BeginCorrect(p) \/ BeginCurate(p)
        PROVE  [HomeNext]_homeVars
    BY <1>5 DEF BeginDistill, BeginOpinion, BeginCorrect, BeginCurate, Begin
  <1>6. ASSUME NEW t, Commit(t) PROVE [HomeNext]_homeVars
    BY <1>6 DEF Commit
  <1>7. CASE UNCHANGED vars
    BY <1>7 DEF vars
  <1>. QED  BY <1>1, <1>2, <1>3, <1>4, <1>5, <1>6, <1>7 DEF Next, Step

\* The commands use the store as ensure_home does, and nothing they do in
\* between disturbs it: the composition implements Home.
THEOREM HomeImplemented == Spec => HomeSpec
  <1>1. Init => HomeInit
    BY DEF Init
  <1>. QED  BY <1>1, HomeRefined, PTL DEF Spec, HomeSpec

\* Hence what Home promises of a newer store holds while commands write in it.
THEOREM HomeHolds == Spec => [](HomeTypeOK /\ HomeKept)
  BY HomeImplemented, HomeCorrect, PTL

-----------------------------------------------------------------------------
(* Types.                                                                     *)

LEMMA TextType == ASSUME NEW text, NEW known
                  PROVE  VerifyText(text, known) \in Texts
  BY DEF VerifyText, Unverified, UnknownHashes, UnknownPaths, Texts

LEMMA NoTextType == NoText \in Texts /\ DOMAIN NoOut = {}
  BY DEF NoText, Texts, NoOut

\* What a command may hold: texts for some of the files.
OutType(o) == DOMAIN o \subseteq Files /\ \A f \in DOMAIN o : o[f] \in Texts

LEMMA DistillOut == ASSUME NEW raw, NEW known
                    PROVE  LET sections == ParseOutput(raw)
                               o == Restrict(VerifyOutput(sections, known), Written(sections))
                           IN /\ OutType(o)
                              /\ \A f \in DOMAIN o : \E text : o[f] = VerifyText(text, known)
  <1>. DEFINE sections == ParseOutput(raw)
              checked  == VerifyOutput(sections, known)
              o        == Restrict(checked, Written(sections))
  <1>1. DOMAIN sections = Sections
    BY DEF ParseOutput, Sections
  <1>2. Written(sections) \subseteq Sections
    BY <1>1 DEF Written
  <1>3. DOMAIN checked = Sections /\ \A f \in Sections : checked[f] = VerifyText(sections[f], known)
    BY <1>1 DEF VerifyOutput
  <1>4. DOMAIN o \subseteq Sections /\ \A f \in DOMAIN o : o[f] = checked[f]
    BY <1>2 DEF Restrict
  <1>5. \A f \in DOMAIN o : o[f] = VerifyText(sections[f], known)
    BY <1>3, <1>4
  <1>6. OutType(o)
    BY <1>4, <1>5, TextType DEF OutType, Files
  <1>. QED  BY <1>5, <1>6

\* The marks of what a command holds are citations.
LEMMA FlaggedType == ASSUME TypeOK, NEW p \in Procs  PROVE Flagged(p) \subseteq Citations
  BY DEF Flagged, TypeOK, Texts

LEMMA ForgetType == ASSUME TypeOK, NEW p \in Procs, Forget(p)
                    PROVE  /\ facts' \in [Procs -> SUBSET Citations]
                           /\ had' \in [Procs -> SUBSET Corrections]
                           /\ DOMAIN out' = Procs /\ \A q \in Procs : OutType(out'[q])
                           /\ next' \in [Procs -> (SUBSET Corrections) \cup {None}]
                           /\ kind' = kind
  <1>1. \A q \in Procs : out'[q] = out[q] \/ out'[q] = NoOut
    BY DEF Forget, TypeOK
  <1>2. \A q \in Procs : OutType(out'[q])
    BY <1>1, NoTextType DEF OutType, TypeOK
  <1>. QED  BY <1>2 DEF Forget, TypeOK

Kinds  == {"distill", "opinion", "correct", "curate"}
Stages == {"idle", "ask", "home", "report", "lock", "write", "torn"}

\* TypeOK but for the store: what a command holds, and the history.
JobType == /\ pc \in [Procs -> Stages] /\ kind \in [Procs -> Kinds]
           /\ facts \in [Procs -> SUBSET Citations] /\ had \in [Procs -> SUBSET Corrections]
           /\ DOMAIN out = Procs /\ \A p \in Procs : OutType(out[p])
           /\ next \in [Procs -> (SUBSET Corrections) \cup {None}]
           /\ commands \in 0 .. MaxCommands

StoreType == /\ repo \subseteq Citations
             /\ auto \in [Files -> Texts]
             /\ report \in (SUBSET Citations) \cup {None}
             /\ learned \subseteq Corrections
             /\ lock \in Procs \cup {None}

HistoryType == /\ basis \in [Files -> (SUBSET Citations) \cup {None}]
               /\ reporter \in Procs \cup {None} /\ crossed \in BOOLEAN
               /\ wrote \in (SUBSET Citations) \cup {None}
               /\ recorded \subseteq Corrections /\ exposed \subseteq Corrections

LEMMA TypeParts == TypeOK <=> HomeTypeOK /\ JobType /\ StoreType /\ HistoryType
  BY DEF TypeOK, JobType, StoreType, HistoryType, OutType, Kinds, Stages

LEMMA TypeInit == Init => TypeOK
  <1>. SUFFICES ASSUME Init PROVE TypeOK
    OBVIOUS
  <1>1. HomeTypeOK
    BY HomeInitial DEF Init, HomeInv
  <1>2. JobType
    BY NoTextType, ProcsAssumption DEF Init, JobType, OutType, Kinds, Stages
  <1>3. StoreType
    BY NoTextType DEF Init, StoreType
  <1>4. HistoryType
    BY DEF Init, HistoryType
  <1>. QED  BY <1>1, <1>2, <1>3, <1>4, TypeParts

LEMMA RestrictType == ASSUME NEW o \in [Files -> Texts], NEW S \in SUBSET Files
                      PROVE  OutType(Restrict(o, S))
  BY DEF OutType, Restrict

LEMMA TypeBegin == ASSUME TypeOK, NEW p \in Procs,
                          BeginDistill(p) \/ BeginOpinion(p) \/ BeginCorrect(p) \/ BeginCurate(p)
                   PROVE  JobType' /\ StoreType' /\ HistoryType'
  <1>. USE TypeParts DEF JobType
  <1>1. PICK k \in Kinds : Begin(p, k)
    BY DEF BeginDistill, BeginOpinion, BeginCorrect, BeginCurate, Kinds
  <1>2. StoreType' /\ HistoryType'
    BY <1>1 DEF Begin, StoreType, HistoryType, store, history
  <1>3. /\ pc' \in [Procs -> Stages] /\ kind' \in [Procs -> Kinds] /\ next' = next
        /\ commands' \in 0 .. MaxCommands
    BY <1>1, ProcsAssumption DEF Begin, CGoto, Stages
  <1>4. facts' \in [Procs -> SUBSET Citations] /\ had' \in [Procs -> SUBSET Corrections]
    BY DEF BeginDistill, BeginOpinion, BeginCorrect, BeginCurate, StoreType
  <1>5. DOMAIN out' = Procs /\ \A q \in Procs : OutType(out'[q])
    <2>1. CASE BeginCurate(p)
      <3>. DEFINE files == {f \in {"decisions", "open"} : auto[f] # NoText}
      <3>1. OutType(Restrict(auto, files))
        <4>1. files \in SUBSET Files /\ auto \in [Files -> Texts]
          BY DEF Files, Sections, StoreType
        <4>. QED  BY <4>1, RestrictType
      <3>2. out' = [out EXCEPT ![p] = Restrict(auto, files)]
        BY <2>1 DEF BeginCurate
      <3>. QED  BY <3>1, <3>2
    <2>2. CASE ~BeginCurate(p)
      BY <2>2 DEF BeginDistill, BeginOpinion, BeginCorrect
    <2>. QED  BY <2>1, <2>2
  <1>. QED  BY <1>2, <1>3, <1>4, <1>5

LEMMA TypeAsk == ASSUME TypeOK, NEW p \in Procs, Ask(p)
                 PROVE  JobType' /\ StoreType' /\ HistoryType'
  <1>. USE TypeParts DEF JobType
  <1>1. StoreType' /\ HistoryType' /\ commands' = commands /\ kind' = kind
    BY DEF Ask, Fail, Forget, AnswerDistill, AnswerOpinion, AnswerCorrect, AnswerCurate,
           Answered, StoreType, HistoryType, store, history
  <1>2. pc' \in [Procs -> Stages]
    BY DEF Ask, Fail, AnswerDistill, AnswerOpinion, AnswerCorrect, AnswerCurate,
           Answered, CGoto, Stages
  <1>3. CASE Fail(p)
    BY <1>1, <1>2, <1>3, ForgetType DEF Fail
  <1>4. ASSUME NEW raw \in Completions, AnswerDistill(p, raw) PROVE JobType'
    <2>1. PICK o : OutType(o) /\ out' = [out EXCEPT ![p] = o]
      BY <1>4, DistillOut DEF AnswerDistill
    <2>2. UNCHANGED <<facts, had, next>>
      BY <1>4 DEF AnswerDistill, Answered
    <2>. QED  BY <1>1, <1>2, <2>1, <2>2
  <1>5. ASSUME NEW raw \in Completions, AnswerOpinion(p, raw) PROVE JobType'
    <2>1. PICK o : OutType(o) /\ out' = [out EXCEPT ![p] = o]
      <3>1. OutType([f \in {"opinion"} |-> VerifyText(Range(raw), facts[p])])
        BY TextType DEF OutType, Files
      <3>. QED  BY <1>5, <3>1 DEF AnswerOpinion
    <2>2. UNCHANGED <<facts, had, next>>
      BY <1>5 DEF AnswerOpinion, Answered
    <2>. QED  BY <1>1, <1>2, <2>1, <2>2
  <1>6. ASSUME NEW c \in Corrections, AnswerCorrect(p, c) PROVE JobType'
    BY <1>1, <1>2, <1>6 DEF AnswerCorrect, Answered
  <1>7. ASSUME NEW text \in Rewrites, NEW b \in BOOLEAN, AnswerCurate(p, text, b) PROVE JobType'
    <2>1. PICK o : OutType(o) /\ out' = [out EXCEPT ![p] = o]
      <3>1. OutType([f \in DOMAIN out[p] |-> text])
        BY TextAssumption DEF OutType
      <3>. QED  BY <1>7, <3>1 DEF AnswerCurate
    <2>2. UNCHANGED <<facts, had>> /\ next' \in [Procs -> (SUBSET Corrections) \cup {None}]
      BY <1>7 DEF AnswerCurate, Answered
    <2>. QED  BY <1>1, <1>2, <2>1, <2>2
  <1>. QED  BY <1>1, <1>3, <1>4, <1>5, <1>6, <1>7 DEF Ask

LEMMA TypeHome == ASSUME TypeOK, NEW p \in Procs, AtHome(p) \/ HomeReady(p) \/ HomeRefused(p)
                  PROVE  JobType' /\ StoreType' /\ HistoryType'
  <1>1. StoreType' /\ HistoryType' /\ commands' = commands
    BY TypeParts DEF AtHome, HomeReady, HomeRefused, StoreType, HistoryType, store, history
  <1>2. pc' \in [Procs -> Stages]
    BY TypeParts DEF AtHome, HomeReady, HomeRefused, CGoto, JobType, Stages
  <1>3. CASE HomeRefused(p)
    BY <1>1, <1>2, <1>3, TypeParts, ForgetType DEF HomeRefused, JobType
  <1>4. CASE AtHome(p) \/ HomeReady(p)
    BY <1>1, <1>2, <1>4, TypeParts DEF AtHome, HomeReady, JobType, job
  <1>. QED  BY <1>1, <1>3, <1>4

\* Each citation of a text is marked or vouched for.
Vouched(text, known) == \A t \in text.cites \ text.marked :
                          \/ t \in known
                          \/ t \in Paths /\ ~HasWhitelist(known)

\* What p holds at each point of its command.
Holds(p) == /\ pc[p] \in {"idle", "ask"} => next[p] = None
            /\ pc[p] = "idle" => out[p] = NoOut
            /\ pc[p] = "report" => kind[p] = "distill"
            /\ pc[p] = "torn" => next[p] # None
            /\ next[p] # None => kind[p] \in {"correct", "curate"}
            /\ kind[p] # "curate" => \A f \in DOMAIN out[p] : Vouched(out[p][f], facts[p])

LEMMA TypeWrite == ASSUME TypeOK, NEW p \in Procs, Holds(p),
                          \/ WriteReport(p) \/ Lock(p) \/ LockFails(p) \/ WriteLearned(p)
                          \/ \E diverted \in SUBSET DOMAIN out[p] : WriteFiles(p, diverted)
                   PROVE  JobType' /\ StoreType' /\ HistoryType'
  <1>. USE TypeParts
  <1>0. repo' = repo /\ commands' = commands
    BY DEF WriteReport, Lock, LockFails, WriteLearned, WriteFiles
  <1>1. CASE WriteReport(p)
    <2>1. JobType'
      BY <1>0, <1>1 DEF WriteReport, CGoto, JobType, Stages, job
    <2>2. StoreType' /\ HistoryType'
      BY <1>0, <1>1, FlaggedType DEF WriteReport, StoreType, HistoryType
    <2>. QED  BY <2>1, <2>2
  <1>2. CASE Lock(p) \/ LockFails(p)
    <2>1. JobType'
      BY <1>0, <1>2 DEF Lock, LockFails, CGoto, JobType, Stages, job
    <2>2. StoreType' /\ HistoryType'
      BY <1>0, <1>2 DEF Lock, LockFails, StoreType, HistoryType, store, history
    <2>. QED  BY <2>1, <2>2
  <1>3. CASE WriteLearned(p)
    <2>1. JobType'
      BY <1>0, <1>3, ForgetType DEF WriteLearned, CGoto, JobType, Stages
    <2>2. next[p] \in SUBSET Corrections
      BY <1>3 DEF WriteLearned, CGoto, JobType, Holds
    <2>3. StoreType'
      BY <1>0, <1>3, <2>2 DEF WriteLearned, StoreType, Unlock
    <2>4. HistoryType'
      BY <1>3, <2>2 DEF WriteLearned, Recorded, HistoryType
    <2>. QED  BY <2>1, <2>3, <2>4
  <1>4. ASSUME NEW diverted \in SUBSET DOMAIN out[p], WriteFiles(p, diverted)
        PROVE  JobType' /\ StoreType' /\ HistoryType'
    <2>1. JobType'
      BY <1>0, <1>4, ForgetType DEF WriteFiles, CGoto, JobType, Stages, job
    <2>2. OutType(out[p]) /\ facts[p] \subseteq Citations /\ Flagged(p) \subseteq Citations
      BY FlaggedType DEF JobType
    <2>3. auto' \in [Files -> Texts] /\ basis' \in [Files -> (SUBSET Citations) \cup {None}]
      BY <1>4, <2>2 DEF WriteFiles, OutType, StoreType, HistoryType
    <2>4. crossed' \in BOOLEAN
      BY <1>4 DEF WriteFiles, HistoryType
    <2>5. /\ wrote' \in (SUBSET Citations) \cup {None} /\ reporter' \in Procs \cup {None}
          /\ lock' \in Procs \cup {None} /\ learned' \subseteq Corrections
          /\ UNCHANGED <<report, recorded, exposed>>
      BY <1>4, <2>2 DEF WriteFiles, StoreType, HistoryType, Unlock
    <2>. QED  BY <1>0, <2>1, <2>3, <2>4, <2>5 DEF StoreType, HistoryType
  <1>. QED  BY <1>1, <1>2, <1>3, <1>4

LEMMA TypeCrash == ASSUME TypeOK, NEW p \in Procs, Crash(p)
                   PROVE  JobType' /\ StoreType' /\ HistoryType'
  <1>. USE TypeParts
  <1>1. JobType'
    BY ForgetType DEF Crash, JobType, Stages
  <1>2. StoreType'
    BY DEF Crash, StoreType, Unlock
  <1>3. crossed' \in BOOLEAN
    BY DEF Crash, HistoryType
  <1>4. HistoryType'
    BY <1>3 DEF Crash, HistoryType
  <1>. QED  BY <1>1, <1>2, <1>4

-----------------------------------------------------------------------------
(* What each command holds.                                                   *)

LEMMA VerifiedVouched == ASSUME NEW text, NEW known
                         PROVE  Vouched(VerifyText(text, known), known)
  <1>1. SUFFICES ASSUME NEW t \in text \cap Citations, t \notin Unverified(text \cap Citations, known)
                 PROVE  t \in known \/ (t \in Paths /\ ~HasWhitelist(known))
    BY DEF Vouched, VerifyText
  <1>2. CASE t \in Hashes \cup Mixed
    BY <1>1, <1>2 DEF Unverified, UnknownHashes, KnowsHash
  <1>3. CASE t \in Paths
    BY <1>1, <1>3 DEF Unverified, UnknownPaths, KnowsPath
  <1>. QED  BY <1>1, <1>2, <1>3 DEF Citations

\* A step of one command leaves what another holds alone.
Alone(q) == /\ pc'[q] = pc[q] /\ kind'[q] = kind[q] /\ facts'[q] = facts[q]
            /\ had'[q] = had[q] /\ out'[q] = out[q] /\ next'[q] = next[q]

LEMMA Frame == ASSUME JobType, NEW p \in Procs, NEW q \in Procs, q # p,
                      \/ Step(p) \/ Crash(p)
                      \/ BeginDistill(p) \/ BeginOpinion(p) \/ BeginCorrect(p) \/ BeginCurate(p)
               PROVE  Alone(q)
  <1>. USE DEF Alone, JobType, CGoto, Forget, job, store, history
  <1>1. CASE Ask(p)
    BY <1>1 DEF Ask, Fail, AnswerDistill, AnswerOpinion, AnswerCorrect, AnswerCurate, Answered
  <1>2. CASE AtHome(p) \/ HomeReady(p) \/ HomeRefused(p)
    BY <1>2 DEF AtHome, HomeReady, HomeRefused
  <1>3. CASE WriteReport(p) \/ Lock(p) \/ LockFails(p) \/ WriteLearned(p)
    BY <1>3 DEF WriteReport, Lock, LockFails, WriteLearned
  <1>4. ASSUME NEW diverted, WriteFiles(p, diverted) PROVE Alone(q)
    BY <1>4 DEF WriteFiles
  <1>5. CASE Crash(p)
    BY <1>5 DEF Crash
  <1>6. CASE BeginDistill(p) \/ BeginOpinion(p) \/ BeginCorrect(p) \/ BeginCurate(p)
    BY <1>6 DEF BeginDistill, BeginOpinion, BeginCorrect, BeginCurate, Begin
  <1>. QED  BY <1>1, <1>2, <1>3, <1>4, <1>5, <1>6 DEF Step

LEMMA HeldForgotten == ASSUME JobType, NEW p \in Procs, Forget(p), pc'[p] = "idle"
                       PROVE  Holds(p)'
  BY NoTextType DEF Forget, JobType, Holds

LEMMA HeldBegin == ASSUME JobType, NEW p \in Procs, Holds(p),
                          BeginDistill(p) \/ BeginOpinion(p) \/ BeginCorrect(p) \/ BeginCurate(p)
                   PROVE  Holds(p)'
  <1>1. /\ pc[p] = "idle" /\ pc'[p] = "ask" /\ next'[p] = next[p]
        /\ kind'[p] = "curate" \/ out'[p] = out[p]
    BY DEF BeginDistill, BeginOpinion, BeginCorrect, BeginCurate, Begin, CGoto, JobType
  <1>2. next[p] = None /\ out[p] = NoOut
    BY <1>1 DEF Holds
  <1>. QED  BY <1>1, <1>2, NoTextType DEF Holds

LEMMA HeldAsk == ASSUME JobType, NEW p \in Procs, Holds(p), Ask(p)
                 PROVE  Holds(p)'
  <1>1. CASE Fail(p)
    BY <1>1, HeldForgotten DEF Fail, CGoto, JobType
  <1>2. CASE ~Fail(p)
    <2>1. /\ pc[p] = "ask" /\ pc'[p] = "home"
          /\ UNCHANGED <<kind, facts, had>>
      BY <1>2 DEF Ask, AnswerDistill, AnswerOpinion, AnswerCorrect, AnswerCurate,
                  Answered, CGoto, JobType
    <2>2. next'[p] = None \/ kind[p] \in {"correct", "curate"}
      <3>1. next[p] = None
        BY <2>1 DEF Holds
      <3>. QED
        BY <1>2, <3>1 DEF Ask, AnswerDistill, AnswerOpinion, AnswerCorrect, AnswerCurate, JobType
    <2>3. kind[p] # "curate" => \A f \in DOMAIN out'[p] : Vouched(out'[p][f], facts[p])
      <3>1. ASSUME NEW raw, AnswerDistill(p, raw)
            PROVE  \A f \in DOMAIN out'[p] : Vouched(out'[p][f], facts[p])
        <4>1. \A f \in DOMAIN out'[p] : \E text : out'[p][f] = VerifyText(text, facts[p])
          BY <3>1, DistillOut DEF AnswerDistill, JobType
        <4>. QED  BY <4>1, VerifiedVouched
      <3>2. ASSUME NEW raw, AnswerOpinion(p, raw)
            PROVE  \A f \in DOMAIN out'[p] : Vouched(out'[p][f], facts[p])
        BY <3>2, VerifiedVouched DEF AnswerOpinion, JobType
      <3>3. ASSUME NEW c, AnswerCorrect(p, c)
            PROVE  \A f \in DOMAIN out'[p] : Vouched(out'[p][f], facts[p])
        BY <3>3 DEF AnswerCorrect, Holds
      <3>4. ASSUME NEW text, NEW b, AnswerCurate(p, text, b) PROVE kind[p] = "curate"
        BY <3>4 DEF AnswerCurate
      <3>. QED  BY <1>2, <3>1, <3>2, <3>3, <3>4 DEF Ask
    <2>. QED  BY <2>1, <2>2, <2>3 DEF Holds
  <1>. QED  BY <1>1, <1>2

LEMMA HeldHome == ASSUME JobType, NEW p \in Procs, Holds(p),
                         AtHome(p) \/ HomeReady(p) \/ HomeRefused(p)
                  PROVE  Holds(p)'
  <1>1. CASE AtHome(p)
    BY <1>1 DEF AtHome, Holds, job, store
  <1>2. CASE HomeReady(p)
    BY <1>2 DEF HomeReady, CGoto, Holds, job, store, JobType
  <1>3. CASE HomeRefused(p)
    BY <1>3, HeldForgotten DEF HomeRefused, CGoto, JobType
  <1>. QED  BY <1>1, <1>2, <1>3

LEMMA HeldWrite == ASSUME JobType, NEW p \in Procs, Holds(p),
                          \/ WriteReport(p) \/ Lock(p) \/ LockFails(p) \/ WriteLearned(p)
                          \/ \E diverted \in SUBSET DOMAIN out[p] : WriteFiles(p, diverted)
                   PROVE  Holds(p)'
  <1>1. CASE WriteReport(p)
    BY <1>1 DEF WriteReport, CGoto, Holds, job, JobType
  <1>2. CASE Lock(p) \/ LockFails(p)
    BY <1>2 DEF Lock, LockFails, CGoto, Holds, job, JobType
  <1>3. CASE WriteLearned(p)
    BY <1>3, HeldForgotten DEF WriteLearned, CGoto, JobType
  <1>4. ASSUME NEW diverted \in SUBSET DOMAIN out[p], WriteFiles(p, diverted) PROVE Holds(p)'
    <2>1. CASE next[p] = None
      BY <1>4, <2>1, HeldForgotten DEF WriteFiles, CGoto, JobType
    <2>2. CASE next[p] # None
      BY <1>4, <2>2 DEF WriteFiles, CGoto, Holds, job, JobType
    <2>. QED  BY <2>1, <2>2
  <1>. QED  BY <1>1, <1>2, <1>3, <1>4

LEMMA HeldCrash == ASSUME JobType, NEW p \in Procs, Crash(p)  PROVE Holds(p)'
  BY HeldForgotten DEF Crash, JobType

Inv == TypeOK /\ \A p \in Procs : Holds(p)

LEMMA InvInit == Init => Inv
  BY TypeInit, NoTextType DEF Init, Inv, Holds

LEMMA InvStep == Inv /\ [Next]_vars => Inv'
  <1>. SUFFICES ASSUME Inv, [Next]_vars PROVE Inv'
    OBVIOUS
  <1>0. HomeTypeOK'
    BY HomeRefined, HomeType, TypeParts DEF Inv
  <1>1. ASSUME NEW p \in Procs,
               \/ Step(p) \/ Crash(p)
               \/ BeginDistill(p) \/ BeginOpinion(p) \/ BeginCorrect(p) \/ BeginCurate(p)
        PROVE  Inv'
    <2>1. JobType /\ StoreType /\ Holds(p)
      BY TypeParts DEF Inv
    <2>2. (JobType /\ StoreType /\ HistoryType)' /\ Holds(p)'
      <3>1. CASE Ask(p)
        BY <2>1, <3>1, TypeAsk, HeldAsk DEF Inv
      <3>2. CASE AtHome(p) \/ HomeReady(p) \/ HomeRefused(p)
        BY <2>1, <3>2, TypeHome, HeldHome DEF Inv
      <3>3. CASE \/ WriteReport(p) \/ Lock(p) \/ LockFails(p) \/ WriteLearned(p)
                 \/ \E diverted \in SUBSET DOMAIN out[p] : WriteFiles(p, diverted)
        BY <2>1, <3>3, TypeWrite, HeldWrite DEF Inv
      <3>4. CASE Crash(p)
        BY <2>1, <3>4, TypeCrash, HeldCrash DEF Inv
      <3>5. CASE BeginDistill(p) \/ BeginOpinion(p) \/ BeginCorrect(p) \/ BeginCurate(p)
        BY <2>1, <3>5, TypeBegin, HeldBegin DEF Inv
      <3>. QED  BY <1>1, <3>1, <3>2, <3>3, <3>4, <3>5 DEF Step
    <2>3. ASSUME NEW q \in Procs, q # p PROVE Holds(q)'
      <3>1. Alone(q)
        BY <1>1, <2>1, <2>3, Frame
      <3>2. Holds(q)
        BY DEF Inv
      <3>. QED  BY <3>1, <3>2 DEF Alone, Holds
    <2>4. TypeOK'
      BY <1>0, <2>2 DEF TypeOK, JobType, StoreType, HistoryType, OutType, Kinds, Stages
    <2>. QED  BY <2>2, <2>3, <2>4 DEF Inv
  <1>2. ASSUME NEW t \in Commits, Commit(t) PROVE Inv'
    BY <1>2, TextAssumption DEF Commit, Inv, Holds, TypeOK, HomeTypeOK, homeVars, store, job, history
  <1>3. CASE UNCHANGED vars
    BY <1>3 DEF vars, Inv, Holds, TypeOK, HomeTypeOK, homeVars, store, job, history
  <1>. QED  BY <1>1, <1>2, <1>3 DEF Next

\* What a command is about to write, it has read, asked for and checked.
THEOREM InvCorrect == Spec => []Inv
  BY InvInit, InvStep, PTL DEF Spec

\* TypeOK holds whatever the models answer and wherever a command dies.
THEOREM TypeCorrect == Spec => []TypeOK
  <1>1. Inv => TypeOK
    BY DEF Inv
  <1>. QED  BY <1>1, InvCorrect, PTL

-----------------------------------------------------------------------------
(* The gate.                                                                  *)

\* What a file says was checked against its basis, or was not.
LEMMA MarkedStep == Inv /\ NothingUnmarked /\ [Next]_vars => NothingUnmarked'
  <1>. SUFFICES ASSUME Inv, NothingUnmarked, [Next]_vars PROVE NothingUnmarked'
    OBVIOUS
  <1>1. ASSUME NEW p \in Procs, NEW diverted, WriteFiles(p, diverted) PROVE NothingUnmarked'
    <2>. SUFFICES ASSUME NEW f \in Files, basis'[f] # None
                  PROVE  Vouched(auto'[f], basis'[f])
      BY DEF NothingUnmarked, Vouched
    <2>1. JobType /\ StoreType /\ HistoryType /\ Holds(p)
      BY TypeParts DEF Inv
    <2>2. CASE f \notin DOMAIN out[p] \ diverted
      <3>1. auto'[f] = auto[f] /\ basis'[f] = basis[f]
        BY <1>1, <2>2 DEF WriteFiles
      <3>. QED  BY <3>1 DEF NothingUnmarked, Vouched
    <2>3. CASE f \in DOMAIN out[p] \ diverted
      <3>1. auto'[f] = out[p][f] /\ kind[p] # "curate" /\ basis'[f] = facts[p]
        BY <1>1, <2>3 DEF WriteFiles
      <3>. QED  BY <2>1, <2>3, <3>1 DEF Holds
    <2>. QED  BY <2>2, <2>3
  <1>2. CASE UNCHANGED <<auto, basis>>
    BY <1>2 DEF NothingUnmarked
  <1>3. UNCHANGED <<auto, basis>> \/ \E p \in Procs : \E diverted : WriteFiles(p, diverted)
    <2>. USE DEF store, history
    <2>1. ASSUME NEW p \in Procs, Ask(p) PROVE UNCHANGED <<auto, basis>>
      BY <2>1 DEF Ask, Fail, AnswerDistill, AnswerOpinion, AnswerCorrect, AnswerCurate, Answered
    <2>2. ASSUME NEW p \in Procs, AtHome(p) \/ HomeReady(p) \/ HomeRefused(p) \/ Crash(p)
          PROVE  UNCHANGED <<auto, basis>>
      BY <2>2 DEF AtHome, HomeReady, HomeRefused, Crash
    <2>3. ASSUME NEW p \in Procs, WriteReport(p) \/ Lock(p) \/ LockFails(p) \/ WriteLearned(p)
          PROVE  UNCHANGED <<auto, basis>>
      BY <2>3 DEF WriteReport, Lock, LockFails, WriteLearned
    <2>4. ASSUME NEW p \in Procs,
                 BeginDistill(p) \/ BeginOpinion(p) \/ BeginCorrect(p) \/ BeginCurate(p)
          PROVE  UNCHANGED <<auto, basis>>
      BY <2>4 DEF BeginDistill, BeginOpinion, BeginCorrect, BeginCurate, Begin
    <2>5. ASSUME NEW t, Commit(t) PROVE UNCHANGED <<auto, basis>>
      BY <2>5 DEF Commit
    <2>6. CASE UNCHANGED vars
      BY <2>6 DEF vars
    <2>. QED  BY <2>1, <2>2, <2>3, <2>4, <2>5, <2>6 DEF Next, Step
  <1>. QED  BY <1>1, <1>2, <1>3

\* Whatever a model answers, and whatever is committed meanwhile, no citation
\* of a file that passed the gate is unmarked and unknown.
THEOREM GateCorrect == Spec => []NothingUnmarked
  <1>1. Init => NothingUnmarked
    BY DEF Init, NothingUnmarked, NoText
  <1>. QED  BY <1>1, InvCorrect, MarkedStep, PTL DEF Spec

-----------------------------------------------------------------------------
(* The trust report.                                                          *)

\* The reporter is a distill before its transaction, and the report is its own.
Reported == reporter # None =>
              /\ pc[reporter] \in {"lock", "write"} /\ kind[reporter] = "distill"
              /\ report = Flagged(reporter)

LEMMA ReportStep == Inv /\ Reported /\ TrustIsOwn /\ [Next]_vars => Reported' /\ TrustIsOwn'
  <1>. SUFFICES ASSUME Inv, Reported, TrustIsOwn, [Next]_vars PROVE Reported' /\ TrustIsOwn'
    OBVIOUS
  <1>0. JobType /\ StoreType /\ HistoryType /\ \A p \in Procs : Holds(p)
    BY TypeParts DEF Inv
  <1>. USE DEF store, history
  <1>1. ASSUME NEW p \in Procs, NEW q \in Procs, reporter = q, q # p, reporter' = q,
               report' = report, Alone(q)
        PROVE  Reported'
    BY <1>1, ProcsAssumption DEF Reported, Alone, Flagged
  <1>2. ASSUME NEW p \in Procs,
               \/ Ask(p) \/ AtHome(p) \/ HomeReady(p) \/ HomeRefused(p)
               \/ BeginDistill(p) \/ BeginOpinion(p) \/ BeginCorrect(p) \/ BeginCurate(p)
        PROVE  Reported' /\ TrustIsOwn'
    <2>1. UNCHANGED <<report, reporter, wrote, crossed>>
      BY <1>2 DEF Ask, Fail, AnswerDistill, AnswerOpinion, AnswerCorrect, AnswerCurate, Answered,
                  AtHome, HomeReady, HomeRefused,
                  BeginDistill, BeginOpinion, BeginCorrect, BeginCurate, Begin
    <2>2. pc[p] \notin {"lock", "write"}
      BY <1>2 DEF Ask, Fail, AnswerDistill, AnswerOpinion, AnswerCorrect, AnswerCurate, Answered,
                  AtHome, HomeReady, HomeRefused, CGoto,
                  BeginDistill, BeginOpinion, BeginCorrect, BeginCurate, Begin
    <2>3. reporter # None => reporter \in Procs /\ reporter # p
      BY <1>0, <2>2 DEF Reported, HistoryType
    <2>4. Reported'
      <3>1. CASE reporter = None
        BY <2>1, <3>1 DEF Reported
      <3>2. CASE reporter # None
        <4>1. Alone(reporter)
          BY <1>0, <1>2, <2>3, <3>2, Frame DEF Step
        <4>. QED  BY <1>1, <2>1, <2>3, <3>2, <4>1
      <3>. QED  BY <3>1, <3>2
    <2>. QED  BY <2>1, <2>4 DEF TrustIsOwn
  <1>3. ASSUME NEW p \in Procs, WriteReport(p) PROVE Reported' /\ TrustIsOwn'
    <2>1. /\ pc[p] = "report" /\ pc' = [pc EXCEPT ![p] = "lock"] /\ kind[p] = "distill"
          /\ UNCHANGED <<kind, out, wrote, crossed>>
      BY <1>0, <1>3 DEF WriteReport, CGoto, job, Holds
    <2>2. CASE report' = Flagged(p) /\ reporter' = p
      BY <1>0, <2>1, <2>2, ProcsAssumption DEF Reported, TrustIsOwn, Flagged, JobType
    <2>3. CASE UNCHANGED <<report, reporter>>
      BY <1>0, <2>1, <2>3 DEF Reported, TrustIsOwn, Flagged, JobType
    <2>. QED  BY <1>3, <2>2, <2>3 DEF WriteReport
  <1>4. ASSUME NEW p \in Procs, Lock(p) \/ LockFails(p) PROVE Reported' /\ TrustIsOwn'
    <2>1. /\ pc[p] = "lock" /\ pc' = [pc EXCEPT ![p] = "write"]
          /\ UNCHANGED <<report, reporter, wrote, crossed, kind, out>>
      BY <1>4 DEF Lock, LockFails, CGoto, job
    <2>2. \A q \in Procs : pc[q] \in {"lock", "write"} => pc'[q] \in {"lock", "write"}
      BY <1>0, <2>1 DEF JobType
    <2>3. Reported'
      BY <1>0, <2>1, <2>2 DEF Reported, Flagged, HistoryType
    <2>. QED  BY <2>1, <2>3 DEF TrustIsOwn
  <1>5. ASSUME NEW p \in Procs, WriteLearned(p) PROVE Reported' /\ TrustIsOwn'
    <2>1. UNCHANGED <<report, reporter, wrote, crossed>> /\ pc[p] = "torn"
      BY <1>5 DEF WriteLearned, CGoto
    <2>2. reporter # None => reporter \in Procs /\ reporter # p
      BY <1>0, <2>1 DEF Reported, HistoryType
    <2>3. ASSUME reporter # None PROVE Alone(reporter)
      BY <1>0, <1>5, <2>2, <2>3, Frame DEF Step
    <2>4. Reported'
      BY <1>1, <1>5, <2>1, <2>2, <2>3 DEF Reported
    <2>. QED  BY <2>1, <2>4 DEF TrustIsOwn
  <1>6. ASSUME NEW p \in Procs, NEW diverted \in SUBSET DOMAIN out[p], WriteFiles(p, diverted)
        PROVE  Reported' /\ TrustIsOwn'
    <2>1. report' = report /\ reporter' = IF reporter = p THEN None ELSE reporter
      BY <1>6 DEF WriteFiles
    <2>2. CASE reporter = p
      <3>1. kind[p] = "distill" /\ report = Flagged(p)
        BY <2>2, ProcsAssumption DEF Reported
      <3>2. reporter' = None /\ (~crossed' => wrote' = Flagged(p))
        BY <1>6, <2>1, <2>2, <3>1 DEF WriteFiles
      <3>. QED  BY <2>1, <3>1, <3>2 DEF Reported, TrustIsOwn
    <2>3. CASE reporter # p
      <3>1. CASE reporter = None
        <4>1. crossed' \/ (crossed' = crossed /\ wrote' = wrote)
          BY <1>6, <2>3 DEF WriteFiles
        <4>. QED  BY <2>1, <2>3, <3>1, <4>1 DEF Reported, TrustIsOwn
      <3>2. CASE reporter # None
        <4>1. reporter \in Procs /\ Alone(reporter)
          BY <1>0, <1>6, <2>3, <3>2, Frame DEF Step, HistoryType
        <4>2. reporter' = reporter /\ reporter' # None
          BY <2>1, <2>3, <3>2
        <4>3. Reported'
          BY <1>1, <2>1, <2>3, <4>1, <4>2
        <4>. QED  BY <4>2, <4>3 DEF TrustIsOwn
      <3>. QED  BY <3>1, <3>2
    <2>. QED  BY <2>2, <2>3
  <1>7. ASSUME NEW p \in Procs, Crash(p) PROVE Reported' /\ TrustIsOwn'
    <2>1. UNCHANGED <<report, wrote>>
      BY <1>7 DEF Crash
    <2>2. CASE reporter = p
      BY <1>7, <2>2 DEF Crash, Reported, TrustIsOwn
    <2>3. CASE reporter # p
      <3>1. reporter' = reporter /\ crossed' = crossed
        BY <1>0, <1>7, <2>3 DEF Crash, HistoryType
      <3>2. CASE reporter = None
        BY <2>1, <3>1, <3>2 DEF Reported, TrustIsOwn
      <3>3. CASE reporter # None
        <4>1. reporter \in Procs /\ Alone(reporter)
          BY <1>0, <1>7, <2>3, <3>3, Frame DEF HistoryType
        <4>2. Reported'
          BY <1>1, <2>1, <2>3, <3>1, <4>1
        <4>. QED  BY <3>1, <3>3, <4>2 DEF TrustIsOwn
      <3>. QED  BY <3>2, <3>3
    <2>. QED  BY <2>2, <2>3
  <1>8. ASSUME NEW t, Commit(t) PROVE Reported' /\ TrustIsOwn'
    BY <1>8 DEF Commit, Reported, TrustIsOwn, Flagged, job
  <1>9. CASE UNCHANGED vars
    BY <1>9 DEF vars, Reported, TrustIsOwn, Flagged, job
  <1>. QED  BY <1>2, <1>3, <1>4, <1>5, <1>6, <1>7, <1>8, <1>9 DEF Next, Step

\* However distills, opinions and crashes interleave, an uncrossed report is
\* that of the briefing beside it.
THEOREM TrustCorrect == Spec => []TrustIsOwn
  <1>1. Init => Reported /\ TrustIsOwn
    BY DEF Init, Reported, TrustIsOwn
  <1>2. Spec => [](Reported /\ TrustIsOwn)
    BY <1>1, InvCorrect, ReportStep, PTL DEF Spec
  <1>. QED  BY <1>2, PTL

-----------------------------------------------------------------------------
(* learned.md.                                                                *)

Safe == recorded \ exposed

\* While nobody writes it, learned.md holds what is safe, and so does what any
\* command has read that may write it.  Of those that write it, and without the
\* lock there may be several, one at least knows all that is safe.
Remembered == /\ (\A p \in Procs : pc[p] # "torn") =>
                   /\ Safe \subseteq learned
                   /\ \A q \in Procs : pc[q] # "idle" /\ kind[q] \in {"correct", "curate"}
                                         => Safe \subseteq had[q]
              /\ (\E p \in Procs : pc[p] = "torn") =>
                   \E p \in Procs : pc[p] = "torn" /\ Safe \subseteq next[p] \cup had[p]

\* What is safe after p wrote, p wrote or knew not; and the others that are on
\* the way to a write know of it what p wrote.
LEMMA SafeAfter == ASSUME NEW p \in Procs, Recorded(p)
                   PROVE  /\ Safe' \subseteq next[p] \cup (Safe \ had[p])
                          /\ \A q \in Rewriting(p) : Safe' \cap next[p] \subseteq had[q]
  BY DEF Recorded, Safe

LEMMA RememberedStep == Inv /\ Remembered /\ [Next]_vars => Remembered'
  <1>. SUFFICES ASSUME Inv, Remembered, [Next]_vars PROVE Remembered'
    OBVIOUS
  <1>0. JobType /\ StoreType /\ HistoryType /\ \A p \in Procs : Holds(p)
    BY TypeParts DEF Inv
  <1>. USE DEF store, history
  <1>1. ASSUME NEW p \in Procs,
               BeginDistill(p) \/ BeginOpinion(p) \/ BeginCorrect(p) \/ BeginCurate(p)
        PROVE  Remembered'
    <2>1. UNCHANGED <<learned, recorded, exposed>> /\ pc[p] = "idle" /\ pc'[p] = "ask"
      BY <1>0, <1>1 DEF BeginDistill, BeginOpinion, BeginCorrect, BeginCurate, Begin, CGoto, JobType
    <2>2. kind'[p] \in {"correct", "curate"} => had'[p] = learned
      BY <1>0, <1>1 DEF BeginDistill, BeginOpinion, BeginCorrect, BeginCurate, Begin, JobType
    <2>3. \A q \in Procs : q # p => Alone(q)
      BY <1>0, <1>1, Frame
    <2>. QED  BY <2>1, <2>2, <2>3 DEF Remembered, Safe, Alone
  <1>2. ASSUME NEW p \in Procs,
               \/ Ask(p) \/ AtHome(p) \/ HomeReady(p) \/ HomeRefused(p)
               \/ WriteReport(p) \/ Lock(p) \/ LockFails(p)
        PROVE  Remembered'
    <2>1. UNCHANGED <<learned, recorded, exposed, kind>>
      BY <1>2 DEF Ask, Fail, AnswerDistill, AnswerOpinion, AnswerCorrect, AnswerCurate, Answered,
                  AtHome, HomeReady, HomeRefused, WriteReport, Lock, LockFails, Forget, job,
                  store
    <2>2. pc[p] \notin {"idle", "torn"} /\ pc'[p] # "torn"
      BY <1>0, <1>2 DEF Ask, Fail, AnswerDistill, AnswerOpinion, AnswerCorrect, AnswerCurate,
                  Answered, AtHome, HomeReady, HomeRefused, WriteReport, Lock, LockFails, CGoto, JobType
    <2>3. pc'[p] = "idle" \/ had'[p] = had[p]
      BY <1>0, <1>2 DEF Ask, Fail, AnswerDistill, AnswerOpinion, AnswerCorrect, AnswerCurate,
                  Answered, AtHome, HomeReady, HomeRefused, WriteReport, Lock, LockFails, CGoto, JobType, job
    <2>4. \A q \in Procs : q # p => Alone(q)
      BY <1>0, <1>2, Frame DEF Step
    <2>. QED  BY <2>1, <2>2, <2>3, <2>4 DEF Remembered, Safe, Alone
  <1>5. ASSUME NEW p \in Procs, WriteLearned(p) PROVE Remembered'
    <2>1. pc[p] = "torn" /\ pc'[p] = "idle"
      BY <1>0, <1>5 DEF WriteLearned, CGoto, JobType
    <2>2. next[p] \subseteq learned' /\ Recorded(p)
      BY <1>5 DEF WriteLearned
    <2>3. \A q \in Procs : q # p => Alone(q)
      BY <1>0, <1>5, Frame DEF Step
    <2>4. PICK w \in Procs : pc[w] = "torn" /\ Safe \subseteq next[w] \cup had[w]
      BY <2>1 DEF Remembered
    <2>5. ASSUME NEW q \in Procs, pc'[q] # "idle", kind'[q] \in {"correct", "curate"}
          PROVE  q # p /\ Alone(q) /\ Safe' \cap next[p] \subseteq had[q]
      <3>1. q # p /\ Alone(q)
        BY <2>1, <2>3, <2>5
      <3>2. q \in Rewriting(p)
        BY <2>5, <3>1 DEF Rewriting, Alone
      <3>. QED  BY <2>2, <3>1, <3>2, SafeAfter
    <2>6. CASE w = p
      <3>1. Safe' \subseteq next[p]
        BY <2>2, <2>4, <2>6, SafeAfter
      <3>2. \A q \in Procs : pc'[q] # "idle" /\ kind'[q] \in {"correct", "curate"}
                               => Safe' \subseteq had'[q]
        BY <2>5, <3>1 DEF Alone
      <3>3. \A q \in Procs : pc'[q] = "torn" => kind'[q] \in {"correct", "curate"}
        BY <1>0, <2>1, <2>3 DEF Holds, Alone
      <3>. QED  BY <2>2, <3>1, <3>2, <3>3 DEF Remembered
    <2>7. CASE w # p
      <3>1. pc'[w] = "torn" /\ kind'[w] \in {"correct", "curate"}
        BY <1>0, <2>3, <2>4, <2>7 DEF Holds, Alone
      <3>2. Alone(w) /\ Safe' \cap next[p] \subseteq had[w]
        BY <2>5, <3>1
      <3>3. Safe' \subseteq next[w] \cup had[w]
        BY <2>2, <2>4, <3>2, SafeAfter
      <3>. QED  BY <3>1, <3>2, <3>3 DEF Remembered, Alone
    <2>. QED  BY <2>6, <2>7
  <1>6. ASSUME NEW p \in Procs, NEW diverted \in SUBSET DOMAIN out[p], WriteFiles(p, diverted)
        PROVE  Remembered'
    <2>1. pc[p] = "write" /\ UNCHANGED <<recorded, exposed>>
      BY <1>6 DEF WriteFiles, CGoto
    <2>2. \A q \in Procs : q # p => Alone(q)
      BY <1>0, <1>6, Frame DEF Step
    <2>3. Safe' = Safe
      BY <2>1 DEF Safe
    <2>4. CASE next[p] = None
      <3>1. pc'[p] = "idle" /\ learned' = learned
        BY <1>0, <1>6, <2>4 DEF WriteFiles, CGoto, JobType
      <3>. QED  BY <2>1, <2>2, <2>3, <3>1 DEF Remembered, Alone
    <2>5. CASE next[p] # None
      <3>1. /\ pc'[p] = "torn" /\ next'[p] = next[p] /\ had'[p] = had[p]
            /\ kind[p] \in {"correct", "curate"}
        BY <1>0, <1>6, <2>5 DEF WriteFiles, CGoto, JobType, Holds, job
      <3>2. PICK w \in Procs : pc'[w] = "torn" /\ Safe \subseteq next'[w] \cup had'[w]
        <4>1. CASE \A q \in Procs : pc[q] # "torn"
          <5>1. Safe \subseteq had[p]
            BY <2>1, <3>1, <4>1 DEF Remembered
          <5>. QED  BY <3>1, <5>1
        <4>2. CASE \E q \in Procs : pc[q] = "torn"
          <5>1. PICK w \in Procs : pc[w] = "torn" /\ Safe \subseteq next[w] \cup had[w]
            BY <4>2 DEF Remembered
          <5>. QED  BY <2>1, <2>2, <5>1 DEF Alone
        <4>. QED  BY <4>1, <4>2
      <3>. QED  BY <2>3, <3>1, <3>2 DEF Remembered
    <2>. QED  BY <2>4, <2>5
  <1>7. ASSUME NEW p \in Procs, Crash(p) PROVE Remembered'
    <2>1. pc'[p] = "idle" /\ UNCHANGED <<learned, recorded>>
      BY <1>0, <1>7 DEF Crash, JobType
    <2>2. \A q \in Procs : q # p => Alone(q)
      BY <1>0, <1>7, Frame
    <2>3. CASE pc[p] = "torn"
      <3>1. Safe' = {}
        BY <1>7, <2>1, <2>3 DEF Crash, Safe
      <3>. QED  BY <3>1 DEF Remembered
    <2>4. CASE pc[p] # "torn"
      <3>1. Safe' = Safe
        BY <1>7, <2>1, <2>4 DEF Crash, Safe
      <3>. QED  BY <2>1, <2>2, <2>4, <3>1 DEF Remembered, Alone
    <2>. QED  BY <2>3, <2>4
  <1>8. ASSUME NEW t, Commit(t) PROVE Remembered'
    BY <1>8 DEF Commit, Remembered, Safe, job
  <1>9. CASE UNCHANGED vars
    BY <1>9 DEF vars, Remembered, Safe, job
  <1>. QED  BY <1>1, <1>2, <1>5, <1>6, <1>7, <1>8, <1>9 DEF Next, Step

\* Unless a model that was shown it leaves it out, a correction is lost only to a
\* command that read before it was written, or to a crash in a write of
\* learned.md, for any number of commands and corrections, lock or no lock.
THEOREM LearnedCorrect == Spec => []LearnedKept
  <1>1. Init => Remembered
    BY DEF Init, Remembered, Safe
  <1>2. Spec => []Remembered
    BY <1>1, InvCorrect, RememberedStep, PTL DEF Spec
  <1>3. Remembered => LearnedKept
    BY DEF Remembered, Safe, LearnedKept
  <1>. QED  BY <1>2, <1>3, PTL
=============================================================================
