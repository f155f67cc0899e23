---------------------------- MODULE SearchProofs ----------------------------
(* Proofs about the searches of one directory, whoever runs them: what they   *)
(* capture and index is its own, a search that rebuilt the index alone finds  *)
(* what it captured, and an index that is up to date is whole.  The server    *)
(* and the dashboard (module Mcp) are such searches.                          *)
EXTENDS Mcp, FiniteSetTheorems, TLAPS

\* Nobody reads past the lines that were written.
Bounded == /\ lines \in [Files -> Seq(Kinds)] /\ clock \in 0 .. MaxWrites
           /\ \A f \in Files : Len(lines[f]) <= clock

Early(stage) == stage \in {"idle", "read", "captured", "stale"}

\* What a search holds is messages; what it has yet to insert it captured.
SearchOK == /\ Bounded
            /\ rows \in [Messages -> Nat]
            /\ pc \in [Searchers -> Stages]
            /\ alone \in [Searchers -> BOOLEAN]
            /\ cap \in [Searchers -> SUBSET Messages]
            /\ todo \in [Searchers -> SUBSET Messages]
            /\ \A o \in Searchers : todo[o] \subseteq cap[o]
            /\ \A o \in Searchers : Early(pc[o]) => todo[o] = {}

\* Only a search that is filling, or has filled, is alone with the index; what
\* it has not yet inserted is then all that the index lacks.
AloneOK == \A o \in Searchers : alone[o] =>
             /\ pc[o] \in {"fill", "query"}
             /\ pc[o] = "fill" => rows = Count(cap[o] \ todo[o])
             /\ pc[o] = "query" => rows = Count(cap[o])

\* Transcripts that may be taken for those of Here.
Own(f) == CwdOf[f] = Here \/ \E g \in Files : Shares(f, g) /\ CwdOf[g] = Here

OwnInv == /\ \A o \in Searchers : \A m \in cap[o] : Own(m[1])
          /\ OwnOnly

SearchInv == SearchOK /\ AloneOK /\ OwnInv

LEMMA TextIsMessages ==
  ASSUME Bounded, NEW f \in Files PROVE TextOf(f) \subseteq Messages
  <1>1. Len(lines[f]) \in Nat /\ Len(lines[f]) <= MaxWrites
    BY BoundAssumption DEF Bounded
  <1>2. ASSUME NEW k \in 1 .. Len(lines[f]) PROVE <<f, k>> \in Messages
    BY <1>1, <1>2, BoundAssumption DEF Messages
  <1>. QED  BY <1>2 DEF TextOf

\* A capture holds transcripts that may be taken for those of Here.
LEMMA CapturesAreOwn ==
  ASSUME NEW S \in Captures, NEW f \in S PROVE f \in Files /\ Own(f)
  <1>1. f \in Codex => f \in Files
    BY NamesAssumption
  <1>2. CASE f \in Codex /\ CwdOf[f] = Here
    BY <1>1, <1>2 DEF Own
  <1>3. CASE f \in Files /\ MayBeHere(f)
    BY <1>3 DEF MayBeHere, Own
  <1>. QED  BY <1>2, <1>3 DEF Captures

LEMMA CaptureIsOwn ==
  ASSUME Bounded, NEW S \in Captures
  PROVE  /\ UNION {TextOf(f) : f \in S} \subseteq Messages
         /\ \A m \in UNION {TextOf(f) : f \in S} : Own(m[1])
  <1>. SUFFICES ASSUME NEW f \in S, NEW m \in TextOf(f)
                PROVE  m \in Messages /\ Own(m[1])
    OBVIOUS
  <1>1. f \in Files /\ Own(f)
    BY CapturesAreOwn
  <1>2. m \in Messages
    BY <1>1, TextIsMessages
  <1>3. m[1] = f
    BY DEF TextOf
  <1>. QED  BY <1>1, <1>2, <1>3

LEMMA SearchInitial == Init => SearchInv
  <1>. SUFFICES ASSUME Init PROVE SearchInv
    OBVIOUS
  <1>1. SearchOK
    BY BoundAssumption DEF Init, SearchOK, Bounded, Stages, Early
  <1>2. AloneOK /\ OwnInv
    BY DEF Init, AloneOK, OwnInv, OwnOnly, Messages
  <1>. QED  BY <1>1, <1>2 DEF SearchInv

LEMMA SearchTypes == SearchOK /\ [Next]_vars => SearchOK'
  <1>. SUFFICES ASSUME SearchOK, [Next]_vars PROVE SearchOK'
    OBVIOUS
  <1>. USE DEF SearchOK, Bounded, worldVars, indexVars, captureVars
  <1>1. ASSUME NEW f \in Files, NEW k \in Kinds, Write(f, k) PROVE SearchOK'
    <2>1. clock' \in 0 .. MaxWrites /\ clock' = clock + 1
      BY <1>1, BoundAssumption DEF Write
    <2>2. lines' \in [Files -> Seq(Kinds)]
      BY <1>1 DEF Write
    <2>3. ASSUME NEW g \in Files PROVE Len(lines'[g]) <= clock'
      BY <1>1, <2>1 DEF Write
    <2>. QED  BY <1>1, <2>1, <2>2, <2>3 DEF Write
  <1>2. ASSUME NEW f \in Files, Expire(f) PROVE SearchOK'
    BY <1>2 DEF Expire
  <1>3. CASE DeleteIndex
    BY <1>3 DEF DeleteIndex
  <1>4. ASSUME NEW o \in Searchers, ReadContent(o) PROVE SearchOK'
    <2>1. PICK S \in Captures : cap' = [cap EXCEPT ![o] = UNION {TextOf(f) : f \in S}]
      BY <1>4 DEF ReadContent
    <2>2. UNION {TextOf(f) : f \in S} \subseteq Messages
      BY CaptureIsOwn
    <2>3. cap' \in [Searchers -> SUBSET Messages]
      BY <2>1, <2>2
    <2>4. todo' = todo
      BY <1>4 DEF ReadContent
    <2>5. todo[o] = {}
      BY <1>4 DEF ReadContent, Goto, Early
    <2>6. \A c \in Searchers : todo'[c] \subseteq cap'[c]
      BY <2>1, <2>4, <2>5
    <2>7. UNCHANGED <<lines, clock, rows, alone>> /\ pc' \in [Searchers -> Stages]
      BY <1>4 DEF ReadContent, Goto, Stages
    <2>8. \A c \in Searchers : Early(pc'[c]) => todo'[c] = {}
      BY <1>4, <2>4, <2>5 DEF ReadContent, Goto, Early
    <2>. QED  BY <2>3, <2>4, <2>6, <2>7, <2>8
  <1>5. ASSUME NEW o \in Searchers, ReadTimes(o) \/ Check(o) PROVE SearchOK'
    BY <1>5 DEF ReadTimes, Check, Goto, Stages, Early
  <1>6. ASSUME NEW o \in Searchers, Empty(o) PROVE SearchOK'
    <2>1. rows' \in [Messages -> Nat]
      BY <1>6 DEF Empty
    <2>2. todo' \in [Searchers -> SUBSET Messages] /\ \A c \in Searchers : todo'[c] \subseteq cap[c]
      BY <1>6 DEF Empty
    <2>3. alone' \in [Searchers -> BOOLEAN]
      BY <1>6, Zenon DEF Empty
    <2>4. pc' = [pc EXCEPT ![o] = "fill"]
      BY <1>6 DEF Empty, Goto
    <2>5. \A c \in Searchers : Early(pc'[c]) => todo'[c] = {}
      BY <1>6, <2>4 DEF Empty, Early
    <2>6. pc' \in [Searchers -> Stages]
      BY <2>4 DEF Stages
    <2>7. UNCHANGED <<lines, clock, cap>>
      BY <1>6 DEF Empty
    <2>. QED  BY <2>1, <2>2, <2>3, <2>5, <2>6, <2>7
  <1>7. ASSUME NEW o \in Searchers, Fill(o) PROVE SearchOK'
    <2>1. PICK m \in todo[o] : /\ rows' = [rows EXCEPT ![m] = @ + 1]
                               /\ todo' = [todo EXCEPT ![o] = @ \ {m}]
      BY <1>7 DEF Fill
    <2>2. rows' \in [Messages -> Nat]
      BY <2>1
    <2>3. alone' \in [Searchers -> BOOLEAN]
      BY <1>7 DEF Fill
    <2>4. UNCHANGED <<lines, clock, cap, pc>>
      BY <1>7 DEF Fill
    <2>5. /\ todo' \in [Searchers -> SUBSET Messages]
          /\ \A c \in Searchers : todo'[c] \subseteq todo[c]
      BY <2>1
    <2>. QED  BY <2>2, <2>3, <2>4, <2>5
  <1>8. ASSUME NEW o \in Searchers, Stamp(o) PROVE SearchOK'
    BY <1>8 DEF Stamp, Goto, Stages, Early
  <1>9. ASSUME NEW o \in Searchers, Query(o) \/ Fail(o) PROVE SearchOK'
    <2>1. Forget(o) /\ UNCHANGED <<worldVars, indexVars>>
      BY <1>9 DEF Query, Fail
    <2>2. pc' \in [Searchers -> Stages]
      BY <1>9 DEF Query, Fail, Goto, Stages
    <2>3. /\ cap' \in [Searchers -> SUBSET Messages] /\ todo' \in [Searchers -> SUBSET Messages]
          /\ \A c \in Searchers : todo'[c] \subseteq cap'[c]
      BY <2>1 DEF Forget
    <2>4. alone' \in [Searchers -> BOOLEAN]
      BY <2>1 DEF Forget
    <2>5. pc' = [pc EXCEPT ![o] = "idle"]
      BY <1>9 DEF Query, Fail, Goto
    <2>6. \A c \in Searchers : Early(pc'[c]) => todo'[c] = {}
      BY <2>1, <2>5 DEF Forget, Early
    <2>. QED  BY <2>1, <2>2, <2>3, <2>4, <2>6
  <1>10. ASSUME UNCHANGED vars PROVE SearchOK'
    BY <1>10 DEF vars
  <1>. QED
    BY <1>1, <1>2, <1>3, <1>4, <1>5, <1>6, <1>7, <1>8, <1>9, <1>10 DEF Next, World, Step

LEMMA OwnStep == SearchOK /\ OwnInv /\ [Next]_vars => OwnInv'
  <1>. SUFFICES ASSUME SearchOK, OwnInv, [Next]_vars PROVE OwnInv'
    OBVIOUS
  <1>. USE DEF worldVars, indexVars, captureVars
  <1>1. ASSUME NEW o \in Searchers, ReadContent(o) PROVE OwnInv'
    <2>1. PICK S \in Captures : cap' = [cap EXCEPT ![o] = UNION {TextOf(f) : f \in S}]
      BY <1>1 DEF ReadContent
    <2>2. \A m \in UNION {TextOf(f) : f \in S} : Own(m[1])
      BY CaptureIsOwn DEF SearchOK
    <2>3. \A c \in Searchers : \A m \in cap'[c] : Own(m[1])
      BY <2>1, <2>2 DEF SearchOK, OwnInv
    <2>. QED  BY <1>1, <2>3 DEF ReadContent, OwnInv, OwnOnly, Own, Shares
  <1>2. ASSUME NEW o \in Searchers, Empty(o) PROVE OwnInv'
    <2>1. \A f \in Files, n \in 1 .. MaxWrites : rows'[<<f, n>>] = 0
      BY <1>2 DEF Empty, Messages
    <2>. QED  BY <1>2, <2>1 DEF Empty, OwnInv, OwnOnly, Own, Shares
  <1>3. CASE DeleteIndex
    <2>1. \A f \in Files, n \in 1 .. MaxWrites : rows'[<<f, n>>] = 0
      BY <1>3 DEF DeleteIndex, Messages
    <2>. QED  BY <1>3, <2>1 DEF DeleteIndex, OwnInv, OwnOnly, Own, Shares
  <1>4. ASSUME NEW o \in Searchers, Fill(o) PROVE OwnInv'
    <2>1. PICK m \in todo[o] : rows' = [rows EXCEPT ![m] = @ + 1]
      BY <1>4 DEF Fill
    <2>2. Own(m[1])
      BY <2>1 DEF SearchOK, OwnInv
    <2>3. ASSUME NEW f \in Files, NEW n \in 1 .. MaxWrites, rows'[<<f, n>>] > 0 PROVE Own(f)
      <3>1. CASE m = <<f, n>>
        BY <3>1, <2>2
      <3>2. CASE m # <<f, n>>
        <4>1. rows'[<<f, n>>] = rows[<<f, n>>]
          BY <2>1, <3>2 DEF SearchOK, Messages
        <4>. QED  BY <2>3, <4>1 DEF OwnInv, OwnOnly, Own
      <3>. QED  BY <3>1, <3>2
    <2>. QED  BY <1>4, <2>3 DEF Fill, OwnInv, OwnOnly, Own, Shares
  <1>5. ASSUME NEW o \in Searchers, Query(o) \/ Fail(o) PROVE OwnInv'
    <2>1. \A c \in Searchers : \A m \in cap'[c] : Own(m[1])
      BY <1>5 DEF Query, Fail, Forget, OwnInv, SearchOK
    <2>. QED  BY <1>5, <2>1 DEF Query, Fail, OwnInv, OwnOnly, Own, Shares
  <1>6. ASSUME UNCHANGED <<cap, rows>> PROVE OwnInv'
    BY <1>6 DEF OwnInv, OwnOnly, Own, Shares
  <1>7. ASSUME NEW o \in Searchers, ReadTimes(o) \/ Check(o) \/ Stamp(o) PROVE UNCHANGED <<cap, rows>>
    BY <1>7 DEF ReadTimes, Check, Stamp
  <1>8. ASSUME NEW f \in Files, Expire(f) \/ \E k \in Kinds : Write(f, k)
        PROVE  UNCHANGED <<cap, rows>>
    BY <1>8 DEF Expire, Write
  <1>. QED
    BY <1>1, <1>2, <1>3, <1>4, <1>5, <1>6, <1>7, <1>8 DEF Next, World, Step, vars

\* A search that touches the index takes the loneliness from the others.
LEMMA AloneStep == SearchOK /\ AloneOK /\ [Next]_vars => AloneOK'
  <1>. SUFFICES ASSUME SearchOK, AloneOK, [Next]_vars, NEW c \in Searchers, alone'[c]
                PROVE  /\ pc'[c] \in {"fill", "query"}
                       /\ pc'[c] = "fill" => rows' = Count(cap'[c] \ todo'[c])
                       /\ pc'[c] = "query" => rows' = Count(cap'[c])
    BY DEF AloneOK, Count
  <1>. USE DEF worldVars, indexVars, captureVars, Goto, SearchOK
  <1>1. ASSUME NEW o \in Searchers, Empty(o)
        PROVE  /\ pc'[c] = "fill"
               /\ rows' = Count(cap'[c] \ todo'[c])
    <2>1. c = o /\ pc'[c] = "fill" /\ cap' = cap /\ todo'[c] = cap[c]
      BY <1>1 DEF Empty
    <2>. QED  BY <1>1, <2>1 DEF Empty, Count
  <1>2. ASSUME NEW o \in Searchers, Fill(o)
        PROVE  /\ pc'[c] = "fill"
               /\ rows' = Count(cap'[c] \ todo'[c])
    <2>1. c = o /\ alone[c] /\ pc[c] = "fill" /\ pc' = pc /\ cap' = cap
      BY <1>2 DEF Fill
    <2>2. PICK m \in todo[c] : /\ rows' = [rows EXCEPT ![m] = @ + 1]
                               /\ todo' = [todo EXCEPT ![c] = @ \ {m}]
      BY <1>2, <2>1 DEF Fill
    <2>3. rows = Count(cap[c] \ todo[c])
      BY <2>1 DEF AloneOK
    <2>4. m \in cap[c] /\ m \in Messages
      OBVIOUS
    <2>5. rows[m] = 0
      BY <2>3, <2>4 DEF Count
    <2>6. cap'[c] \ todo'[c] = (cap[c] \ todo[c]) \cup {m}
      BY <2>1, <2>2, <2>4
    <2>7. \A k \in Messages : rows'[k] = Count(cap'[c] \ todo'[c])[k]
      BY <2>2, <2>3, <2>4, <2>5, <2>6 DEF Count
    <2>8. rows' = [k \in Messages |-> rows'[k]]
      BY <2>2
    <2>. QED  BY <2>1, <2>7, <2>8 DEF Count
  <1>3. ASSUME NEW o \in Searchers, Stamp(o)
        PROVE  /\ pc'[c] \in {"fill", "query"}
               /\ pc'[c] = "fill" => rows' = Count(cap'[c] \ todo'[c])
               /\ pc'[c] = "query" => rows' = Count(cap'[c])
    <2>1. CASE c = o
      <3>1. rows = Count(cap[c] \ todo[c]) /\ todo[c] = {}
        BY <1>3, <2>1 DEF Stamp, AloneOK
      <3>2. rows = Count(cap[c])
        BY <3>1 DEF Count
      <3>. QED  BY <1>3, <2>1, <3>2 DEF Stamp, Count
    <2>2. CASE c # o
      BY <1>3, <2>2 DEF Stamp, AloneOK, Count
    <2>. QED  BY <2>1, <2>2
  <1>4. ASSUME NEW o \in Searchers, ReadContent(o) \/ ReadTimes(o) \/ Check(o) \/ Query(o) \/ Fail(o)
        PROVE  /\ pc'[c] = pc[c] /\ alone[c] /\ rows' = rows
               /\ cap'[c] = cap[c] /\ todo'[c] = todo[c]
    <2>1. alone[c]
      BY <1>4 DEF ReadContent, ReadTimes, Check, Query, Fail, Forget
    <2>2. pc[c] \in {"fill", "query"}
      BY <2>1 DEF AloneOK
    <2>3. c # o
      BY <1>4, <2>2 DEF ReadContent, ReadTimes, Check, Query, Fail, Forget
    <2>4. CASE ReadContent(o)
      BY <2>4, <2>1, <2>3 DEF ReadContent
    <2>5. CASE ReadTimes(o) \/ Check(o) \/ Query(o) \/ Fail(o)
      BY <2>5, <2>1, <2>3 DEF ReadTimes, Check, Query, Fail, Forget
    <2>. QED  BY <1>4, <2>4, <2>5
  <1>5. CASE DeleteIndex
    BY <1>5 DEF DeleteIndex, AloneOK
  <1>6. ASSUME NEW f \in Files, Expire(f) \/ \E k \in Kinds : Write(f, k)
        PROVE  UNCHANGED <<pc, alone, rows, cap, todo>>
    BY <1>6 DEF Expire, Write
  <1>7. ASSUME UNCHANGED <<pc, alone, rows, cap, todo>>
        PROVE  /\ pc'[c] = pc[c] /\ alone[c] /\ rows' = rows
               /\ cap'[c] = cap[c] /\ todo'[c] = todo[c]
    BY <1>7
  <1>8. CASE /\ pc'[c] = pc[c] /\ alone[c] /\ rows' = rows
             /\ cap'[c] = cap[c] /\ todo'[c] = todo[c]
    BY <1>8 DEF AloneOK, Count
  <1>. QED
    BY <1>1, <1>2, <1>3, <1>4, <1>5, <1>6, <1>7, <1>8 DEF Next, World, Step, vars

LEMMA SearchInduction == Spec => []SearchInv
  <1>1. SearchInv /\ [Next]_vars => SearchInv'
    BY SearchTypes, OwnStep, AloneStep DEF SearchInv
  <1>. QED  BY SearchInitial, <1>1, PTL DEF Spec

(* The search index: Mcp implements Search.  Every step of the server (its   *)
(* request loop and the steps of a search) and of the dashboard is a step of *)
(* a search, of the world, or changes nothing of the index.                  *)
THEOREM ServerSearches == McpSpec => Spec
  <1>1. McpInit => Init
    BY DEF McpInit
  <1>2. [McpNext]_allVars => [Next]_vars
    <2>. SUFFICES ASSUME [McpNext]_allVars PROVE Next \/ UNCHANGED vars
      OBVIOUS
    <2>1. CASE (\E r \in Requests : Send(r)) \/ Skip \/ Reply \/ BeginSearch \/ EndOnBytes
      BY <2>1 DEF Send, Skip, Reply, BeginSearch, EndOnBytes, Take
    <2>2. CASE EndOnEof \/ Change
      BY <2>2 DEF EndOnEof, Change
    <2>3. CASE SearchStep \/ SearchFails
      BY <2>3, ServerAssumption DEF SearchStep, SearchFails, Next
    <2>4. CASE Others \/ World
      BY <2>4 DEF Others, Next
    <2>. QED  BY <2>1, <2>2, <2>3, <2>4 DEF McpNext, allVars
  <1>. QED  BY <1>1, <1>2, PTL DEF McpSpec, Spec

(* Whoever searches, the server, the dashboard or a command, and whatever    *)
(* rebuilds are cut short: the index of Here holds only sessions that        *)
(* sessions_for_cwd takes for those of Here.                                 *)
THEOREM IndexIsOwn == McpSpec => []OwnOnly
  BY SearchInduction, ServerSearches, PTL DEF SearchInv, OwnInv

(* A search that rebuilt the index (ensure_index), and after which nobody    *)
(* else has written to it, queries each message it captured in one row and   *)
(* no other.                                                                 *)
THEOREM RebuildIsExact == McpSpec => []FoundIsCaptured
  <1>1. SearchInv => FoundIsCaptured
    BY DEF SearchInv, AloneOK, FoundIsCaptured
  <1>. QED  BY <1>1, SearchInduction, ServerSearches, PTL

-----------------------------------------------------------------------------
(* Signatures.  SigOf(S, t) is what Signature(S) is when the transcripts were *)
(* written at the times t.                                                    *)

LEMMA HasMax == ASSUME NEW N \in Nat, NEW S \in SUBSET (0 .. N), S # {}
                PROVE  \E m \in S : \A n \in S : m >= n
  <1>. DEFINE above(m) == (m + 1) .. N
              T == {above(m) : m \in S}
  <1>1. \A m \in S : above(m) \in SUBSET (0 .. N)
    OBVIOUS
  <1>2. T # {} /\ T \subseteq SUBSET (0 .. N)
    BY <1>1
  <1>3. PICK x \in T : \A y \in T : <<y, x>> \notin StrictSubsetOrdering(0 .. N)
    <2>1. T \subseteq FiniteSubsetsOf(0 .. N)
      BY <1>2, FS_Interval, FS_Subset DEF FiniteSubsetsOf
    <2>. QED  BY <1>2, <2>1, FS_Interval, FS_StrictSubsetOrderingWellFounded, WFMin
  <1>4. PICK m \in S : x = above(m)
    OBVIOUS
  <1>5. ASSUME NEW n \in S, n > m PROVE FALSE
    <2>1. above(n) \subseteq above(m) /\ n \in above(m) /\ n \notin above(n)
      BY <1>5
    <2>2. above(n) \in T
      OBVIOUS
    <2>. HIDE DEF above, T
    <2>. QED  BY <1>1, <1>3, <1>4, <2>1, <2>2 DEF StrictSubsetOrdering
  <1>. QED  BY <1>5

SigOf(S, t) == <<Cardinality(S), IF S = {} THEN 0 ELSE Max({t[f] : f \in S})>>
Times       == [Files -> 0 .. MaxWrites]

\* Signatures are ordered: more sessions, or as many and a later one.
Leq(g, h) == g[1] < h[1] \/ (g[1] = h[1] /\ g[2] <= h[2])

LEMMA SignatureFacts ==
  ASSUME NEW t \in Times, NEW S \in SUBSET Files
  PROVE  /\ SigOf(S, t) \in Signatures
         /\ \A f \in S : t[f] <= SigOf(S, t)[2]
         /\ SigOf(S, t)[2] \in 0 .. MaxWrites
         /\ S # {} => \E f \in S : SigOf(S, t)[2] = t[f]
         /\ S = {} => SigOf(S, t)[2] = 0
  <1>. DEFINE V == {t[f] : f \in S}
  <1>1. Cardinality(S) \in Nat
    BY NamesAssumption, FS_Subset, FS_CardinalityType
  <1>2. CASE S = {}
    BY <1>1, <1>2, BoundAssumption DEF SigOf, Signatures
  <1>3. CASE S # {}
    <2>1. V \in SUBSET (0 .. MaxWrites) /\ V # {}
      BY <1>3 DEF Times
    <2>2. \E m \in V : \A n \in V : m >= n
      <3>. HIDE DEF V
      <3>. QED  BY <2>1, HasMax, BoundAssumption
    <2>3. Max(V) \in V /\ \A n \in V : Max(V) >= n
      <3>. HIDE DEF V
      <3>. QED  BY <2>2 DEF Max
    <2>4. SigOf(S, t) = <<Cardinality(S), Max(V)>>
      BY <1>3 DEF SigOf
    <2>5. /\ \E f \in S : Max(V) = t[f]
          /\ \A f \in S : Max(V) >= t[f]
      BY <2>3
    <2>. HIDE DEF V
    <2>6. Max(V) \in 0 .. MaxWrites
      BY <2>1, <2>3
    <2>7. \A f \in S : t[f] <= Max(V)
      BY <2>5, <2>6 DEF Times
    <2>. QED  BY <1>1, <1>3, <2>4, <2>5, <2>6, <2>7, BoundAssumption DEF Signatures
  <1>. QED  BY <1>2, <1>3

\* A capture of more transcripts, or of the same ones when they are older, has
\* no smaller signature.
LEMMA SignaturesGrow ==
  ASSUME NEW t \in Times, NEW u \in Times, \A f \in Files : t[f] <= u[f],
         NEW T \in SUBSET Files, NEW S \in SUBSET T
  PROVE  Leq(SigOf(S, t), SigOf(T, u))
  <1>1. IsFiniteSet(T) /\ IsFiniteSet(S) /\ Cardinality(S) \in Nat /\ Cardinality(T) \in Nat
    BY NamesAssumption, FS_Subset, FS_CardinalityType
  <1>2. Cardinality(S) <= Cardinality(T) /\ (Cardinality(S) = Cardinality(T) => S = T)
    BY <1>1, FS_Subset
  <1>3. ASSUME S = T PROVE SigOf(S, t)[2] <= SigOf(T, u)[2]
    <2>. DEFINE g == SigOf(S, t)
                h == SigOf(T, u)
    <2>1. /\ g[2] \in 0 .. MaxWrites /\ h[2] \in 0 .. MaxWrites
          /\ \A f \in S : u[f] <= h[2]
          /\ S # {} => \E f \in S : g[2] = t[f]
          /\ S = {} => g[2] = 0
      <3>1. S \in SUBSET Files
        OBVIOUS
      <3>. QED  BY <1>3, <3>1, SignatureFacts
    <2>. HIDE DEF g, h
    <2>2. CASE S = {}
      BY <2>1, <2>2 DEF g, h
    <2>3. CASE S # {}
      <3>1. PICK f \in S : g[2] = t[f]
        BY <2>1, <2>3
      <3>2. t[f] <= u[f] /\ u[f] <= h[2] /\ t[f] \in Nat /\ u[f] \in Nat /\ h[2] \in Nat
        BY <2>1, BoundAssumption DEF Times
      <3>. QED  BY <3>1, <3>2 DEF g, h
    <2>. QED  BY <2>2, <2>3
  <1>. QED  BY <1>1, <1>2, <1>3 DEF Leq, SigOf

-----------------------------------------------------------------------------
(* Types.                                                                     *)

TypeInv == SearchOK /\ TypeOK /\ mtime \in Times /\ \A f \in Files : mtime[f] <= clock

LEMMA TypeInitial == Init => TypeInv
  <1>. SUFFICES ASSUME Init PROVE TypeInv
    OBVIOUS
  <1>. USE BoundAssumption
  <1>1. SearchOK
    BY SearchInitial DEF SearchInv
  <1>2. sig \in [Searchers -> Signatures] /\ sess \in [Searchers -> SUBSET Files]
    <2>1. <<0, 0>> \in Signatures
      BY DEF Signatures
    <2>2. sig = [o \in Searchers |-> <<0, 0>>] /\ sess = [o \in Searchers |-> {}]
      BY DEF Init
    <2>3. sig \in [Searchers -> Signatures]
      BY <2>1, <2>2
    <2>. QED  BY <2>2, <2>3
  <1>3. mtime \in Times /\ \A f \in Files : mtime[f] <= clock
    BY DEF Init, Times
  <1>4. mtime \in [Files -> Nat] /\ clock \in Nat
    BY DEF Init
  <1>5. /\ stamp \in Signatures \cup {None}
        /\ behind \in SUBSET Searchers /\ overlapped \in BOOLEAN
    BY DEF Init
  <1>6. late \in SUBSET Messages /\ expired \in SUBSET Files /\ faults \in 0 .. MaxFaults
    BY DEF Init
  <1>. QED  BY <1>1, <1>2, <1>3, <1>4, <1>5, <1>6 DEF TypeInv, TypeOK, SearchOK, Bounded

LEMMA SignatureType ==
  ASSUME mtime \in Times, NEW S \in SUBSET Files PROVE Signature(S) \in Signatures
  <1>1. Signature(S) = SigOf(S, mtime)
    BY DEF Signature, SigOf
  <1>. QED  BY <1>1, SignatureFacts

LEMMA TypeStep == TypeInv /\ [Next]_vars => TypeInv'
  <1>. SUFFICES ASSUME TypeInv, [Next]_vars PROVE TypeInv'
    OBVIOUS
  <1>. USE BoundAssumption DEF worldVars, indexVars, captureVars
  <1>0. SearchOK' /\ clock' \in Nat
    BY SearchTypes DEF TypeInv, SearchOK, Bounded
  <1>1. ASSUME NEW f \in Files, NEW k \in Kinds, Write(f, k) PROVE TypeInv'
    <2>1. clock' \in 0 .. MaxWrites /\ clock' = clock + 1 /\ clock \in Nat
      BY <1>1 DEF Write, TypeInv, SearchOK, Bounded
    <2>2. mtime' = [mtime EXCEPT ![f] = clock']
      BY <1>1 DEF Write
    <2>3. mtime' \in Times /\ mtime' \in [Files -> Nat]
      BY <2>1, <2>2 DEF TypeInv, Times
    <2>4. \A g \in Files : mtime'[g] <= clock'
      BY <2>1, <2>2 DEF TypeInv, Times
    <2>5. late' \subseteq Messages
      <3>1. CASE late' = late
        BY <3>1 DEF TypeInv, TypeOK
      <3>2. CASE late' = late \cup {<<f, Len(lines'[f])>>}
        <4>1. Len(lines'[f]) \in 1 .. MaxWrites
          <5>1. Len(lines'[f]) = Len(lines[f]) + 1 /\ Len(lines[f]) \in Nat
            BY <1>1 DEF Write, TypeInv, TypeOK
          <5>2. Len(lines'[f]) <= clock'
            BY <1>0 DEF SearchOK, Bounded
          <5>. QED  BY <2>1, <5>1, <5>2
        <4>. QED  BY <3>2, <4>1 DEF TypeInv, TypeOK, Messages
      <3>. QED  BY <1>1, <3>1, <3>2 DEF Write
    <2>6. UNCHANGED <<rows, stamp, pc, cap, sess, sig, todo, alone, behind, overlapped, expired, faults>>
      BY <1>1 DEF Write
    <2>7. lines' \in [Files -> Seq(Kinds)]
      BY <1>0 DEF SearchOK, Bounded
    <2>. QED  BY <1>0, <2>3, <2>4, <2>5, <2>6, <2>7 DEF TypeInv, TypeOK
  <1>2. ASSUME NEW f \in Files, Expire(f) PROVE TypeInv'
    <2>1. mtime' = [mtime EXCEPT ![f] = 0] /\ clock' = clock
      BY <1>2 DEF Expire
    <2>2. mtime' \in Times /\ mtime' \in [Files -> Nat] /\ \A g \in Files : mtime'[g] <= clock'
      BY <2>1 DEF TypeInv, Times, SearchOK, Bounded
    <2>3. expired' \subseteq Files /\ faults' \in 0 .. MaxFaults
      BY <1>2 DEF Expire, TypeInv, TypeOK
    <2>4. UNCHANGED <<rows, stamp, pc, cap, sess, sig, todo, alone, behind, overlapped, late>>
      BY <1>2 DEF Expire
    <2>5. lines' \in [Files -> Seq(Kinds)]
      BY <1>0 DEF SearchOK, Bounded
    <2>. QED  BY <1>0, <2>2, <2>3, <2>4, <2>5 DEF TypeInv, TypeOK
  <1>3. CASE DeleteIndex
    BY <1>0, <1>3 DEF DeleteIndex, TypeInv, TypeOK, SearchOK
  <1>4. ASSUME NEW o \in Searchers, ReadContent(o) PROVE TypeInv'
    <2>1. PICK S \in Captures : sess' = [sess EXCEPT ![o] = S]
      BY <1>4 DEF ReadContent
    <2>2. S \subseteq Files
      BY CapturesAreOwn
    <2>3. sess' \in [Searchers -> SUBSET Files] /\ behind' \subseteq Searchers
      BY <1>4, <2>1, <2>2 DEF ReadContent, TypeInv, TypeOK
    <2>. QED  BY <1>0, <1>4, <2>3 DEF ReadContent, TypeInv, TypeOK, SearchOK
  <1>5. ASSUME NEW o \in Searchers, ReadTimes(o) PROVE TypeInv'
    <2>1. Signature(sess[o]) \in Signatures
      BY SignatureType DEF TypeInv, TypeOK
    <2>2. sig' \in [Searchers -> Signatures]
      BY <1>5, <2>1 DEF ReadTimes, TypeInv, TypeOK
    <2>. QED  BY <1>0, <1>5, <2>2 DEF ReadTimes, TypeInv, TypeOK, SearchOK
  <1>6. ASSUME NEW o \in Searchers, Check(o) PROVE TypeInv'
    BY <1>0, <1>6 DEF Check, TypeInv, TypeOK, SearchOK
  <1>7. ASSUME NEW o \in Searchers, Empty(o) \/ Fill(o) PROVE TypeInv'
    <2>1. overlapped' \in BOOLEAN
      BY <1>7 DEF Empty, Fill, TypeInv, TypeOK, Intruding, Rebuilding
    <2>2. UNCHANGED <<worldVars, stamp, captureVars, behind, late, faults>>
      BY <1>7 DEF Empty, Fill
    <2>. QED  BY <1>0, <2>1, <2>2 DEF TypeInv, TypeOK, SearchOK
  <1>8. ASSUME NEW o \in Searchers, Stamp(o) PROVE TypeInv'
    <2>1. stamp' \in Signatures /\ behind' \subseteq Searchers
      BY <1>8 DEF Stamp, TypeInv, TypeOK
    <2>2. overlapped' \in BOOLEAN
      BY <1>8 DEF Stamp, Intruding, Rebuilding
    <2>3. UNCHANGED <<worldVars, captureVars, late, faults>>
      BY <1>8 DEF Stamp
    <2>. QED  BY <1>0, <2>1, <2>2, <2>3 DEF TypeInv, TypeOK, SearchOK
  <1>9. ASSUME NEW o \in Searchers, Query(o) \/ Fail(o) PROVE TypeInv'
    <2>1. <<0, 0>> \in Signatures
      BY DEF Signatures
    <2>2. sess' = [sess EXCEPT ![o] = {}] /\ sig' = [sig EXCEPT ![o] = <<0, 0>>]
      BY <1>9 DEF Query, Fail, Forget
    <2>5. sess' \in [Searchers -> SUBSET Files]
      BY <2>2 DEF TypeInv, TypeOK
    <2>6. sig' \in [Searchers -> Signatures]
      <3>1. sig \in [Searchers -> Signatures]
        BY DEF TypeInv, TypeOK
      <3>. QED  BY <2>1, <2>2, <3>1
    <2>3. faults' \in 0 .. MaxFaults
      BY <1>9 DEF Query, Fail, TypeInv, TypeOK
    <2>4. UNCHANGED <<worldVars, indexVars, behind, overlapped, late>>
      BY <1>9 DEF Query, Fail
    <2>. QED  BY <1>0, <2>3, <2>4, <2>5, <2>6 DEF TypeInv, TypeOK, SearchOK
  <1>10. CASE UNCHANGED vars
    BY <1>0, <1>10 DEF vars, TypeInv, TypeOK
  <1>. QED
    BY <1>1, <1>2, <1>3, <1>4, <1>5, <1>6, <1>7, <1>8, <1>9, <1>10 DEF Next, World, Step

LEMMA TypeInduction == Spec => []TypeInv
  BY TypeInitial, TypeStep, PTL DEF Spec

-----------------------------------------------------------------------------
(* The server.                                                                *)

ServerOK == /\ stdin \in Seq(Requests) /\ stdout \in Seq(Answers)
            /\ serving \in BOOLEAN /\ registered \in BOOLEAN
            /\ cur \in Requests \cup {None}
            /\ present \in SUBSET Resources
            /\ sent \in 0 .. MaxRequests /\ changes \in 0 .. MaxChanges

LEMMA AnswerType ==
  ASSUME NEW r \in Requests, NEW is \in Outcomes \cup {Known, Fallback}, stdout \in Seq(Answers)
  PROVE  Answer(r, is) \in Seq(Answers)
  <1>1. r.id \in Ids \cup {NoId}
    BY RequestAssumption DEF Forms
  <1>. DEFINE e == [id |-> IF r.method = "not JSON" THEN NoId ELSE r.id, is |-> is]
  <1>2. e \in Answers
    BY <1>1 DEF Answers
  <1>. HIDE DEF e
  <1>3. Append(stdout, e) \in Seq(Answers)
    BY <1>2
  <1>. QED  BY <1>3 DEF Answer, e

LEMMA OutcomeType == ASSUME NEW r \in Requests
                     PROVE  Outcome(r) \in Outcomes \cup {Known, Fallback}
  BY DEF Outcome, Outcomes, Version

LEMMA TakeType == ASSUME ServerOK, Take
                  PROVE  /\ Head(stdin) \in Requests /\ stdin' \in Seq(Requests)
                         /\ cur = None
                         /\ UNCHANGED <<registered, present, sent, changes>>
  BY DEF ServerOK, Take

LEMMA ServerStep == ServerOK /\ [McpNext]_allVars => ServerOK'
  <1>. SUFFICES ASSUME ServerOK, [McpNext]_allVars PROVE ServerOK'
    OBVIOUS
  <1>1. ASSUME NEW r \in Requests, Send(r) PROVE ServerOK'
    <2>1. stdin' \in Seq(Requests) /\ sent' \in 0 .. MaxRequests
      BY <1>1, MaxAssumption DEF Send, ServerOK
    <2>. QED  BY <1>1, <2>1 DEF Send, ServerOK
  <1>2. CASE Skip \/ EndOnBytes
    <2>1. Take /\ UNCHANGED <<stdout, cur>> /\ serving' \in BOOLEAN
      BY <1>2 DEF Skip, EndOnBytes, ServerOK
    <2>. QED  BY <2>1, TakeType DEF ServerOK
  <1>3. CASE Reply
    <2>1. Take /\ stdout' = Answer(Head(stdin), Outcome(Head(stdin))) /\ UNCHANGED <<serving, cur>>
      BY <1>3 DEF Reply
    <2>2. stdout' \in Seq(Answers)
      BY <2>1, TakeType, OutcomeType, AnswerType DEF ServerOK
    <2>. QED  BY <2>1, <2>2, TakeType DEF ServerOK
  <1>4. CASE BeginSearch
    <2>1. Take /\ cur' = Head(stdin) /\ UNCHANGED <<stdout, serving>>
      BY <1>4 DEF BeginSearch
    <2>. QED  BY <2>1, TakeType DEF ServerOK
  <1>5. CASE EndOnEof
    BY <1>5 DEF EndOnEof, ServerOK
  <1>6. CASE SearchStep \/ SearchFails
    <2>1. cur \in Requests /\ cur' \in {None, cur} /\ serving' \in BOOLEAN
      BY <1>6 DEF SearchStep, SearchFails, ServerOK
    <2>2. stdout' = stdout \/ \E is \in {"result", "isError"} : stdout' = Answer(cur, is)
      BY <1>6 DEF SearchStep, SearchFails
    <2>3. stdout' \in Seq(Answers)
      BY <2>1, <2>2, AnswerType DEF ServerOK, Outcomes
    <2>4. UNCHANGED <<stdin, registered, present, sent, changes>>
      BY <1>6 DEF SearchStep, SearchFails
    <2>. QED  BY <2>1, <2>3, <2>4 DEF ServerOK
  <1>7. CASE Change
    <2>1. changes' \in 0 .. MaxChanges
      BY <1>7, MaxAssumption DEF Change, ServerOK
    <2>2. registered' \in BOOLEAN
      BY <1>7 DEF Change, ServerOK
    <2>3. present' \in SUBSET Resources
      BY <1>7 DEF Change, ServerOK
    <2>4. UNCHANGED <<stdin, stdout, serving, cur, sent>>
      BY <1>7 DEF Change
    <2>. QED  BY <2>1, <2>2, <2>3, <2>4 DEF ServerOK
  <1>8. CASE UNCHANGED mcpVars
    BY <1>8 DEF mcpVars, ServerOK
  <1>. QED
    BY <1>1, <1>2, <1>3, <1>4, <1>5, <1>6, <1>7, <1>8 DEF McpNext, allVars, Others

(* Every variable of the searches, and of the server among them, keeps its    *)
(* type, whatever is asked and whatever fails.                                *)
THEOREM TypeCorrect == McpSpec => []McpTypeOK
  <1>1. McpInit => ServerOK
    <2>1. <<>> \in Seq(Requests) /\ <<>> \in Seq(Answers)
      OBVIOUS
    <2>2. 0 \in 0 .. MaxRequests /\ 0 \in 0 .. MaxChanges
      BY MaxAssumption
    <2>. QED  BY <2>1, <2>2 DEF McpInit, ServerOK
  <1>2. McpSpec => []ServerOK
    BY <1>1, ServerStep, PTL DEF McpSpec
  <1>3. TypeInv /\ ServerOK => McpTypeOK
    BY DEF TypeInv, ServerOK, McpTypeOK
  <1>. QED  BY <1>2, <1>3, TypeInduction, ServerSearches, PTL

-----------------------------------------------------------------------------
(* An index that is up to date is whole.  While no transcript is removed, the *)
(* world only grows: sessions are added, and those there are get longer.  So  *)
(* do the signatures, and whoever finds the index stale finds a greater one   *)
(* than its stamp: what it leaves behind half-way will never be up to date.   *)

\* The sessions that sessions_for_cwd gives while no directory is shared.
Attributed == {f \in Files : /\ TextOf(f) # {}
                             /\ IF f \in Codex THEN HasMeta(f) /\ CwdOf[f] = Here ELSE MayBeHere(f)}
Ambiguous  == \E f \in Files \ Codex : MayBeHere(f) /\ ~MustBeHere(f) /\ TextOf(f) # {}

Texts(S)    == UNION {TextOf(f) : f \in S}
Holds(f, C) == TextOf(f) \subseteq C \cup late

\* g is the signature of a capture of the messages C from the sessions S: it has
\* all of those that were not written since, or behind its back.
Taken(S, C, g) == /\ S \subseteq Attributed /\ C \subseteq Texts(S)
                  /\ g[1] = Cardinality(S) /\ g[2] <= clock
                  /\ \A f \in S : mtime[f] <= g[2] => Holds(f, C)

Holding == {"captured", "stale", "fill", "query"}

Reading(o)  == pc[o] = "read" => /\ sess[o] \subseteq Attributed
                                 /\ cap[o] \subseteq Texts(sess[o])
                                 /\ \A f \in sess[o] : Holds(f, cap[o])
Captured(o) == pc[o] \in Holding => /\ Taken(sess[o], cap[o], sig[o])
                                    /\ Leq(sig[o], Signature(Attributed))
CaptureOK   == expired = {} => \A o \in Searchers : Reading(o) /\ Captured(o)

\* Who captured after the index was stamped has no smaller signature than its
\* stamp, and another one when it rebuilds the index.
Since(o) == stamp # None /\ o \notin behind =>
              /\ pc[o] = "read" => Leq(stamp, Signature(sess[o]))
              /\ pc[o] \in {"captured", "stale", "fill"} => Leq(stamp, sig[o])
              /\ pc[o] \in {"stale", "fill"} => stamp # sig[o]

StampOK == stamp # None =>
             /\ Leq(stamp, Signature(Attributed))
             /\ \/ overlapped \/ stamp # Signature(Attributed)
                \/ \E S \in SUBSET Files : \E C \in SUBSET Messages :
                     Taken(S, C, stamp) /\ rows = Count(C)

WholeInv == /\ CaptureOK
            /\ expired = {} /\ ~Ambiguous => StampOK /\ \A o \in Searchers : Since(o)

LEMMA LeqOrder ==
  ASSUME NEW g \in Signatures, NEW h \in Signatures, NEW i \in Signatures
  PROVE  /\ Leq(g, h) /\ Leq(h, i) => Leq(g, i)
         /\ Leq(g, h) /\ Leq(h, g) => g = h
  BY DEF Leq, Signatures

LEMMA CapturesAttributed ==
  ASSUME NEW S \in Captures
  PROVE  S \subseteq Attributed /\ (~Ambiguous => S = Attributed)
  <1>. DEFINE R == {f \in Codex : HasMeta(f) /\ CwdOf[f] = Here}
              M == {f \in Files \ Codex : MayBeHere(f)}
  <1>1. PICK T \in SUBSET M : /\ S = {f \in T \cup R : TextOf(f) # {}}
                              /\ \A f \in Files \ Codex : MustBeHere(f) => f \in T
    BY DEF Captures
  <1>2. S \subseteq Attributed
    BY <1>1, NamesAssumption DEF Attributed
  <1>3. ASSUME ~Ambiguous, NEW f \in Attributed PROVE f \in S
    <2>1. CASE f \in Codex
      BY <1>1, <1>3, <2>1 DEF Attributed
    <2>2. CASE f \notin Codex
      <3>1. MustBeHere(f)
        BY <1>3, <2>2 DEF Attributed, Ambiguous
      <3>. QED  BY <1>1, <1>3, <2>2, <3>1 DEF Attributed
    <2>. QED  BY <2>1, <2>2
  <1>. QED  BY <1>2, <1>3

\* With and without the transcripts of a shared directory: two captures.
LEMMA OneCapture == Cardinality(Captures) = 1 => ~Ambiguous
  <1>. DEFINE R == {f \in Codex : HasMeta(f) /\ CwdOf[f] = Here}
              M == {f \in Files \ Codex : MayBeHere(f)}
              ok(T) == /\ \A f \in T, g \in Files \ Codex : Shares(f, g) => g \in T
                       /\ \A f \in Files \ Codex : MustBeHere(f) => f \in T
              of(T) == {f \in T \cup R : TextOf(f) # {}}
  <1>. SUFFICES ASSUME Cardinality(Captures) = 1,
                       NEW f \in Files \ Codex, MayBeHere(f), ~MustBeHere(f), TextOf(f) # {}
                PROVE  FALSE
    BY DEF Ambiguous
  <1>1. \A T \in SUBSET M : ok(T) => of(T) \in Captures
    BY DEF Captures
  <1>2. M \in SUBSET M /\ ok(M)
    BY DEF MayBeHere, MustBeHere, Shares
  <1>3. M \ {g \in M : Shares(f, g)} \in SUBSET M /\ ok(M \ {g \in M : Shares(f, g)})
    <2>. DEFINE N == M \ {g \in M : Shares(f, g)}
    <2>1. ASSUME NEW g \in N, NEW h \in Files \ Codex, Shares(g, h) PROVE h \in N
      BY <2>1 DEF MayBeHere, Shares
    <2>2. ASSUME NEW g \in Files \ Codex, MustBeHere(g) PROVE g \in N
      BY <2>2 DEF MayBeHere, MustBeHere, Shares
    <2>. QED  BY <2>1, <2>2
  <1>4. f \in of(M) /\ f \notin of(M \ {g \in M : Shares(f, g)})
    BY DEF Shares
  <1>5. IsFiniteSet(Captures)
    <2>1. Captures \in SUBSET (SUBSET Files)
      BY CapturesAreOwn
    <2>. QED  BY <2>1, NamesAssumption, FS_SUBSET, FS_Subset
  <1>6. PICK x : Captures = {x}
    BY <1>5, FS_Singleton
  <1>. HIDE DEF ok, of, M
  <1>. QED  BY <1>1, <1>2, <1>3, <1>4, <1>6

\* What one line more does to the transcript it is written to.
LEMMA WriteGrows ==
  ASSUME TypeInv, NEW f \in Files, NEW k \in Kinds, Write(f, k), NEW g \in Files
  PROVE  /\ TextOf(g) \subseteq TextOf(g)'
         /\ HasCwd(g) => HasCwd(g)'
         /\ HasMeta(g) => HasMeta(g)'
         /\ g # f => TextOf(g)' = TextOf(g)
         /\ (\E o \in Searchers : pc[o] = "read") => TextOf(g)' \subseteq TextOf(g) \cup late'
  <1>1. lines[f] \in Seq(Kinds) /\ lines \in [Files -> Seq(Kinds)]
    BY DEF TypeInv, TypeOK
  <1>2. lines' = [lines EXCEPT ![f] = Append(lines[f], k)]
    BY DEF Write
  <1>3. CASE g # f
    <2>1. lines'[g] = lines[g]
      BY <1>1, <1>2, <1>3
    <2>. QED  BY <1>3, <2>1 DEF TextOf, HasCwd, HasMeta
  <1>4. CASE g = f
    <2>1. /\ Len(lines'[g]) = Len(lines[g]) + 1 /\ Len(lines[g]) \in Nat
          /\ \A n \in 1 .. Len(lines[g]) : lines'[g][n] = lines[g][n]
          /\ lines'[g][Len(lines[g]) + 1] = k
      BY <1>1, <1>2, <1>4
    <2>2. lines'[g] # <<>> /\ (lines[g] # <<>> => Len(lines[g]) > 0)
      BY <1>1, <1>2, <1>4
    <2>3. TextOf(g) \subseteq TextOf(g)'
      BY <2>1 DEF TextOf
    <2>4. HasCwd(g) => HasCwd(g)'
      BY <2>1 DEF HasCwd
    <2>5. HasMeta(g) => HasMeta(g)'
      BY <2>1, <2>2 DEF HasMeta
    <2>6. TextOf(g)' \subseteq TextOf(g) \cup (IF k = "text" THEN {<<f, Len(lines'[f])>>} ELSE {})
      <3>1. ASSUME NEW n \in 1 .. Len(lines'[g]), lines'[g][n] = "text"
            PROVE  <<g, n>> \in TextOf(g) \/ (k = "text" /\ n = Len(lines'[g]))
        <4>1. CASE n <= Len(lines[g])
          BY <2>1, <3>1, <4>1 DEF TextOf
        <4>2. CASE n = Len(lines[g]) + 1
          BY <2>1, <3>1, <4>2
        <4>. QED  BY <2>1, <4>1, <4>2
      <3>. QED  BY <1>4, <3>1 DEF TextOf
    <2>7. ASSUME \E o \in Searchers : pc[o] = "read" PROVE TextOf(g)' \subseteq TextOf(g) \cup late'
      <3>1. k = "text" => late' = late \cup {<<f, Len(lines'[f])>>}
        BY <2>7 DEF Write
      <3>. QED  BY <2>6, <3>1
    <2>. QED  BY <1>4, <2>3, <2>4, <2>5, <2>7
  <1>. QED  BY <1>3, <1>4

LEMMA WorldGrows ==
  ASSUME TypeInv, [Next]_vars, expired' = {}
  PROVE  /\ expired = {} /\ clock <= clock' /\ late \subseteq late'
         /\ \A g \in Files : /\ mtime[g] <= mtime'[g]
                             /\ TextOf(g) \subseteq TextOf(g)'
                             /\ HasCwd(g) => HasCwd(g)'
                             /\ HasMeta(g) => HasMeta(g)'
                             /\ \/ mtime'[g] > clock
                                \/ mtime'[g] = mtime[g] /\ TextOf(g)' = TextOf(g)
                             /\ (\E o \in Searchers : pc[o] = "read") =>
                                   TextOf(g)' \subseteq TextOf(g) \cup late'
  <1>0. mtime \in Times /\ clock \in Nat /\ \A g \in Files : mtime[g] <= clock
    BY DEF TypeInv, TypeOK
  <1>1. ASSUME NEW f \in Files, NEW k \in Kinds, Write(f, k)
        PROVE  /\ expired = {} /\ clock <= clock' /\ late \subseteq late'
               /\ \A g \in Files : /\ mtime[g] <= mtime'[g]
                                   /\ mtime'[g] > clock \/ (g # f /\ mtime'[g] = mtime[g])
    BY <1>0, <1>1, BoundAssumption DEF Write, Times
  <1>2. ASSUME NEW f \in Files, Expire(f) PROVE FALSE
    BY <1>2 DEF Expire
  <1>3. ASSUME UNCHANGED <<lines, mtime, clock, late, expired>>
        PROVE  /\ expired = {} /\ clock <= clock' /\ late \subseteq late'
               /\ \A g \in Files : /\ mtime[g] <= mtime'[g]
                                   /\ TextOf(g)' = TextOf(g)
                                   /\ HasCwd(g)' = HasCwd(g)
                                   /\ HasMeta(g)' = HasMeta(g)
                                   /\ mtime'[g] = mtime[g]
    BY <1>0, <1>3, BoundAssumption DEF TextOf, HasCwd, HasMeta, Times
  <1>4. ASSUME NEW o \in Searchers, Step(o) \/ Fail(o) PROVE UNCHANGED <<lines, mtime, clock, late, expired>>
    BY <1>4 DEF Step, ReadContent, ReadTimes, Check, Empty, Fill, Stamp, Query, Fail, worldVars
  <1>5. CASE DeleteIndex \/ UNCHANGED vars
    BY <1>5, <1>3 DEF DeleteIndex, worldVars, vars
  <1>. QED  BY <1>1, <1>2, <1>3, <1>4, <1>5, WriteGrows DEF Next, World

LEMMA AttributedGrows ==
  ASSUME TypeInv, [Next]_vars, expired' = {}
  PROVE  Attributed \subseteq Attributed' /\ (Ambiguous => Ambiguous')
  <1>1. \A f \in Files : MayBeHere(f) => MayBeHere(f)'
    BY WorldGrows DEF MayBeHere, Shares
  <1>2. \A f \in Files : MayBeHere(f) /\ MustBeHere(f)' => MustBeHere(f)
    BY WorldGrows DEF MustBeHere, Shares
  <1>3. \A f \in Files : TextOf(f) # {} => TextOf(f)' # {}
    BY WorldGrows
  <1>4. ASSUME NEW f \in Attributed PROVE f \in Attributed'
    BY <1>1, <1>3, <1>4, WorldGrows DEF Attributed
  <1>. QED  BY <1>1, <1>2, <1>3, <1>4 DEF Ambiguous

LEMMA SignatureIs == \A S \in SUBSET Files : Signature(S) = SigOf(S, mtime)
  BY DEF Signature, SigOf

\* No signature of the same sessions, or of all of them, gets smaller.
LEMMA SignatureGrows ==
  ASSUME TypeInv, TypeInv', [Next]_vars, expired' = {}, NEW S \in SUBSET Files
  PROVE  /\ Signature(S) \in Signatures /\ Signature(S)' \in Signatures
         /\ Leq(Signature(S), Signature(S)')
  <1>1. mtime \in Times /\ mtime' \in Times /\ \A f \in Files : mtime[f] <= mtime'[f]
    BY WorldGrows DEF TypeInv, Times
  <1>2. Signature(S) = SigOf(S, mtime) /\ Signature(S)' = SigOf(S, mtime')
    BY DEF Signature, SigOf
  <1>3. S \in SUBSET S
    OBVIOUS
  <1>. QED  BY <1>1, <1>2, <1>3, SignatureFacts, SignaturesGrow

LEMMA NowGrows ==
  ASSUME TypeInv, TypeInv', [Next]_vars, expired' = {}
  PROVE  /\ Signature(Attributed) \in Signatures /\ Signature(Attributed)' \in Signatures
         /\ Leq(Signature(Attributed), Signature(Attributed)')
  <1>1. mtime \in Times /\ mtime' \in Times /\ \A f \in Files : mtime[f] <= mtime'[f]
    BY WorldGrows DEF TypeInv, Times
  <1>2. /\ Signature(Attributed) = SigOf(Attributed, mtime)
        /\ Signature(Attributed)' = SigOf(Attributed', mtime')
    BY DEF Signature, SigOf
  <1>3. Attributed \in SUBSET Attributed' /\ Attributed' \in SUBSET Files /\ Attributed \in SUBSET Files
    <2>1. Attributed \subseteq Files /\ Attributed' \subseteq Files
      BY DEF Attributed
    <2>. QED  BY <2>1, AttributedGrows
  <1>. QED  BY <1>1, <1>2, <1>3, SignatureFacts, SignaturesGrow

\* A capture remains what it was when it is not the world that changes; a
\* session that is written after it is younger than its signature.
LEMMA TakenStays ==
  ASSUME TypeInv, [Next]_vars, expired' = {}, NEW S \in SUBSET Files, NEW C, NEW g \in Signatures,
         Taken(S, C, g)
  PROVE  Taken(S, C, g)'
  <1>1. S \subseteq Attributed'
    BY AttributedGrows DEF Taken
  <1>2. C \subseteq Texts(S)'
    <2>1. \A f \in S : TextOf(f) \subseteq TextOf(f)'
      BY WorldGrows
    <2>. QED  BY <2>1 DEF Taken, Texts
  <1>3. g[2] \in Nat /\ clock \in Nat /\ clock' \in Nat /\ mtime' \in [Files -> Nat]
    BY TypeStep, BoundAssumption DEF Signatures, TypeInv, TypeOK
  <1>4. g[2] <= clock'
    BY <1>3, WorldGrows DEF Taken
  <1>5. ASSUME NEW f \in S, mtime'[f] <= g[2] PROVE Holds(f, C)'
    <2>1. ~(mtime'[f] > clock)
      BY <1>3, <1>5 DEF Taken
    <2>2. mtime'[f] = mtime[f] /\ TextOf(f)' = TextOf(f)
      BY <2>1, WorldGrows
    <2>3. Holds(f, C)
      BY <1>5, <2>2 DEF Taken
    <2>. QED  BY <2>2, <2>3, WorldGrows DEF Holds
  <1>. QED  BY <1>1, <1>2, <1>4, <1>5 DEF Taken

\* The same of a capture that has yet to read the times: what is written now
\* is behind its back.
LEMMA ReadingStays ==
  ASSUME TypeInv, [Next]_vars, expired' = {}, NEW c \in Searchers, pc[c] = "read", Reading(c),
         sess'[c] = sess[c], cap'[c] = cap[c]
  PROVE  Reading(c)'
  <1>1. sess[c] \subseteq Files
    BY DEF TypeInv, TypeOK
  <1>2. sess'[c] \subseteq Attributed'
    BY AttributedGrows DEF Reading
  <1>3. cap'[c] \subseteq Texts(sess[c])'
    <2>1. \A f \in sess[c] : TextOf(f) \subseteq TextOf(f)'
      BY <1>1, WorldGrows
    <2>. QED  BY <2>1 DEF Reading, Texts
  <1>4. ASSUME NEW f \in sess[c] PROVE TextOf(f)' \subseteq cap[c] \cup late'
    <2>1. TextOf(f)' \subseteq TextOf(f) \cup late' /\ late \subseteq late'
      BY <1>1, WorldGrows
    <2>. QED  BY <2>1 DEF Reading, Holds
  <1>. QED  BY <1>2, <1>3, <1>4 DEF Reading, Holds, Texts

LEMMA CapturedStays ==
  ASSUME TypeInv, TypeInv', [Next]_vars, expired' = {}, NEW c \in Searchers,
         pc[c] \in Holding, Captured(c), sess'[c] = sess[c], cap'[c] = cap[c], sig'[c] = sig[c]
  PROVE  Captured(c)'
  <1>1. sess[c] \in SUBSET Files /\ sig[c] \in Signatures
    BY DEF TypeInv, TypeOK
  <1>2. PICK S, C, g : S \in SUBSET Files /\ g \in Signatures /\ S = sess[c] /\ C = cap[c] /\ g = sig[c]
    BY <1>1
  <1>3. Taken(S, C, g)'
    BY <1>2, TakenStays DEF Captured
  <1>4. Taken(sess[c], cap[c], sig[c])'
    BY <1>2, <1>3 DEF Taken
  <1>5. Leq(sig[c], Signature(Attributed)')
    BY <1>1, NowGrows, LeqOrder DEF Captured
  <1>6. Leq(sig[c], Signature(Attributed))'
    BY <1>5 DEF Leq
  <1>. QED  BY <1>4, <1>6 DEF Captured

\* What a search that does not move holds; and where the others go.
LEMMA OthersStay ==
  ASSUME TypeInv, [Next]_vars, NEW c \in Searchers
  PROVE  \/ ReadContent(c) \/ ReadTimes(c)
         \/ pc'[c] = "idle"
         \/ /\ sess'[c] = sess[c] /\ cap'[c] = cap[c] /\ sig'[c] = sig[c]
            /\ \/ pc'[c] = pc[c]
               \/ pc[c] \in Holding /\ pc'[c] \in Holding
  <1>. DEFINE same == sess'[c] = sess[c] /\ cap'[c] = cap[c] /\ sig'[c] = sig[c]
  <1>. USE DEF captureVars, Goto, TypeInv, TypeOK, Holding
  <1>1. ASSUME NEW o \in Searchers, ReadContent(o) \/ ReadTimes(o), o # c PROVE same /\ pc'[c] = pc[c]
    BY <1>1 DEF ReadContent, ReadTimes
  <1>2. ASSUME NEW o \in Searchers, Check(o) \/ Empty(o) \/ Fill(o) \/ Stamp(o)
        PROVE  same /\ (pc'[c] = pc[c] \/ (pc[c] \in Holding /\ pc'[c] \in Holding))
    <2>1. same
      BY <1>2 DEF Check, Empty, Fill, Stamp
    <2>2. pc' = pc \/ \E to \in Holding : pc[o] \in Holding /\ pc' = [pc EXCEPT ![o] = to]
      <3>1. CASE Check(o)
        BY <3>1 DEF Check
      <3>2. CASE Empty(o) \/ Fill(o) \/ Stamp(o)
        BY <3>2 DEF Empty, Fill, Stamp
      <3>. QED  BY <1>2, <3>1, <3>2
    <2>3. pc \in [Searchers -> Stages]
      OBVIOUS
    <2>4. pc'[c] = pc[c] \/ (pc[c] \in Holding /\ pc'[c] \in Holding)
      <3>. HIDE DEF Holding
      <3>1. CASE pc' = pc
        BY <3>1
      <3>2. ASSUME NEW to \in Holding, pc[o] \in Holding, pc' = [pc EXCEPT ![o] = to]
            PROVE  pc'[c] = pc[c] \/ (pc[c] \in Holding /\ pc'[c] \in Holding)
        BY <2>3, <3>2
      <3>. QED  BY <2>2, <3>1, <3>2
    <2>. QED  BY <2>1, <2>4
  <1>3. ASSUME NEW o \in Searchers, Query(o) \/ Fail(o) PROVE pc'[c] = "idle" \/ (same /\ pc'[c] = pc[c])
    BY <1>3 DEF Query, Fail, Forget
  <1>4. ASSUME UNCHANGED <<pc, captureVars>> PROVE same /\ pc'[c] = pc[c]
    BY <1>4
  <1>5. CASE World \/ UNCHANGED vars
    BY <1>4, <1>5 DEF World, Write, Expire, DeleteIndex, vars
  <1>. QED  BY <1>1, <1>2, <1>3, <1>5 DEF Next, Step

LEMMA CaptureStep == TypeInv /\ TypeInv' /\ CaptureOK /\ [Next]_vars => CaptureOK'
  <1>. SUFFICES ASSUME TypeInv, TypeInv', CaptureOK, [Next]_vars, expired' = {}, NEW c \in Searchers
                PROVE  Reading(c)' /\ Captured(c)'
    BY DEF CaptureOK
  <1>0. Reading(c) /\ Captured(c) /\ pc \in [Searchers -> Stages] /\ expired = {}
    BY WorldGrows DEF CaptureOK, TypeInv, TypeOK
  <1>1. CASE ReadContent(c)
    <2>1. PICK S \in Captures : sess'[c] = S /\ cap'[c] = Texts(S)
      BY <1>1 DEF ReadContent, Texts, TypeInv, TypeOK
    <2>2. pc'[c] = "read" /\ UNCHANGED <<lines, mtime, late>>
      BY <1>0, <1>1 DEF ReadContent, Goto, worldVars
    <2>3. S \subseteq Attributed'
      <3>1. S \subseteq Attributed
        BY CapturesAttributed
      <3>. QED  BY <3>1, AttributedGrows
    <2>4. \A f : TextOf(f)' = TextOf(f)
      BY <2>2 DEF TextOf
    <2>5. Texts(S)' = Texts(S)
      BY <2>4 DEF Texts
    <2>6. \A f \in S : TextOf(f) \subseteq Texts(S)
      BY DEF Texts
    <2>7. sess'[c] \subseteq Attributed' /\ cap'[c] \subseteq Texts(sess[c])'
      <3>1. Texts(sess[c])' = UNION {TextOf(f)' : f \in sess'[c]}
        BY DEF Texts
      <3>. QED  BY <2>1, <2>3, <2>4, <3>1 DEF Texts
    <2>8. \A f \in sess'[c] : TextOf(f)' \subseteq cap'[c] \cup late'
      BY <2>1, <2>4, <2>6
    <2>9. Reading(c)'
      BY <2>7, <2>8 DEF Reading, Holds
    <2>. QED  BY <2>2, <2>9 DEF Captured, Holding
  <1>2. CASE ReadTimes(c)
    <2>1. pc[c] = "read" /\ pc'[c] = "captured"
      BY <1>0, <1>2 DEF ReadTimes, Goto
    <2>2. /\ sig'[c] = Signature(sess[c]) /\ sess' = sess /\ cap' = cap
          /\ UNCHANGED <<lines, mtime, clock, late>>
      BY <1>2 DEF ReadTimes, worldVars, TypeInv, TypeOK
    <2>3. sess[c] \in SUBSET Files /\ mtime \in Times
      BY DEF TypeInv, TypeOK
    <2>4. /\ sess[c] \subseteq Attributed /\ cap[c] \subseteq Texts(sess[c])
          /\ \A f \in sess[c] : Holds(f, cap[c])
      BY <1>0, <2>1 DEF Reading
    <2>5. Signature(sess[c])[1] = Cardinality(sess[c])
      BY DEF Signature
    <2>6. Signature(sess[c])[2] <= clock
      <3>. DEFINE g == SigOf(sess[c], mtime)
      <3>1. Signature(sess[c]) = g
        BY <2>3, SignatureIs
      <3>2. /\ sess[c] # {} => \E f \in sess[c] : g[2] = mtime[f]
            /\ sess[c] = {} => g[2] = 0
        BY <2>3, SignatureFacts
      <3>3. clock \in Nat /\ \A f \in Files : mtime[f] <= clock
        BY DEF TypeInv, TypeOK
      <3>. HIDE DEF g
      <3>. QED  BY <2>3, <3>1, <3>2, <3>3
    <2>7. Taken(sess[c], cap[c], Signature(sess[c]))
      BY <2>4, <2>5, <2>6 DEF Taken
    <2>8. Leq(Signature(sess[c]), Signature(Attributed))
      <3>1. Attributed \in SUBSET Files /\ sess[c] \in SUBSET Attributed
        BY <2>4 DEF Attributed
      <3>2. \A f \in Files : mtime[f] <= mtime[f]
        BY <2>3, BoundAssumption DEF Times
      <3>. QED  BY <2>3, <3>1, <3>2, SignaturesGrow, SignatureIs
    <2>9. Captured(c)'
      <3>1. /\ Attributed' = Attributed /\ \A f \in Files : TextOf(f)' = TextOf(f)
            /\ mtime' = mtime /\ clock' = clock /\ late' = late
        <4>1. \A f : TextOf(f)' = TextOf(f) /\ HasMeta(f)' = HasMeta(f) /\ HasCwd(f)' = HasCwd(f)
          BY <2>2 DEF TextOf, HasMeta, HasCwd
        <4>2. \A f : MayBeHere(f)' = MayBeHere(f)
          BY <4>1 DEF MayBeHere, Shares
        <4>3. Attributed' = Attributed
          BY <4>1, <4>2 DEF Attributed
        <4>. QED  BY <2>2, <4>1, <4>3
      <3>2. Signature(Attributed)' = Signature(Attributed)
        BY <3>1 DEF Signature
      <3>3. Taken(sess[c], cap[c], sig[c])'
        <4>1. /\ Texts(sess[c])' = Texts(sess[c])
              /\ \A f \in sess[c] : TextOf(f)' = TextOf(f)
          BY <2>2, <2>3, <3>1 DEF Texts
        <4>2. sess'[c] = sess[c] /\ cap'[c] = cap[c] /\ sig'[c] = Signature(sess[c])
          BY <2>2
        <4>3. sess'[c] \subseteq Attributed' /\ cap'[c] \subseteq Texts(sess[c])'
          BY <2>7, <3>1, <4>1, <4>2 DEF Taken
        <4>4. sig'[c][1] = Cardinality(sess'[c]) /\ sig'[c][2] <= clock'
          BY <2>7, <3>1, <4>2 DEF Taken
        <4>5. \A f \in sess'[c] : mtime'[f] <= sig'[c][2] => TextOf(f)' \subseteq cap'[c] \cup late'
          BY <2>4, <3>1, <4>1, <4>2 DEF Holds
        <4>. QED  BY <4>3, <4>4, <4>5 DEF Taken, Holds
      <3>. QED  BY <2>2, <2>8, <3>2, <3>3 DEF Captured, Leq
    <2>. QED  BY <2>1, <2>9 DEF Reading
  <1>3. CASE pc'[c] = "idle"
    BY <1>3 DEF Reading, Captured, Holding
  <1>4. CASE /\ sess'[c] = sess[c] /\ cap'[c] = cap[c] /\ sig'[c] = sig[c]
             /\ pc'[c] = pc[c] \/ (pc[c] \in Holding /\ pc'[c] \in Holding)
    <2>1. Reading(c)'
      BY <1>0, <1>4, ReadingStays DEF Reading, Holding
    <2>2. Captured(c)'
      BY <1>0, <1>4, CapturedStays DEF Captured, Holding
    <2>. QED  BY <2>1, <2>2
  <1>. QED  BY <1>1, <1>2, <1>3, <1>4, OthersStay

LEMMA SinceStep ==
  ASSUME TypeInv, TypeInv', [Next]_vars, expired' = {}, ~Ambiguous, StampOK,
         NEW c \in Searchers, Since(c)
  PROVE  Since(c)'
  <1>. SUFFICES ASSUME stamp' # None, c \notin behind'
                PROVE  /\ pc'[c] = "read" => Leq(stamp', Signature(sess[c])')
                       /\ pc'[c] \in {"captured", "stale", "fill"} => Leq(stamp', sig'[c])
                       /\ pc'[c] \in {"stale", "fill"} => stamp' # sig'[c]
    BY DEF Since, Leq
  <1>0. /\ pc \in [Searchers -> Stages] /\ sess[c] \in SUBSET Files
        /\ stamp # None => stamp \in Signatures
    BY DEF TypeInv, TypeOK
  <1>. USE DEF captureVars, indexVars, worldVars, Goto
  <1>1. CASE ReadContent(c)
    <2>1. PICK S \in Captures : sess'[c] = S
      BY <1>1 DEF ReadContent, TypeInv, TypeOK
    <2>2. S = Attributed /\ pc'[c] = "read" /\ mtime' = mtime /\ stamp' = stamp
      BY <1>0, <1>1, CapturesAttributed DEF ReadContent
    <2>3. Signature(sess[c])' = Signature(Attributed)
      BY <2>1, <2>2 DEF Signature
    <2>. QED  BY <2>2, <2>3 DEF StampOK
  <1>2. CASE ReadTimes(c)
    BY <1>0, <1>2 DEF ReadTimes, Since, TypeInv, TypeOK
  <1>3. CASE Check(c)
    BY <1>0, <1>3 DEF Check, Since
  <1>4. CASE Empty(c) \/ Fill(c)
    BY <1>0, <1>4 DEF Empty, Fill, Since
  <1>5. CASE Stamp(c) \/ Query(c) \/ Fail(c)
    BY <1>0, <1>5 DEF Stamp, Query, Fail
  <1>6. ASSUME NEW o \in Searchers, o # c, Stamp(o)
        PROVE  pc'[c] = "idle"
    BY <1>0, <1>6 DEF Stamp
  <1>7. CASE DeleteIndex
    BY <1>7 DEF DeleteIndex
  <1>8. CASE /\ pc'[c] = pc[c] /\ sess'[c] = sess[c] /\ sig'[c] = sig[c]
             /\ stamp' = stamp /\ (c \in behind => c \in behind')
    <2>1. PICK S \in SUBSET Files : S = sess[c]
      BY <1>0
    <2>2. Leq(Signature(S), Signature(S)') /\ Signature(S) \in Signatures /\ Signature(S)' \in Signatures
      BY SignatureGrows
    <2>3. Signature(sess[c])' = Signature(S)'
      BY <1>8, <2>1 DEF Signature
    <2>. QED  BY <1>0, <1>8, <2>1, <2>2, <2>3, LeqOrder DEF Since
  <1>9. ASSUME NEW o \in Searchers, o # c, Step(o) \/ Fail(o), ~Stamp(o)
        PROVE  /\ pc'[c] = pc[c] /\ sess'[c] = sess[c] /\ sig'[c] = sig[c]
               /\ stamp' = stamp /\ (c \in behind => c \in behind')
    BY <1>0, <1>9 DEF Step, ReadContent, ReadTimes, Check, Empty, Fill, Query, Fail, Forget, TypeInv, TypeOK
  <1>10. ASSUME NEW f \in Files, Expire(f) \/ \E k \in Kinds : Write(f, k)
         PROVE  UNCHANGED <<pc, sess, sig, stamp, behind>>
    BY <1>10 DEF Expire, Write
  <1>11. CASE UNCHANGED vars
    BY <1>8, <1>11 DEF vars
  <1>. QED
    BY <1>1, <1>2, <1>3, <1>4, <1>5, <1>6, <1>7, <1>8, <1>9, <1>10, <1>11 DEF Next, World, Step

\* A rebuild that is under way, or was cut short, left a stamp that is behind.
LEMMA StampStep ==
  ASSUME TypeInv, TypeInv', [Next]_vars, expired' = {}, AloneOK, CaptureOK, StampOK,
         \A o \in Searchers : Since(o)
  PROVE  StampOK'
  <1>0. /\ expired = {} /\ pc \in [Searchers -> Stages] /\ overlapped \in BOOLEAN
        /\ stamp # None => stamp \in Signatures
        /\ \A o \in Searchers : sess[o] \in SUBSET Files /\ cap[o] \in SUBSET Messages /\ sig[o] \in Signatures
    BY WorldGrows DEF TypeInv, TypeOK
  <1>1. ASSUME stamp' = stamp, stamp # None PROVE Leq(stamp, Signature(Attributed)')
    BY <1>0, <1>1, NowGrows, LeqOrder DEF StampOK
  <1>2. ASSUME stamp' = stamp, stamp # None, stamp # Signature(Attributed)
        PROVE  stamp # Signature(Attributed)'
    BY <1>0, <1>2, NowGrows, LeqOrder DEF StampOK
  <1>3. ASSUME stamp' = stamp, rows' = rows, overlapped' = overlapped PROVE StampOK'
    <2>. SUFFICES ASSUME stamp # None PROVE StampOK'
      BY <1>3 DEF StampOK
    <2>1. ASSUME NEW S \in SUBSET Files, NEW C \in SUBSET Messages, Taken(S, C, stamp), rows = Count(C)
          PROVE  Taken(S, C, stamp)' /\ rows' = Count(C)
      <3>1. PICK g : g = stamp
        OBVIOUS
      <3>2. Taken(S, C, g)'
        BY <1>0, <2>1, <3>1, TakenStays
      <3>. QED  BY <1>3, <2>1, <3>1, <3>2 DEF Taken
    <2>2. Leq(stamp', Signature(Attributed)')
      BY <1>1, <1>3
    <2>3. CASE overlapped \/ stamp # Signature(Attributed)
      BY <1>2, <1>3, <2>2, <2>3 DEF StampOK, Leq
    <2>4. CASE \E S \in SUBSET Files : \E C \in SUBSET Messages : Taken(S, C, stamp) /\ rows = Count(C)
      <3>1. PICK S \in SUBSET Files, C \in SUBSET Messages : Taken(S, C, stamp) /\ rows = Count(C)
        BY <2>4
      <3>2. Taken(S, C, stamp)' /\ rows' = Count(C)
        BY <2>1, <3>1
      <3>. QED  BY <2>2, <3>2 DEF StampOK, Leq, Count
    <2>. QED  BY <2>3, <2>4 DEF StampOK
  <1>4. ASSUME NEW o \in Searchers, Empty(o) \/ Fill(o) PROVE StampOK'
    <2>1. stamp' = stamp /\ pc[o] \in {"stale", "fill"}
      BY <1>4 DEF Empty, Fill, Goto
    <2>2. ~overlapped' => o \notin behind
      BY <1>4 DEF Empty, Fill
    <2>3. Leq(sig[o], Signature(Attributed))
      BY <1>0, <2>1 DEF CaptureOK, Captured, Holding
    <2>4. ASSUME stamp # None, o \notin behind PROVE stamp # Signature(Attributed)
      <3>1. Leq(stamp, sig[o]) /\ stamp # sig[o]
        BY <2>1, <2>4 DEF Since
      <3>. QED  BY <1>0, <2>3, <2>4, <3>1, LeqOrder
    <2>. QED  BY <1>1, <1>2, <2>1, <2>2, <2>4 DEF StampOK, Leq
  <1>5. ASSUME NEW o \in Searchers, Stamp(o) PROVE StampOK'
    <2>1. /\ pc[o] = "fill" /\ todo[o] = {} /\ stamp' = sig[o]
          /\ rows' = rows /\ (overlapped' \/ alone[o])
      BY <1>5 DEF Stamp, Goto
    <2>2. UNCHANGED <<lines, mtime, clock, late>>
      BY <1>5 DEF Stamp, worldVars
    <2>3. Taken(sess[o], cap[o], sig[o]) /\ Leq(sig[o], Signature(Attributed))
      BY <1>0, <2>1 DEF CaptureOK, Captured, Holding
    <2>4. Leq(sig[o], Signature(Attributed)')
      BY <1>0, <2>3, NowGrows, LeqOrder
    <2>5. alone[o] => rows = Count(cap[o])
      <3>1. cap[o] \ todo[o] = cap[o]
        BY <2>1
      <3>. QED  BY <2>1, <3>1 DEF AloneOK
    <2>6. PICK S, C, g : S = sess[o] /\ C = cap[o] /\ g = sig[o]
      OBVIOUS
    <2>7. S \in SUBSET Files /\ C \in SUBSET Messages /\ Taken(S, C, g)'
      BY <1>0, <2>3, <2>6, TakenStays
    <2>8. Taken(S, C, stamp)'
      BY <2>1, <2>6, <2>7 DEF Taken
    <2>9. alone[o] => rows' = Count(C)
      BY <2>1, <2>5, <2>6
    <2>. QED  BY <2>1, <2>4, <2>7, <2>8, <2>9 DEF StampOK, Leq, Count
  <1>6. CASE DeleteIndex
    BY <1>6 DEF DeleteIndex, StampOK
  <1>7. ASSUME NEW o \in Searchers, ReadContent(o) \/ ReadTimes(o) \/ Check(o) \/ Query(o) \/ Fail(o)
        PROVE  UNCHANGED <<stamp, rows, overlapped>>
    BY <1>7 DEF ReadContent, ReadTimes, Check, Query, Fail, indexVars
  <1>8. ASSUME NEW f \in Files, Expire(f) \/ \E k \in Kinds : Write(f, k)
        PROVE  UNCHANGED <<stamp, rows, overlapped>>
    BY <1>8 DEF Expire, Write, indexVars
  <1>. QED
    BY <1>3, <1>4, <1>5, <1>6, <1>7, <1>8 DEF Next, World, Step, vars

LEMMA WholeInitial == Init => WholeInv
  <1>. SUFFICES ASSUME Init PROVE WholeInv
    OBVIOUS
  <1>1. CaptureOK /\ StampOK /\ \A o \in Searchers : Since(o)
    BY DEF Init, CaptureOK, Reading, Captured, Holding, StampOK, Since
  <1>. QED  BY <1>1 DEF WholeInv

LEMMA WholeInduction == Spec => []WholeInv
  <1>1. /\ TypeInv /\ TypeInv' /\ SearchInv /\ WholeInv /\ [Next]_vars
        => WholeInv'
    <2>. SUFFICES ASSUME TypeInv, TypeInv', SearchInv, WholeInv, [Next]_vars PROVE WholeInv'
      OBVIOUS
    <2>1. CaptureOK'
      BY CaptureStep DEF WholeInv
    <2>2. ASSUME expired' = {}, ~Ambiguous' PROVE StampOK' /\ \A o \in Searchers : Since(o)'
      <3>1. expired = {} /\ ~Ambiguous
        BY <2>2, WorldGrows, AttributedGrows
      <3>. QED  BY <2>2, <3>1, SinceStep, StampStep DEF WholeInv, SearchInv
    <2>. QED  BY <2>1, <2>2 DEF WholeInv
  <1>. QED  BY <1>1, WholeInitial, TypeInduction, SearchInduction, PTL DEF Spec

(* "Disposable contract": an index that nobody will rebuild, its stamp being  *)
(* the signature of what a capture would find, holds each message there is    *)
(* once and nothing else, however many searches ran at once and were cut      *)
(* short (ensure_index); but for what was written behind the back of a        *)
(* capture, and while no two rebuilds overlapped, no transcript was removed   *)
(* and no directory is shared.                                                *)
THEOREM UpToDateIndexIsWhole == McpSpec => []UpToDateIsWhole
  <1>1. TypeInv /\ WholeInv => UpToDateIsWhole
    <2>. SUFFICES ASSUME TypeInv, WholeInv, stamp # None, ~overlapped, expired = {},
                         Cardinality(Captures) = 1, NEW S \in Captures, stamp = Signature(S),
                         NEW m \in Messages, m \notin late
                  PROVE  rows[m] = Count(Texts(S))[m]
      BY DEF UpToDateIsWhole, Texts
    <2>1. S = Attributed /\ S \in SUBSET Files
      BY OneCapture, CapturesAttributed DEF Attributed
    <2>2. PICK T \in SUBSET Files, C \in SUBSET Messages : Taken(T, C, stamp) /\ rows = Count(C)
      BY <2>1, OneCapture DEF WholeInv, StampOK
    <2>3. T = S
      <3>1. T \in SUBSET S /\ Cardinality(T) = Cardinality(S) /\ IsFiniteSet(S)
        BY <2>1, <2>2, NamesAssumption, FS_Subset DEF Taken, Signature
      <3>. QED  BY <3>1, FS_Subset
    <2>4. \A f \in S : mtime[f] <= stamp[2]
      BY <2>1, SignatureIs, SignatureFacts DEF TypeInv
    <2>5. m \in Texts(S) <=> m \in C
      BY <2>2, <2>3, <2>4 DEF Taken, Holds, Texts
    <2>. QED  BY <2>2, <2>5 DEF Count
  <1>. QED  BY <1>1, TypeInduction, WholeInduction, ServerSearches, PTL
=============================================================================
