------------------------------- MODULE Distill -------------------------------
(***************************************************************************)
(* One distill, from the privacy notice to the last answer of the model:   *)
(* which provider the configuration names, the calls of the shallow and of *)
(* the deep pipeline, each call's retries, and the ceiling the daemon's    *)
(* worker puts on a job; and a second opinion, which sends the same digest *)
(* in one call and gives no notice.  The configuration is read again       *)
(* wherever the code reads it, and the user may save another one, or a     *)
(* broken one, at any moment.                                              *)
(*                                                                         *)
(* Of the project's history only the number of conversations counts here;  *)
(* what the digest shows of them, and loses, is left out.                  *)
(***************************************************************************)
EXTENDS Integers

CONSTANTS
  Providers,    \* names a model string may begin with
  DefaultName,  \* the one of the built-in default model
  Configs,      \* what config.toml may say, over the built-in catalogue
  Builtin,      \* the catalogue alone
  Broken,       \* a config.toml that is missing, unreadable or not valid
  None,
  Depths,       \* values of --depth
  Histories,    \* how many conversations a project may have
  LastK,        \* conversations the deep pipeline leaves to the digest
  MapCap,       \* older conversations the deep pipeline compresses at most
  Attempts,     \* tries of one call
  Durations,    \* how long a try may take
  Timeout,      \* the longest of them
  BackoffBase, MaxWait,
  Ceiling,      \* how long a job of the worker may take
  MinFails      \* what CutMeansTrouble claims

Files  == Configs \cup {Builtin}
Bases  == {"local", "remote", "unusable"}   \* unusable: not configured, or its key is not set
Config == [model : Providers \cup {None}, base : [Providers -> Bases],
           consent : BOOLEAN, deep : BOOLEAN]
Kinds   == {"cli", "worker", "opinion"}
Options == [model : Providers \cup {None}, depth : Depths \cup {None}]

ASSUME ConfigAssumption == /\ Files \subseteq Config /\ Broken \notin Config
                           /\ DefaultName \in Providers /\ None \notin Providers
                           /\ None \notin Depths
ASSUME HistoryAssumption == Histories \subseteq Nat
ASSUME SizeAssumption == LastK \in Nat /\ MapCap \in Nat /\ Attempts \in Nat \ {0}
ASSUME TimeAssumption == /\ Timeout \in Nat /\ Durations \subseteq 0 .. Timeout
                         /\ Ceiling \in Nat /\ MaxWait \in Nat /\ BackoffBase \in Nat

VARIABLES
  config,     \* config.toml
  pc, kind,   \* kind: briefing and refresh ("cli"), the worker, a second opinion
  asked,      \* the options of the command or of the daemon
  chosen,     \* the provider the notice is about
  told,       \* the notice has been printed
  target,     \* where the provider that was resolved is
  depth, history,
  call, attempt,
  elapsed,    \* of the worker's ceiling
  fails,      \* history variable: tries of this job that gave no answer
  edited      \* history variable: config.toml was saved since the command began

plan    == <<asked, chosen, told, target>>
content == <<depth, history>>
clocks  == <<call, attempt, elapsed, fails>>
vars    == <<config, pc, kind, plan, content, clocks, edited>>

-----------------------------------------------------------------------------
(* The configuration.                                                      *)

\* A file that does not parse counts for nothing, without a word.
Load == IF config = Broken THEN Builtin ELSE config

\* --model or OMNIPROJ_MODEL, else default_model, else the built-in model.
Choice(cfg, option) == IF option # None THEN option
                       ELSE IF cfg.model # None THEN cfg.model ELSE DefaultName

\* A bug: the notice forgets the options of the command.
ChoiceUnasked(cfg, option) == IF cfg.model # None THEN cfg.model ELSE DefaultName
NoticeChoice(cfg, option)  == Choice(cfg, option)

\* A --depth that is no depth means shallow.
DepthOf(cfg, option) == IF option # None
                        THEN IF option = "deep" THEN "deep" ELSE "shallow"
                        ELSE IF cfg.deep THEN "deep" ELSE "shallow"

-----------------------------------------------------------------------------
(* The calls a job makes, for n conversations.                             *)

Older(n) == IF n > LastK THEN n - LastK ELSE 0

\* A bug: every older conversation is compressed.
MapsUncapped(n) == Older(n)
Maps(n) == IF Older(n) < MapCap THEN Older(n) ELSE MapCap

\* deep: compress each, extract, draft, critic.
Calls(n, d) == IF d = "deep" THEN Maps(n) + 3 ELSE 1

-----------------------------------------------------------------------------
(* The command.                                                            *)

Job(k, to) == /\ pc' = to /\ kind' = k
              /\ chosen' = None /\ target' = "unusable"
              /\ depth' = "shallow"
              /\ call' = 0 /\ attempt' = 0 /\ elapsed' = 0 /\ fails' = 0

\* Only briefing and refresh give the notice: opinion, which sends the digest
\* too, resolves at once, from the command line and from the dashboard.
Begin(k, o, n) == /\ pc = "idle"
                  /\ k = "opinion" => o.depth = None
                  /\ Job(k, IF k = "cli" THEN "consent" ELSE "resolve")
                  /\ asked' = o /\ history' = n
                  /\ told' = FALSE /\ edited' = FALSE
                  /\ UNCHANGED config

\* notify_send_consent: silent for who has consented ...
Consent == /\ pc = "consent"
           /\ IF Load.consent
              THEN pc' = "resolve" /\ UNCHANGED chosen
              ELSE pc' = "locality" /\ chosen' = NoticeChoice(Load, asked.model)
           /\ UNCHANGED <<config, kind, asked, told, target, content, clocks, edited>>

\* ... and for a provider that is_local_provider, which loads the file again.
Locality == /\ pc = "locality"
            /\ told' = (Load.base[chosen] # "local")
            /\ pc' = "resolve"
            /\ UNCHANGED <<config, kind, asked, chosen, target, content, clocks, edited>>

Resolve == /\ pc = "resolve"
           /\ LET base == Load.base[Choice(Load, asked.model)]
              IN IF base = "unusable"
                 THEN pc' = "failed" /\ UNCHANGED target
                 ELSE pc' = "render" /\ target' = base
           /\ UNCHANGED <<config, kind, asked, chosen, told, content, clocks, edited>>

Render == /\ pc = "render"
          /\ depth' = IF kind = "opinion" THEN "shallow" ELSE DepthOf(Load, asked.depth)
          /\ pc' = "call" /\ call' = 1 /\ attempt' = 1
          /\ UNCHANGED <<config, kind, plan, history, elapsed, fails, edited>>

-----------------------------------------------------------------------------
(* The calls.                                                              *)

Replies == {"transport", "not json", "429", "5xx", "4xx", "empty", "incomplete", "text"}

\* try_complete: what a retry may cure.  A text is a text, cut short or not.
Retryable(r) == r \in {"transport", "not json", "429", "5xx"}

Wait(n) == BackoffBase * 4 ^ (n - 1)

\* Every call answered, and one try less failed than MinFails, each with the
\* longest wait after it: the ceiling holds that, and any single call.
ASSUME WaitAssumption == \A n \in 1 .. Attempts - 1 : Wait(n) \in 0 .. MaxWait
ASSUME CeilingAssumption ==
    /\ MinFails \in Nat \ {0}
    /\ (MapCap + 2 + MinFails) * Timeout + (MinFails - 1) * MaxWait < Ceiling
    /\ Attempts * Timeout + (Attempts - 1) * MaxWait < Ceiling

\* The worker's clock is the only one that matters.
Tick(d)     == elapsed' = IF kind = "worker" THEN elapsed + d ELSE elapsed
InTime(d)   == kind = "worker" => elapsed + d <= Ceiling
\* A bug: one call too many.
NextCallOff == IF call <= Calls(history, depth)
               THEN pc' = "call" /\ call' = call + 1 /\ attempt' = 1
               ELSE pc' = "done" /\ UNCHANGED <<call, attempt>>
NextCall    == IF call < Calls(history, depth)
               THEN pc' = "call" /\ call' = call + 1 /\ attempt' = 1
               ELSE pc' = "done" /\ UNCHANGED <<call, attempt>>

Answer(d) == /\ pc = "call" /\ InTime(d) /\ Tick(d)
             /\ NextCall
             /\ UNCHANGED <<config, kind, plan, content, fails, edited>>

\* with_retry: sleeps, and tries again.
TryAgain(d, r) == /\ pc = "call" /\ InTime(d)
                  /\ Retryable(r) /\ attempt < Attempts
                  /\ attempt' = attempt + 1 /\ fails' = fails + 1
                  /\ Tick(d + Wait(attempt))
                  /\ UNCHANGED <<config, pc, kind, plan, content, call, edited>>

\* The last try, or an error no retry cures.  The compression of one
\* conversation may fail; any other call takes the job with it.
GiveUp(d, r) == /\ pc = "call" /\ InTime(d) /\ Tick(d)
                /\ r # "text" /\ (Retryable(r) => attempt = Attempts)
                /\ fails' = fails + 1
                /\ IF depth = "deep" /\ call <= Maps(history)
                   THEN NextCall
                   ELSE pc' = "failed" /\ UNCHANGED <<call, attempt>>
                /\ UNCHANGED <<config, kind, plan, content, edited>>

\* tokio::time::timeout drops the job at its next await: in a try or a sleep.
Cut(d) == /\ pc = "call" /\ kind = "worker"
          /\ elapsed + d >= Ceiling
          /\ pc' = "cut"
          /\ UNCHANGED <<config, kind, plan, content, clocks, edited>>

Ended == pc \in {"done", "failed", "cut"}

\* refresh --all goes on to the next project, under the notice it has given.
NextProject(n) == /\ Ended /\ kind = "cli"
                  /\ Job(kind, "resolve")
                  /\ history' = n
                  /\ UNCHANGED <<config, asked, told, edited>>

End == /\ Ended
       /\ Job(kind, "idle")
       /\ asked' = [model |-> None, depth |-> None] /\ history' = 0
       /\ told' = FALSE /\ edited' = FALSE
       /\ UNCHANGED config

\* The user saves config.toml.
EditConfig(f) == /\ config' = f
                 /\ edited' = (pc # "idle")
                 /\ UNCHANGED <<pc, kind, plan, content, clocks>>

-----------------------------------------------------------------------------
Init == /\ config \in Files \cup {Broken}
        /\ pc = "idle" /\ kind = "cli"
        /\ asked = [model |-> None, depth |-> None]
        /\ chosen = None /\ told = FALSE /\ target = "unusable"
        /\ depth = "shallow" /\ history = 0
        /\ call = 0 /\ attempt = 0 /\ elapsed = 0 /\ fails = 0
        /\ edited = FALSE

Try  == \E d \in Durations : \/ Answer(d) \/ Cut(d)
                             \/ \E r \in Replies : TryAgain(d, r) \/ GiveUp(d, r)
\* A bug: no try has a timeout, and the provider hangs.
StepHung == Consent \/ Locality \/ Resolve \/ Render \/ \E d \in Durations : Cut(d)
Step == Consent \/ Locality \/ Resolve \/ Render \/ Try

Next == \/ \E k \in Kinds, o \in Options, n \in Histories : Begin(k, o, n)
        \/ Step \/ End
        \/ \E n \in Histories : NextProject(n)
        \/ \E f \in Files \cup {Broken} : EditConfig(f)

Spec     == Init /\ [][Next]_vars
\* tokio polls what is ready, and every try has its timeout.
FairSpec == Spec /\ WF_vars(Step)

-----------------------------------------------------------------------------
TypeOK == /\ config \in Files \cup {Broken}
          /\ pc \in {"idle", "consent", "locality", "resolve", "render", "call",
                     "done", "failed", "cut"}
          /\ kind \in Kinds
          /\ asked \in Options
          /\ chosen \in Providers \cup {None} /\ told \in BOOLEAN /\ target \in Bases
          /\ depth \in {"shallow", "deep"}
          /\ history \in Histories \cup {0}
          /\ call \in Nat /\ call <= Calls(history, depth)
          /\ attempt \in 0 .. Attempts
          /\ elapsed \in Nat /\ fails \in Nat
          /\ edited \in BOOLEAN

\* The ceiling never takes a job the provider served: what it cuts is a deep
\* distill in which at least MinFails tries had already failed (daemon.rs,
\* deep.rs, provider.rs).
CutMeansTrouble == pc = "cut" => depth = "deep" /\ fails >= MinFails

\* The notice of briefing and refresh is about the provider the digest then
\* goes to: it is printed exactly for who sends off this machine and has not
\* set send_consent (notify_send_consent and resolve work the provider out
\* apart).  A save of config.toml in between may part the two; opinion and the
\* daemon, which send the same digest, give no notice; and none of them asks.
NoticeIsExact == pc = "call" /\ kind = "cli" /\ ~edited
                    => (told <=> target = "remote" /\ ~Load.consent)

\* A distill ends, whatever the provider does (REQUEST_TIMEOUT, ATTEMPTS).
EveryJobEnds == pc \in {"consent", "locality", "resolve", "render", "call"} ~> Ended

=============================================================================
