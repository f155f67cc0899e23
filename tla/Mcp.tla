--------------------------------- MODULE Mcp ---------------------------------
(***************************************************************************)
(* `omniproj mcp`: a server that reads requests line by line from stdin,   *)
(* handles them one after the other and answers on stdout, as a client of  *)
(* the index (module Search) among others.  The dashboard is another: its  *)
(* searches are those of a registered project.                             *)
(*                                                                         *)
(* The state files of the project are only there or not; what the answers  *)
(* say, but for the protocol version, is left out.                         *)
(***************************************************************************)
EXTENDS Search

CONSTANTS
  Server,      \* the process that serves
  Dashboards,  \* the processes that search for the dashboard
  Ids, NoId,   \* request ids; NoId: a notification
  Requests,    \* what a client may send; see Forms
  Known, Newest, Fallback,   \* protocol versions
  MaxRequests, \* bound: requests a client sends
  MaxChanges   \* bound: changes of the project's registration and files

ASSUME MaxAssumption == MaxRequests \in Nat /\ MaxChanges \in Nat
ASSUME ServerAssumption == Server \in Searchers /\ Dashboards \subseteq Searchers \ {Server}

Resources == {"briefing", "decisions", "open", "opinion", "learned"}
Methods   == {"initialize", "ping", "tools/list", "project_recall", "project_search",
              "unknown tool", "resources/list", "resources/read"}

\* arg: the protocol version, the query ("" is none) or the kind of a resource.
Forms == [id : Ids \cup {NoId}, method : Methods \cup {"other", "not JSON", "not UTF-8"},
          arg : {Known, Newest, "", "query"} \cup Resources]

ASSUME RequestAssumption == Requests \subseteq Forms /\ NoId \notin Ids /\ None \notin Requests

VARIABLES
  stdin,      \* requests that were sent and not yet read
  stdout,     \* the answers
  serving,    \* the server runs
  cur,        \* the request whose search is under way, or None
  registered, \* the server's directory belongs to a registered project
  present,    \* the resources whose file is there and not empty
  sent, changes

mcpVars == <<stdin, stdout, serving, cur, registered, present, sent, changes>>
allVars == <<vars, mcpVars>>

Outcomes == {"result", "isError", "-32601", "-32602", "-32603", "-32700"}
Answers  == [id : Ids \cup {NoId}, is : Outcomes \cup {Known, Fallback}]

McpTypeOK == /\ TypeOK
             /\ stdin \in Seq(Requests) /\ stdout \in Seq(Answers)
             /\ serving \in BOOLEAN /\ registered \in BOOLEAN
             /\ cur \in Requests \cup {None}
             /\ present \in SUBSET Resources
             /\ sent \in 0 .. MaxRequests /\ changes \in 0 .. MaxChanges

McpInit == /\ Init
           /\ stdin = <<>> /\ stdout = <<>>
           /\ serving = TRUE /\ cur = None
           /\ registered = FALSE /\ present = {}
           /\ sent = 0 /\ changes = 0

-----------------------------------------------------------------------------
(* What the server answers                                                 *)

\* Mutant: any version is echoed.
EchoVersion(v) == v

\* handle_initialize: a version it knows is echoed.
Version(v) == IF v = Known THEN Known ELSE Fallback

\* dispatch, handle_tools_call, handle_resources_read; of a search with a query,
\* if the working directory has gone.
Outcome(r) ==
  CASE r.method = "initialize" -> Version(r.arg)
    [] r.method \in {"ping", "tools/list", "resources/list"} -> "result"
    [] r.method = "project_recall" -> IF registered THEN "result" ELSE "isError"
    [] r.method = "project_search" -> IF r.arg = "" THEN "-32602" ELSE "-32603"
    [] r.method = "unknown tool" -> "-32602"
    [] r.method = "resources/read" ->
         IF r.arg \in present /\ registered THEN "result" ELSE "-32602"
    [] r.method = "not JSON" -> "-32700"
    [] OTHER -> "-32601"

\* handle_line: a message without an id is a notification and is not looked at
\* further; a line that is not JSON is answered all the same.
Answerable(r) == \/ r.method = "not JSON"
                 \/ r.method # "not UTF-8" /\ r.id # NoId

Answer(r, is) == Append(stdout, [id |-> IF r.method = "not JSON" THEN NoId ELSE r.id, is |-> is])
Searching(r)  == r.method = "project_search" /\ r.arg # ""

-----------------------------------------------------------------------------

Send(r) == /\ serving /\ sent < MaxRequests /\ sent' = sent + 1
           /\ stdin' = Append(stdin, r)
           /\ UNCHANGED <<vars, stdout, serving, cur, registered, present, changes>>

Take == /\ serving /\ cur = None /\ stdin # <<>>
        /\ stdin' = Tail(stdin)
        /\ UNCHANGED <<vars, registered, present, sent, changes>>

\* serve and handle_line
Skip == /\ Take
        /\ ~Answerable(Head(stdin)) /\ Head(stdin).method # "not UTF-8"
        /\ UNCHANGED <<stdout, serving, cur>>

Reply == /\ Take
         /\ Answerable(Head(stdin))
         /\ stdout' = Answer(Head(stdin), Outcome(Head(stdin)))
         /\ UNCHANGED <<serving, cur>>

BeginSearch == /\ Take
               /\ Answerable(Head(stdin)) /\ Searching(Head(stdin))
               /\ cur' = Head(stdin)
               /\ UNCHANGED <<stdout, serving>>

\* next_line fails on bytes that are not UTF-8, and so does serve.
EndOnBytes == /\ Take
              /\ Head(stdin).method = "not UTF-8"
              /\ serving' = FALSE
              /\ UNCHANGED <<stdout, cur>>

\* The client has gone.
EndOnEof == /\ serving /\ cur = None /\ stdin = <<>> /\ sent = MaxRequests
            /\ serving' = FALSE
            /\ UNCHANGED <<vars, stdin, stdout, cur, registered, present, sent, changes>>

\* handle_tools_call waits for search_project.
SearchStep == /\ cur # None
              /\ Step(Server)
              /\ IF pc'[Server] = "idle"
                 THEN cur' = None /\ stdout' = Answer(cur, "result")
                 ELSE UNCHANGED <<cur, stdout>>
              /\ UNCHANGED <<stdin, serving, registered, present, sent, changes>>

\* "search failed: ..." is an answer too; or the server dies.
SearchFails == /\ cur # None
               /\ Fail(Server)
               /\ cur' = None
               /\ \/ stdout' = Answer(cur, "isError") /\ serving' = serving
                  \/ stdout' = stdout /\ serving' = FALSE
               /\ UNCHANGED <<stdin, registered, present, sent, changes>>

\* cmd_search, and project_search of the dashboard, which answers 404 for a
\* project that is not registered.
Others == /\ \E o \in Searchers \ {Server} :
               /\ (o \in Dashboards /\ pc[o] = "idle") => registered
               /\ Step(o) \/ Fail(o)
          /\ UNCHANGED mcpVars

\* Other commands add and remove the project and write its files.
Change == /\ changes < MaxChanges /\ changes' = changes + 1
          /\ \/ registered' = ~registered /\ present' = IF registered THEN {} ELSE present
             \/ registered /\ registered' = registered
                /\ \E k \in Resources \ present : present' = present \cup {k}
          /\ UNCHANGED <<vars, stdin, stdout, serving, cur, sent>>

McpNext == \/ \E r \in Requests : Send(r)
           \/ Skip \/ Reply \/ BeginSearch \/ EndOnBytes \/ EndOnEof
           \/ SearchStep \/ SearchFails \/ Others
           \/ World /\ UNCHANGED mcpVars
           \/ Change

McpSpec == McpInit /\ [][McpNext]_allVars

=============================================================================
