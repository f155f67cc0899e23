-------------------------------- MODULE MCMcp --------------------------------
(* A Claude transcript of the directory that is searched and a rollout of    *)
(* another one.                                                              *)
EXTENDS Mcp, TLC
CONSTANTS p, q, f1, f2, d1, d2, server, dashboard, a, v1, v2, v3
MCFiles == {f1, f2}
MCCwd   == f1 :> p @@ f2 :> q
MCDir   == f1 :> d1 @@ f2 :> d2
MCCodex == {f2}
MCSearchers  == {server, dashboard}
MCDashboards == {dashboard}
MCIds   == {a}
Request(i, method, arg) == [id |-> i, method |-> method, arg |-> arg]
MCRequests == {Request(a, "project_search", "query"), Request(NoId, "project_search", "query"),
               Request(NoId, "not JSON", ""), Request(NoId, "not UTF-8", ""),
               Request(a, "initialize", v2)}
=============================================================================
