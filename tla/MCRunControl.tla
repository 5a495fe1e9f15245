---------------------------- MODULE MCRunControl ----------------------------
(***************************************************************************)
(* Workloads for checking RunControl.                                      *)
(***************************************************************************)
EXTENDS RunControl, TLC

CONSTANTS w1, w2
TwoWorkers == {w1, w2}
WorkerSymmetry == Permutations({w1, w2})
Everywhere == {TwoWorkers}                   \* every worker hosts every function

OperatorAndWorker == {<<"HttpClient", "Create">>, <<"HttpClient", "Delete">>,
                      <<"Socket", "Update">>}
Mixed             == {<<"HttpClient", "Create">>, <<"Scheduler", "Create">>,
                      <<"Socket", "Update">>, <<"HttpClient", "Delete">>,
                      <<"HttpClient", "Get">>, <<"Socket", "Query">>}

NormalReports == {[status |-> "active", stat |-> TRUE],
                  [status |-> "completed", stat |-> TRUE]}
AllReports    == NormalReports \cup {[status |-> "crashed", stat |-> FALSE]}
=============================================================================
