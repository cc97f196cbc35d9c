------------------------- MODULE MCBenchmarkReports -------------------------
(***************************************************************************)
(* One job to execute and three executed before, on two commits: `a` ran   *)
(* everything, `b` and `c` a part of it each, `b` with another Go version. *)
(* b1 has time/op and speed, b2 time/op, b3 speed only.                    *)
(***************************************************************************)
EXTENDS BenchmarkReports, ExecutionInvariant

Executed(ref, sha, go, status, measured) ==
    [status |-> status, ref |-> ref, SHA |-> sha, GoVersion |-> go,
     artifacts |-> Artifacts, lines |-> measured]

FinishedJobs ==
    [a |-> Executed("main", "sha1", "go1", "Succeeded", {"b1", "b2", "b3", Verdict}),
     b |-> Executed("main", "sha1", "go2", "Succeeded", {"b1", Verdict}),
     c |-> Executed("sha2", "sha2", "go1", "Failed", {"b2", "b3"})]

Measurements ==
    [new |-> [b1 |-> <<1, 2>>, b2 |-> <<3>>,    b3 |-> <<2, 2>>],
     a   |-> [b1 |-> <<3, 4>>, b2 |-> <<1, 4>>, b3 |-> <<1, 1>>],
     b   |-> [b1 |-> <<2, 3>>],
     c   |-> [b2 |-> <<1>>,    b3 |-> <<3, 4>>]]

ShortSHAs == [sha1 |-> "1", sha2 |-> "2"]

JobLists ==
    {<<"new">>, <<"c">>, <<"a", "a">>, <<"new", "a">>, <<"a", "new">>, <<"b", "new">>,
     <<"new", "c">>, <<"a", "b">>, <<"a", "c", "b">>, <<"a", "new", "b">>, <<"new", "b", "c">>}

NoSpec == [type |-> "", metric |-> ""]

ReportRequest(command, ids, labels, skip, filter, significant, spec) ==
    [command |-> command, ids |-> ids, labels |-> labels, skip |-> skip,
     filter |-> filter, significant |-> significant, spec |-> spec]

OwnLabels ==
    {ReportRequest(command, ids, labels, skip, {"b1", "b2", "b3"}, TRUE, NoSpec) :
        command \in {"report", "trend"}, ids \in JobLists, labels \in {0, 2},
        skip \in {{}, {"time/op"}}}
OneJob ==
    {ReportRequest("single", ids, 0, {}, {"b1", "b3"}, TRUE, NoSpec) : ids \in JobLists}
Plotted ==
    {ReportRequest("plot", <<id>>, 0, {}, Benchmarks, TRUE, NoSpec) :
        id \in {"new", "a", "c", "unknown"}}
Compared ==
    {ReportRequest("compare", ids, 2, {}, {"b1", "b2", "b3"}, significant, NoSpec) :
        ids \in JobLists, significant \in BOOLEAN}
Specified ==
    {ReportRequest("custom", ids, labels, {}, {"b1", "b2"}, TRUE, [type |-> type, metric |-> metric]) :
        ids \in {<<"c">>, <<"new", "a">>, <<"a", "new", "b">>}, labels \in {0, 3},
        type \in SpecTypes \union {"pie"}, metric \in {"time/op", "throughput", "op/s", "B/op"}}

NoReports == {}
AllRequests == OwnLabels \union OneJob \union Plotted \union Compared \union Specified
=============================================================================
