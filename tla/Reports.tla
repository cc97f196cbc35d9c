------------------------------ MODULE Reports ------------------------------
(***************************************************************************)
(* The reports made of finished jobs: CreateDataTable loads the jobs and   *)
(* their results, names them and has benchstat (external) tabulate the     *)
(* results; WriteReport fills the sections that a command, a report        *)
(* specification or the web server's plot asked for.  A report comes out   *)
(* "ok", as an error, or as a panic.                                       *)
(*                                                                         *)
(* A measurement is a sequence of ns/op; its inverse, op/s or bytes/s, is  *)
(* counted in twelfths, so that the values 1 to 4 have exact inverses.     *)
(***************************************************************************)
EXTENDS Execution, Integers, SequencesExt

CONSTANTS
    Finished,   \* jobs that were executed before: id -> record
    Samples,    \* id -> benchmark -> its measurements in the results
    Timed,      \* benchmarks whose lines have ns/op
    Sized,      \* benchmarks whose lines have MB/s
    ShortSHA,   \* commit -> its first seven digits
    Requests    \* the reports asked for: see ReportRequests

ASSUME TimedAssumption == Timed \subseteq Benchmarks /\ Sized \subseteq Benchmarks

\* Of every benchmark it ran a job has at least one measurement; the jobs that were
\* executed before have a commit if they have results (ResultsHaveSHA).
Measured == Seq(Nat \ {0}) \ {<< >>}
ASSUME FinishedAssumption ==
    \A id \in DOMAIN Finished :
        /\ "results" \in Finished[id].artifacts => Finished[id].SHA \in SHAs
        /\ \A b \in Finished[id].lines \intersect (Timed \union Sized) : Samples[id][b] \in Measured

VARIABLES
    archive,    \* the repository and artifacts of finished jobs: id -> record
    report      \* the report made: its request and its result

NoReport == [result |-> [outcome |-> "none"]]

Metrics == {"time/op", "speed", "throughput", "op/s", "msg/s"}
SpecTypes == {"trend_chart", "horizontal_bar_chart", "horizontal_bar_chart_with_delta",
              "horizontal_box_chart", "horizontal_delta_chart"}
Commands == {"report", "single", "compare", "trend", "custom", "plot"}

\* labels: how many custom labels are given; significant: what benchstat's
\* test says of the differences; spec: the section of a report specification.
ReportRequests ==
    [command : Commands, ids : Seq(STRING), labels : Nat, skip : SUBSET Metrics,
     filter : SUBSET Benchmarks, significant : BOOLEAN,
     spec : [type : STRING, metric : STRING]]

\* The plot has no flag to skip a metric.
ASSUME RequestsAssumption ==
    \A r \in Requests : r \in ReportRequests /\ (r.command = "plot" => r.skip = {})

ReportsInit == archive = Finished /\ report = NoReport

(***************************************************************************)
(* CreateDataTable.                                                        *)
(***************************************************************************)
IsLoadable(id) ==
    /\ id \in DOMAIN archive
    /\ archive[id].status \in {"Succeeded", "Failed"}
    /\ "results" \in archive[id].artifacts

HasDuplicatesNextToEachOther(seq) == \E i \in 1 .. Len(seq) - 1 : seq[i] = seq[i + 1]
HasDuplicates(seq) == ~IsInjective(seq)

\* SHA[0:7] of what is no SHA panics.
Sliceable(id) == archive[id].SHA \in SHAs
Short(id) == IF Sliceable(id) THEN ShortSHA[archive[id].SHA] ELSE ""

\* The four ways to label a job, tried in turn until the labels differ.
Label(way, id) ==
    LET rec == archive[id]
        isSHA == rec.ref = rec.SHA
    IN  CASE way = 1 -> IF isSHA THEN <<Short(id)>> ELSE <<rec.ref>>
          [] way = 2 -> IF isSHA THEN <<Short(id)>> ELSE <<rec.ref, Short(id)>>
          [] way = 3 -> <<rec.ref, rec.GoVersion>>
          [] way = 4 -> <<id>>
Slices(way, id) == way = 2 \/ (way = 1 /\ archive[id].ref = archive[id].SHA)

Labels(way, ids) == [i \in DOMAIN ids |-> Label(way, ids[i])]
LabelWay(ids) == Min({way \in 1 .. 4 : ~HasDuplicates(Labels(way, ids))})
createJobLabels(ids) == Labels(LabelWay(ids), ids)
LabelsPanic(ids) ==
    \E way \in 1 .. LabelWay(ids), i \in DOMAIN ids : Slices(way, ids[i]) /\ ~Sliceable(ids[i])

\* benchstat: a table has a row per benchmark and a cell per job, in the order
\* of the jobs, empty where the job has no such line; of two jobs it compares
\* only the benchmarks of both.  A table without rows does not exist.
Rate(sample) == [k \in DOMAIN sample |-> 12 \div sample[k]]

Cell(id, b, metric) ==
    LET has == archive[id].lines
    IN  CASE metric = "time/op" -> IF b \in has \intersect Timed THEN Samples[id][b] ELSE << >>
          [] metric = "speed" -> IF b \in has \intersect Sized THEN Rate(Samples[id][b]) ELSE << >>

RowWithoutGaps(ids, b, metric) ==
    SelectSeq([i \in DOMAIN ids |-> Cell(ids[i], b, metric)], LAMBDA cell : cell # << >>)
Row(ids, b, metric) == [i \in DOMAIN ids |-> Cell(ids[i], b, metric)]

InTable(ids, b, metric) ==
    LET having == {i \in DOMAIN ids : Cell(ids[i], b, metric) # << >>}
    IN  IF Len(ids) = 2 THEN having = {1, 2} ELSE having # {}

Table(ids, metric) ==
    [b \in {x \in Benchmarks : InTable(ids, x, metric)} |-> Row(ids, b, metric)]

IsNil(table) == DOMAIN table = {}
IsComparison(ids) == Len(ids) = 2

HasSpeedAlways(ids) == TRUE
HasSpeed(ids) == ~IsNil(Table(ids, "speed"))

\* The errors of CreateDataTable; labels are made before the last one.
LoadFails(ids) ==
    \/ ids = << >>
    \/ ~IsInjective(ids)
    \/ \E i \in DOMAIN ids : ~IsLoadable(ids[i])
NoTables(ids) == IsNil(Table(ids, "time/op")) /\ IsNil(Table(ids, "speed"))

(***************************************************************************)
(* The sections.                                                           *)
(***************************************************************************)
invertTimeOpTable(table) ==
    [b \in DOMAIN table |-> [i \in DOMAIN table[b] |-> Rate(table[b][i])]]

TableOf(ids, metric) ==
    CASE metric = "time/op" -> Table(ids, "time/op")
      [] metric \in {"speed", "throughput"} -> Table(ids, "speed")
      [] metric \in {"op/s", "msg/s"} -> invertTimeOpTable(Table(ids, "time/op"))

Sum(sample) ==
    LET upTo[k \in 0 .. Len(sample)] == IF k = 0 THEN 0 ELSE upTo[k - 1] + sample[k]
    IN  upTo[Len(sample)]

\* The sign of the difference of two means.  benchstat has none where its test
\* finds no difference; the inverted table has one and says "~" beside it.
PctDelta(metric, row, significant) ==
    LET before == Sum(row[1]) * Len(row[2])
        after == Sum(row[2]) * Len(row[1])
    IN  IF before = after \/ (~significant /\ metric \in {"time/op", "speed", "throughput"}) THEN 0
        ELSE IF after < before THEN -1 ELSE 1

SpeedupColorOfTime(metric) == "green"
SpeedupColor(metric) == IF metric = "time/op" THEN "green" ELSE "red"
Opposite(color) == IF color = "green" THEN "red" ELSE "green"
BarColor(metric, delta) ==
    IF delta < 0 THEN SpeedupColor(metric) ELSE Opposite(SpeedupColor(metric))

Delta(metric, row, significant) ==
    LET delta == PctDelta(metric, row, significant)
    IN  [value |-> IF significant THEN delta ELSE 0, color |-> BarColor(metric, delta)]

\* fillData: a box chart shows the first job, delta sections the difference of
\* two and the others every job.
IsDelta(section) == section.type \in {"delta chart", "delta table"}

BoxRow(row) == <<row[1]>>
DeltaRow(section, row, significant) ==
    <<row[1], row[2], Delta(section.metric, row, significant)>>

SectionRow(section, row, significant) ==
    CASE section.type = "box chart" -> BoxRow(row)
      [] IsDelta(section) -> DeltaRow(section, row, significant)
      [] OTHER -> row

fillData(r, section) ==
    IF section.type = "jobs table" THEN [outcome |-> "ok"]
    ELSE LET table == TableOf(r.ids, section.metric)
         IN  IF IsNil(table) THEN [outcome |-> "panic"]
             ELSE IF IsDelta(section) /\ ~IsComparison(r.ids) THEN [outcome |-> "error"]
             ELSE [outcome |-> "ok", type |-> section.type, metric |-> section.metric,
                   rows |-> [b \in DOMAIN table \intersect r.filter |->
                                SectionRow(section, table[b], r.significant)]]

Section(type, metric) == [type |-> type, metric |-> metric]
JobsTable == <<Section("jobs table", "time/op")>>

\* The same sections for both metrics, those on speed only if a job has it.
Sections(types, metric) == [k \in DOMAIN types |-> Section(types[k], metric)]

TimeSections(r, types) == IF "time/op" \in r.skip THEN << >> ELSE Sections(types, "time/op")
SpeedSections(r, types) ==
    IF HasSpeed(r.ids) /\ "speed" \notin r.skip THEN Sections(types, "speed") ELSE << >>
BothMetrics(r, types) == TimeSections(r, types) \o SpeedSections(r, types)

\* ConfigureReport
SpecSections(type) ==
    CASE type = "trend_chart" -> <<"trend chart", "table">>
      [] type = "horizontal_bar_chart" -> <<"bar chart", "table">>
      [] type = "horizontal_bar_chart_with_delta" -> <<"bar chart", "delta chart", "delta table">>
      [] type = "horizontal_box_chart" -> <<"box chart", "table">>
      [] type = "horizontal_delta_chart" -> <<"delta chart", "delta table">>
SpecIsValid(spec) == spec.metric \in Metrics /\ spec.type \in SpecTypes

(***************************************************************************)
(* The commands and the web server's plot.                                 *)
(***************************************************************************)
Outcome(result) == [outcome |-> result]

\* CreateDataTable, with the error or panic it ends in; "ok" goes on.
CreateDataTable(ids) ==
    CASE LoadFails(ids) -> "error"
      [] ~LoadFails(ids) /\ LabelsPanic(ids) -> "panic"
      [] ~LoadFails(ids) /\ ~LabelsPanic(ids) -> IF NoTables(ids) THEN "error" ELSE "ok"

\* Custom labels must be as many as the jobs; the first section that cannot be
\* filled decides.
WriteReport(r, sections) ==
    LET filled == [k \in DOMAIN sections |-> fillData(r, sections[k])]
        bad == {k \in DOMAIN filled : filled[k].outcome # "ok"}
    IN  IF r.labels > 0 /\ r.labels # Len(r.ids) THEN Outcome("panic")
        ELSE IF bad # {} THEN Outcome(filled[Min(bad)].outcome)
        ELSE [outcome |-> "ok", sections |-> Tail(filled),
              labels |-> IF r.labels > 0 THEN << >> ELSE createJobLabels(r.ids)]

\* A command checks its arguments, loads the jobs and writes its sections.
Command(r, argumentsFit, sections) ==
    IF ~argumentsFit THEN Outcome("error")
    ELSE IF CreateDataTable(r.ids) # "ok" THEN Outcome(CreateDataTable(r.ids))
    ELSE WriteReport(r, JobsTable \o sections)

basicReport(r) ==
    Command(r, Len(r.ids) >= 1, BothMetrics(r, <<"bar chart", "table">>))
singleReport(r) ==
    Command(r, Len(r.ids) = 1, BothMetrics(r, <<"box chart", "table">>))
comparativeReport(r) ==
    Command(r, Len(r.ids) = 2,
            BothMetrics(r, <<"bar chart", "table", "delta chart", "delta table">>))
trendReport(r) ==
    Command(r, Len(r.ids) >= 2, BothMetrics(r, <<"trend chart", "table">>))
customReport(r) ==
    IF Len(r.ids) >= 1 /\ CreateDataTable(r.ids) = "ok" /\ ~SpecIsValid(r.spec) THEN Outcome("error")
    ELSE Command(r, Len(r.ids) >= 1, Sections(SpecSections(r.spec.type), r.spec.metric))
serveJobResultsPlot(r) ==
    Command(r, TRUE, SpeedSections(r, <<"box chart", "table">>) \o
                     Sections(<<"box chart", "table">>, "time/op"))

Result(r) ==
    CASE r.command = "report" -> basicReport(r)
      [] r.command = "single" -> singleReport(r)
      [] r.command = "compare" -> comparativeReport(r)
      [] r.command = "trend" -> trendReport(r)
      [] r.command = "custom" -> customReport(r)
      [] r.command = "plot" -> serveJobResultsPlot(r)

MakeReport(r) ==
    /\ report = NoReport
    /\ report' = [request |-> r, result |-> Result(r)]
    /\ UNCHANGED archive

Dismiss ==
    /\ report # NoReport
    /\ report' = NoReport
    /\ UNCHANGED archive

ReportsNext == (\E r \in Requests : MakeReport(r)) \/ Dismiss

(***************************************************************************)
(* Properties.                                                             *)
(***************************************************************************)
IsMade == report.result.outcome = "ok"
Ids == report.request.ids

\* Whatever became of the jobs, no command and no plot panics, except for
\* labels that are not as many as the jobs, for a specification that names a
\* metric the jobs do not have, for jobs without time/op to show, and for a job
\* whose SHA was not read because waiting for its script went wrong.  (A filter
\* that is no regular expression panics too, in regexp.MustCompile; requests have
\* valid ones.)
PanicsForCause ==
    report.result.outcome = "panic" =>
        LET r == report.request IN
        \/ r.labels > 0 /\ r.labels # Len(Ids)
        \/ r.command = "custom" /\ SpecIsValid(r.spec) /\ IsNil(TableOf(Ids, r.spec.metric))
        \/ r.command # "custom" /\ "time/op" \notin r.skip /\ IsNil(Table(Ids, "time/op"))
        \/ waitFailed

\* What a job measured of a benchmark, as a metric shows it.
MeasuredLines(metric) == IF metric \in {"speed", "throughput"} THEN Sized ELSE Timed
HasMeasured(id, b, metric) == b \in archive[id].lines /\ b \in MeasuredLines(metric)
Value(id, b, metric) ==
    IF ~HasMeasured(id, b, metric) THEN << >>
    ELSE IF metric = "time/op" THEN Samples[id][b] ELSE Rate(Samples[id][b])

\* The columns belong to the jobs they are labelled with, also where jobs ran
\* different benchmarks: a cell holds what its job measured, or is empty if it
\* measured nothing, and no benchmark is left out that some job measured (or
\* both, in a report on two).
ColumnsBelongToJobs ==
    IsMade => \A k \in DOMAIN report.result.sections :
        LET section == report.result.sections[k]
            measured(i, b) == HasMeasured(Ids[i], b, section.metric)
            columns(b) == [i \in DOMAIN Ids |-> Value(Ids[i], b, section.metric)]
        IN  /\ \A b \in DOMAIN section.rows :
                 IF section.type = "box chart" THEN section.rows[b] = <<columns(b)[1]>>
                 ELSE IsPrefix(columns(b), section.rows[b])
            /\ \A b \in report.request.filter :
                 b \in DOMAIN section.rows <=>
                    IF Len(Ids) = 2 THEN measured(1, b) /\ measured(2, b)
                    ELSE \E i \in DOMAIN Ids : measured(i, b)

\* Labels made by the report tell its jobs apart, and they are no longer than
\* it takes: job ids, where they are not also what the job is about, appear only
\* if two jobs have the same reference and the same Go version.
LabelsTellJobsApart ==
    IsMade /\ report.request.labels = 0 =>
        /\ \A i, j \in DOMAIN Ids : i # j => report.result.labels[i] # report.result.labels[j]
        /\ (\E i \in DOMAIN Ids :
                /\ report.result.labels[i] = <<Ids[i]>>
                /\ Ids[i] \notin {archive[Ids[i]].ref, Short(Ids[i])}) =>
             \E i, j \in DOMAIN Ids :
                /\ i # j
                /\ archive[Ids[i]].ref = archive[Ids[j]].ref
                /\ archive[Ids[i]].GoVersion = archive[Ids[j]].GoVersion

\* In a comparison green is faster and red slower, for every metric, where all
\* measurements of one job lie on one side of those of the other.
GreenIsFaster ==
    IsMade => \A k \in DOMAIN report.result.sections :
        IsDelta(report.result.sections[k]) =>
            \A b \in DOMAIN report.result.sections[k].rows :
                LET before == Samples[Ids[1]][b]
                    after == Samples[Ids[2]][b]
                    delta == report.result.sections[k].rows[b][3]
                    below(s, t) == \A x \in ToSet(s), y \in ToSet(t) : x < y
                IN  delta.value # 0 =>
                    /\ below(after, before) => delta.color = "green"
                    /\ below(before, after) => delta.color = "red"
=============================================================================
