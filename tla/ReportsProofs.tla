--------------------------- MODULE ReportsProofs ---------------------------
(***************************************************************************)
(* Proofs about the reports, for any finished jobs, measurements and       *)
(* requests.                                                               *)
(*                                                                         *)
(* Whatever is asked for comes to an error, to the panic of a label, or to *)
(* the sections that were asked for (ResultComesTo); what these show is    *)
(* followed from the jobs' measurements through tables and rows            *)
(* (TableHolds, SectionShown).  The archive is as reports need it because  *)
(* the execution of a job leaves it so (ReportsInvStep).                   *)
(*                                                                         *)
(* Sums are over samples of any length.  What holds of all their initial   *)
(* parts is shown without an induction rule: if it failed, it would fail   *)
(* of a least one (LeastNumber, from the well-foundedness of the strict    *)
(* subsets of a finite set).                                               *)
(***************************************************************************)
EXTENDS ExecutionProofs, FiniteSetTheorems, SequenceTheorems

\* A set of numbers has a least one.
LEMMA LeastNumber ==
    ASSUME NEW T, T \subseteq Nat, T # {}
    PROVE  \E x \in T : \A y \in T : x <= y
<1>1. PICK m \in T : TRUE
  OBVIOUS
<1> DEFINE S == 0 .. m
           U == {0 .. n : n \in {k \in T : k <= m}}
<1>2. IsWellFoundedOn(StrictSubsetOrdering(S), FiniteSubsetsOf(S))
  BY FS_StrictSubsetOrderingWellFounded
<1>3. ASSUME NEW n \in T, n <= m PROVE 0 .. n \in FiniteSubsetsOf(S)
  <2>1. IsFiniteSet(0 .. n)
    BY FS_Interval, n \in Int, 0 \in Int
  <2> QED
    BY <1>3, <2>1 DEF FiniteSubsetsOf
<1>4. U \subseteq FiniteSubsetsOf(S)
  BY <1>3
<1>5. U # {}
  <2>1. m \in {k \in T : k <= m}
    BY <1>1
  <2> QED
    BY <2>1
<1>6. PICK x \in U : \A y \in U : <<y, x>> \notin StrictSubsetOrdering(S)
  <2> HIDE DEF U, S
  <2> QED
    BY <1>2, <1>4, <1>5, WFMin
<1>7. PICK a \in T : a <= m /\ x = 0 .. a
  BY <1>6
<1>8. ASSUME NEW b \in T, b < a PROVE FALSE
  <2>1. 0 .. b \in U /\ 0 .. b \in SUBSET S /\ x \in SUBSET S
    BY <1>7, <1>8
  <2>2. 0 .. b \subseteq x /\ a \in x /\ a \notin 0 .. b
    BY <1>7, <1>8
  <2>3. <<0 .. b, x>> \in StrictSubsetOrdering(S)
    BY <2>1, <2>2 DEF StrictSubsetOrdering
  <2> QED
    BY <1>6, <2>1, <2>3
<1> QED
  BY <1>8

\* What holds of 0 and of every successor of a number it holds of holds of all.
LEMMA InductionUpTo ==
    ASSUME NEW n \in Nat, NEW T, 0 \in T, \A k \in 0 .. n - 1 : k \in T => k + 1 \in T
    PROVE  \A k \in 0 .. n : k \in T
<1> SUFFICES ASSUME NEW k \in 0 .. n, k \notin T PROVE FALSE
  OBVIOUS
<1> DEFINE Without == {m \in 0 .. n : m \notin T}
<1>1. PICK x \in Without : \A y \in Without : x <= y
  <2>1. Without \subseteq Nat /\ Without # {}
    OBVIOUS
  <2> HIDE DEF Without
  <2> QED
    BY <2>1, LeastNumber
<1>2. x # 0 /\ x - 1 \in 0 .. n - 1
  BY <1>1
<1>3. x - 1 \in T
  BY <1>1, <1>2
<1> QED
  BY <1>1, <1>2, <1>3

LEMMA MinInSet ==
    ASSUME NEW T, T \subseteq Nat, T # {}
    PROVE  Min(T) \in T
BY LeastNumber DEF Min

\* The recursive function of Sum exists: it is built up from initial parts.
Addition(sample, upTo) ==
    upTo = [k \in 0 .. Len(sample) |-> IF k = 0 THEN 0 ELSE upTo[k - 1] + sample[k]]

LEMMA SumDefined ==
    ASSUME NEW sample \in Seq(Nat)
    PROVE  \E upTo : Addition(sample, upTo) /\ Sum(sample) = upTo[Len(sample)]
<1> DEFINE
      n == Len(sample)
      Starts(m, f) == f = [k \in 0 .. m |-> IF k = 0 THEN 0 ELSE f[k - 1] + sample[k]]
      T == {m \in 0 .. n : \E f : Starts(m, f)}
<1>1. n \in Nat
  OBVIOUS
<1>2. 0 \in T
  <2> DEFINE f == [k \in 0 .. 0 |-> 0]
  <2>1. Starts(0, f)
    OBVIOUS
  <2>2. \E g : Starts(0, g)
    <3> HIDE DEF f, Starts
    <3> QED
      BY <2>1
  <2> QED
    BY <1>1, <2>2
<1>3. ASSUME NEW m \in 0 .. n - 1, m \in T PROVE m + 1 \in T
  <2>1. PICK f : Starts(m, f)
    BY <1>3
  <2> DEFINE g == [k \in 0 .. m + 1 |-> IF k = m + 1 THEN f[m] + sample[m + 1] ELSE f[k]]
  <2>2. \A k \in 0 .. m : f[k] = IF k = 0 THEN 0 ELSE f[k - 1] + sample[k]
    BY <2>1
  <2>3. ASSUME NEW k \in 0 .. m + 1 PROVE g[k] = IF k = 0 THEN 0 ELSE g[k - 1] + sample[k]
    BY <2>2
  <2>4. Starts(m + 1, g)
    BY <2>3
  <2>5. \E h : Starts(m + 1, h)
    <3> HIDE DEF g, Starts
    <3> QED
      BY <2>4
  <2> QED
    BY <1>1, <2>5
<1>4. PICK f : Starts(n, f)
  <2>1. \A m \in 0 .. n - 1 : m \in T => m + 1 \in T
    BY <1>3
  <2> HIDE DEF T, n
  <2>2. \A m \in 0 .. n : m \in T
    BY <1>1, <1>2, <2>1, InductionUpTo
  <2>3. n \in T
    BY <1>1, <2>2
  <2> QED
    BY <2>3 DEF T
<1>5. \E upTo : Addition(sample, upTo)
  BY <1>4 DEF Addition
<1> QED
  BY <1>5 DEF Sum, Addition

LEMMA SumSteps ==
    ASSUME NEW sample \in Seq(Nat)
    PROVE  \E upTo : /\ Sum(sample) = upTo[Len(sample)]
                     /\ upTo[0] = 0
                     /\ \A k \in 1 .. Len(sample) : upTo[k] = upTo[k - 1] + sample[k]
<1>1. PICK upTo : Addition(sample, upTo) /\ Sum(sample) = upTo[Len(sample)]
  BY SumDefined
<1>2. \A k \in 0 .. Len(sample) : upTo[k] = IF k = 0 THEN 0 ELSE upTo[k - 1] + sample[k]
  BY <1>1 DEF Addition
<1> QED
  BY <1>1, <1>2

\* A sum lies between its number of summands times a lower and an upper bound of them.
LEMMA SumBounds ==
    ASSUME NEW sample \in Seq(Nat), NEW c \in Nat
    PROVE  /\ Sum(sample) \in Nat
           /\ (\A k \in 1 .. Len(sample) : sample[k] <= c) => Sum(sample) <= c * Len(sample)
           /\ (\A k \in 1 .. Len(sample) : sample[k] >= c) => Sum(sample) >= c * Len(sample)
<1> DEFINE n == Len(sample)
<1>1. PICK upTo : /\ Sum(sample) = upTo[n]
                  /\ upTo[0] = 0
                  /\ \A k \in 1 .. n : upTo[k] = upTo[k - 1] + sample[k]
  BY SumSteps
<1> DEFINE
      T == {k \in 0 .. n :
              /\ upTo[k] \in Nat
              /\ (\A i \in 1 .. n : sample[i] <= c) => upTo[k] <= c * k
              /\ (\A i \in 1 .. n : sample[i] >= c) => upTo[k] >= c * k}
<1>2. n \in Nat /\ \A i \in 1 .. n : sample[i] \in Nat
  OBVIOUS
<1>3. 0 \in T
  BY <1>1, <1>2
<1>4. ASSUME NEW k \in 0 .. n - 1, k \in T PROVE k + 1 \in T
  <2>1. k + 1 \in 1 .. n /\ upTo[k + 1] = upTo[k] + sample[k + 1]
    <3>1. k + 1 \in 1 .. n /\ (k + 1) - 1 = k
      BY <1>2
    <3> QED
      BY <1>1, <3>1
  <2>2. c * (k + 1) = c * k + c /\ c * k \in Nat
    OBVIOUS
  <2> QED
    BY <1>2, <1>4, <2>1, <2>2
<1>5. n \in T
  <2>1. \A k \in 0 .. n - 1 : k \in T => k + 1 \in T
    BY <1>4
  <2> HIDE DEF T, n
  <2>2. \A k \in 0 .. n : k \in T
    BY <1>2, <1>3, <2>1, InductionUpTo
  <2> QED
    BY <1>2, <2>2
<1> QED
  BY <1>1, <1>5

\* Where every measurement of one sample is at most every one of the other, so is the mean.
LEMMA MeansFollow ==
    ASSUME NEW s \in Seq(Nat), NEW t \in Seq(Nat), s # << >>, t # << >>,
           \A i \in DOMAIN s, k \in DOMAIN t : s[i] <= t[k]
    PROVE  Sum(s) * Len(t) <= Sum(t) * Len(s)
<1> DEFINE T == {t[k] : k \in DOMAIN t}
<1>1. T \subseteq Nat /\ T # {}
  <2>1. 1 \in DOMAIN t
    OBVIOUS
  <2> QED
    BY <2>1
<1>2. PICK c \in T : \A y \in T : c <= y
  <2> HIDE DEF T
  <2> QED
    BY <1>1, LeastNumber
<1>3. c \in Nat /\ Sum(s) <= c * Len(s) /\ Sum(t) >= c * Len(t) /\ Sum(s) \in Nat /\ Sum(t) \in Nat
  <2>1. c \in Nat
    BY <1>1, <1>2
  <2>2. \A k \in 1 .. Len(s) : s[k] <= c
    BY <1>2
  <2>3. \A k \in 1 .. Len(t) : t[k] >= c
    BY <1>2, <2>1
  <2> QED
    BY <2>1, <2>2, <2>3, SumBounds
<1> DEFINE a == Len(s)
           b == Len(t)
<1>4. a \in Nat /\ b \in Nat
  OBVIOUS
<1>5. ASSUME NEW p \in Nat, NEW q \in Nat, NEW x \in Nat, NEW y \in Nat, NEW d \in Nat,
             x <= d * p, y >= d * q
      PROVE  x * q <= y * p
  <2>1. x * q <= (d * p) * q /\ (d * q) * p <= y * p
    BY <1>5
  <2>2. (d * p) * q = (d * q) * p
    OBVIOUS
  <2>3. x * q \in Int /\ (d * p) * q \in Int /\ (d * q) * p \in Int /\ y * p \in Int
    OBVIOUS
  <2>4. ASSUME NEW k \in Int, NEW l \in Int, NEW m \in Int, NEW n \in Int, k <= l, l = m, m <= n
        PROVE  k <= n
    BY <2>4
  <2> QED
    BY <2>1, <2>2, <2>3, <2>4
<1> QED
  <2> HIDE DEF a, b
  <2>1. Sum(s) <= c * a /\ Sum(t) >= c * b
    BY <1>3 DEF a, b
  <2>2. Sum(s) * b <= Sum(t) * a
    BY <1>3, <1>4, <1>5, <2>1
  <2> QED
    BY <2>2 DEF a, b

\* The sections a request may ask for: only a specification shows a metric no job may have.
SectionTypes == {"table", "bar chart", "trend chart", "box chart", "delta chart", "delta table"}
AllSections == [type : SectionTypes, metric : Metrics]
MayShow(r, metric) ==
    IF r.command = "custom" THEN metric = r.spec.metric
    ELSE \/ metric = "time/op" /\ "time/op" \notin r.skip
         \/ metric = "speed" /\ HasSpeed(r.ids)
Asked(r) == {s \in AllSections : MayShow(r, s.metric)}

LEMMA SectionsAsked ==
    ASSUME NEW r, NEW types \in Seq(SectionTypes), NEW metric \in Metrics, MayShow(r, metric)
    PROVE  Sections(types, metric) \in Seq(Asked(r))
<1>1. ASSUME NEW k \in DOMAIN types PROVE Section(types[k], metric) \in Asked(r)
  <2>1. types[k] \in SectionTypes
    OBVIOUS
  <2>2. Section(types[k], metric) \in AllSections /\ Section(types[k], metric).metric = metric
    BY <2>1 DEF Section, AllSections
  <2> QED
    BY <2>2 DEF Asked
<1>2. DOMAIN types = 1 .. Len(types) /\ Len(types) \in Nat
  OBVIOUS
<1> HIDE DEF Asked
<1> QED
  BY <1>1, <1>2 DEF Sections

LEMMA BothMetricsAsked ==
    ASSUME NEW r, r.command # "custom", NEW types \in Seq(SectionTypes)
    PROVE  BothMetrics(r, types) \in Seq(Asked(r)) /\ SpeedSections(r, types) \in Seq(Asked(r))
<1>1. << >> \in Seq(Asked(r))
  OBVIOUS
<1>2. TimeSections(r, types) \in Seq(Asked(r))
  <2>1. "time/op" \notin r.skip => Sections(types, "time/op") \in Seq(Asked(r))
    BY SectionsAsked DEF MayShow, Metrics
  <2> QED
    BY <1>1, <2>1 DEF TimeSections
<1>3. SpeedSections(r, types) \in Seq(Asked(r))
  <2>1. HasSpeed(r.ids) => Sections(types, "speed") \in Seq(Asked(r))
    BY SectionsAsked DEF MayShow, Metrics
  <2> QED
    BY <1>1, <2>1 DEF SpeedSections
<1> QED
  BY <1>2, <1>3 DEF BothMetrics

\* What a command comes to: an error of its own or of the loading, or its sections.
ComesTo(r, result) ==
    \/ result = Outcome("error")
    \/ result = Outcome("panic") /\ ~LoadFails(r.ids) /\ LabelsPanic(r.ids)
    \/ /\ ~LoadFails(r.ids) /\ ~LabelsPanic(r.ids)
       /\ r.command = "custom" => SpecIsValid(r.spec)
       /\ \E sections \in Seq(Asked(r)) : result = WriteReport(r, JobsTable \o sections)

LEMMA CommandComesTo ==
    ASSUME NEW r, NEW argumentsFit, NEW sections \in Seq(Asked(r)),
           r.command = "custom" => SpecIsValid(r.spec)
    PROVE  ComesTo(r, Command(r, argumentsFit, sections))
BY DEF Command, ComesTo, CreateDataTable, Outcome

LEMMA TypesTyped ==
    /\ <<"bar chart", "table">> \in Seq(SectionTypes)
    /\ <<"box chart", "table">> \in Seq(SectionTypes)
    /\ <<"trend chart", "table">> \in Seq(SectionTypes)
    /\ <<"bar chart", "table", "delta chart", "delta table">> \in Seq(SectionTypes)
    /\ <<"bar chart", "delta chart", "delta table">> \in Seq(SectionTypes)
    /\ <<"delta chart", "delta table">> \in Seq(SectionTypes)
BY DEF SectionTypes

LEMMA ResultComesTo ==
    ASSUME NEW r \in Requests
    PROVE  ComesTo(r, Result(r))
<1>1. r.command \in Commands /\ (r.command = "plot" => r.skip = {})
  BY RequestsAssumption DEF ReportRequests
<1>2. CASE r.command = "report"
  BY <1>2, TypesTyped, BothMetricsAsked, CommandComesTo DEF Result, basicReport
<1>3. CASE r.command = "single"
  BY <1>3, TypesTyped, BothMetricsAsked, CommandComesTo DEF Result, singleReport
<1>4. CASE r.command = "compare"
  BY <1>4, TypesTyped, BothMetricsAsked, CommandComesTo DEF Result, comparativeReport
<1>5. CASE r.command = "trend"
  BY <1>5, TypesTyped, BothMetricsAsked, CommandComesTo DEF Result, trendReport
<1>6. CASE r.command = "plot"
  <2> DEFINE types == <<"box chart", "table">>
  <2>1. Sections(types, "time/op") \in Seq(Asked(r))
    BY <1>1, <1>6, TypesTyped, SectionsAsked DEF MayShow, Metrics
  <2>2. SpeedSections(r, types) \in Seq(Asked(r))
    BY <1>6, TypesTyped, BothMetricsAsked
  <2>3. SpeedSections(r, types) \o Sections(types, "time/op") \in Seq(Asked(r))
    BY <2>1, <2>2, ConcatProperties
  <2>4. Result(r) = Command(r, TRUE, SpeedSections(r, types) \o Sections(types, "time/op"))
    BY <1>6 DEF Result, serveJobResultsPlot
  <2> HIDE DEF types
  <2> QED
    BY <1>6, <2>3, <2>4, CommandComesTo
<1>7. CASE r.command = "custom"
  <2> DEFINE sections == Sections(SpecSections(r.spec.type), r.spec.metric)
  <2>1. CASE SpecIsValid(r.spec)
    <3>1. r.spec.type \in SpecTypes /\ r.spec.metric \in Metrics
      BY <2>1 DEF SpecIsValid
    <3>2. SpecSections(r.spec.type) \in Seq(SectionTypes)
      BY <3>1, TypesTyped DEF SpecTypes, SpecSections
    <3>3. sections \in Seq(Asked(r))
      BY <1>7, <3>1, <3>2, SectionsAsked DEF MayShow
    <3>4. Result(r) = Command(r, Len(r.ids) >= 1, sections)
      BY <1>7, <2>1 DEF Result, customReport
    <3> HIDE DEF sections
    <3> QED
      BY <1>7, <2>1, <3>3, <3>4, CommandComesTo
  <2>2. CASE ~SpecIsValid(r.spec)
    BY <1>7, <2>2 DEF Result, customReport, Command, CreateDataTable, Outcome, ComesTo
  <2> QED
    BY <2>1, <2>2
<1> QED
  BY <1>1, <1>2, <1>3, <1>4, <1>5, <1>6, <1>7 DEF Commands

\* The sections of a report, the table of its jobs first.
LEMMA JobsTableFirst ==
    ASSUME NEW r, NEW asked \in Seq(Asked(r))
    PROVE  /\ JobsTable \o asked \in Seq({JobsTable[1]} \union Asked(r))
           /\ Len(JobsTable \o asked) = Len(asked) + 1
           /\ (JobsTable \o asked)[1] = JobsTable[1]
           /\ \A k \in 2 .. Len(asked) + 1 : (JobsTable \o asked)[k] \in Asked(r)
<1> DEFINE S == {JobsTable[1]} \union Asked(r)
<1>1. JobsTable \in Seq(S) /\ Len(JobsTable) = 1
  BY DEF JobsTable
<1>2. asked \in Seq(S)
  BY SeqMonotonic
<1> HIDE DEF S
<1>3. JobsTable \o asked \in Seq(S) /\ Len(JobsTable \o asked) = 1 + Len(asked)
  BY <1>1, <1>2, ConcatProperties
<1>4. ASSUME NEW k \in 1 .. Len(asked) + 1
      PROVE  (JobsTable \o asked)[k] = IF k = 1 THEN JobsTable[1] ELSE asked[k - 1]
  <2>1. Len(asked) \in Nat
    BY <1>2, LenProperties
  <2> HIDE DEF S
  <2>2. k \in 1 .. Len(JobsTable) + Len(asked)
    BY <1>1, <2>1
  <2>3. (JobsTable \o asked)[k] =
          IF k <= Len(JobsTable) THEN JobsTable[k] ELSE asked[k - Len(JobsTable)]
    BY <1>1, <1>2, <2>2, ConcatProperties
  <2>4. k <= 1 => k = 1
    BY <2>1
  <2> QED
    BY <1>1, <2>3, <2>4
<1>5. \A k \in 2 .. Len(asked) + 1 : (JobsTable \o asked)[k] \in Asked(r)
  <2> SUFFICES ASSUME NEW k \in 2 .. Len(asked) + 1 PROVE (JobsTable \o asked)[k] \in Asked(r)
    OBVIOUS
  <2>1. k - 1 \in 1 .. Len(asked) /\ k \in 1 .. Len(asked) + 1 /\ k # 1
    OBVIOUS
  <2>2. asked[k - 1] \in Asked(r)
    <3> HIDE DEF Asked
    <3> QED
      BY <2>1, ElementOfSeq
  <2>3. (JobsTable \o asked)[k] = asked[k - 1]
    BY <1>4, <2>1
  <2> QED
    BY <2>2, <2>3
<1>6. 1 \in 1 .. Len(asked) + 1
  OBVIOUS
<1>7. (JobsTable \o asked)[1] = JobsTable[1]
  BY <1>4, <1>6
<1>8. Len(JobsTable \o asked) = Len(asked) + 1
  BY <1>3
<1> HIDE DEF S
<1> QED
  BY <1>3, <1>5, <1>7, <1>8 DEF S

\* A section that cannot be filled is one whose table is missing, or one of differences.
LEMMA FillDataOutcome ==
    ASSUME NEW r, NEW section
    PROVE  /\ fillData(r, section).outcome \in {"ok", "error", "panic"}
           /\ fillData(r, section).outcome = "panic" =>
                section.type # "jobs table" /\ IsNil(TableOf(r.ids, section.metric))
           /\ fillData(r, section).outcome = "ok" /\ section.type # "jobs table" =>
                /\ IsDelta(section) => IsComparison(r.ids)
                /\ fillData(r, section) =
                     [outcome |-> "ok", type |-> section.type, metric |-> section.metric,
                      rows |-> [b \in DOMAIN TableOf(r.ids, section.metric) \intersect r.filter |->
                                  SectionRow(section, TableOf(r.ids, section.metric)[b], r.significant)]]
BY DEF fillData

\* The first section that cannot be filled decides; else all but the table of jobs is shown.
LEMMA WriteReportOutcome ==
    ASSUME NEW r, NEW sections, NEW n \in Nat, DOMAIN sections = 1 .. n
    PROVE  LET result == WriteReport(r, sections) IN
           /\ result.outcome = "panic" =>
                \/ r.labels > 0 /\ r.labels # Len(r.ids)
                \/ \E k \in 1 .. n : fillData(r, sections[k]).outcome = "panic"
           /\ result.outcome = "ok" =>
                /\ \A k \in 1 .. n : fillData(r, sections[k]).outcome = "ok"
                /\ result.sections = Tail([k \in 1 .. n |-> fillData(r, sections[k])])
                /\ r.labels > 0 \/ result.labels = createJobLabels(r.ids)
<1> DEFINE filled == [k \in 1 .. n |-> fillData(r, sections[k])]
           bad == {k \in 1 .. n : filled[k].outcome # "ok"}
           result == WriteReport(r, sections)
           mismatch == r.labels > 0 /\ r.labels # Len(r.ids)
<1>1. bad # {} => Min(bad) \in bad
  <2>1. bad \subseteq Nat
    OBVIOUS
  <2> HIDE DEF bad
  <2> QED
    BY <2>1, MinInSet
<1>2. result = IF mismatch THEN Outcome("panic")
               ELSE IF bad # {} THEN Outcome(filled[Min(bad)].outcome)
               ELSE [outcome |-> "ok", sections |-> Tail(filled),
                     labels |-> IF r.labels > 0 THEN << >> ELSE createJobLabels(r.ids)]
  <2>1. [k \in DOMAIN sections |-> fillData(r, sections[k])] = filled /\ DOMAIN filled = 1 .. n
    OBVIOUS
  <2>2. bad = {k \in DOMAIN filled : filled[k].outcome # "ok"}
    BY <2>1
  <2> HIDE DEF filled, bad
  <2> DEFINE raw == [k \in DOMAIN sections |-> fillData(r, sections[k])]
             rawBad == {k \in DOMAIN raw : raw[k].outcome # "ok"}
  <2>3. result = IF mismatch THEN Outcome("panic")
                 ELSE IF rawBad # {} THEN Outcome(raw[Min(rawBad)].outcome)
                 ELSE [outcome |-> "ok", sections |-> Tail(raw),
                       labels |-> IF r.labels > 0 THEN << >> ELSE createJobLabels(r.ids)]
    BY Zenon DEF WriteReport
  <2>4. raw = filled
    BY <2>1
  <2>5. rawBad = bad
    BY <2>2, <2>4
  <2> HIDE DEF raw, rawBad, mismatch, result
  <2> QED
    BY <2>3, <2>4, <2>5
<1>3. ASSUME NEW k \in 1 .. n PROVE filled[k] = fillData(r, sections[k])
  OBVIOUS
<1>4. bad = {k \in 1 .. n : filled[k].outcome # "ok"}
  OBVIOUS
<1> SUFFICES /\ result.outcome = "panic" =>
                \/ mismatch
                \/ \E k \in 1 .. n : fillData(r, sections[k]).outcome = "panic"
             /\ result.outcome = "ok" =>
                /\ \A k \in 1 .. n : fillData(r, sections[k]).outcome = "ok"
                /\ result.sections = Tail(filled)
                /\ r.labels > 0 \/ result.labels = createJobLabels(r.ids)
  OBVIOUS
<1> HIDE DEF result, bad, filled, mismatch
<1>5. CASE mismatch
  BY <1>2, <1>5 DEF Outcome
<1>6. CASE ~mismatch /\ bad # {}
  <2>1. Min(bad) \in 1 .. n /\ filled[Min(bad)].outcome # "ok"
    BY <1>1, <1>4, <1>6
  <2>2. result.outcome = filled[Min(bad)].outcome
    BY <1>2, <1>6 DEF Outcome
  <2> QED
    BY <1>3, <2>1, <2>2
<1>7. CASE ~mismatch /\ bad = {}
  <2>1. /\ result.outcome = "ok" /\ result.sections = Tail(filled)
        /\ r.labels > 0 \/ result.labels = createJobLabels(r.ids)
    BY <1>2, <1>7
  <2>2. \A k \in 1 .. n : fillData(r, sections[k]).outcome = "ok"
    BY <1>3, <1>4, <1>7
  <2> QED
    BY <2>1, <2>2
<1> QED
  BY <1>5, <1>6, <1>7

\* The ways a request ends in a panic.
LEMMA PanicHasCause ==
    ASSUME NEW r \in Requests, Result(r).outcome = "panic"
    PROVE  \/ ~LoadFails(r.ids) /\ LabelsPanic(r.ids)
           \/ r.labels > 0 /\ r.labels # Len(r.ids)
           \/ r.command = "custom" /\ SpecIsValid(r.spec) /\ IsNil(TableOf(r.ids, r.spec.metric))
           \/ r.command # "custom" /\ "time/op" \notin r.skip /\ IsNil(Table(r.ids, "time/op"))
<1>1. ComesTo(r, Result(r))
  BY ResultComesTo
<1>2. CASE Result(r) = Outcome("error")
  BY <1>2 DEF Outcome
<1>3. CASE Result(r) = Outcome("panic") /\ ~LoadFails(r.ids) /\ LabelsPanic(r.ids)
  BY <1>3
<1>4. ASSUME NEW asked \in Seq(Asked(r)), Result(r) = WriteReport(r, JobsTable \o asked),
             r.command = "custom" => SpecIsValid(r.spec),
             ~(r.labels > 0 /\ r.labels # Len(r.ids))
      PROVE  \/ r.command = "custom" /\ SpecIsValid(r.spec) /\ IsNil(TableOf(r.ids, r.spec.metric))
             \/ r.command # "custom" /\ "time/op" \notin r.skip /\ IsNil(Table(r.ids, "time/op"))
  <2> DEFINE sections == JobsTable \o asked
             n == Len(asked) + 1
  <2>1. n \in Nat /\ DOMAIN sections = 1 .. n
    <3>1. sections \in Seq({JobsTable[1]} \union Asked(r)) /\ Len(sections) = n
      BY JobsTableFirst
    <3> HIDE DEF Asked
    <3>2. Len(asked) \in Nat
      BY LenProperties
    <3> QED
      BY <3>1, <3>2, LenProperties
  <2>2. PICK k \in 1 .. n : fillData(r, sections[k]).outcome = "panic"
    <3> HIDE DEF sections, n
    <3>1. WriteReport(r, sections).outcome = "panic"
      BY <1>4 DEF sections
    <3> QED
      BY <1>4, <2>1, <3>1, WriteReportOutcome
  <2>3. sections[k].type # "jobs table" /\ IsNil(TableOf(r.ids, sections[k].metric))
    BY <2>2, FillDataOutcome
  <2>4. sections[k] \in Asked(r)
    <3>1. JobsTable[1].type = "jobs table" /\ sections[1] = JobsTable[1]
      BY JobsTableFirst DEF JobsTable, Section
    <3>2. k # 1
      BY <2>3, <3>1
    <3>3. k \in 2 .. Len(asked) + 1
      BY <3>2
    <3> QED
      BY <3>3, JobsTableFirst
  <2>5. MayShow(r, sections[k].metric)
    BY <2>4 DEF Asked
  <2> HIDE DEF sections
  <2>6. CASE r.command = "custom"
    BY <1>4, <2>3, <2>5, <2>6 DEF MayShow
  <2>7. CASE r.command # "custom"
    <3>1. TableOf(r.ids, "speed") = Table(r.ids, "speed")
          /\ TableOf(r.ids, "time/op") = Table(r.ids, "time/op")
      BY DEF TableOf
    <3>2. sections[k].metric # "speed"
      BY <2>3, <2>5, <2>7, <3>1 DEF MayShow, HasSpeed
    <3> QED
      BY <2>3, <2>5, <2>7, <3>1, <3>2 DEF MayShow
  <2> QED
    BY <2>6, <2>7
<1> QED
  BY <1>1, <1>2, <1>3, <1>4 DEF ComesTo

\* A report is a function of the archive.
LEMMA SameArchiveSameReports ==
    ASSUME archive' = archive
    PROVE  \A r : Result(r)' = Result(r)
<1>1. \A id : IsLoadable(id)' = IsLoadable(id)
  BY DEF IsLoadable
<1>2. \A id : Sliceable(id)' = Sliceable(id)
  BY DEF Sliceable
<1>3. \A id : Short(id)' = Short(id)
  BY <1>2 DEF Short
<1>4. \A way, id : Label(way, id)' = Label(way, id)
  BY <1>3 DEF Label
<1>5. \A way, id : Slices(way, id)' = Slices(way, id)
  BY DEF Slices
<1>6. \A way, ids : Labels(way, ids)' = Labels(way, ids)
  BY <1>4 DEF Labels
<1>7. \A ids : LabelWay(ids)' = LabelWay(ids)
  <2> SUFFICES ASSUME NEW ids PROVE LabelWay(ids)' = LabelWay(ids)
    OBVIOUS
  <2>1. {way \in 1 .. 4 : ~HasDuplicates(Labels(way, ids))}' =
          {way \in 1 .. 4 : ~HasDuplicates(Labels(way, ids))}
    BY <1>6 DEF HasDuplicates, IsInjective
  <2> QED
    BY <2>1 DEF LabelWay
<1>8. \A ids : createJobLabels(ids)' = createJobLabels(ids)
  BY <1>6, <1>7 DEF createJobLabels
<1>9. \A ids : LabelsPanic(ids)' = LabelsPanic(ids)
  BY <1>2, <1>5, <1>7 DEF LabelsPanic
<1>10. \A id, b, metric : Cell(id, b, metric)' = Cell(id, b, metric)
  BY DEF Cell
<1>11. \A ids, b, metric : Row(ids, b, metric)' = Row(ids, b, metric)
  BY <1>10 DEF Row
<1>12. \A ids, b, metric : InTable(ids, b, metric)' = InTable(ids, b, metric)
  BY <1>10 DEF InTable
<1>13. \A ids, metric : Table(ids, metric)' = Table(ids, metric)
  BY <1>11, <1>12 DEF Table
<1>14. \A ids : HasSpeed(ids)' = HasSpeed(ids)
  BY <1>13 DEF HasSpeed, IsNil
<1>15. \A ids : LoadFails(ids)' = LoadFails(ids)
  BY <1>1 DEF LoadFails
<1>16. \A ids : NoTables(ids)' = NoTables(ids)
  BY <1>13 DEF NoTables, IsNil
<1>17. \A ids, metric : TableOf(ids, metric)' = TableOf(ids, metric)
  BY <1>13 DEF TableOf, invertTimeOpTable
<1>18. \A r, section : fillData(r, section)' = fillData(r, section)
  BY <1>17 DEF fillData, IsNil
<1>19. \A r, types : SpeedSections(r, types)' = SpeedSections(r, types)
  BY <1>14 DEF SpeedSections
<1>20. \A r, types : BothMetrics(r, types)' = BothMetrics(r, types)
  BY <1>19 DEF BothMetrics
<1>21. \A ids : CreateDataTable(ids)' = CreateDataTable(ids)
  BY <1>9, <1>15, <1>16 DEF CreateDataTable
<1>22. \A r, sections : WriteReport(r, sections)' = WriteReport(r, sections)
  <2> SUFFICES ASSUME NEW r, NEW sections PROVE WriteReport(r, sections)' = WriteReport(r, sections)
    OBVIOUS
  <2>1. [k \in DOMAIN sections |-> fillData(r, sections[k])]' =
          [k \in DOMAIN sections |-> fillData(r, sections[k])]
    BY <1>18
  <2> DEFINE filled == [k \in DOMAIN sections |-> fillData(r, sections[k])]
             Written(sectionsFilled, ownLabels) ==
               LET bad == {k \in DOMAIN sectionsFilled : sectionsFilled[k].outcome # "ok"}
               IN  IF r.labels > 0 /\ r.labels # Len(r.ids) THEN Outcome("panic")
                   ELSE IF bad # {} THEN Outcome(sectionsFilled[Min(bad)].outcome)
                   ELSE [outcome |-> "ok", sections |-> Tail(sectionsFilled),
                         labels |-> IF r.labels > 0 THEN << >> ELSE ownLabels]
  <2> HIDE DEF filled, Written
  <2>2. filled' = filled
    BY <2>1 DEF filled
  <2>3. WriteReport(r, sections) = Written(filled, createJobLabels(r.ids))
    BY DEF WriteReport, Written, filled
  <2>4. WriteReport(r, sections)' = Written(filled', createJobLabels(r.ids)')
    BY DEF WriteReport, Written, filled
  <2> QED
    BY <1>8, <2>2, <2>3, <2>4
<1>23. \A r, argumentsFit, sections :
         Command(r, argumentsFit, sections)' = Command(r, argumentsFit, sections)
  BY <1>21, <1>22 DEF Command
<1>24. \A r : basicReport(r)' = basicReport(r) 
  BY <1>20, <1>23 DEF basicReport
<1>25. \A r : singleReport(r)' = singleReport(r)
  BY <1>20, <1>23 DEF singleReport
<1>26. \A r : comparativeReport(r)' = comparativeReport(r)
  BY <1>20, <1>23 DEF comparativeReport
<1>27. \A r : trendReport(r)' = trendReport(r)
  BY <1>20, <1>23 DEF trendReport
<1>28. \A r : customReport(r)' = customReport(r)
  BY <1>21, <1>23 DEF customReport
<1>29. \A r : serveJobResultsPlot(r)' = serveJobResultsPlot(r)
  BY <1>19, <1>23 DEF serveJobResultsPlot
<1> QED
  BY <1>24, <1>25, <1>26, <1>27, <1>28, <1>29 DEF Result
LEMMA ReportsInvInit == Init => ReportsInv
BY FinishedAssumption DEF Init, ReportsInit, ReportsInv, ArchiveInv, ReportIsCurrent

\* Only EndJob adds to the archive, when no report is shown.
LEMMA ReportsInvStep ==
    ExecutionInv /\ ReportsInv /\ [Next]_vars => ReportsInv'
<1> SUFFICES ASSUME ExecutionInv, ReportsInv, [Next]_vars PROVE ReportsInv'
  OBVIOUS
<1>1. ASSUME UNCHANGED <<archive, report>>, waitFailed => waitFailed',
             report # NoReport => worker' = "idle"
      PROVE  ReportsInv'
  <2>1. ArchiveInv'
    BY <1>1 DEF ReportsInv, ArchiveInv
  <2>2. ReportIsCurrent'
    BY <1>1, SameArchiveSameReports DEF ReportsInv, ReportIsCurrent, NoReport
  <2> QED
    BY <2>1, <2>2 DEF ReportsInv
<1>2. CASE /\ NewJobId \notin DOMAIN archive /\ report = NoReport
           /\ \E ref \in Refs : BeginJob(ref)
           /\ UNCHANGED <<archive, report>>
  BY <1>1, <1>2 DEF BeginJob
<1>3. CASE ExecutionStep /\ UNCHANGED <<archive, report>>
  <2>1. worker = "idle" => worker' = "idle"
    BY <1>3 DEF ExecutionStep, WorkerNext, PrepareFails, StartScript, WaitScript, WaitFails,
       UploadArtifact, Artifacts, FinishJob, ScriptNext, Prepare, RecordTo, StartTests, EndTests,
       TeeFails, RunTrap, KillScript, TestsPrint, TestsEnd, Tee, Copy, HolderEnds, LeftoverEnds,
       workerVars
  <2>2. waitFailed => waitFailed'
    BY <1>3 DEF ExecutionStep, WorkerNext, PrepareFails, StartScript, WaitScript, WaitFails,
       UploadArtifact, Artifacts, FinishJob, ScriptNext, Prepare, RecordTo, StartTests, EndTests,
       TeeFails, RunTrap, KillScript, TestsPrint, TestsEnd, Tee, Copy, HolderEnds, LeftoverEnds,
       workerVars
  <2> QED
    BY <1>1, <1>3, <2>1, <2>2 DEF ReportsInv, ReportIsCurrent
<1>4. CASE /\ EndJob
           /\ archive' = [id \in DOMAIN archive \union {NewJobId} |->
                            IF id = NewJobId THEN stored ELSE archive[id]]
           /\ UNCHANGED report
  <2>1. worker = "done" /\ waitFailed' = waitFailed
    BY <1>4 DEF EndJob
  <2>2. report = NoReport /\ report' = NoReport
    BY <1>4, <2>1 DEF ReportsInv, ReportIsCurrent
  <2>3. "results" \in stored.artifacts => stored.SHA \in SHAs \/ waitFailed
    BY ResolvesToCommits DEF ExecutionInv, StoredInv, ResultsInv
  <2>4. ASSUME NEW id \in DOMAIN archive'
        PROVE  /\ "results" \in archive'[id].artifacts => archive'[id].SHA \in SHAs \/ waitFailed'
               /\ \A b \in archive'[id].lines \intersect (Timed \union Sized) :
                     Samples[id][b] \in Measured
    <3>1. CASE id = NewJobId
      BY <1>4, <2>1, <2>3, <3>1, NewSamplesAssumption
    <3>2. CASE id # NewJobId
      <4>1. id \in DOMAIN archive /\ archive'[id] = archive[id]
        BY <1>4, <3>2
      <4> QED
        BY <2>1, <4>1 DEF ReportsInv, ArchiveInv
    <3> QED
      BY <3>1, <3>2
  <2> QED
    BY <2>2, <2>4 DEF ReportsInv, ArchiveInv, ReportIsCurrent
<1>5. CASE worker = "idle" /\ ReportsNext /\ UNCHANGED executionVars
  <2>1. archive' = archive /\ waitFailed' = waitFailed /\ worker' = "idle"
    BY <1>5 DEF ReportsNext, MakeReport, Dismiss, executionVars, workerVars
  <2>2. ArchiveInv'
    BY <2>1 DEF ReportsInv, ArchiveInv
  <2>3. CASE Dismiss
    BY <2>2, <2>3 DEF Dismiss, ReportsInv, ReportIsCurrent, NoReport
  <2>4. ASSUME NEW r \in Requests, MakeReport(r) PROVE ReportIsCurrent'
    <3>1. report'.request = r /\ report'.result = Result(r)
      BY <2>4 DEF MakeReport
    <3>2. Result(r)' = Result(r)
      BY <2>1, SameArchiveSameReports
    <3> QED
      BY <2>1, <3>1, <3>2 DEF ReportIsCurrent
  <2> QED
    BY <1>5, <2>2, <2>3, <2>4 DEF ReportsNext, ReportsInv
<1>6. CASE UNCHANGED vars
  BY <1>1, <1>6 DEF vars, executionVars, workerVars, ReportsInv, ReportIsCurrent
<1> QED
  BY <1>2, <1>3, <1>4, <1>5, <1>6 DEF Next

\* Jobs are in the archive as reports need them, and no report is shown that would come out
\* differently now: jobs that are over do not change (the upload and the final update of
\* processJob; CreateDataTable).
THEOREM ReportsAreCurrent == Spec => []ReportsInv
<1>1. Init => ReportsInv
  BY ReportsInvInit
<1>2. ExecutionInv /\ ReportsInv /\ [Next]_vars => ReportsInv'
  BY ReportsInvStep
<1> QED
  BY <1>1, <1>2, ExecutionTypeCorrect, PTL DEF Spec

\* A job with results has a SHA to cut a label from.
LEMMA LabelsPanicForWait ==
    ASSUME ArchiveInv, NEW ids, ~LoadFails(ids), LabelsPanic(ids)
    PROVE  waitFailed
<1>1. PICK i \in DOMAIN ids : ~Sliceable(ids[i])
  BY DEF LabelsPanic
<1>2. IsLoadable(ids[i])
  BY DEF LoadFails
<1> QED
  BY <1>1, <1>2 DEF ArchiveInv, IsLoadable, Sliceable

LEMMA CurrentReportPanicsForCause == ReportsInv => PanicsForCause
<1> SUFFICES ASSUME ReportsInv, report.result.outcome = "panic" PROVE PanicsForCause
  BY DEF PanicsForCause
<1>1. report # NoReport
  BY DEF NoReport
<1>2. report.request \in Requests /\ report.result = Result(report.request)
  BY <1>1 DEF ReportsInv, ReportIsCurrent
<1> DEFINE r == report.request
<1>3. \/ ~LoadFails(r.ids) /\ LabelsPanic(r.ids)
      \/ r.labels > 0 /\ r.labels # Len(r.ids)
      \/ r.command = "custom" /\ SpecIsValid(r.spec) /\ IsNil(TableOf(r.ids, r.spec.metric))
      \/ r.command # "custom" /\ "time/op" \notin r.skip /\ IsNil(Table(r.ids, "time/op"))
  <2>1. Result(r).outcome = "panic"
    BY <1>2
  <2> HIDE DEF r
  <2>2. r \in Requests
    BY <1>2 DEF r
  <2> QED
    BY <2>1, <2>2, PanicHasCause
<1>4. ~LoadFails(r.ids) /\ LabelsPanic(r.ids) => waitFailed
  BY LabelsPanicForWait DEF ReportsInv
<1> QED
  BY <1>3, <1>4 DEF PanicsForCause, Ids

\* Job ids differ, so some way of labelling tells the jobs apart.
LEMMA LabelWayFound ==
    ASSUME NEW ids, IsInjective(ids)
    PROVE  /\ LabelWay(ids) \in 1 .. 4
           /\ ~HasDuplicates(Labels(LabelWay(ids), ids))
           /\ \A way \in 1 .. 4 : way < LabelWay(ids) => HasDuplicates(Labels(way, ids))
<1> DEFINE Ways == {way \in 1 .. 4 : ~HasDuplicates(Labels(way, ids))}
<1>1. 4 \in Ways
  <2>1. \A i \in DOMAIN ids : Labels(4, ids)[i] = <<ids[i]>>
    BY DEF Labels, Label
  <2>2. IsInjective(Labels(4, ids))
    BY <2>1 DEF IsInjective, Labels
  <2> QED
    BY <2>2 DEF HasDuplicates
<1>2. PICK way \in Ways : \A w \in Ways : way <= w
  <2>1. Ways \subseteq Nat /\ Ways # {}
    BY <1>1
  <2> HIDE DEF Ways
  <2> QED
    BY <2>1, LeastNumber
<1>3. LabelWay(ids) \in Ways /\ \A w \in Ways : LabelWay(ids) <= w
  <2> HIDE DEF Ways
  <2>1. Min(Ways) \in Ways /\ \A w \in Ways : Min(Ways) <= w
    BY <1>2 DEF Min
  <2>2. LabelWay(ids) = Min(Ways)
    BY DEF LabelWay, Ways
  <2> QED
    BY <2>1, <2>2
<1> QED
  BY <1>3

\* Ids appear as labels only if two jobs agree on the third way to label them.
LEMMA OwnLabelsTellApart ==
    ASSUME NEW ids, IsInjective(ids)
    PROVE  /\ \A i, j \in DOMAIN ids : i # j => createJobLabels(ids)[i] # createJobLabels(ids)[j]
           /\ (\E i \in DOMAIN ids :
                  /\ createJobLabels(ids)[i] = <<ids[i]>>
                  /\ ids[i] \notin {archive[ids[i]].ref, Short(ids[i])}) =>
                \E i, j \in DOMAIN ids :
                  /\ i # j
                  /\ archive[ids[i]].ref = archive[ids[j]].ref
                  /\ archive[ids[i]].GoVersion = archive[ids[j]].GoVersion
<1>1. createJobLabels(ids) = Labels(LabelWay(ids), ids)
  BY DEF createJobLabels
<1>2. \A i, j \in DOMAIN ids : i # j => createJobLabels(ids)[i] # createJobLabels(ids)[j]
  BY <1>1, LabelWayFound DEF HasDuplicates, IsInjective, Labels
<1>3. ASSUME NEW i \in DOMAIN ids, createJobLabels(ids)[i] = <<ids[i]>>,
             ids[i] \notin {archive[ids[i]].ref, Short(ids[i])}
      PROVE  \E k, j \in DOMAIN ids :
                /\ k # j
                /\ archive[ids[k]].ref = archive[ids[j]].ref
                /\ archive[ids[k]].GoVersion = archive[ids[j]].GoVersion
  <2>1. Label(LabelWay(ids), ids[i]) = <<ids[i]>>
    BY <1>1, <1>3 DEF Labels
  <2>2. Label(1, ids[i]) # <<ids[i]>>
    BY <1>3 DEF Label
  <2>3. Label(2, ids[i]) # <<ids[i]>>
    BY <1>3 DEF Label
  <2>4. Label(3, ids[i]) # <<ids[i]>>
    BY DEF Label
  <2>5. 3 < LabelWay(ids)
    BY <2>1, <2>2, <2>3, <2>4, LabelWayFound
  <2>6. HasDuplicates(Labels(3, ids))
    BY <2>5, LabelWayFound
  <2>7. PICK k \in DOMAIN ids, j \in DOMAIN ids : k # j /\ Label(3, ids[k]) = Label(3, ids[j])
    BY <2>6 DEF HasDuplicates, IsInjective, Labels
  <2>8. \A id : Label(3, id) = <<archive[id].ref, archive[id].GoVersion>>
    BY DEF Label
  <2> QED
    BY <2>7, <2>8
<1> QED
  BY <1>2, <1>3

\* What a report that is made shows.
LEMMA MadeReport ==
    ASSUME NEW r \in Requests, Result(r).outcome = "ok"
    PROVE  /\ ~LoadFails(r.ids)
           /\ r.labels > 0 \/ Result(r).labels = createJobLabels(r.ids)
           /\ \A k \in DOMAIN Result(r).sections : \E section \in Asked(r) :
                Result(r).sections[k] = fillData(r, section) /\ fillData(r, section).outcome = "ok"
<1>1. ComesTo(r, Result(r))
  BY ResultComesTo
<1>2. PICK asked \in Seq(Asked(r)) : Result(r) = WriteReport(r, JobsTable \o asked)
  BY <1>1 DEF ComesTo, Outcome
<1>3. ~LoadFails(r.ids)
  BY <1>1 DEF ComesTo, Outcome
<1> DEFINE sections == JobsTable \o asked
           n == Len(asked) + 1
           filled == [k \in 1 .. n |-> fillData(r, sections[k])]
           F == {fillData(r, sections[k]) : k \in 1 .. n}
<1>4. n \in Nat /\ DOMAIN sections = 1 .. n /\ \A k \in 2 .. n : sections[k] \in Asked(r)
  <2>1. /\ sections \in Seq({JobsTable[1]} \union Asked(r)) /\ Len(sections) = n
        /\ \A k \in 2 .. n : sections[k] \in Asked(r)
    BY JobsTableFirst
  <2> HIDE DEF Asked, sections
  <2>2. Len(asked) \in Nat
    BY LenProperties
  <2> QED
    BY <2>1, <2>2, LenProperties
<1>5. /\ \A k \in 1 .. n : fillData(r, sections[k]).outcome = "ok"
      /\ Result(r).sections = Tail(filled)
      /\ r.labels > 0 \/ Result(r).labels = createJobLabels(r.ids)
  <2> HIDE DEF sections, n
  <2>1. Result(r) = WriteReport(r, sections)
    BY <1>2 DEF sections
  <2> QED
    BY <1>4, <2>1, WriteReportOutcome
<1>6. filled \in Seq(F) /\ Len(filled) = n /\ filled # << >>
  <2> HIDE DEF sections, n, F
  <2>1. filled \in [1 .. n -> F]
    BY DEF F
  <2>2. filled \in Seq(F)
    BY <1>4, <2>1, IsASeq
  <2>3. Len(filled) = n
    BY <1>4, <2>1, <2>2
  <2>4. n # 0
    <3>1. Len(asked) \in Nat
      BY LenProperties
    <3> QED
      BY <3>1 DEF n
  <2> HIDE DEF filled
  <2> QED
    BY <2>2, <2>3, <2>4, EmptySeq
<1>7. /\ DOMAIN Tail(filled) = 1 .. n - 1
      /\ \A k \in 1 .. n - 1 : Tail(filled)[k] = filled[k + 1]
  <2> HIDE DEF filled, F, n
  <2>1. Len(Tail(filled)) = n - 1 /\ Tail(filled) \in Seq(F)
        /\ \A i \in 1 .. Len(Tail(filled)) : Tail(filled)[i] = filled[i + 1]
    BY <1>6, HeadTailProperties
  <2> QED
    BY <2>1, LenProperties
<1>8. ASSUME NEW k \in DOMAIN Result(r).sections
      PROVE  \E section \in Asked(r) :
                Result(r).sections[k] = fillData(r, section) /\ fillData(r, section).outcome = "ok"
  <2>1. k + 1 \in 1 .. n /\ k + 1 \in 2 .. n /\ Result(r).sections[k] = filled[k + 1]
    <3> HIDE DEF filled, n
    <3> QED
      BY <1>4, <1>5, <1>7, <1>8
  <2>2. sections[k + 1] \in Asked(r)
    <3> HIDE DEF sections, n
    <3> QED
      BY <1>4, <2>1
  <2>3. Result(r).sections[k] = fillData(r, sections[k + 1])
    BY <2>1
  <2>4. fillData(r, sections[k + 1]).outcome = "ok"
    BY <1>5, <2>1
  <2> HIDE DEF sections
  <2> QED
    BY <2>2, <2>3, <2>4
<1> QED
  BY <1>3, <1>5, <1>8

LEMMA RateOfMeasured ==
    /\ Rate(<< >>) = << >>
    /\ \A s \in Measured : s # << >> /\ Rate(s) # << >> /\ 1 \in DOMAIN s
<1>1. Rate(<< >>) = << >>
  BY DEF Rate
<1>2. ASSUME NEW s \in Measured PROVE s # << >> /\ Rate(s) # << >> /\ 1 \in DOMAIN s
  <2>1. s \in Seq(Nat \ {0}) /\ s # << >>
    BY DEF Measured
  <2>2. 1 \in DOMAIN s
    BY <2>1
  <2>3. 1 \in DOMAIN Rate(s)
    BY <2>2 DEF Rate
  <2> QED
    BY <2>1, <2>2, <2>3
<1> QED
  BY <1>1, <1>2

\* A cell holds what its job measured.
LEMMA CellHolds ==
    ASSUME ArchiveInv, NEW id \in DOMAIN archive, NEW b
    PROVE  /\ Cell(id, b, "time/op") = Value(id, b, "time/op")
           /\ Cell(id, b, "speed") = Value(id, b, "speed")
           /\ Rate(Cell(id, b, "time/op")) = Value(id, b, "op/s")
           /\ Cell(id, b, "time/op") # << >> <=> HasMeasured(id, b, "time/op")
           /\ Cell(id, b, "speed") # << >> <=> HasMeasured(id, b, "speed")
<1>1. b \in archive[id].lines /\ b \in Timed \union Sized => Samples[id][b] \in Measured
  BY DEF ArchiveInv
<1>2. Cell(id, b, "time/op") = IF HasMeasured(id, b, "time/op") THEN Samples[id][b] ELSE << >>
  BY DEF Cell, HasMeasured, MeasuredLines
<1>3. Cell(id, b, "speed") = IF HasMeasured(id, b, "speed") THEN Rate(Samples[id][b]) ELSE << >>
  BY DEF Cell, HasMeasured, MeasuredLines
<1>4. HasMeasured(id, b, "time/op") \/ HasMeasured(id, b, "speed") => Samples[id][b] \in Measured
  BY <1>1 DEF HasMeasured, MeasuredLines
<1>5. HasMeasured(id, b, "op/s") <=> HasMeasured(id, b, "time/op")
  BY DEF HasMeasured, MeasuredLines
<1>6. /\ Cell(id, b, "time/op") = Value(id, b, "time/op")
      /\ Cell(id, b, "speed") = Value(id, b, "speed")
  BY <1>2, <1>3 DEF Value
<1>7. Rate(Cell(id, b, "time/op")) = Value(id, b, "op/s")
  BY <1>2, <1>5, RateOfMeasured DEF Value
<1> QED
  BY <1>2, <1>3, <1>4, <1>6, <1>7, RateOfMeasured

\* So do the rows of a table, and it has the rows that it should have.
LEMMA TableHolds ==
    ASSUME ArchiveInv, NEW ids \in Seq(STRING), \A i \in DOMAIN ids : ids[i] \in DOMAIN archive,
           NEW metric \in Metrics
    PROVE  /\ \A b \in DOMAIN TableOf(ids, metric) :
                TableOf(ids, metric)[b] = [i \in DOMAIN ids |-> Value(ids[i], b, metric)]
           /\ \A b \in Benchmarks :
                b \in DOMAIN TableOf(ids, metric) <=>
                  IF Len(ids) = 2
                  THEN HasMeasured(ids[1], b, metric) /\ HasMeasured(ids[2], b, metric)
                  ELSE \E i \in DOMAIN ids : HasMeasured(ids[i], b, metric)
<1>1. ASSUME NEW b, NEW base \in {"time/op", "speed"}
      PROVE  /\ Row(ids, b, base) = [i \in DOMAIN ids |-> Value(ids[i], b, base)]
             /\ InTable(ids, b, base) <=>
                  IF Len(ids) = 2
                  THEN HasMeasured(ids[1], b, base) /\ HasMeasured(ids[2], b, base)
                  ELSE \E i \in DOMAIN ids : HasMeasured(ids[i], b, base)
  <2>1. \A i \in DOMAIN ids : /\ Cell(ids[i], b, base) = Value(ids[i], b, base)
                              /\ Cell(ids[i], b, base) # << >> <=> HasMeasured(ids[i], b, base)
    BY CellHolds
  <2>2. Row(ids, b, base) = [i \in DOMAIN ids |-> Value(ids[i], b, base)]
    BY <2>1 DEF Row
  <2> DEFINE having == {i \in DOMAIN ids : Cell(ids[i], b, base) # << >>}
  <2>3. InTable(ids, b, base) <=> IF Len(ids) = 2 THEN having = {1, 2} ELSE having # {}
    BY DEF InTable
  <2>4. \A i : i \in having <=> i \in DOMAIN ids /\ HasMeasured(ids[i], b, base)
    BY <2>1
  <2> HIDE DEF having
  <2>5. Len(ids) = 2 =>
          (having = {1, 2} <=> HasMeasured(ids[1], b, base) /\ HasMeasured(ids[2], b, base))
    <3>1. Len(ids) = 2 => DOMAIN ids = {1, 2}
      OBVIOUS
    <3> QED
      BY <2>4, <3>1
  <2>6. having # {} <=> \E i \in DOMAIN ids : HasMeasured(ids[i], b, base)
    BY <2>4
  <2> QED
    BY <2>2, <2>3, <2>5, <2>6
<1>2. CASE metric = "time/op"
  BY <1>1, <1>2 DEF TableOf, Table
<1>3. CASE metric \in {"speed", "throughput"}
  <2>1. \A id, b : /\ Value(id, b, metric) = Value(id, b, "speed")
                   /\ HasMeasured(id, b, metric) <=> HasMeasured(id, b, "speed")
    BY <1>3 DEF Value, HasMeasured, MeasuredLines
  <2>2. TableOf(ids, metric) = Table(ids, "speed")
    BY <1>3 DEF TableOf
  <2> QED
    BY <1>1, <2>1, <2>2 DEF Table
<1>4. CASE metric \in {"op/s", "msg/s"}
  <2>1. \A id, b : /\ Value(id, b, metric) = Value(id, b, "op/s")
                   /\ HasMeasured(id, b, metric) <=> HasMeasured(id, b, "time/op")
    BY <1>4 DEF Value, HasMeasured, MeasuredLines
  <2>2. TableOf(ids, metric) = invertTimeOpTable(Table(ids, "time/op"))
    BY <1>4 DEF TableOf
  <2>3. DOMAIN TableOf(ids, metric) = DOMAIN Table(ids, "time/op")
    BY <2>2 DEF invertTimeOpTable
  <2>4. ASSUME NEW b \in DOMAIN Table(ids, "time/op")
        PROVE  TableOf(ids, metric)[b] = [i \in DOMAIN ids |-> Value(ids[i], b, metric)]
    <3>1. Table(ids, "time/op")[b] = Row(ids, b, "time/op")
      BY DEF Table
    <3>2. TableOf(ids, metric)[b] = [i \in DOMAIN Row(ids, b, "time/op") |-> Rate(Row(ids, b, "time/op")[i])]
      BY <2>2, <3>1 DEF invertTimeOpTable
    <3>3. \A i \in DOMAIN ids : Rate(Cell(ids[i], b, "time/op")) = Value(ids[i], b, metric)
      BY <2>1, CellHolds
    <3>4. DOMAIN Row(ids, b, "time/op") = DOMAIN ids
          /\ \A i \in DOMAIN ids : Row(ids, b, "time/op")[i] = Cell(ids[i], b, "time/op")
      BY DEF Row
    <3> QED
      BY <3>2, <3>3, <3>4
  <2>5. \A b \in Benchmarks : b \in DOMAIN Table(ids, "time/op") <=> InTable(ids, b, "time/op")
    BY DEF Table
  <2> QED
    BY <1>1, <2>1, <2>3, <2>4, <2>5
<1> QED
  BY <1>2, <1>3, <1>4 DEF Metrics

\* A report that is made, section by section.
LEMMA SectionShown ==
    ASSUME ReportsInv, IsMade, NEW k \in DOMAIN report.result.sections
    PROVE  /\ ReportIsCurrent /\ report # NoReport
           /\ \E section \in AllSections :
                LET table == TableOf(Ids, section.metric) IN
                /\ IsDelta(section) => Len(Ids) = 2
                /\ report.result.sections[k] =
                     [outcome |-> "ok", type |-> section.type, metric |-> section.metric,
                      rows |-> [b \in DOMAIN table \intersect report.request.filter |->
                                  SectionRow(section, table[b], report.request.significant)]]
<1>1. report # NoReport
  BY DEF NoReport, IsMade
<1>2. report.request \in Requests /\ report.result = Result(report.request)
  BY <1>1 DEF ReportsInv, ReportIsCurrent
<1> DEFINE r == report.request
<1>3. PICK section \in Asked(r) :
        Result(r).sections[k] = fillData(r, section) /\ fillData(r, section).outcome = "ok"
  <2>1. Result(r).outcome = "ok" /\ r \in Requests /\ k \in DOMAIN Result(r).sections
    BY <1>2 DEF IsMade
  <2> HIDE DEF r
  <2> QED
    BY <2>1, MadeReport
<1>4. section \in AllSections /\ section.type # "jobs table"
  BY DEF Asked, AllSections, SectionTypes
<1>5. /\ IsDelta(section) => IsComparison(r.ids)
      /\ fillData(r, section) =
           [outcome |-> "ok", type |-> section.type, metric |-> section.metric,
            rows |-> [b \in DOMAIN TableOf(r.ids, section.metric) \intersect r.filter |->
                        SectionRow(section, TableOf(r.ids, section.metric)[b], r.significant)]]
  BY <1>3, <1>4, FillDataOutcome
<1> QED
  BY <1>1, <1>2, <1>3, <1>4, <1>5 DEF IsComparison, Ids, ReportsInv

\* The jobs of a report that is made.
LEMMA JobsShown ==
    ASSUME ReportsInv, IsMade
    PROVE  /\ report.request \in Requests /\ report.request.ids = Ids
           /\ Ids \in Seq(STRING) /\ Ids # << >> /\ IsInjective(Ids)
           /\ \A i \in DOMAIN Ids : Ids[i] \in DOMAIN archive
           /\ report.request.filter \subseteq Benchmarks
<1>1. report # NoReport
  BY DEF NoReport, IsMade
<1>2. report.request \in Requests /\ report.result = Result(report.request)
  BY <1>1 DEF ReportsInv, ReportIsCurrent
<1>3. report.request \in ReportRequests
  BY <1>2, RequestsAssumption
<1>4. ~LoadFails(Ids)
  BY <1>2, MadeReport DEF IsMade, Ids
<1> QED
  BY <1>2, <1>3, <1>4 DEF LoadFails, IsLoadable, ReportRequests, Ids

LEMMA PrefixOfPair ==
    ASSUME NEW s, NEW x, DOMAIN s = {1, 2}, s = [i \in 1 .. 2 |-> s[i]]
    PROVE  IsPrefix(s, s) /\ IsPrefix(s, <<s[1], s[2], x>>)
<1>1. s = <<s[1], s[2]>>
  OBVIOUS
<1>2. SubSeq(<<s[1], s[2]>>, 1, 2) = SubSeq(<<s[1], s[2], x>>, 1, 2)
  OBVIOUS
<1>3. Len(s) = 2 /\ Len(<<s[1], s[2], x>>) = 3
  BY <1>1
<1> QED
  BY <1>1, <1>2, <1>3 DEF IsPrefix

LEMMA CurrentReportKeepsColumns == ReportsInv => ColumnsBelongToJobs
<1> SUFFICES ASSUME ReportsInv, IsMade, NEW k \in DOMAIN report.result.sections
             PROVE
        LET section == report.result.sections[k]
            measured(i, b) == HasMeasured(Ids[i], b, section.metric)
            columns(b) == [i \in DOMAIN Ids |-> Value(Ids[i], b, section.metric)]
        IN  /\ \A b \in DOMAIN section.rows :
                 IF section.type = "box chart" THEN section.rows[b] = <<columns(b)[1]>>
                 ELSE IsPrefix(columns(b), section.rows[b])
            /\ \A b \in report.request.filter :
                 b \in DOMAIN section.rows <=>
                    IF Len(Ids) = 2 THEN measured(1, b) /\ measured(2, b)
                    ELSE \E i \in DOMAIN Ids : measured(i, b)
  BY DEF ColumnsBelongToJobs
<1> DEFINE section == report.result.sections[k]
           columns(b) == [i \in DOMAIN Ids |-> Value(Ids[i], b, section.metric)]
<1>1. PICK asked \in AllSections :
        LET table == TableOf(Ids, asked.metric) IN
        /\ IsDelta(asked) => Len(Ids) = 2
        /\ section = [outcome |-> "ok", type |-> asked.type, metric |-> asked.metric,
                      rows |-> [b \in DOMAIN table \intersect report.request.filter |->
                                  SectionRow(asked, table[b], report.request.significant)]]
  BY SectionShown
<1> DEFINE table == TableOf(Ids, section.metric)
<1>2. /\ section.type = asked.type /\ section.metric = asked.metric
      /\ DOMAIN section.rows = DOMAIN table \intersect report.request.filter
      /\ \A b \in DOMAIN section.rows :
            section.rows[b] = SectionRow(asked, table[b], report.request.significant)
  BY <1>1
<1>3. /\ Ids \in Seq(STRING) /\ Ids # << >> /\ \A i \in DOMAIN Ids : Ids[i] \in DOMAIN archive
      /\ report.request.filter \subseteq Benchmarks
  BY JobsShown
<1>4. section.metric \in Metrics
  BY <1>2 DEF AllSections
<1> HIDE DEF section
<1>5. /\ \A b \in DOMAIN table : table[b] = columns(b)
      /\ \A b \in Benchmarks :
           b \in DOMAIN table <=>
             IF Len(Ids) = 2
             THEN HasMeasured(Ids[1], b, section.metric) /\ HasMeasured(Ids[2], b, section.metric)
             ELSE \E i \in DOMAIN Ids : HasMeasured(Ids[i], b, section.metric)
  BY <1>3, <1>4, TableHolds DEF ReportsInv
<1> HIDE DEF table
<1>6. ASSUME NEW b \in DOMAIN section.rows
      PROVE  IF section.type = "box chart" THEN section.rows[b] = <<columns(b)[1]>>
             ELSE IsPrefix(columns(b), section.rows[b])
  <2>1. section.rows[b] = SectionRow(asked, columns(b), report.request.significant)
    BY <1>2, <1>5, <1>6
  <2>2. CASE section.type = "box chart"
    BY <1>2, <2>1, <2>2 DEF SectionRow, BoxRow, IsDelta
  <2>3. CASE section.type # "box chart" /\ IsDelta(asked)
    <3>1. DOMAIN Ids = {1, 2}
      <4>1. Len(Ids) = 2
        BY <1>1, <2>3
      <4> QED
        BY <1>3, <4>1
    <3>2. section.rows[b] = <<columns(b)[1], columns(b)[2],
                              Delta(asked.metric, columns(b), report.request.significant)>>
      BY <1>2, <2>1, <2>3 DEF SectionRow, DeltaRow
    <3>3. DOMAIN columns(b) = {1, 2} /\ columns(b) = [i \in 1 .. 2 |-> columns(b)[i]]
      BY <3>1
    <3> HIDE DEF columns
    <3> QED
      <4>1. \A x : IsPrefix(columns(b), <<columns(b)[1], columns(b)[2], x>>)
        BY <3>3, PrefixOfPair
      <4> QED
        BY <2>3, <3>2, <4>1
  <2>4. CASE section.type # "box chart" /\ ~IsDelta(asked)
    <3>1. section.rows[b] = columns(b)
      BY <1>2, <2>1, <2>4 DEF SectionRow
    <3>2. Len(columns(b)) \in Nat
      <4>1. DOMAIN columns(b) = 1 .. Len(Ids) /\ Len(Ids) \in Nat
        BY <1>3
      <4> HIDE DEF columns
      <4> QED
        BY <4>1
    <3> HIDE DEF columns
    <3>3. IsPrefix(columns(b), columns(b))
      BY <3>2 DEF IsPrefix
    <3> QED
      BY <2>4, <3>1, <3>3
  <2> QED
    BY <2>2, <2>3, <2>4
<1>7. ASSUME NEW b \in report.request.filter
      PROVE  b \in DOMAIN section.rows <=>
               IF Len(Ids) = 2
               THEN HasMeasured(Ids[1], b, section.metric) /\ HasMeasured(Ids[2], b, section.metric)
               ELSE \E i \in DOMAIN Ids : HasMeasured(Ids[i], b, section.metric)
  BY <1>2, <1>3, <1>5
<1> QED
  BY <1>6, <1>7 DEF section

\* The values of the inverse, and that it is one.
LEMMA TwelfthsOf ==
    ASSUME NEW x \in Nat \ {0}
    PROVE  12 \div x = CASE x = 1 -> 12 [] x = 2 -> 6 [] x = 3 -> 4 [] x = 4 -> 3
                         [] x \in {5, 6} -> 2 [] x \in 7 .. 12 -> 1 [] x > 12 -> 0
<1>1. x > 12 => 12 \div x = 0
  OBVIOUS
<1>2. x \in 1 .. 6 => x = 1 \/ x = 2 \/ x = 3 \/ x = 4 \/ x = 5 \/ x = 6
  OBVIOUS
<1>3. x \in 7 .. 12 => x = 7 \/ x = 8 \/ x = 9 \/ x = 10 \/ x = 11 \/ x = 12
  OBVIOUS
<1>4. /\ 12 \div 1 = 12 /\ 12 \div 2 = 6 /\ 12 \div 3 = 4 /\ 12 \div 4 = 3 /\ 12 \div 5 = 2
      /\ 12 \div 6 = 2 /\ 12 \div 7 = 1 /\ 12 \div 8 = 1 /\ 12 \div 9 = 1 /\ 12 \div 10 = 1
      /\ 12 \div 11 = 1 /\ 12 \div 12 = 1
  OBVIOUS
<1>5. x \in 1 .. 6 \/ x \in 7 .. 12 \/ x > 12
  OBVIOUS
<1>6. CASE x \in 1 .. 6
  BY <1>2, <1>4, <1>6
<1>7. CASE x \in 7 .. 12
  BY <1>3, <1>4, <1>7
<1>8. CASE x > 12
  BY <1>1, <1>8
<1> QED
  BY <1>5, <1>6, <1>7, <1>8

LEMMA RateTyped ==
    ASSUME NEW u \in Measured
    PROVE  /\ Rate(u) \in Seq(Nat) /\ Len(Rate(u)) = Len(u) /\ DOMAIN Rate(u) = DOMAIN u
           /\ \A i \in DOMAIN u : u[i] \in Nat \ {0} /\ Rate(u)[i] = 12 \div u[i]
<1>1. u \in Seq(Nat \ {0})
  BY DEF Measured
<1>2. DOMAIN u = 1 .. Len(u) /\ Len(u) \in Nat /\ \A i \in DOMAIN u : u[i] \in Nat \ {0}
  BY <1>1
<1>3. \A x \in Nat \ {0} : 12 \div x \in Nat
  BY TwelfthsOf
<1>4. DOMAIN Rate(u) = 1 .. Len(u) /\ \A i \in DOMAIN u : Rate(u)[i] = 12 \div u[i]
  BY <1>2 DEF Rate
<1>5. Rate(u) \in [1 .. Len(u) -> Nat]
  BY <1>2, <1>3 DEF Rate
<1>6. Rate(u) \in Seq(Nat) /\ Len(Rate(u)) = Len(u)
  BY <1>2, <1>5
<1> QED
  BY <1>2, <1>4, <1>6

\* What takes longer has the lower rate.
LEMMA RatesTurnAround ==
    ASSUME NEW s \in Measured, NEW t \in Measured,
           \A i \in DOMAIN s, k \in DOMAIN t : s[i] < t[k]
    PROVE  /\ Rate(s) \in Seq(Nat) /\ Rate(t) \in Seq(Nat)
           /\ Len(Rate(s)) = Len(s) /\ Len(Rate(t)) = Len(t)
           /\ \A i \in DOMAIN Rate(t), k \in DOMAIN Rate(s) : Rate(t)[i] <= Rate(s)[k]
<1>1. ASSUME NEW x \in Nat \ {0}, NEW y \in Nat \ {0}, x < y
      PROVE  12 \div y <= 12 \div x /\ 12 \div x \in Nat
  BY <1>1, TwelfthsOf
<1> QED
  BY <1>1, RateTyped

\* A difference that is not zero has the sign of the one between the means.
LEMMA SpeedupHasItsColor ==
    ASSUME NEW row, row[1] \in Seq(Nat), row[2] \in Seq(Nat), row[1] # << >>, row[2] # << >>,
           NEW metric, NEW significant \in BOOLEAN, Delta(metric, row, significant).value # 0
    PROVE  /\ (\A i \in DOMAIN row[2], k \in DOMAIN row[1] : row[2][i] <= row[1][k]) =>
                Delta(metric, row, significant).color = SpeedupColor(metric)
           /\ (\A i \in DOMAIN row[1], k \in DOMAIN row[2] : row[1][i] <= row[2][k]) =>
                Delta(metric, row, significant).color = Opposite(SpeedupColor(metric))
<1> DEFINE before == Sum(row[1]) * Len(row[2])
           after == Sum(row[2]) * Len(row[1])
           pct == PctDelta(metric, row, significant)
<1>1. before \in Nat /\ after \in Nat
  <2>1. Sum(row[1]) \in Nat /\ Sum(row[2]) \in Nat
    BY SumBounds
  <2>2. Len(row[1]) \in Nat /\ Len(row[2]) \in Nat
    BY LenProperties
  <2>3. \A x \in Nat, y \in Nat : x * y \in Nat
    OBVIOUS
  <2> QED
    BY <2>1, <2>2, <2>3
<1>2. pct # 0 /\ Delta(metric, row, significant).color = BarColor(metric, pct)
  BY DEF Delta
<1>3. before # after /\ pct = IF after < before THEN -1 ELSE 1
  BY <1>2 DEF PctDelta
<1>4. (\A i \in DOMAIN row[2], k \in DOMAIN row[1] : row[2][i] <= row[1][k]) => after <= before
  BY MeansFollow
<1>5. (\A i \in DOMAIN row[1], k \in DOMAIN row[2] : row[1][i] <= row[2][k]) => before <= after
  BY MeansFollow
<1> HIDE DEF before, after, pct
<1> QED
  BY <1>1, <1>2, <1>3, <1>4, <1>5 DEF BarColor

LEMMA CurrentReportShowsGreenIsFaster == ReportsInv => GreenIsFaster
<1> SUFFICES ASSUME ReportsInv, IsMade, NEW k \in DOMAIN report.result.sections,
                    IsDelta(report.result.sections[k]),
                    NEW b \in DOMAIN report.result.sections[k].rows,
                    report.result.sections[k].rows[b][3].value # 0
             PROVE
                LET before == Samples[Ids[1]][b]
                    after == Samples[Ids[2]][b]
                    delta == report.result.sections[k].rows[b][3]
                    below(s, t) == \A x \in ToSet(s), y \in ToSet(t) : x < y
                IN  /\ below(after, before) => delta.color = "green"
                    /\ below(before, after) => delta.color = "red"
  BY DEF GreenIsFaster
<1> DEFINE section == report.result.sections[k]
           significant == report.request.significant
           metric == section.metric
           row == [i \in DOMAIN Ids |-> Value(Ids[i], b, metric)]
           before == Samples[Ids[1]][b]
           after == Samples[Ids[2]][b]
<1>1. PICK asked \in AllSections :
        LET table == TableOf(Ids, asked.metric) IN
        /\ IsDelta(asked) => Len(Ids) = 2
        /\ section = [outcome |-> "ok", type |-> asked.type, metric |-> asked.metric,
                      rows |-> [x \in DOMAIN table \intersect report.request.filter |->
                                  SectionRow(asked, table[x], significant)]]
  BY SectionShown
<1> DEFINE table == TableOf(Ids, metric)
<1>2. /\ section.type = asked.type /\ metric = asked.metric
      /\ b \in DOMAIN table \intersect report.request.filter
      /\ section.rows[b] = SectionRow(asked, table[b], significant)
  BY <1>1
<1>3. /\ Ids \in Seq(STRING) /\ \A i \in DOMAIN Ids : Ids[i] \in DOMAIN archive
      /\ report.request.filter \subseteq Benchmarks
      /\ significant \in BOOLEAN
  BY JobsShown, RequestsAssumption DEF ReportRequests
<1>4. metric \in Metrics
  BY <1>2 DEF AllSections
<1>5. IsDelta(asked) /\ Len(Ids) = 2
  BY <1>1, <1>2 DEF IsDelta
<1>6. 1 \in DOMAIN Ids /\ 2 \in DOMAIN Ids
  BY <1>3, <1>5
<1> HIDE DEF section, metric
<1>7. table[b] = row /\ HasMeasured(Ids[1], b, metric) /\ HasMeasured(Ids[2], b, metric)
  BY <1>2, <1>3, <1>4, <1>5, TableHolds DEF ReportsInv
<1> HIDE DEF table
<1>8. section.rows[b][3] = Delta(metric, row, significant)
  <2>1. asked.type # "box chart"
    BY <1>5 DEF IsDelta
  <2>2. section.rows[b] = DeltaRow(asked, row, significant)
    BY <1>2, <1>5, <1>7, <2>1 DEF SectionRow
  <2> HIDE DEF row
  <2> QED
    BY <1>2, <2>2 DEF DeltaRow
<1>9. before \in Measured /\ after \in Measured
  BY <1>3, <1>6, <1>7 DEF HasMeasured, MeasuredLines, ReportsInv, ArchiveInv
<1>10. /\ row[1] = IF metric = "time/op" THEN before ELSE Rate(before)
       /\ row[2] = IF metric = "time/op" THEN after ELSE Rate(after)
  BY <1>6, <1>7 DEF Value
<1> HIDE DEF row, significant, before, after
<1>11. Delta(metric, row, significant).value # 0
  BY <1>8 DEF section
<1>12. ASSUME NEW s \in Measured PROVE s \in Seq(Nat) /\ s # << >> /\ \A i \in DOMAIN s : s[i] \in Nat
  BY DEF Measured
<1>13. ASSUME NEW s \in Measured, NEW t \in Measured,
              \A x \in ToSet(s), y \in ToSet(t) : x < y
       PROVE  /\ \A i \in DOMAIN s, j \in DOMAIN t : s[i] < t[j]
              /\ \A i \in DOMAIN s, j \in DOMAIN t : s[i] <= t[j]
  <2>1. \A i \in DOMAIN s, j \in DOMAIN t : s[i] < t[j]
    BY <1>13 DEF ToSet
  <2> QED
    BY <1>12, <2>1
<1>14. CASE metric = "time/op"
  <2>1. /\ row[1] = before /\ row[2] = after /\ row[1] \in Seq(Nat) /\ row[2] \in Seq(Nat)
        /\ row[1] # << >> /\ row[2] # << >>
    BY <1>9, <1>10, <1>12, <1>14
  <2>2. /\ (\A i \in DOMAIN after, j \in DOMAIN before : after[i] <= before[j]) =>
             Delta(metric, row, significant).color = "green"
        /\ (\A i \in DOMAIN before, j \in DOMAIN after : before[i] <= after[j]) =>
             Delta(metric, row, significant).color = "red"
    BY <1>3, <1>11, <1>14, <2>1, SpeedupHasItsColor DEF SpeedupColor, Opposite, significant
  <2> QED
    BY <1>8, <1>9, <1>13, <2>2 DEF section, before, after
<1>15. CASE metric # "time/op"
  <2>1. row[1] = Rate(before) /\ row[2] = Rate(after)
    BY <1>10, <1>15
  <2>2. /\ row[1] \in Seq(Nat) /\ row[2] \in Seq(Nat)
        /\ row[1] # << >> /\ row[2] # << >>
    BY <1>9, <2>1, RateTyped, RateOfMeasured
  <2>3. /\ (\A i \in DOMAIN row[1], j \in DOMAIN row[2] : row[1][i] <= row[2][j]) =>
             Delta(metric, row, significant).color = "green"
        /\ (\A i \in DOMAIN row[2], j \in DOMAIN row[1] : row[2][i] <= row[1][j]) =>
             Delta(metric, row, significant).color = "red"
    BY <1>3, <1>11, <1>15, <2>2, SpeedupHasItsColor DEF SpeedupColor, Opposite, significant
  <2> QED
    BY <1>8, <1>9, <1>13, <2>1, <2>3, RatesTurnAround DEF section, before, after
<1> QED
  BY <1>14, <1>15

\* No command and no plot panics, whatever became of the jobs, but for labels that are not
\* as many as they, for a metric they do not have, and for a job whose SHA was not read
\* (createJobLabels, fillData of the sections, and what the commands ask of them).
THEOREM ReportsPanicForCause == Spec => []PanicsForCause
BY ReportsAreCurrent, CurrentReportPanicsForCause, PTL

\* Every cell of a report belongs to the job it is labelled with, and none is left out
\* (benchstat's tables, invertTimeOpTable and fillData of the sections).
THEOREM ReportsKeepColumns == Spec => []ColumnsBelongToJobs
BY ReportsAreCurrent, CurrentReportKeepsColumns, PTL

\* Labels that a report makes tell any jobs apart, and are ids only if they have to
\* (createJobLabels).
THEOREM ReportsTellJobsApart == Spec => []LabelsTellJobsApart
<1>1. ReportsInv => LabelsTellJobsApart
  <2> SUFFICES ASSUME ReportsInv, IsMade, report.request.labels = 0 PROVE LabelsTellJobsApart
    BY DEF LabelsTellJobsApart
  <2>1. IsInjective(Ids)
    BY JobsShown
  <2>2. report.result.labels = createJobLabels(Ids)
    <3>1. report.request \in Requests /\ report.result = Result(report.request)
      BY DEF ReportsInv, ReportIsCurrent, IsMade, NoReport
    <3> QED
      BY <3>1, MadeReport DEF IsMade, Ids
  <2> QED
    BY <2>1, <2>2, OwnLabelsTellApart DEF LabelsTellJobsApart
<1> QED
  BY <1>1, ReportsAreCurrent, PTL

\* Whatever the metric, green is faster and red slower where all measurements of one job
\* lie on one side of those of the other (the deltas of time, speed and inverted tables).
THEOREM ReportsPaintFasterGreen == Spec => []GreenIsFaster
BY ReportsAreCurrent, CurrentReportShowsGreenIsFaster, PTL
=============================================================================
