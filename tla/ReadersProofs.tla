--------------------------- MODULE ReadersProofs ---------------------------
(***************************************************************************)
(* Listings, searches and the watcher, for any number of jobs, any         *)
(* requests and any interleaving with the jobs that come and change:       *)
(* ReadersInv is inductive, and the properties of the listing requests, of *)
(* the search and of what the watcher delivers follow from it.             *)
(***************************************************************************)
EXTENDS Readers, FiniteSetTheorems, SequenceTheorems, TLAPS

(***************************************************************************)
(* The stream and the search.                                              *)
(***************************************************************************)

\* A message published goes behind those there are.
LEMMA StreamGrows ==
    ASSUME StreamInv, NEW j \in Jobs, PublishMessage(j), UNCHANGED lastSeq
    PROVE  StreamInv' /\ \A s \in 1 .. lastSeq : s \in DOMAIN stream /\ stream'[s] = stream[s]
<1> USE DEF StreamInv, PublishMessage
<1>1. Len(stream) \in Nat /\ DOMAIN stream = 1 .. Len(stream)
  OBVIOUS
<1>2. /\ stream' \in Seq(Jobs) /\ Len(stream') = Len(stream) + 1
      /\ \A s \in 1 .. Len(stream) : stream'[s] = stream[s]
      /\ stream'[Len(stream) + 1] = j
  BY AppendProperties
<1>3. \A s \in DOMAIN stream : stream[s] # j
  BY DEF ToSet
<1>4. IsInjective(stream')
  <2>1. DOMAIN stream' = 1 .. Len(stream) + 1
    BY <1>2
  <2> SUFFICES ASSUME NEW a \in DOMAIN stream', NEW b \in DOMAIN stream', stream'[a] = stream'[b]
               PROVE  a = b
    BY DEF IsInjective
  <2>2. a \in 1 .. Len(stream) \/ a = Len(stream) + 1
    BY <1>1, <2>1
  <2>3. b \in 1 .. Len(stream) \/ b = Len(stream) + 1
    BY <1>1, <2>1
  <2> QED
    BY <1>1, <1>2, <1>3, <2>2, <2>3 DEF IsInjective
<1>5. lastSeq' \in 0 .. Len(stream')
  BY <1>1, <1>2
<1>6. \A s \in DOMAIN stream' : status'[stream'[s]] # "Absent"
  <2>1. \A s \in DOMAIN stream' : s \in 1 .. Len(stream) \/ s = Len(stream) + 1
    BY <1>1, <1>2
  <2> QED
    BY <1>1, <1>2, <2>1
<1> QED
  BY <1>1, <1>2, <1>4, <1>5, <1>6

\* What the jobs do leaves the messages a request goes through in place.
LEMMA JobsLeaveMessages ==
    ASSUME StreamInv, JobsNext
    PROVE  /\ StreamInv' /\ UNCHANGED requestVars
           /\ \A s \in 1 .. lastSeq : s \in DOMAIN stream /\ stream'[s] = stream[s]
<1>1. UNCHANGED requestVars
  BY DEF JobsNext
<1>2. PICK j \in Jobs : CreateJob(j) \/ PublishMessage(j) \/ StatusChange(j)
  BY DEF JobsNext
<1>3. CASE PublishMessage(j)
  BY <1>1, <1>3, StreamGrows DEF requestVars
<1>4. CASE CreateJob(j) \/ StatusChange(j)
  <2>0. /\ status \in [Jobs -> Statuses \union {"Absent"}] /\ created \in Seq(Jobs)
        /\ {"Submitted", "Cancelled", "Running", "Failed", "Succeeded"} \subseteq Statuses
    BY DEF StreamInv, Statuses
  <2>1. /\ UNCHANGED stream /\ status' \in [Jobs -> Statuses \union {"Absent"}]
        /\ \A k \in Jobs : status[k] # "Absent" => status'[k] # "Absent"
    BY <1>4, <2>0 DEF CreateJob, StatusChange, Lifecycle!Submit, Lifecycle!Cancel,
       Lifecycle!Start, Lifecycle!Fail, Lifecycle!Succeed, Lifecycle!Becomes
  <2>4. created' \in Seq(Jobs)
    BY <1>4, <2>0, AppendProperties DEF CreateJob, StatusChange
  <2>2. \A s \in DOMAIN stream : stream[s] \in Jobs
    BY DEF StreamInv
  <2>3. \A s \in 1 .. lastSeq : s \in DOMAIN stream
    BY DEF StreamInv
  <2> QED
    BY <1>1, <2>1, <2>2, <2>3, <2>4 DEF requestVars, StreamInv, IsInjective
<1> QED
  BY <1>1, <1>2, <1>3, <1>4

\* The numbering of the first pass only depends on what it has numbered.
LEMMA NumberedStays ==
    ASSUME NEW n, NumberedUpTo(n), seqToOffset' = seqToOffset, missed => missed'
    PROVE  NumberedUpTo(n)'
BY DEF NumberedUpTo

\* Between its own steps a search is left alone.
LEMMA SearchLeftAlone ==
    ASSUME StreamInv, SearchInv, UNCHANGED searchVars, UNCHANGED requestVars,
           \A s \in 1 .. lastSeq : stream'[s] = stream[s]
    PROVE  SearchInv'
<1> USE DEF searchVars, requestVars
<1>1. SearchFindsNewest'
  <2>1. {s \in 1 .. lastSeq : stream'[s] \in query} = {s \in 1 .. lastSeq : stream[s] \in query}
    OBVIOUS
  <2> QED
    BY <2>1 DEF SearchInv, SearchFindsNewest
<1>2. \A n : NumberedUpTo(n) => NumberedUpTo(n)'
  BY NumberedStays
<1>3. pass = "match" => (~missed => \A s \in seq + 1 .. lastSeq : stream[s] \notin query)'
  BY DEF SearchInv, StreamInv
<1> QED
  BY <1>1, <1>2, <1>3 DEF SearchInv

\* The greatest match, found by going down.
LEMMA MaxIsFirstFound ==
    ASSUME NEW T, T \subseteq Nat, NEW m \in T, \A x \in T : x <= m
    PROVE  Max(T) = m
<1>1. Max(T) \in T /\ \A x \in T : Max(T) >= x
  BY DEF Max
<1>2. Max(T) \in Nat /\ m \in Nat /\ Max(T) >= m /\ Max(T) <= m
  BY <1>1
<1> QED
  BY <1>2

\* Each step of the search: the first pass numbers one message more, the second
\* goes down one message more without a match, or stops at the newest one.
LEMMA SearchStepKeeps ==
    ASSUME StreamInv, SearchInv, SearchStep, UNCHANGED jobsVars
    PROVE  StreamInv' /\ SearchInv'
<1> USE DEF jobsVars
<1>0. lastSeq \in Nat /\ lastSeq <= Len(stream) /\ Len(stream) \in Nat
  BY DEF StreamInv
<1>1. ASSUME NEW q \in SUBSET Jobs, BeginSearch(q) PROVE StreamInv' /\ SearchInv'
  <2>1. StreamInv'
    BY <1>0, <1>1 DEF BeginSearch, StreamInv
  <2>2. seqToOffset' = Nothing /\ found' = -1 /\ seq' = 1 /\ lastSeq' = Len(stream)
    BY <1>1 DEF BeginSearch, SearchInv
  <2>3. CASE pass' = "index"
    <3>1. NumberedUpTo(0)'
      BY <2>2 DEF NumberedUpTo, Nothing
    <3> QED
      BY <1>0, <2>1, <2>2, <2>3, <3>1 DEF SearchInv, SearchFindsNewest
  <2>4. CASE pass' = "done"
    <3>1. ~missed' => {s \in 1 .. lastSeq' : stream'[s] \in query'} = {}
      BY <1>1, <2>2, <2>4 DEF BeginSearch
    <3> QED
      BY <2>1, <2>2, <2>4, <3>1 DEF SearchInv, SearchFindsNewest
  <2> QED
    BY <1>1, <2>3, <2>4 DEF BeginSearch
<1>2. CASE IndexNext
  <2>1. StreamInv'
    BY <1>2 DEF IndexNext, StreamInv
  <2>2. /\ seq \in 1 .. lastSeq /\ seq' = seq + 1 /\ seq' \in 1 .. lastSeq' + 1 /\ lastSeq' = lastSeq
        /\ NumberedUpTo(seq - 1) /\ pass' = "index" /\ found' = -1
    BY <1>0, <1>2 DEF IndexNext, SearchInv
  <2>3. NumberedUpTo(seq - 1)'
    <3>0. seq' - 1 = seq
      BY <2>2
    <3>1. CASE missed' = TRUE /\ UNCHANGED seqToOffset
      BY <2>2, <3>0, <3>1 DEF NumberedUpTo
    <3>2. CASE /\ seqToOffset' = [s \in DOMAIN seqToOffset \union {seq} |->
                    IF s = seq THEN Cardinality(DOMAIN seqToOffset) ELSE seqToOffset[s]]
               /\ UNCHANGED missed
      <4>1. Cardinality(1 .. seq - 1) = seq - 1
        BY <2>2, FS_Interval
      <4>2. DOMAIN seqToOffset' = DOMAIN seqToOffset \union {seq}
        BY <3>2
      <4>3. DOMAIN seqToOffset' \subseteq 1 .. seq
        BY <2>2, <4>2 DEF NumberedUpTo
      <4>4. ~missed' => DOMAIN seqToOffset' = 1 .. seq /\ \A s \in 1 .. seq : seqToOffset'[s] = s - 1
        <5> SUFFICES ASSUME ~missed'
                     PROVE  DOMAIN seqToOffset' = 1 .. seq /\ \A s \in 1 .. seq : seqToOffset'[s] = s - 1
          OBVIOUS
        <5>1. DOMAIN seqToOffset = 1 .. seq - 1 /\ \A s \in 1 .. seq - 1 : seqToOffset[s] = s - 1
          BY <2>2, <3>2 DEF NumberedUpTo
        <5> QED
          BY <2>2, <3>2, <4>1, <5>1
      <4> QED
        BY <3>0, <4>3, <4>4 DEF NumberedUpTo
    <3> QED
      BY <1>2, <3>1, <3>2 DEF IndexNext
  <2> QED
    BY <2>1, <2>2, <2>3 DEF SearchInv, SearchFindsNewest
<1>3. CASE EndIndex
  <2>1. /\ StreamInv' /\ pass' = "match" /\ seq' = lastSeq /\ found' = -1
        /\ UNCHANGED <<query, lastSeq, seqToOffset, found, missed>>
    BY <1>3 DEF EndIndex, StreamInv, SearchInv
  <2>2. seq - 1 = lastSeq /\ NumberedUpTo(seq - 1)
    BY <1>0, <1>3 DEF EndIndex, SearchInv
  <2>3. NumberedUpTo(lastSeq)'
    BY <2>1, <2>2 DEF NumberedUpTo
  <2> QED
    BY <1>0, <2>1, <2>3 DEF SearchInv, SearchFindsNewest
<1>4. CASE MatchNext
  <2>1. /\ seq \in 1 .. lastSeq /\ NumberedUpTo(lastSeq) /\ found = -1
        /\ ~missed => \A s \in seq + 1 .. lastSeq : stream[s] \notin query
        /\ UNCHANGED <<query, lastSeq, seqToOffset>> /\ pass = "match"
    BY <1>0, <1>4 DEF MatchNext, MatchInRange, SearchInv
  <2>2. StreamInv' /\ NumberedUpTo(lastSeq)'
    BY <1>4, <2>1 DEF MatchNext, StreamInv, NumberedUpTo
  <2>3. CASE Matches(seq) /\ found' = seqToOffset[seq] /\ pass' = "done" /\ UNCHANGED <<seq, missed>>
    <3>1. ~missed => found' = seq - 1
      BY <2>1, <2>3 DEF NumberedUpTo
    <3>2. ~missed => Max({s \in 1 .. lastSeq : stream[s] \in query}) = seq
      <4> DEFINE T == {s \in 1 .. lastSeq : stream[s] \in query}
      <4> SUFFICES ASSUME ~missed PROVE Max(T) = seq
        OBVIOUS
      <4>1. T \subseteq Nat /\ seq \in T /\ \A x \in T : x <= seq
        BY <1>0, <2>1, <2>3 DEF Matches
      <4> HIDE DEF T
      <4> QED
        BY <4>1, MaxIsFirstFound
    <3>3. seq \in {s \in 1 .. lastSeq : stream[s] \in query}
      BY <2>1, <2>3 DEF Matches
    <3> QED
      BY <2>1, <2>2, <2>3, <3>1, <3>2, <3>3 DEF SearchInv, SearchFindsNewest
  <2>4. CASE ~Matches(seq) /\ seq' = seq - 1 /\ UNCHANGED <<found, pass, missed>>
    <3>1. ~missed => stream[seq] \notin query
      BY <2>1, <2>4 DEF Matches, NumberedUpTo
    <3>2. ~missed => \A s \in seq' + 1 .. lastSeq : stream[s] \notin query
      BY <1>0, <2>1, <2>4, <3>1
    <3> QED
      BY <1>0, <2>1, <2>2, <2>4, <3>2 DEF SearchInv, SearchFindsNewest
  <2>5. CASE seq' = seq - 1 /\ missed' = TRUE /\ UNCHANGED <<found, pass>>
    BY <1>0, <2>1, <2>2, <2>5 DEF SearchInv, SearchFindsNewest
  <2> QED
    BY <1>4, <2>3, <2>4, <2>5 DEF MatchNext
<1>5. CASE EndMatch
  <2>1. seq = 0 /\ found' = -1 /\ pass' = "done" /\ UNCHANGED <<query, lastSeq, missed, found, seqToOffset>>
        /\ (~missed => \A s \in seq + 1 .. lastSeq : stream[s] \notin query)
    BY <1>0, <1>5 DEF EndMatch, MatchInRange, SearchInv
  <2>2. StreamInv'
    BY <2>1 DEF StreamInv
  <2>3. ~missed => {s \in 1 .. lastSeq : stream[s] \in query} = {}
    BY <1>0, <2>1
  <2> QED
    BY <2>1, <2>2, <2>3 DEF SearchInv, SearchFindsNewest
<1>6. CASE EndSearch
  BY <1>0, <1>6 DEF EndSearch, RequestEnds, StreamInv, SearchInv, SearchFindsNewest
<1> QED
  BY <1>1, <1>2, <1>3, <1>4, <1>5, <1>6 DEF SearchStep

(***************************************************************************)
(* A listing request: its walk, and the jobs changing behind it.           *)
(***************************************************************************)

\* A request being served, and the messages of its walk.
LEMMA RequestTyped ==
    ASSUME NEW r \in Requests
    PROVE  /\ r.limit \in Nat /\ r.offset \in Nat /\ r.asc \in BOOLEAN /\ r # NoRequest
           /\ r.kind \in {"LoadJobs", "LoadJobsFiltered"}
           /\ fetchLimit(r) \in Nat /\ fetchLimit(r) \in {r.limit, r.limit + 1}
           /\ MaxScan \in Nat \ {0}
<1>1. r \in RequestTypes
  BY RequestsAssumption
<1> QED
  BY <1>1, MaxScanAssumption DEF RequestTypes, NoRequest, fetchLimit

LEMMA WalkPlaces ==
    ASSUME StreamInv, request \in Requests
    PROVE  /\ lastSeq \in Nat /\ lastSeq <= Len(stream) /\ Len(stream) \in Nat
           /\ \A k \in 1 .. lastSeq :
                At(k) \in 1 .. lastSeq /\ At(k) \in DOMAIN stream /\ stream[At(k)] \in Jobs
           /\ \A k, l \in 1 .. lastSeq : stream[At(k)] = stream[At(l)] => k = l
<1>1. lastSeq \in Nat /\ lastSeq <= Len(stream) /\ Len(stream) \in Nat
  BY DEF StreamInv
<1>2. request.asc \in BOOLEAN
  BY RequestTyped
<1>3. ASSUME NEW k \in 1 .. lastSeq PROVE At(k) \in 1 .. lastSeq
  BY <1>1, <1>2, <1>3 DEF At
<1>4. \A s \in 1 .. lastSeq : s \in DOMAIN stream /\ stream[s] \in Jobs
  BY <1>1 DEF StreamInv
<1>5. ASSUME NEW k \in 1 .. lastSeq, NEW l \in 1 .. lastSeq, stream[At(k)] = stream[At(l)] PROVE k = l
  <2>1. At(k) = At(l)
    BY <1>3, <1>4, <1>5 DEF StreamInv, IsInjective
  <2> QED
    BY <1>1, <1>2, <2>1 DEF At
<1> QED
  BY <1>1, <1>3, <1>4, <1>5

LEMMA PassedIsFinite ==
    ASSUME NEW n \in Nat
    PROVE  IsFiniteSet(PassedUpTo(n)) /\ Cardinality(PassedUpTo(n)) \in Nat
<1>1. IsFiniteSet(1 .. n) /\ PassedUpTo(n) \subseteq 1 .. n
  BY FS_Interval DEF PassedUpTo
<1> QED
  BY <1>1, FS_Subset, FS_CardinalityType

\* A new request has read nothing.
LEMMA BeginKeeps ==
    ASSUME StreamInv, ScanInv, NEW r \in Requests, Begin(r), UNCHANGED jobsVars
    PROVE  StreamInv' /\ ScanInv'
<1> USE DEF Begin, jobsVars
<1>1. StreamInv'
  BY DEF StreamInv
<1>2. /\ request = NoRequest /\ request' = r /\ r # NoRequest
      /\ jobs' = << >> /\ skipped' = 0 /\ scanned' = 0 /\ lastSeq' = Len(stream)
      /\ Len(stream) \in Nat
  BY RequestTyped DEF ScanInv, StreamInv
<1>3. WalkInv'
  BY <1>2, RequestTyped DEF WalkInv, At
<1>4. CollectedInv'
  <2>1. << >> \in Seq(ever')
    OBVIOUS
  <2> QED
    BY <1>2, <2>1 DEF CollectedInv
<1>5. HistoryInv'
  BY <1>2 DEF HistoryInv, Passing
<1>6. CompleteInv'
  <2>1. \A k : k \notin PassedUpTo(0)'
    BY DEF PassedUpTo
  <2>2. PassedUpTo(0)' = {}
    BY <2>1
  <2>3. Cardinality({}) = 0 /\ Len(<< >>) = 0 /\ DOMAIN << >> = {}
    BY FS_EmptySet
  <2>4. PassedUpTo(scanned)' = {}
    BY <1>2, <2>2 DEF PassedUpTo
  <2>5. skipped' + Len(jobs') = 0 /\ scanned' = 0 /\ DOMAIN jobs' = {}
    BY <1>2, <2>3
  <2>6. skipped' + Len(jobs') = Cardinality(PassedUpTo(scanned)')
    BY <2>3, <2>4, <2>5
  <2> QED
    BY <2>4, <2>5, <2>6 DEF CompleteInv
<1> QED
  BY <1>1, <1>2, <1>3, <1>4, <1>5, <1>6 DEF ScanInv

\* The answer clears everything.
LEMMA ReturnKeeps ==
    ASSUME StreamInv, Return, UNCHANGED jobsVars
    PROVE  StreamInv' /\ ScanInv'
BY DEF Return, RequestEnds, jobsVars, StreamInv, ScanInv

\* While jobs come and change, the messages of the walk stay where they are.
LEMMA ScanLeftAlone ==
    ASSUME StreamInv, ScanInv, JobsNext, Observe
    PROVE  ScanInv'
<1>1. /\ UNCHANGED requestVars /\ UNCHANGED <<request, i, skipped, scanned, jobs>>
      /\ \A s \in 1 .. lastSeq : s \in DOMAIN stream /\ stream'[s] = stream[s]
  BY JobsLeaveMessages DEF Observe
<1>2. CASE request = NoRequest
  BY <1>1, <1>2 DEF ScanInv
<1>3. CASE request # NoRequest
  <2>1. /\ always' = always \intersect Passing(request)' /\ ever' = ever \union Passing(request)'
        /\ WalkInv /\ CollectedInv /\ HistoryInv /\ CompleteInv
    BY <1>3 DEF Observe, ScanInv
  <2>2. /\ lastSeq \in Nat /\ scanned \in 0 .. lastSeq
        /\ \A k \in 1 .. lastSeq : At(k) \in 1 .. lastSeq
    BY <2>1, WalkPlaces DEF WalkInv
  <2>3. \A k : At(k)' = At(k)
    BY <1>1 DEF At, requestVars
  <2>4. \A k \in 1 .. scanned : stream'[At(k)'] = stream[At(k)]
    BY <1>1, <2>2, <2>3
  <2>5. WalkInv'
    BY <1>1, <2>1 DEF WalkInv, requestVars, At
  <2>6. CollectedInv'
    <3>1. jobs \in Seq(ever) /\ ever \subseteq ever'
      BY <2>1 DEF CollectedInv
    <3>2. jobs \in Seq(ever')
      BY <3>1, SeqMonotonic
    <3>3. \A a \in DOMAIN jobs : \E k \in 1 .. scanned : jobs[a] = stream'[At(k)']
      BY <2>1, <2>4 DEF CollectedInv
    <3>4. \A a, b \in DOMAIN jobs, k, l \in 1 .. scanned :
            a < b /\ jobs[a] = stream'[At(k)'] /\ jobs[b] = stream'[At(l)'] => k < l
      BY <2>1, <2>4 DEF CollectedInv
    <3>5. jobs' = jobs /\ skipped' = skipped /\ scanned' = scanned /\ request' = request
          /\ (jobs # << >> => skipped = request.offset)
      BY <1>1, <2>1 DEF CollectedInv
    <3> QED
      BY <3>2, <3>3, <3>4, <3>5 DEF CollectedInv
  <2>7. HistoryInv'
    <3>1. Passing(request)' \subseteq Jobs
      BY DEF Passing
    <3> QED
      BY <1>1, <2>1, <3>1 DEF HistoryInv
  <2>8. \A k \in 0 .. scanned : PassedUpTo(k)' \subseteq PassedUpTo(k)
    BY <2>1, <2>2, <2>4 DEF PassedUpTo
  <2>9. always' = ever' => always = ever /\ \A k \in 0 .. scanned : PassedUpTo(k)' = PassedUpTo(k)
    <3> SUFFICES ASSUME always' = ever'
                 PROVE  always = ever /\ \A k \in 0 .. scanned : PassedUpTo(k)' = PassedUpTo(k)
      OBVIOUS
    <3>1. always \subseteq ever
      BY <2>1 DEF HistoryInv
    <3>2. always = ever /\ always' = always
      BY <2>1, <3>1
    <3> QED
      BY <2>2, <2>4, <3>2 DEF PassedUpTo
  <2>10. CompleteInv'
    <3> SUFFICES ASSUME ~missed PROVE CompleteInv'
      BY <1>1 DEF CompleteInv, requestVars
    <3>1. /\ jobs' = jobs /\ skipped' = skipped /\ scanned' = scanned /\ request' = request
          /\ PassedUpTo(scanned)' \subseteq PassedUpTo(scanned)
          /\ \A k \in PassedUpTo(scanned) : k \in 1 .. scanned
      BY <1>1, <2>2, <2>8 DEF PassedUpTo
    <3>2. request.statuses = {} =>
            /\ skipped + Len(jobs) = scanned
            /\ \A a \in DOMAIN jobs : request.offset + a \in 1 .. scanned
            /\ \A a \in DOMAIN jobs, k \in 1 .. scanned :
                 k = request.offset + a => jobs[a] = stream'[At(k)']
      <4> SUFFICES ASSUME request.statuses = {}, NEW a \in DOMAIN jobs
                   PROVE  /\ request.offset + a \in 1 .. scanned
                          /\ \A k \in 1 .. scanned : k = request.offset + a => jobs[a] = stream'[At(k)']
        BY <2>1 DEF CompleteInv
      <4>1. skipped + Len(jobs) = scanned /\ jobs[a] = stream[At(request.offset + a)]
        BY <2>1 DEF CompleteInv
      <4>2. /\ request.offset \in Nat /\ skipped = request.offset
            /\ a \in 1 .. Len(jobs) /\ Len(jobs) \in Nat
        BY <2>1, RequestTyped DEF CollectedInv, WalkInv
      <4>3. \A p, q \in Nat : a \in 1 .. q => p + a \in 1 .. p + q
        OBVIOUS
      <4>4. request.offset + a \in 1 .. scanned
        BY <4>1, <4>2, <4>3
      <4> QED
        BY <2>4, <4>1, <4>4
    <3>3. request.offset = 0 /\ request.limit = 0 =>
            \A k \in PassedUpTo(scanned)' : \E a \in DOMAIN jobs : jobs[a] = stream'[At(k)']
      BY <2>1, <2>4, <3>1 DEF CompleteInv
    <3>4. always' = ever' =>
            /\ skipped + Len(jobs) = Cardinality(PassedUpTo(scanned)')
            /\ \A k \in PassedUpTo(scanned)' :
                 LET number == Cardinality(PassedUpTo(k)') IN
                 number > request.offset => jobs[number - request.offset] = stream'[At(k)']
      <4> SUFFICES ASSUME always' = ever'
                   PROVE
            /\ skipped + Len(jobs) = Cardinality(PassedUpTo(scanned)')
            /\ \A k \in PassedUpTo(scanned)' :
                 LET number == Cardinality(PassedUpTo(k)') IN
                 number > request.offset => jobs[number - request.offset] = stream'[At(k)']
        OBVIOUS
      <4>1. /\ PassedUpTo(scanned)' = PassedUpTo(scanned)
            /\ \A k \in PassedUpTo(scanned) : PassedUpTo(k)' = PassedUpTo(k)
            /\ always = ever
        BY <2>2, <2>9, <3>1
      <4> QED
        BY <2>1, <2>4, <3>1, <4>1 DEF CompleteInv
    <3> QED
      BY <3>1, <3>2, <3>3, <3>4 DEF CompleteInv
  <2> QED
    BY <1>1, <1>3, <2>5, <2>6, <2>7, <2>10 DEF ScanInv
<1> QED
  BY <1>2, <1>3

\* The place to be read next, and what is known of the message there.
LEMMA ReadPlace ==
    ASSUME StreamInv, ScanInv, Scanning
    PROVE  /\ request \in Requests /\ WalkInv /\ CollectedInv /\ HistoryInv /\ CompleteInv
           /\ scanned \in Nat /\ scanned + 1 \in 1 .. lastSeq /\ i = At(scanned + 1)
           /\ stream[i] \in Jobs
           /\ stream[i] \in Passing(request) <=> Passes(request, status[stream[i]])
           /\ \A k \in 1 .. scanned : stream[At(k)] # stream[i]
           /\ \A k \in 1 .. scanned + 1 : k \in 1 .. scanned \/ k = scanned + 1
<1>1. request # NoRequest /\ InRange
  BY DEF Scanning
<1>2. WalkInv /\ CollectedInv /\ HistoryInv /\ CompleteInv
  BY <1>1 DEF ScanInv
<1>3. /\ request \in Requests /\ scanned \in 0 .. lastSeq /\ i = At(scanned + 1)
      /\ request.asc \in BOOLEAN
  BY <1>2, RequestTyped DEF WalkInv
<1>4. lastSeq \in Nat /\ scanned \in Nat
  BY <1>3, WalkPlaces
<1>5. scanned + 1 \in 1 .. lastSeq
  <2>1. i >= 1 /\ i <= lastSeq
    BY <1>1 DEF InRange
  <2> QED
    BY <1>3, <1>4, <2>1 DEF At
<1>6. stream[i] \in Jobs /\ At(scanned + 1) \in DOMAIN stream
  BY <1>3, <1>5, WalkPlaces
<1>7. stream[i] \in Passing(request) <=> Passes(request, status[stream[i]])
  BY <1>3, <1>6 DEF StreamInv, Passing
<1>8. ASSUME NEW k \in 1 .. scanned PROVE stream[At(k)] # stream[i]
  <2>1. k \in 1 .. lastSeq /\ k # scanned + 1
    BY <1>4, <1>5
  <2> QED
    BY <1>3, <1>5, <2>1, WalkPlaces
<1>9. \A k \in 1 .. scanned + 1 : k \in 1 .. scanned \/ k = scanned + 1
  BY <1>4
<1> QED
  BY <1>2, <1>3, <1>4, <1>5, <1>6, <1>7, <1>8, <1>9

\* One more message read: the place after it, and the jobs that passed so far.
LEMMA ReadAdvances ==
    ASSUME StreamInv, ScanInv, ReadNext, UNCHANGED jobsVars
    PROVE  /\ StreamInv' /\ HistoryInv'
           /\ \A k : At(k)' = At(k) /\ stream'[At(k)'] = stream[At(k)]
           /\ \A k : PassedUpTo(k)' = PassedUpTo(k)
           /\ scanned' = scanned + 1 /\ scanned' \in 0 .. lastSeq' /\ i' = At(scanned + 1)'
           /\ ScanLimit(request)' => scanned' <= MaxScan
<1>1. /\ Scanning /\ UNCHANGED <<request, lastSeq, always, ever, stream, status>>
      /\ scanned' = scanned + 1 /\ Advance
  BY DEF ReadNext, jobsVars
<1>2. /\ request \in Requests /\ HistoryInv
      /\ scanned \in Nat /\ scanned + 1 \in 1 .. lastSeq /\ i = At(scanned + 1)
  BY <1>1, ReadPlace
<1>3. request.asc \in BOOLEAN /\ MaxScan \in Nat
  BY <1>2, RequestTyped
<1>4. StreamInv' /\ HistoryInv'
  BY <1>1, <1>2 DEF StreamInv, IsInjective, jobsVars, HistoryInv, Passing
<1>5. \A k : At(k)' = At(k) /\ stream'[At(k)'] = stream[At(k)]
  BY <1>1 DEF At
<1>6. \A k : PassedUpTo(k)' = PassedUpTo(k)
  BY <1>1, <1>5 DEF PassedUpTo
<1>7. i' = At(scanned + 1)'
  <2>1. lastSeq \in Nat
    BY <1>2, WalkPlaces
  <2>2. At(scanned + 1)' = At(scanned + 2)
    BY <1>1, <1>2 DEF At
  <2>3. i' = At(scanned + 2)
    BY <1>1, <1>2, <1>3, <2>1 DEF At, Advance
  <2> QED
    BY <2>2, <2>3
<1>8. ScanLimit(request)' => scanned' <= MaxScan
  BY <1>1, <1>2, <1>3 DEF Scanning, ScanLimit
<1> QED
  BY <1>1, <1>2, <1>4, <1>5, <1>6, <1>7, <1>8

\* How the count of those that passed goes on.
LEMMA PassedGrows ==
    ASSUME NEW n \in Nat
    PROVE  /\ stream[At(n + 1)] \notin always => PassedUpTo(n + 1) = PassedUpTo(n)
           /\ stream[At(n + 1)] \in always =>
                /\ PassedUpTo(n + 1) = PassedUpTo(n) \union {n + 1}
                /\ Cardinality(PassedUpTo(n + 1)) = Cardinality(PassedUpTo(n)) + 1
           /\ \A k \in PassedUpTo(n) :
                /\ k \in 1 .. n
                /\ Cardinality(PassedUpTo(k)) \in 1 .. Cardinality(PassedUpTo(n))
<1>1. \A k : k \in 1 .. n + 1 <=> k \in 1 .. n \/ k = n + 1
  OBVIOUS
<1>2. n + 1 \notin 1 .. n
  OBVIOUS
<1>3. stream[At(n + 1)] \notin always => PassedUpTo(n + 1) = PassedUpTo(n)
  BY <1>1 DEF PassedUpTo
<1>4. stream[At(n + 1)] \in always => PassedUpTo(n + 1) = PassedUpTo(n) \union {n + 1}
  BY <1>1 DEF PassedUpTo
<1>5. n + 1 \notin PassedUpTo(n)
  BY <1>2 DEF PassedUpTo
<1>6. IsFiniteSet(PassedUpTo(n))
  BY PassedIsFinite
<1>7. stream[At(n + 1)] \in always =>
        Cardinality(PassedUpTo(n + 1)) = Cardinality(PassedUpTo(n)) + 1
  BY <1>4, <1>5, <1>6, FS_AddElement
<1>8. ASSUME NEW k \in PassedUpTo(n)
      PROVE  k \in 1 .. n /\ Cardinality(PassedUpTo(k)) \in 1 .. Cardinality(PassedUpTo(n))
  <2>1. k \in 1 .. n /\ k \in PassedUpTo(k) /\ PassedUpTo(k) \subseteq PassedUpTo(n) /\ k \in Nat
    BY <1>8 DEF PassedUpTo
  <2>2. /\ Cardinality(PassedUpTo(k)) <= Cardinality(PassedUpTo(n))
        /\ Cardinality(PassedUpTo(k)) \in Nat /\ Cardinality(PassedUpTo(n)) \in Nat
    BY <1>6, <2>1, PassedIsFinite, FS_Subset
  <2>3. Cardinality(PassedUpTo(k)) # 0
    BY <2>1, PassedIsFinite, FS_EmptySet
  <2> QED
    BY <2>1, <2>2, <2>3
<1> QED
  BY <1>3, <1>4, <1>7, <1>8

\* A message that is not collected: it could not be read, does not pass or is skipped.
LEMMA ReadPassesOver ==
    ASSUME StreamInv, ScanInv, ReadNext, ReadFails \/ ReadSkips, UNCHANGED jobsVars
    PROVE  ScanInv'
<1>1. /\ Scanning /\ request \in Requests /\ WalkInv /\ CollectedInv /\ HistoryInv /\ CompleteInv
      /\ scanned \in Nat /\ scanned + 1 \in 1 .. lastSeq /\ i = At(scanned + 1)
      /\ stream[i] \in Passing(request) <=> Passes(request, status[stream[i]])
      /\ \A k \in 1 .. scanned : stream[At(k)] # stream[i]
      /\ \A k \in 1 .. scanned + 1 : k \in 1 .. scanned \/ k = scanned + 1
  BY ReadPlace DEF ReadNext
<1>2. /\ HistoryInv'
      /\ \A k : At(k)' = At(k) /\ stream'[At(k)'] = stream[At(k)]
      /\ \A k : PassedUpTo(k)' = PassedUpTo(k)
      /\ scanned' = scanned + 1 /\ scanned' \in 0 .. lastSeq' /\ i' = At(scanned + 1)'
      /\ ScanLimit(request)' => scanned' <= MaxScan
  BY ReadAdvances
<1>3. jobs' = jobs /\ UNCHANGED <<request, lastSeq, always, ever, stream, status>>
  BY DEF ReadNext, ReadFails, ReadSkips, jobsVars
<1>4. /\ request.offset \in Nat /\ skipped \in 0 .. request.offset
      /\ jobs # << >> => skipped = request.offset
      /\ fetchLimit(request) > 0 => Len(jobs) <= fetchLimit(request)
  BY <1>1, RequestTyped DEF WalkInv, CollectedInv
<1>5. skipped' = skipped \/ (skipped' = skipped + 1 /\ skipped < request.offset)
  BY DEF ReadFails, ReadSkips
<1>6. WalkInv'
  BY <1>1, <1>2, <1>3, <1>4, <1>5 DEF WalkInv, fetchLimit
<1>7. CollectedInv'
  <2>1. /\ jobs \in Seq(ever)
        /\ \A a \in DOMAIN jobs : \E k \in 1 .. scanned : jobs[a] = stream[At(k)]
        /\ \A a, b \in DOMAIN jobs, k, l \in 1 .. scanned :
             a < b /\ jobs[a] = stream[At(k)] /\ jobs[b] = stream[At(l)] => k < l
    BY <1>1 DEF CollectedInv
  <2>2. jobs # << >> => skipped' = request.offset
    BY <1>4, <1>5
  <2>3. \A a \in DOMAIN jobs : \E k \in 1 .. scanned + 1 : jobs[a] = stream[At(k)]
    BY <1>1, <2>1
  <2>4. \A a \in DOMAIN jobs : jobs[a] # stream[At(scanned + 1)]
    BY <1>1, <2>1
  <2>5. \A a, b \in DOMAIN jobs, k, l \in 1 .. scanned + 1 :
          a < b /\ jobs[a] = stream[At(k)] /\ jobs[b] = stream[At(l)] => k < l
    BY <1>1, <2>1, <2>4
  <2> QED
    BY <1>2, <1>3, <2>1, <2>2, <2>3, <2>5 DEF CollectedInv
<1>8. CASE ReadFails
  <2>1. CompleteInv'
    BY <1>8 DEF ReadFails, CompleteInv
  <2> QED
    BY <1>1, <1>2, <1>3, <1>6, <1>7, <2>1, RequestTyped DEF ScanInv
<1>9. CASE ReadSkips
  <2>1. missed' = missed
    BY <1>9 DEF ReadSkips
  <2> DEFINE j == stream[i]
             n == scanned + 1
  <2>2. CASE ~Passes(request, status[j]) /\ UNCHANGED skipped
    <3>1. j \notin always /\ request.statuses # {}
      BY <1>1, <2>2 DEF HistoryInv, Passes
    <3>2. PassedUpTo(n) = PassedUpTo(scanned)
      BY <1>1, <3>1, PassedGrows
    <3>3. CompleteInv'
      BY <1>1, <1>2, <1>3, <2>1, <2>2, <3>1, <3>2 DEF CompleteInv
    <3> QED
      BY <1>1, <1>2, <1>3, <1>6, <1>7, <3>3, RequestTyped DEF ScanInv
  <2>3. CASE Passes(request, status[j]) /\ skipped < request.offset /\ skipped' = skipped + 1
    <3>1. jobs = << >> /\ Len(jobs) = 0 /\ DOMAIN jobs = {} /\ request.offset # 0
      BY <1>4, <2>3
    <3>2. always = ever => j \in always
      BY <1>1, <2>3 DEF HistoryInv
    <3>3. ASSUME ~missed, request.statuses = {} PROVE skipped' + Len(jobs) = scanned + 1
      BY <1>1, <1>4, <2>3, <3>1, <3>3 DEF CompleteInv
    <3>4. ASSUME ~missed, always = ever
          PROVE  /\ skipped' + Len(jobs) = Cardinality(PassedUpTo(n))
                 /\ \A k \in PassedUpTo(n) : ~(Cardinality(PassedUpTo(k)) > request.offset)
      <4>1. Cardinality(PassedUpTo(n)) = Cardinality(PassedUpTo(scanned)) + 1
        BY <1>1, <3>2, <3>4, PassedGrows
      <4>2. skipped + Len(jobs) = Cardinality(PassedUpTo(scanned))
        BY <1>1, <3>4 DEF CompleteInv
      <4>3. Cardinality(PassedUpTo(n)) = skipped + 1 /\ skipped + 1 <= request.offset
        BY <1>4, <2>3, <3>1, <4>1, <4>2
      <4>4. n \in Nat
        BY <1>1
      <4> HIDE DEF n
      <4>5. \A k \in PassedUpTo(n) : Cardinality(PassedUpTo(k)) \in 1 .. Cardinality(PassedUpTo(n))
        BY <4>4, PassedGrows
      <4> QED
        BY <1>4, <2>3, <3>1, <4>3, <4>5
    <3>5. CompleteInv'
      BY <1>2, <1>3, <2>1, <3>1, <3>3, <3>4 DEF CompleteInv
    <3> QED
      BY <1>1, <1>2, <1>3, <1>6, <1>7, <3>5, RequestTyped DEF ScanInv
  <2> QED
    BY <1>9, <2>2, <2>3 DEF ReadSkips
<1> QED
  BY <1>8, <1>9

\* A message that is collected.
LEMMA ReadTakes ==
    ASSUME StreamInv, ScanInv, ReadNext, ReadCollects, UNCHANGED jobsVars
    PROVE  ScanInv'
<1>1. /\ Scanning /\ request \in Requests /\ WalkInv /\ CollectedInv /\ HistoryInv /\ CompleteInv
      /\ scanned \in Nat /\ scanned + 1 \in 1 .. lastSeq /\ i = At(scanned + 1)
      /\ stream[i] \in Passing(request) <=> Passes(request, status[stream[i]])
      /\ \A k \in 1 .. scanned : stream[At(k)] # stream[i]
      /\ \A k \in 1 .. scanned + 1 : k \in 1 .. scanned \/ k = scanned + 1
  BY ReadPlace DEF ReadNext
<1>2. /\ HistoryInv'
      /\ \A k : At(k)' = At(k) /\ stream'[At(k)'] = stream[At(k)]
      /\ \A k : PassedUpTo(k)' = PassedUpTo(k)
      /\ scanned' = scanned + 1 /\ scanned' \in 0 .. lastSeq' /\ i' = At(scanned + 1)'
      /\ ScanLimit(request)' => scanned' <= MaxScan
  BY ReadAdvances
<1>3. /\ UNCHANGED <<request, lastSeq, always, ever, stream, status, skipped, missed>>
      /\ jobs' = Append(jobs, stream[i])
      /\ stream[i] \in Passing(request)
  BY <1>1 DEF ReadNext, ReadCollects, jobsVars
<1>4. /\ request.offset \in Nat /\ request.limit \in Nat /\ skipped = request.offset
      /\ fetchLimit(request) \in Nat
  BY <1>1, RequestTyped DEF WalkInv, ReadCollects
<1>5. stream[i] \in ever /\ jobs \in Seq(ever) /\ Len(jobs) \in Nat /\ DOMAIN jobs = 1 .. Len(jobs)
  BY <1>1, <1>3 DEF HistoryInv, CollectedInv
<1>6. /\ jobs' \in Seq(ever) /\ Len(jobs') = Len(jobs) + 1 /\ DOMAIN jobs' = 1 .. Len(jobs) + 1
      /\ \A a \in DOMAIN jobs : jobs'[a] = jobs[a]
      /\ jobs'[Len(jobs) + 1] = stream[i]
  BY <1>3, <1>5, AppendProperties
<1>7. \A a \in DOMAIN jobs' : a \in DOMAIN jobs \/ a = Len(jobs) + 1
  BY <1>5, <1>6
<1>8. WalkInv'
  <2>1. fetchLimit(request) > 0 => Len(jobs) + 1 <= fetchLimit(request)
    BY <1>1, <1>4, <1>5 DEF Scanning
  <2> QED
    BY <1>1, <1>2, <1>3, <1>4, <1>6, <2>1 DEF WalkInv, fetchLimit
<1>9. CollectedInv'
  <2>1. /\ \A a \in DOMAIN jobs : \E k \in 1 .. scanned : jobs[a] = stream[At(k)]
        /\ \A a, b \in DOMAIN jobs, k, l \in 1 .. scanned :
             a < b /\ jobs[a] = stream[At(k)] /\ jobs[b] = stream[At(l)] => k < l
    BY <1>1 DEF CollectedInv
  <2>2. \A a \in DOMAIN jobs' : \E k \in 1 .. scanned + 1 : jobs'[a] = stream[At(k)]
    <3>1. \A k \in 1 .. scanned : k \in 1 .. scanned + 1
      BY <1>1
    <3>2. scanned + 1 \in 1 .. scanned + 1
      BY <1>1
    <3> QED
      BY <1>1, <1>6, <1>7, <2>1, <3>1, <3>2
  <2>3. \A a \in DOMAIN jobs : jobs[a] # stream[At(scanned + 1)]
    BY <1>1, <2>1
  <2>4. ASSUME NEW a \in DOMAIN jobs', NEW b \in DOMAIN jobs',
               NEW k \in 1 .. scanned + 1, NEW l \in 1 .. scanned + 1,
               a < b, jobs'[a] = stream[At(k)], jobs'[b] = stream[At(l)]
        PROVE  k < l
    <3>1. a \in DOMAIN jobs
      BY <1>5, <1>6, <1>7, <2>4
    <3>2. k \in 1 .. scanned
      BY <1>1, <1>6, <2>3, <2>4, <3>1
    <3>3. CASE b \in DOMAIN jobs
      <4>1. l \in 1 .. scanned
        BY <1>1, <1>6, <2>3, <2>4, <3>3
      <4> QED
        BY <1>6, <2>1, <2>4, <3>1, <3>2, <3>3, <4>1
    <3>4. CASE b = Len(jobs) + 1
      <4>1. l = scanned + 1
        BY <1>1, <1>6, <2>4, <3>4
      <4> QED
        BY <1>1, <3>2, <4>1
    <3> QED
      BY <1>7, <3>3, <3>4
  <2>5. jobs' # << >> => skipped' = request'.offset
    BY <1>3, <1>4
  <2> QED
    BY <1>2, <1>3, <1>6, <2>2, <2>4, <2>5 DEF CollectedInv
<1>10. CompleteInv'
  <2> SUFFICES ASSUME ~missed PROVE CompleteInv'
    BY <1>3 DEF CompleteInv
  <2> DEFINE n == scanned + 1
  <2>1. n \in Nat /\ stream[At(n)] = stream[i] /\ n \in 1 .. n
    BY <1>1
  <2>2. request.statuses = {} =>
          /\ skipped + Len(jobs') = n
          /\ \A a \in DOMAIN jobs' : jobs'[a] = stream[At(request.offset + a)]
    <3> SUFFICES ASSUME request.statuses = {}
                 PROVE  /\ skipped + Len(jobs') = n
                        /\ \A a \in DOMAIN jobs' : jobs'[a] = stream[At(request.offset + a)]
      OBVIOUS
    <3>1. /\ skipped + Len(jobs) = scanned
          /\ \A a \in DOMAIN jobs : jobs[a] = stream[At(request.offset + a)]
      BY <1>1 DEF CompleteInv
    <3>2. request.offset + (Len(jobs) + 1) = n
      <4>1. \A p, q, s \in Nat : p + q = s => p + (q + 1) = s + 1
        OBVIOUS
      <4>2. request.offset + Len(jobs) = scanned
        BY <1>4, <3>1
      <4> QED
        BY <1>1, <1>4, <1>5, <4>1, <4>2
    <3> HIDE DEF n
    <3>3. \A a \in DOMAIN jobs' : jobs'[a] = stream[At(request.offset + a)]
      BY <1>6, <1>7, <2>1, <3>1, <3>2
    <3> QED
      BY <1>4, <1>5, <1>6, <3>2, <3>3
  <2>3. request.offset = 0 /\ request.limit = 0 =>
          \A k \in PassedUpTo(n) : \E a \in DOMAIN jobs' : jobs'[a] = stream[At(k)]
    <3> SUFFICES ASSUME request.offset = 0, request.limit = 0, NEW k \in PassedUpTo(n)
                 PROVE  \E a \in DOMAIN jobs' : jobs'[a] = stream[At(k)]
      OBVIOUS
    <3>1. Len(jobs) + 1 \in DOMAIN jobs' /\ \A a \in DOMAIN jobs : a \in DOMAIN jobs'
      BY <1>5, <1>6
    <3>2. k \in PassedUpTo(scanned) \/ k = n
      BY <1>1 DEF PassedUpTo
    <3>3. CASE k \in PassedUpTo(scanned)
      <4>1. \E a \in DOMAIN jobs : jobs[a] = stream[At(k)]
        BY <1>1, <3>3 DEF CompleteInv
      <4> QED
        BY <1>6, <3>1, <4>1
    <3>4. CASE k = n
      BY <1>6, <2>1, <3>1, <3>4
    <3> QED
      BY <3>2, <3>3, <3>4
  <2>4. always = ever =>
          /\ skipped + Len(jobs') = Cardinality(PassedUpTo(n))
          /\ \A k \in PassedUpTo(n) :
               Cardinality(PassedUpTo(k)) > request.offset =>
                 jobs'[Cardinality(PassedUpTo(k)) - request.offset] = stream[At(k)]
    <3> SUFFICES ASSUME always = ever
                 PROVE
          /\ skipped + Len(jobs') = Cardinality(PassedUpTo(n))
          /\ \A k \in PassedUpTo(n) :
               Cardinality(PassedUpTo(k)) > request.offset =>
                 jobs'[Cardinality(PassedUpTo(k)) - request.offset] = stream[At(k)]
      OBVIOUS
    <3>1. /\ skipped + Len(jobs) = Cardinality(PassedUpTo(scanned))
          /\ \A k \in PassedUpTo(scanned) :
               Cardinality(PassedUpTo(k)) > request.offset =>
                 jobs[Cardinality(PassedUpTo(k)) - request.offset] = stream[At(k)]
      BY <1>1 DEF CompleteInv
    <3>2. stream[At(n)] \in always
      BY <1>1, <1>3, <2>1 DEF HistoryInv
    <3>3. /\ PassedUpTo(n) = PassedUpTo(scanned) \union {n}
          /\ Cardinality(PassedUpTo(n)) = Cardinality(PassedUpTo(scanned)) + 1
      BY <1>1, <3>2, PassedGrows
    <3>4. Cardinality(PassedUpTo(scanned)) \in Nat
      BY <1>1, PassedIsFinite
    <3>5. \A k \in PassedUpTo(scanned) :
            Cardinality(PassedUpTo(k)) \in 1 .. Cardinality(PassedUpTo(scanned))
      BY <1>1, PassedGrows
    <3> HIDE DEF n
    <3>6. Cardinality(PassedUpTo(n)) - request.offset = Len(jobs) + 1
      BY <1>4, <1>5, <3>1, <3>3, <3>4
    <3>7. ASSUME NEW k \in PassedUpTo(scanned), Cardinality(PassedUpTo(k)) > request.offset
          PROVE  jobs'[Cardinality(PassedUpTo(k)) - request.offset] = stream[At(k)]
      <4>1. Cardinality(PassedUpTo(k)) - request.offset \in 1 .. Len(jobs)
        <5> DEFINE c == Cardinality(PassedUpTo(k))
        <5>1. c \in 1 .. request.offset + Len(jobs) /\ c > request.offset
          BY <1>4, <3>1, <3>5, <3>7
        <5> HIDE DEF c
        <5>2. c - request.offset \in 1 .. Len(jobs)
          BY <1>4, <1>5, <5>1
        <5> QED
          BY <5>2 DEF c
      <4> QED
        BY <1>5, <1>6, <3>1, <3>7, <4>1
    <3>8. jobs'[Cardinality(PassedUpTo(n)) - request.offset] = stream[At(n)]
      BY <1>6, <2>1, <3>6
    <3>9. skipped + Len(jobs') = Cardinality(PassedUpTo(n))
      BY <1>4, <1>5, <1>6, <3>1, <3>3, <3>4
    <3> QED
      BY <3>3, <3>7, <3>8, <3>9
  <2> QED
    BY <1>2, <1>3, <2>2, <2>3, <2>4 DEF CompleteInv
<1> QED
  BY <1>1, <1>2, <1>3, <1>8, <1>9, <1>10, RequestTyped DEF ScanInv

(***************************************************************************)
(* The watcher: every job that is left alone comes in time.                *)
(***************************************************************************)

\* An order of the last writes is an order of all the jobs with a record.
LEMMA WriteOrderCovers ==
    ASSUME created \in Seq(Jobs), NEW order \in WriteOrders
    PROVE  order \in Seq(Jobs) /\ IsInjective(order) /\ ToSet(order) = ToSet(created)
<1> DEFINE S == ToSet(created)
           n == Cardinality(S)
<1>1. S \subseteq Jobs
  BY DEF ToSet
<1>2. IsFiniteSet(S) /\ n \in Nat
  <2>1. Len(created) \in Nat /\ created \in Surjection(1 .. Len(created), S)
    BY DEF ToSet, Surjection
  <2> HIDE DEF S
  <2>2. IsFiniteSet(S)
    BY <2>1, FS_Interval, FS_Surjection
  <2> QED
    BY <2>2, FS_CardinalityType
<1>3. order \in [1 .. n -> S] /\ IsInjective(order)
  <2>1. order \in SetToSeqs(S)
    BY DEF WriteOrders
  <2> QED
    BY <2>1 DEF SetToSeqs, IsInjective
<1> HIDE DEF S, n
<1>4. order \in Surjection(1 .. n, S)
  <2>1. order \in Injection(1 .. n, S)
    BY <1>3 DEF Injection, IsInjective
  <2>2. Cardinality(1 .. n) = n
    BY <1>2, FS_Interval
  <2> QED
    BY <1>2, <2>1, <2>2, FS_Injection DEF n
<1>5. order \in Seq(Jobs)
  BY <1>1, <1>2, <1>3
<1>6. ToSet(order) = S
  BY <1>3, <1>4 DEF ToSet, Surjection
<1> QED
  BY <1>3, <1>5, <1>6 DEF S

\* What moving to the end does to the others: they keep their order and only
\* get closer.
LEMMA MovedToEndIs ==
    ASSUME NEW order \in Seq(Jobs), IsInjective(order), NEW j \in Jobs
    PROVE  /\ MovedToEnd(order, j) \in Seq(Jobs) /\ IsInjective(MovedToEnd(order, j))
           /\ MovedToEnd(order, j) # << >> /\ Len(MovedToEnd(order, j)) >= Len(order)
           /\ ToSet(MovedToEnd(order, j)) \subseteq ToSet(order) \union {j}
           /\ \A p \in DOMAIN order : order[p] # j =>
                \E q \in DOMAIN MovedToEnd(order, j) : q <= p /\ MovedToEnd(order, j)[q] = order[p]
<1> DEFINE n == Len(order)
           moved == MovedToEnd(order, j)
<1>0. n \in Nat /\ DOMAIN order = 1 .. n
  OBVIOUS
<1>1. CASE j \notin ToSet(order)
  <2>1. moved = Append(order, j)
    BY <1>1 DEF MovedToEnd
  <2> HIDE DEF moved
  <2>2. \A p \in 1 .. n : order[p] # j
    BY <1>0, <1>1 DEF ToSet
  <2>3. /\ moved \in Seq(Jobs) /\ Len(moved) = n + 1 /\ DOMAIN moved = 1 .. n + 1
        /\ \A p \in 1 .. n : moved[p] = order[p]
        /\ moved[n + 1] = j
    BY <2>1, AppendProperties
  <2>4. \A p \in 1 .. n + 1 : p \in 1 .. n \/ p = n + 1
    BY <1>0
  <2>5. \A p \in 1 .. n : p \in 1 .. n + 1 /\ p <= p
    BY <1>0
  <2> HIDE DEF n
  <2>6. IsInjective(moved)
    BY <1>0, <2>2, <2>3, <2>4 DEF IsInjective
  <2>7. ToSet(moved) \subseteq ToSet(order) \union {j}
    BY <1>0, <2>3, <2>4 DEF ToSet
  <2> QED
    BY <1>0, <2>3, <2>5, <2>6, <2>7 DEF n, moved
<1>2. CASE j \in ToSet(order)
  <2> DEFINE k == CHOOSE p \in DOMAIN order : order[p] = j
             front == SubSeq(order, 1, k - 1)
             back == SubSeq(order, k + 1, n)
  <2>1. k \in 1 .. n /\ order[k] = j
    BY <1>0, <1>2 DEF ToSet
  <2>2. moved = Append(front \o back, j)
    BY <1>2 DEF MovedToEnd, RemoveAt
  <2> HIDE DEF k, moved
  <2>3. /\ front \in Seq(Jobs) /\ Len(front) = k - 1
        /\ \A q \in 1 .. k - 1 : front[q] = order[q]
    BY <1>0, <2>1
  <2>4. /\ back \in Seq(Jobs) /\ Len(back) = n - k
        /\ \A q \in 1 .. n - k : back[q] = order[k + q]
    <3>1. \A q \in k + 1 .. n : order[q] \in Jobs
      BY <1>0, <2>1
    <3>2. k + 1 \in Int /\ n \in Int /\ n - (k + 1) + 1 = n - k
      BY <1>0, <2>1
    <3>3. /\ back \in Seq(Jobs) /\ Len(back) = IF k + 1 <= n THEN n - (k + 1) + 1 ELSE 0
          /\ \A q \in 1 .. n - (k + 1) + 1 : back[q] = order[k + 1 + q - 1]
      BY <3>1, <3>2, SubSeqProperties
    <3> HIDE DEF back
    <3>4. \A q \in 1 .. n - k : k + 1 + q - 1 = k + q
      BY <2>1
    <3>5. Len(back) = n - k
      <4>1. Len(back) = IF k + 1 <= n THEN n - (k + 1) + 1 ELSE 0
        BY <3>3
      <4>2. n \in Nat /\ k \in 1 .. n
        BY <1>0, <2>1
      <4> HIDE DEF n
      <4> QED
        BY <4>1, <4>2
    <3> QED
      BY <3>2, <3>3, <3>4, <3>5
  <2> HIDE DEF front, back, n
  <2>5. /\ front \o back \in Seq(Jobs) /\ Len(front \o back) = n - 1
        /\ \A q \in 1 .. k - 1 : (front \o back)[q] = order[q]
        /\ \A q \in k .. n - 1 : (front \o back)[q] = order[q + 1]
    <3>1. /\ front \o back \in Seq(Jobs) /\ Len(front \o back) = Len(front) + Len(back)
          /\ \A q \in 1 .. Len(front) + Len(back) :
               (front \o back)[q] = IF q <= Len(front) THEN front[q] ELSE back[q - Len(front)]
      BY <2>3, <2>4, ConcatProperties
    <3>2. Len(front) + Len(back) = n - 1
      BY <1>0, <2>1, <2>3, <2>4
    <3>3. ASSUME NEW q \in 1 .. k - 1 PROVE (front \o back)[q] = order[q]
      <4>1. q \in 1 .. n - 1 /\ q <= k - 1
        BY <1>0, <2>1
      <4> QED
        BY <2>3, <3>1, <3>2, <4>1
    <3>4. ASSUME NEW q \in k .. n - 1 PROVE (front \o back)[q] = order[q + 1]
      <4>1. q \in 1 .. n - 1 /\ ~(q <= k - 1) /\ q - (k - 1) \in 1 .. n - k /\ k + (q - (k - 1)) = q + 1
        BY <1>0, <2>1
      <4> QED
        BY <2>3, <2>4, <3>1, <3>2, <4>1
    <3> QED
      BY <3>1, <3>2, <3>3, <3>4
  <2>6. /\ moved \in Seq(Jobs) /\ Len(moved) = n /\ DOMAIN moved = 1 .. n
        /\ \A q \in 1 .. k - 1 : moved[q] = order[q]
        /\ \A q \in k .. n - 1 : moved[q] = order[q + 1]
        /\ moved[n] = j
    <3>1. /\ moved \in Seq(Jobs) /\ Len(moved) = n - 1 + 1
          /\ \A q \in 1 .. n - 1 : moved[q] = (front \o back)[q]
          /\ moved[n - 1 + 1] = j
      BY <2>2, <2>5, AppendProperties
    <3>2. n - 1 + 1 = n /\ \A q \in 1 .. k - 1 : q \in 1 .. n - 1
      BY <1>0, <2>1
    <3>3. \A q \in k .. n - 1 : q \in 1 .. n - 1
      BY <1>0, <2>1
    <3> QED
      <4>1. moved \in Seq(Jobs) /\ Len(moved) = n /\ DOMAIN moved = 1 .. n /\ moved[n] = j
        BY <3>1, <3>2
      <4>2. \A q \in 1 .. k - 1 : moved[q] = order[q]
        BY <2>5, <3>1, <3>2
      <4>3. \A q \in k .. n - 1 : moved[q] = order[q + 1]
        BY <2>5, <3>1, <3>3
      <4> QED
        BY <4>1, <4>2, <4>3
  <2>7. \A q \in 1 .. n : q \in 1 .. k - 1 \/ q \in k .. n - 1 \/ q = n
    BY <1>0, <2>1
  <2> DEFINE src(q) == IF q = n THEN k ELSE IF q < k THEN q ELSE q + 1
  <2>8. \A q \in 1 .. n : src(q) \in 1 .. n /\ moved[q] = order[src(q)]
    <3>1. \A q \in 1 .. n : src(q) \in 1 .. n
      BY <1>0, <2>1
    <3>2. \A q \in 1 .. k - 1 : q # n /\ q < k
      BY <1>0, <2>1
    <3>3. \A q \in k .. n - 1 : q # n /\ ~(q < k)
      BY <1>0, <2>1
    <3> QED
      BY <2>1, <2>6, <2>7, <3>1, <3>2, <3>3
  <2>9. \A p, q \in 1 .. n : src(p) = src(q) => p = q
    BY <1>0, <2>1
  <2> HIDE DEF src
  <2>10. IsInjective(moved)
    BY <1>0, <2>6, <2>8, <2>9 DEF IsInjective
  <2>11. ToSet(moved) \subseteq ToSet(order)
    BY <1>0, <2>6, <2>8 DEF ToSet
  <2>12. ASSUME NEW p \in 1 .. n, order[p] # j
         PROVE  \E q \in 1 .. n : q <= p /\ moved[q] = order[p]
    <3>1. CASE p < k
      <4>1. p \in 1 .. k - 1 /\ p <= p
        BY <1>0, <2>1, <3>1
      <4> QED
        BY <2>6, <4>1
    <3>2. CASE p > k
      <4>1. p - 1 \in k .. n - 1 /\ p - 1 <= p /\ p - 1 \in 1 .. n /\ (p - 1) + 1 = p
        BY <1>0, <2>1, <3>2
      <4> QED
        BY <2>6, <4>1
    <3> QED
      BY <1>0, <2>1, <2>12, <3>1, <3>2
  <2> QED
    BY <1>0, <2>1, <2>6, <2>10, <2>11, <2>12 DEF n, moved
<1> QED
  BY <1>1, <1>2

\* What the watcher delivers.
Entry == [job : Jobs, status : Statuses \union {"Absent"}]

\* The next entry: the job it is about is seen, the others get closer.
LEMMA ReceiveKeeps ==
    ASSUME StreamInv, WatchInv, ReceiveEntry, UNCHANGED jobsVars
    PROVE  WatchInv'
<1> DEFINE n == Len(entries)
           m == Len(undelivered)
           h == Head(undelivered)
           e == [job |-> h, status |-> status[h]]
<1>1. /\ watching /\ watching' /\ ~(n > initPending)
      /\ entries' = Append(entries, e) /\ undelivered' = Tail(undelivered)
      /\ initPending' = IF entries = << >> THEN m - 1 ELSE initPending
      /\ UNCHANGED <<changed, created, status>>
  BY DEF ReceiveEntry, EndOfRecords, WatchInv, jobsVars
<1>2. /\ undelivered \in Seq(Jobs) /\ IsInjective(undelivered)
      /\ entries \in Seq(Entry)
      /\ \A j \in ToSet(created) \ changed :
           \/ SeenOnce(j) /\ j \notin ToSet(undelivered)
           \/ ComesInTime(j)
  BY <1>1 DEF WatchInv, DeliveryInv, Entry
<1>3. n \in Nat /\ m \in Nat /\ undelivered # << >> /\ m > 0
      /\ (entries = << >> => n = 0) /\ (entries # << >> => n > 0 /\ initPending \in Nat /\ n + m > initPending)
  <2>1. n \in Nat /\ m \in Nat /\ (entries = << >> <=> n = 0) /\ (undelivered = << >> <=> m = 0)
    BY <1>2
  <2>2. CASE entries = << >>
    BY <1>1, <2>1, <2>2 DEF WatchInv, DeliveryInv
  <2>3. CASE entries # << >>
    BY <1>1, <2>1, <2>3 DEF WatchInv, DeliveryInv
  <2> QED
    BY <2>1, <2>2, <2>3
<1>4. /\ h = undelivered[1] /\ 1 \in DOMAIN undelivered /\ h \in Jobs /\ DOMAIN undelivered = 1 .. m
      /\ undelivered' \in Seq(Jobs) /\ Len(undelivered') = m - 1 /\ DOMAIN undelivered' = 1 .. m - 1
      /\ \A p \in 1 .. m - 1 : undelivered'[p] = undelivered[p + 1]
  BY <1>1, <1>2, <1>3
<1>5. e \in Entry
  BY <1>4 DEF Entry, StreamInv
<1>6. /\ entries' \in Seq(Entry) /\ Len(entries') = n + 1 /\ DOMAIN entries' = 1 .. n + 1
      /\ DOMAIN entries = 1 .. n
      /\ \A k \in 1 .. n : entries'[k] = entries[k]
      /\ entries'[n + 1] = e
  BY <1>1, <1>2, <1>5, AppendProperties
<1>7. \A k \in 1 .. n + 1 : k \in 1 .. n \/ k = n + 1
  BY <1>3
<1>8. e.job = h /\ e.status = status[h]
  OBVIOUS
<1> HIDE DEF n, m, h, e
<1>9. IsInjective(undelivered')
  <2> SUFFICES ASSUME NEW p \in 1 .. m - 1, NEW q \in 1 .. m - 1, undelivered'[p] = undelivered'[q]
               PROVE  p = q
    BY <1>4 DEF IsInjective
  <2>1. p + 1 \in 1 .. m /\ q + 1 \in 1 .. m /\ undelivered[p + 1] = undelivered[q + 1]
    BY <1>3, <1>4
  <2>2. p + 1 = q + 1
    BY <1>2, <1>4, <2>1 DEF IsInjective
  <2> QED
    BY <2>2
<1>10. DeliveryInv'
  <2>1. entries' # << >>
    BY <1>3, <1>6
  <2>2. initPending' \in Nat /\ (n + 1) + (m - 1) > initPending'
    <3>1. CASE entries = << >>
      <4>1. n = 0 /\ m \in Nat /\ m > 0 /\ initPending' = m - 1
        BY <1>1, <1>3, <3>1
      <4> QED
        BY <4>1
    <3>2. CASE entries # << >>
      <4>1. /\ n \in Nat /\ m \in Nat /\ initPending \in Nat
            /\ n + m > initPending /\ initPending' = initPending
        BY <1>1, <1>3, <3>2
      <4> QED
        BY <4>1
    <3> QED
      BY <3>1, <3>2
  <2> QED
    BY <1>4, <1>6, <1>9, <2>1, <2>2 DEF DeliveryInv, Entry
<1>11. ASSUME NEW j \in ToSet(created) \ changed
       PROVE  \/ SeenOnce(j)' /\ j \notin ToSet(undelivered')
              \/ ComesInTime(j)'
  <2>1. CASE SeenOnce(j) /\ j \notin ToSet(undelivered)
    <3>1. j # h
      BY <1>4, <2>1 DEF ToSet
    <3>2. PICK k \in 1 .. n : /\ entries[k] = [job |-> j, status |-> status[j]]
                              /\ \A l \in 1 .. n : entries[l].job = j => l = k
      BY <1>6, <2>1 DEF SeenOnce
    <3>3. \A l \in 1 .. n + 1 : entries'[l].job = j => l = k
      BY <1>6, <1>7, <1>8, <3>1, <3>2
    <3>4. k \in 1 .. n + 1
      BY <1>3
    <3>5. SeenOnce(j)'
      BY <1>1, <1>6, <3>2, <3>3, <3>4 DEF SeenOnce
    <3>6. \A p \in 1 .. m - 1 : p + 1 \in 1 .. m
      BY <1>3
    <3>7. j \notin ToSet(undelivered')
      BY <1>4, <2>1, <3>6 DEF ToSet
    <3> QED
      BY <3>5, <3>7
  <2>2. CASE ComesInTime(j)
    <3>1. \A k \in 1 .. n : entries[k].job # j
      BY <1>6, <2>2 DEF ComesInTime
    <3>2. PICK p \in 1 .. m : undelivered[p] = j /\ (entries # << >> => n + p <= initPending + 1)
      BY <1>4, <2>2 DEF ComesInTime, n
    <3>3. CASE p = 1
      <4>1. j = h
        BY <1>4, <3>2, <3>3
      <4>2. e = [job |-> j, status |-> status[j]]
        BY <4>1 DEF e
      <4>3. \A l \in 1 .. n + 1 : entries'[l].job = j => l = n + 1
        BY <1>6, <1>7, <3>1
      <4>4. n + 1 \in 1 .. n + 1
        BY <1>3
      <4>5. SeenOnce(j)'
        BY <1>1, <1>6, <4>2, <4>3, <4>4 DEF SeenOnce
      <4>6. ASSUME NEW q \in 1 .. m - 1 PROVE undelivered'[q] # j
        <5>1. q + 1 \in 1 .. m /\ q + 1 # 1 /\ undelivered'[q] = undelivered[q + 1]
          BY <1>3, <1>4
        <5> QED
          BY <1>2, <1>4, <4>1, <5>1 DEF IsInjective
      <4>7. j \notin ToSet(undelivered')
        BY <1>4, <4>6 DEF ToSet
      <4> QED
        BY <4>5, <4>7
    <3>4. CASE p # 1
      <4>1. p - 1 \in 1 .. m - 1 /\ (p - 1) + 1 = p
        BY <1>3, <3>4
      <4>2. undelivered'[p - 1] = j
        BY <1>4, <3>2, <4>1
      <4>3. (n + 1) + (p - 1) <= initPending' + 1
        BY <1>1, <1>3, <3>2
      <4>4. h # j
        BY <1>2, <1>4, <3>2, <3>4 DEF IsInjective
      <4>5. \A k \in 1 .. n + 1 : entries'[k].job # j
        BY <1>6, <1>7, <1>8, <3>1, <4>4
      <4> QED
        BY <1>4, <1>6, <4>1, <4>2, <4>3, <4>5 DEF ComesInTime
    <3> QED
      BY <3>3, <3>4
  <2> QED
    BY <1>2, <1>11, <2>1, <2>2
<1> QED
  BY <1>1, <1>10, <1>11 DEF WatchInv

\* All the jobs are owed when a walk begins.
LEMMA WatchStepKeeps ==
    ASSUME StreamInv, WatchInv, WatchStep, UNCHANGED jobsVars
    PROVE  WatchInv'
<1>1. created \in Seq(Jobs) /\ UNCHANGED <<created, status>>
  BY DEF StreamInv, jobsVars
<1>2. CASE BeginWatch
  <2>1. /\ ~watching /\ watching' /\ entries' = << >> /\ changed' = {}
        /\ undelivered' \in WriteOrders
        /\ initPending' = IF created = << >> THEN -1 ELSE 0
    BY <1>2 DEF BeginWatch, WatchInv
  <2>2. undelivered' \in Seq(Jobs) /\ IsInjective(undelivered') /\ ToSet(undelivered') = ToSet(created)
    BY <1>1, <2>1, WriteOrderCovers
  <2>3. << >> \in Seq(Entry) /\ DOMAIN << >> = {}
    OBVIOUS
  <2>4. created = << >> => ToSet(created) = {}
    BY <2>3 DEF ToSet
  <2>5. created # << >> => undelivered' # << >>
    <3> SUFFICES ASSUME created # << >> PROVE undelivered' # << >>
      OBVIOUS
    <3>1. 1 \in DOMAIN created
      BY <1>1
    <3>2. ToSet(created) # {}
      BY <3>1 DEF ToSet
    <3> QED
      BY <2>2, <2>3, <3>2 DEF ToSet
  <2>6. DeliveryInv'
    BY <1>1, <2>1, <2>2, <2>3, <2>4, <2>5 DEF DeliveryInv, Entry
  <2>7. \A j \in ToSet(created)' : ComesInTime(j)'
    BY <1>1, <2>1, <2>2, <2>3 DEF ComesInTime, ToSet
  <2> QED
    BY <2>1, <2>6, <2>7 DEF WatchInv
<1>3. CASE ReceiveEntry
  BY <1>3, ReceiveKeeps
<1>4. CASE EndWatch
  BY <1>4 DEF EndWatch, WatchInv
<1> QED
  BY <1>2, <1>3, <1>4 DEF WatchStep

\* A job whose record is written is not owed anything; the others stay in front
\* of it.
LEMMA WatchLeftAlone ==
    ASSUME StreamInv, WatchInv, JobsNext, ObserveWatch
    PROVE  WatchInv'
<1> DEFINE written == {j \in Jobs : status'[j] # status[j]}
<1>1. UNCHANGED <<watching, initPending, entries>>
  BY DEF ObserveWatch
<1>2. PICK w \in Jobs : CreateJob(w) \/ PublishMessage(w) \/ StatusChange(w)
  BY DEF JobsNext
<1>3. /\ \A j \in Jobs : j # w => status'[j] = status[j]
      /\ \/ created' = created
         \/ created' = Append(created, w) /\ status'[w] # status[w]
  <2>1. status \in [Jobs -> Statuses \union {"Absent"}]
    BY DEF StreamInv
  <2>2. CASE CreateJob(w)
    BY <2>1, <2>2 DEF CreateJob, Lifecycle!Submit, Lifecycle!Becomes
  <2>3. CASE PublishMessage(w)
    BY <2>3 DEF PublishMessage
  <2>4. CASE StatusChange(w)
    BY <2>1, <2>4 DEF StatusChange, Lifecycle!Cancel, Lifecycle!Start, Lifecycle!Fail,
       Lifecycle!Succeed, Lifecycle!Becomes
  <2> QED
    BY <1>2, <2>2, <2>3, <2>4
<1>4. CASE ~watching
  BY <1>1, <1>4 DEF ObserveWatch, WatchInv
<1>5. CASE watching /\ written = {}
  <2>1. UNCHANGED <<undelivered, changed>> /\ created' = created /\ \A j \in Jobs : status'[j] = status[j]
    BY <1>3, <1>5 DEF ObserveWatch
  <2>2. created \in Seq(Jobs) /\ DeliveryInv
    BY <1>5 DEF StreamInv, WatchInv
  <2>3. DeliveryInv'
    BY <1>1, <2>1, <2>2 DEF DeliveryInv, IsInjective, ToSet
  <2>4. ASSUME NEW j \in ToSet(created) \ changed
        PROVE  (SeenOnce(j) => SeenOnce(j)') /\ (ComesInTime(j) => ComesInTime(j)')
    <3>1. j \in Jobs
      BY <2>2, <2>4 DEF ToSet
    <3> QED
      BY <1>1, <2>1, <3>1 DEF SeenOnce, ComesInTime
  <2>5. ToSet(undelivered)' = ToSet(undelivered) /\ ToSet(created)' = ToSet(created)
    BY <2>1 DEF ToSet
  <2> QED
    BY <1>1, <1>5, <2>1, <2>3, <2>4, <2>5 DEF WatchInv
<1>6. CASE watching /\ written # {}
  <2>1. written = {w}
    BY <1>3, <1>6
  <2>2. undelivered' = MovedToEnd(undelivered, w) /\ changed' = changed \union {w}
    BY <1>6, <2>1 DEF ObserveWatch
  <2>3. /\ DeliveryInv /\ created \in Seq(Jobs)
        /\ \A j \in ToSet(created) \ changed :
              \/ SeenOnce(j) /\ j \notin ToSet(undelivered)
              \/ ComesInTime(j)
    BY <1>6 DEF WatchInv, StreamInv
  <2>4. /\ undelivered' \in Seq(Jobs) /\ IsInjective(undelivered')
        /\ undelivered' # << >> /\ Len(undelivered') >= Len(undelivered)
        /\ ToSet(undelivered') \subseteq ToSet(undelivered) \union {w}
        /\ \A p \in DOMAIN undelivered : undelivered[p] # w =>
              \E q \in DOMAIN undelivered' : q <= p /\ undelivered'[q] = undelivered[p]
    <3>1. undelivered \in Seq(Jobs) /\ IsInjective(undelivered)
      BY <2>3 DEF DeliveryInv
    <3> QED
      BY <2>2, <3>1, MovedToEndIs
  <2>5. ToSet(created') \subseteq ToSet(created) \union {w}
    <3>1. CASE created' = created
      BY <3>1
    <3>2. CASE created' = Append(created, w)
      <4>1. /\ DOMAIN created = 1 .. Len(created) /\ DOMAIN created' = 1 .. Len(created) + 1
            /\ \A k \in 1 .. Len(created) : created'[k] = created[k]
            /\ created'[Len(created) + 1] = w /\ Len(created) \in Nat
        BY <2>3, <3>2, AppendProperties
      <4>2. \A k \in 1 .. Len(created) + 1 : k \in 1 .. Len(created) \/ k = Len(created) + 1
        BY <4>1
      <4> QED
        BY <4>1, <4>2 DEF ToSet
    <3> QED
      BY <1>3, <3>1, <3>2
  <2>6. DeliveryInv'
    <3>1. CASE entries = << >>
      <4>1. initPending = 0 \/ (initPending = -1 /\ ToSet(created) \subseteq changed)
        BY <2>3, <3>1 DEF DeliveryInv
      <4> QED
        BY <1>1, <2>2, <2>3, <2>4, <2>5, <3>1, <4>1 DEF DeliveryInv
    <3>2. CASE entries # << >>
      <4>1. /\ entries \in Seq([job : Jobs, status : Statuses \union {"Absent"}])
            /\ undelivered \in Seq(Jobs)
            /\ initPending \in Nat /\ Len(entries) + Len(undelivered) > initPending
        BY <2>3, <3>2 DEF DeliveryInv
      <4>2. Len(entries) + Len(undelivered') > initPending
        BY <2>4, <4>1
      <4> QED
        BY <1>1, <2>4, <3>2, <4>1, <4>2 DEF DeliveryInv
    <3> QED
      BY <3>1, <3>2
  <2>7. ASSUME NEW j \in ToSet(created') \ changed'
        PROVE  \/ SeenOnce(j)' /\ j \notin ToSet(undelivered')
               \/ ComesInTime(j)'
    <3>1. j # w /\ j \in ToSet(created) \ changed /\ j \in Jobs
      BY <2>2, <2>3, <2>5, <2>7 DEF ToSet
    <3>2. status'[j] = status[j]
      BY <1>3, <3>1
    <3>3. CASE SeenOnce(j) /\ j \notin ToSet(undelivered)
      BY <1>1, <2>4, <3>1, <3>2, <3>3 DEF SeenOnce
    <3>4. CASE ComesInTime(j)
      <4>1. PICK p \in DOMAIN undelivered :
              undelivered[p] = j /\ (entries # << >> => Len(entries) + p <= initPending + 1)
        BY <3>4 DEF ComesInTime
      <4>2. PICK q \in DOMAIN undelivered' : q <= p /\ undelivered'[q] = j
        BY <2>4, <3>1, <4>1
      <4>3. entries # << >> => Len(entries) + q <= initPending + 1
        <5>1. p \in Nat /\ q \in Nat
          BY <2>3, <2>4 DEF DeliveryInv
        <5>2. entries # << >> => Len(entries) \in Nat /\ initPending \in Nat
          BY <2>3 DEF DeliveryInv
        <5> QED
          BY <4>1, <4>2, <5>1, <5>2
      <4> QED
        BY <1>1, <3>4, <4>2, <4>3 DEF ComesInTime
    <3> QED
      BY <2>3, <3>1, <3>3, <3>4
  <2> QED
    BY <1>1, <1>6, <2>6, <2>7 DEF WatchInv
<1> QED
  BY <1>4, <1>5, <1>6

\* The other readers do not touch a walk.
LEMMA IdleWatch ==
    ASSUME WatchInv, UNCHANGED watchVars, UNCHANGED jobsVars
    PROVE  WatchInv'
<1> USE DEF watchVars, jobsVars
<1>1. \A j : (SeenOnce(j) => SeenOnce(j)') /\ (ComesInTime(j) => ComesInTime(j)')
  BY DEF SeenOnce, ComesInTime
<1>2. ToSet(created)' = ToSet(created) /\ ToSet(undelivered)' = ToSet(undelivered)
  BY DEF ToSet
<1>3. DeliveryInv => DeliveryInv'
  BY <1>2 DEF DeliveryInv, IsInjective
<1> QED
  BY <1>1, <1>2, <1>3 DEF WatchInv

(***************************************************************************)
(* A record is created once, and the watcher delivers records.             *)
(***************************************************************************)

\* A job joins those created as its record does, and nothing removes a record.
LEMMA CreatedLeftAlone ==
    ASSUME StreamInv, CreatedInv, JobsNext
    PROVE  /\ CreatedInv' /\ ToSet(created) \subseteq ToSet(created')
           /\ \A j \in Jobs : status'[j] # status[j] => j \in ToSet(created')
<1>1. PICK w \in Jobs : CreateJob(w) \/ PublishMessage(w) \/ StatusChange(w)
  BY DEF JobsNext
<1>2. /\ status \in [Jobs -> Statuses \union {"Absent"}] /\ created \in Seq(Jobs)
      /\ IsInjective(created) /\ \A j \in Jobs : j \in ToSet(created) <=> status[j] # "Absent"
  BY DEF StreamInv, CreatedInv
<1>3. \A j \in Jobs : j # w => status'[j] = status[j]
  BY <1>1, <1>2 DEF CreateJob, PublishMessage, StatusChange, Lifecycle!Submit, Lifecycle!Cancel,
     Lifecycle!Start, Lifecycle!Fail, Lifecycle!Succeed, Lifecycle!Becomes
<1>4. CASE CreateJob(w)
  <2>1. status[w] = "Absent" /\ status'[w] = "Submitted" /\ created' = Append(created, w)
    BY <1>2, <1>4 DEF CreateJob, Lifecycle!Submit, Lifecycle!Becomes
  <2> DEFINE n == Len(created)
  <2>2. /\ n \in Nat /\ DOMAIN created = 1 .. n /\ DOMAIN created' = 1 .. n + 1
        /\ \A k \in 1 .. n : created'[k] = created[k]
        /\ created'[n + 1] = w
    BY <1>2, <2>1, AppendProperties
  <2>3. \A k \in 1 .. n + 1 : k \in 1 .. n \/ k = n + 1
    BY <2>2
  <2> HIDE DEF n
  <2>4. ToSet(created') = ToSet(created) \union {w}
    <3>1. 1 .. n \subseteq 1 .. n + 1 /\ n + 1 \in 1 .. n + 1
      BY <2>2
    <3> QED
      BY <2>2, <2>3, <3>1 DEF ToSet
  <2>5. \A k \in 1 .. n : created[k] # w
    BY <1>2, <2>1, <2>2 DEF ToSet
  <2>6. IsInjective(created')
    BY <1>2, <2>2, <2>3, <2>5 DEF IsInjective
  <2> QED
    BY <1>2, <1>3, <2>1, <2>4, <2>6 DEF CreatedInv
<1>5. CASE PublishMessage(w) \/ StatusChange(w)
  <2>1. created' = created /\ (status'[w] = status[w] \/ (status[w] # "Absent" /\ status'[w] # "Absent"))
    BY <1>2, <1>5 DEF PublishMessage, StatusChange, Lifecycle!Cancel, Lifecycle!Start,
       Lifecycle!Fail, Lifecycle!Succeed, Lifecycle!Becomes
  <2> QED
    BY <1>2, <1>3, <2>1 DEF CreatedInv
<1> QED
  BY <1>1, <1>4, <1>5

\* What moves to the end is a record.
LEMMA RecordsLeftAlone ==
    ASSUME StreamInv, WatchInv, CreatedInv, RecordsInv, JobsNext, ObserveWatch
    PROVE  CreatedInv' /\ RecordsInv'
<1>1. /\ CreatedInv' /\ ToSet(created) \subseteq ToSet(created')
      /\ \A j \in Jobs : status'[j] # status[j] => j \in ToSet(created')
  BY CreatedLeftAlone
<1>2. entries' = entries
  BY DEF ObserveWatch
<1>3. ToSet(undelivered') \subseteq ToSet(created')
  <2>1. CASE undelivered' = undelivered
    BY <1>1, <2>1 DEF RecordsInv
  <2>2. CASE watching /\ \E j \in Jobs : status'[j] # status[j] /\ undelivered' = MovedToEnd(undelivered, j)
    <3>1. PICK j \in Jobs : status'[j] # status[j] /\ undelivered' = MovedToEnd(undelivered, j)
      BY <2>2
    <3>2. undelivered \in Seq(Jobs) /\ IsInjective(undelivered)
      BY <2>2 DEF WatchInv, DeliveryInv
    <3>3. ToSet(undelivered') \subseteq ToSet(undelivered) \union {j}
      BY <3>1, <3>2, MovedToEndIs
    <3> QED
      BY <1>1, <3>1, <3>3 DEF RecordsInv
  <2> QED
    BY <2>1, <2>2 DEF ObserveWatch
<1>4. RecordsInv'
  BY <1>1, <1>2, <1>3 DEF RecordsInv
<1> QED
  BY <1>1, <1>4

\* What the watcher delivers, or starts with, are records.
LEMMA RecordsDelivered ==
    ASSUME StreamInv, WatchInv, CreatedInv, RecordsInv, WatchStep, UNCHANGED jobsVars
    PROVE  CreatedInv' /\ RecordsInv'
<1>1. /\ created \in Seq(Jobs) /\ UNCHANGED <<created, status>>
      /\ ToSet(created) \subseteq Jobs
  BY DEF StreamInv, jobsVars, ToSet
<1>2. CreatedInv'
  BY <1>1 DEF CreatedInv, IsInjective
<1>3. CASE BeginWatch
  <2>1. entries' = entries /\ undelivered' \in WriteOrders
    BY <1>3 DEF BeginWatch
  <2>2. ToSet(undelivered') = ToSet(created)
    BY <1>1, <2>1, WriteOrderCovers
  <2> QED
    BY <1>1, <1>2, <2>1, <2>2 DEF RecordsInv
<1>4. CASE ReceiveEntry
  <2> DEFINE n == Len(entries)
             h == Head(undelivered)
             e == [job |-> h, status |-> status[h]]
  <2>1. /\ undelivered \in Seq(Jobs) /\ undelivered # << >>
        /\ entries \in Seq(Entry)
    <3>1. DeliveryInv /\ ~(Len(entries) > initPending)
      BY <1>4 DEF ReceiveEntry, EndOfRecords, WatchInv
    <3>2. undelivered \in Seq(Jobs) /\ entries \in Seq(Entry)
      BY <3>1 DEF DeliveryInv, Entry
    <3>3. Len(entries) \in Nat /\ (entries = << >> => Len(entries) = 0)
          /\ (undelivered = << >> => Len(undelivered) = 0)
      BY <3>2
    <3> QED
      BY <3>1, <3>2, <3>3 DEF DeliveryInv
  <2>2. entries' = Append(entries, e) /\ undelivered' = Tail(undelivered)
    BY <1>4 DEF ReceiveEntry
  <2>3. /\ Len(undelivered) \in Nat /\ 1 \in DOMAIN undelivered /\ h = undelivered[1]
        /\ \A p \in DOMAIN Tail(undelivered) :
              p + 1 \in DOMAIN undelivered /\ Tail(undelivered)[p] = undelivered[p + 1]
    BY <2>1
  <2>4. ToSet(undelivered') \subseteq ToSet(undelivered) /\ h \in ToSet(undelivered)
    BY <2>2, <2>3 DEF ToSet
  <2>5. h \in ToSet(created) /\ status[h] \in Statuses
    <3>1. h \in ToSet(created) /\ h \in Jobs
      BY <1>1, <2>4 DEF RecordsInv
    <3> QED
      BY <3>1 DEF CreatedInv, StreamInv
  <2>6. e \in Entry /\ e.job = h /\ e.status = status[h]
    BY <1>1, <2>5 DEF Entry
  <2> HIDE DEF e, h
  <2>7. /\ DOMAIN entries = 1 .. n /\ DOMAIN entries' = 1 .. n + 1
        /\ \A k \in 1 .. n : entries'[k] = entries[k]
        /\ entries'[n + 1] = e
    BY <2>1, <2>2, <2>6, AppendProperties
  <2>8. \A k \in 1 .. n + 1 : k \in 1 .. n \/ k = n + 1
    BY <2>1
  <2>9. \A k \in 1 .. n + 1 : entries'[k].job \in ToSet(created) /\ entries'[k].status \in Statuses
    BY <2>5, <2>6, <2>7, <2>8 DEF RecordsInv
  <2> QED
    BY <1>1, <1>2, <2>4, <2>7, <2>9 DEF RecordsInv
<1>5. CASE EndWatch
  <2>1. entries' = << >> /\ undelivered' = << >> /\ DOMAIN << >> = {}
    BY <1>5 DEF EndWatch
  <2> QED
    BY <1>2, <2>1 DEF RecordsInv, ToSet
<1> QED
  BY <1>3, <1>4, <1>5 DEF WatchStep

\* All the readers, and the jobs.
LEMMA RecordsStep ==
    ASSUME ReadersInv, [Next]_vars
    PROVE  CreatedInv' /\ RecordsInv'
<1>0. StreamInv /\ WatchInv /\ CreatedInv /\ RecordsInv
  BY DEF ReadersInv
<1>1. CASE UNCHANGED jobsVars /\ UNCHANGED watchVars
  BY <1>0, <1>1 DEF CreatedInv, RecordsInv, jobsVars, watchVars, IsInjective, ToSet
<1>2. CASE WatchStep /\ UNCHANGED jobsVars
  BY <1>0, <1>2, RecordsDelivered
<1>3. CASE JobsNext /\ ObserveWatch
  BY <1>0, <1>3, RecordsLeftAlone
<1> QED
  BY <1>1, <1>2, <1>3 DEF Next, vars, jobsVars

(***************************************************************************)
(* All together.                                                           *)
(***************************************************************************)

\* One message of the walk, read, left out or collected.
LEMMA ReadKeeps ==
    ASSUME StreamInv, ScanInv, ReadNext, UNCHANGED jobsVars
    PROVE  StreamInv' /\ ScanInv'
<1>1. StreamInv'
  BY ReadAdvances
<1>2. ScanInv'
  BY ReadPassesOver, ReadTakes DEF ReadNext
<1> QED
  BY <1>1, <1>2

\* A search that is idle does not mind what the other readers do.
LEMMA IdleSearch ==
    ASSUME SearchInv, pass = "idle", UNCHANGED searchVars
    PROVE  SearchInv'
BY DEF SearchInv, searchVars, SearchFindsNewest

\* Nor does a listing that is not there.
LEMMA IdleScan ==
    ASSUME ScanInv, request = NoRequest, UNCHANGED scanVars
    PROVE  ScanInv'
BY DEF ScanInv, scanVars

\* Before anything happened.
LEMMA ReadersInit ==
    ASSUME Init
    PROVE  ReadersInv
<1> USE DEF Init
<1>1. StreamInv
  <2>1. << >> \in Seq(Jobs) /\ DOMAIN << >> = {} /\ Len(<< >>) = 0
    OBVIOUS
  <2> QED
    BY <2>1 DEF JobsInit, StreamInv, IsInjective
<1>2. ScanInv
  BY DEF ScanInit, ScanInv
<1>3. SearchInv
  BY DEF SearchInit, SearchInv, SearchFindsNewest
<1>4. WatchInv
  BY DEF WatchInit, WatchInv
<1>5. CreatedInv /\ RecordsInv
  <2>1. DOMAIN << >> = {}
    OBVIOUS
  <2> QED
    BY <2>1 DEF JobsInit, WatchInit, CreatedInv, RecordsInv, IsInjective, ToSet
<1> QED
  BY <1>1, <1>2, <1>3, <1>4, <1>5 DEF ReadersInv

\* The readers take turns; the jobs go on under any of them.
LEMMA ReadersStep ==
    ASSUME ReadersInv, [Next]_vars
    PROVE  ReadersInv'
<1>0. StreamInv /\ ScanInv /\ SearchInv /\ WatchInv
  BY DEF ReadersInv
<1> SUFFICES StreamInv' /\ ScanInv' /\ SearchInv' /\ WatchInv'
  BY RecordsStep DEF ReadersInv
<1>1. CASE pass = "idle" /\ ListingStep /\ UNCHANGED <<jobsVars, searchVars, watchVars>>
  <2>1. UNCHANGED jobsVars /\ UNCHANGED searchVars /\ UNCHANGED watchVars
    BY <1>1
  <2>2. StreamInv' /\ ScanInv'
    <3>1. ASSUME NEW r \in Requests, Begin(r) PROVE StreamInv' /\ ScanInv'
      BY <1>0, <2>1, <3>1, BeginKeeps
    <3>2. CASE ReadNext
      BY <1>0, <2>1, <3>2, ReadKeeps
    <3>3. CASE Return
      BY <1>0, <2>1, <3>3, ReturnKeeps
    <3> QED
      BY <1>1, <3>1, <3>2, <3>3 DEF ListingStep
  <2> QED
    BY <1>0, <1>1, <2>1, <2>2, IdleSearch, IdleWatch
<1>2. CASE request = NoRequest /\ SearchStep /\ UNCHANGED <<jobsVars, scanVars, watchVars>>
  <2>1. UNCHANGED jobsVars /\ UNCHANGED scanVars /\ UNCHANGED watchVars
    BY <1>2
  <2> QED
    BY <1>0, <1>2, <2>1, SearchStepKeeps, IdleScan, IdleWatch
<1>3. CASE /\ request = NoRequest /\ pass = "idle"
           /\ WatchStep /\ UNCHANGED <<jobsVars, scanVars, searchVars>>
  <2>1. UNCHANGED jobsVars /\ UNCHANGED scanVars /\ UNCHANGED searchVars
    BY <1>3
  <2>2. StreamInv'
    BY <1>0, <1>3, <2>1 DEF WatchStep, StreamInv, jobsVars, requestVars, IsInjective
  <2> QED
    BY <1>0, <1>3, <2>1, <2>2, WatchStepKeeps, IdleScan, IdleSearch
<1>4. CASE JobsNext /\ Observe /\ ObserveWatch /\ UNCHANGED searchVars
  <2>1. /\ StreamInv' /\ UNCHANGED requestVars
        /\ \A s \in 1 .. lastSeq : stream'[s] = stream[s]
    BY <1>0, <1>4, JobsLeaveMessages
  <2> QED
    BY <1>0, <1>4, <2>1, ScanLeftAlone, SearchLeftAlone, WatchLeftAlone
<1>5. CASE UNCHANGED vars
  <2>1. UNCHANGED jobsVars /\ UNCHANGED requestVars /\ UNCHANGED scanVars /\ UNCHANGED searchVars
        /\ UNCHANGED watchVars
    BY <1>5 DEF vars
  <2>2. StreamInv'
    BY <1>0, <2>1 DEF StreamInv, jobsVars, requestVars, IsInjective
  <2>3. SearchInv'
    BY <1>0, <2>1, SearchLeftAlone DEF jobsVars
  <2>4. ScanInv'
    <3>1. UNCHANGED <<stream, status, lastSeq, missed, request, i, skipped, scanned, jobs, always, ever>>
      BY <2>1 DEF jobsVars, requestVars, scanVars
    <3>2. CASE request = NoRequest
      BY <1>0, <2>1, <3>2, IdleScan
    <3>3. CASE request # NoRequest
      <4>1. WalkInv /\ CollectedInv /\ HistoryInv /\ CompleteInv
        BY <1>0, <3>3 DEF ScanInv
      <4>2. \A k : At(k)' = At(k)
        BY <3>1 DEF At
      <4>3. \A k : PassedUpTo(k)' = PassedUpTo(k)
        BY <3>1, <4>2 DEF PassedUpTo
      <4>4. WalkInv'
        BY <3>1, <4>1 DEF WalkInv, At
      <4>5. CollectedInv'
        BY <3>1, <4>1, <4>2 DEF CollectedInv
      <4>6. HistoryInv'
        BY <3>1, <4>1 DEF HistoryInv, Passing
      <4>7. CompleteInv'
        BY <3>1, <4>1, <4>2, <4>3 DEF CompleteInv
      <4> QED
        BY <3>1, <3>3, <4>4, <4>5, <4>6, <4>7 DEF ScanInv
    <3> QED
      BY <3>2, <3>3
  <2> QED
    BY <1>0, <2>1, <2>2, <2>3, <2>4, IdleWatch
<1> QED
  BY <1>1, <1>2, <1>3, <1>4, <1>5 DEF Next

\* The inductive invariant: how far a listing or a search is and what it has found
\* agree with the messages it has gone through, and the watcher owes or has
\* delivered each job that was left alone, while createJob, cancelJob, the
\* workers and fail-stale go on changing the jobs.
THEOREM ReadersKeepTrack == Spec => []ReadersInv
<1>1. Init => ReadersInv
  BY ReadersInit
<1>2. ReadersInv /\ [Next]_vars => ReadersInv'
  BY ReadersStep
<1> QED
  BY <1>1, <1>2, PTL DEF Spec

\* FindJobOffset numbers the newest job that matches, of those there were when it
\* began, unless a read failed.
THEOREM SearchFindsTheNewest == Spec => []SearchFindsNewest
<1>1. ReadersInv => SearchFindsNewest
  BY DEF ReadersInv, SearchInv
<1> QED
  BY <1>1, ReadersKeepTrack, PTL

(***************************************************************************)
(* What the invariant says of the page when the request is answered.       *)
(***************************************************************************)

\* A piece of a sequence from its front.
LEMMA FirstOnes ==
    ASSUME NEW S, NEW s \in Seq(S), NEW n \in 0 .. Len(s)
    PROVE  /\ SubSeq(s, 1, n) \in Seq(S) /\ Len(SubSeq(s, 1, n)) = n
           /\ \A a \in 1 .. n : SubSeq(s, 1, n)[a] = s[a]
<1>1. \A a \in 1 .. n : s[a] \in S
  OBVIOUS
<1>2. n \in Int /\ 1 \in Int /\ n - 1 + 1 = n
  OBVIOUS
<1>3. /\ SubSeq(s, 1, n) \in Seq(S)
      /\ Len(SubSeq(s, 1, n)) = IF 1 <= n THEN n - 1 + 1 ELSE 0
      /\ \A a \in 1 .. n - 1 + 1 : SubSeq(s, 1, n)[a] = s[1 + a - 1]
  BY <1>1, <1>2, SubSeqProperties
<1>4. \A a \in 1 .. n : 1 + a - 1 = a
  OBVIOUS
<1> QED
  BY <1>2, <1>3, <1>4

\* What Window returns.
LEMMA WindowIs ==
    ASSUME NEW S, NEW s \in Seq(S), NEW off \in Nat, NEW lim \in Nat
    PROVE  /\ Window(s, off, lim) \in Seq(S)
           /\ Len(Window(s, off, lim)) =
                IF lim > 0 /\ Len(s) - off > lim THEN lim
                ELSE IF Len(s) > off THEN Len(s) - off ELSE 0
           /\ \A a \in DOMAIN Window(s, off, lim) :
                off + a \in 1 .. Len(s) /\ Window(s, off, lim)[a] = s[off + a]
<1>1. CASE off >= Len(s)
  <2>1. Window(s, off, lim) = << >> /\ ~(Len(s) > off) /\ ~(lim > 0 /\ Len(s) - off > lim)
    BY <1>1 DEF Window
  <2>2. << >> \in Seq(S) /\ Len(<< >>) = 0 /\ DOMAIN << >> = {}
    OBVIOUS
  <2> QED
    BY <2>1, <2>2
<1>2. CASE off < Len(s)
  <2> DEFINE t == SubSeq(s, off + 1, Len(s))
             rest == Len(s) - off
  <2>1. rest = Len(s) - off /\ rest \in Nat /\ Len(s) \in Nat
    BY <1>2
  <2>2. t \in Seq(S) /\ Len(t) = rest /\ \A a \in 1 .. rest : t[a] = s[off + a] /\ off + a \in 1 .. Len(s)
    BY <1>2, <2>1
  <2>3. Window(s, off, lim) = IF lim > 0 /\ Len(t) > lim THEN SubSeq(t, 1, lim) ELSE t
    BY <1>2 DEF Window
  <2> HIDE DEF t
  <2>4. CASE lim > 0 /\ rest > lim
    <3>1. lim \in 0 .. Len(t) /\ Window(s, off, lim) = SubSeq(t, 1, lim)
      BY <2>1, <2>2, <2>3, <2>4
    <3>2. SubSeq(t, 1, lim) \in Seq(S) /\ Len(SubSeq(t, 1, lim)) = lim
          /\ \A a \in 1 .. lim : SubSeq(t, 1, lim)[a] = t[a]
      BY <2>2, <3>1, FirstOnes
    <3> DEFINE w == Window(s, off, lim)
    <3>3. w \in Seq(S) /\ Len(w) = lim
      BY <3>1, <3>2
    <3>4. \A a \in 1 .. lim : a \in 1 .. rest /\ w[a] = t[a]
      BY <2>1, <2>4, <3>1, <3>2
    <3> HIDE DEF w
    <3>5. \A a \in DOMAIN w : off + a \in 1 .. Len(s) /\ w[a] = s[off + a]
      BY <2>1, <2>2, <3>3, <3>4
    <3> QED
      BY <2>4, <3>3, <3>5 DEF w
  <2>5. CASE ~(lim > 0 /\ rest > lim)
    BY <2>1, <2>2, <2>3, <2>5
  <2> QED
    BY <2>4, <2>5
<1> QED
  BY <1>1, <1>2

\* The messages of the walk one by one.
LEMMA WalkIs ==
    ASSUME StreamInv, request \in Requests
    PROVE  /\ Walk \in Seq(Jobs)
           /\ Len(Walk) = IF ScanLimit(request) /\ lastSeq > MaxScan THEN MaxScan ELSE lastSeq
           /\ Len(Walk) \in 0 .. lastSeq
           /\ \A k \in 1 .. Len(Walk) : Walk[k] = stream[At(k)]
<1> DEFINE atStart == SubSeq(stream, 1, lastSeq)
           ordered == IF request.asc THEN atStart ELSE Reverse(atStart)
<1>1. stream \in Seq(Jobs) /\ lastSeq \in 0 .. Len(stream) /\ lastSeq \in Nat
  BY DEF StreamInv
<1>2. atStart \in Seq(Jobs) /\ Len(atStart) = lastSeq /\ \A a \in 1 .. lastSeq : atStart[a] = stream[a]
  BY <1>1, FirstOnes
<1>3. request.asc \in BOOLEAN /\ MaxScan \in Nat
  BY RequestTyped
<1>4. \A k \in 1 .. lastSeq : (lastSeq - k) + 1 \in 1 .. lastSeq /\ (lastSeq - k) + 1 = lastSeq - k + 1
  BY <1>1
<1>5. /\ ordered \in Seq(Jobs) /\ Len(ordered) = lastSeq
      /\ \A k \in 1 .. lastSeq : ordered[k] = stream[At(k)]
  <2>1. CASE request.asc
    BY <1>2, <2>1 DEF At
  <2>2. CASE ~request.asc
    <3>1. ordered = [k \in 1 .. lastSeq |-> atStart[(lastSeq - k) + 1]]
      BY <1>2, <2>2 DEF Reverse
    <3>2. \A k \in 1 .. lastSeq : atStart[(lastSeq - k) + 1] \in Jobs
      BY <1>2, <1>4
    <3> HIDE DEF atStart, ordered
    <3>3. ordered \in Seq(Jobs) /\ Len(ordered) = lastSeq
      BY <1>1, <3>1, <3>2
    <3>4. \A k \in 1 .. lastSeq : At(k) = (lastSeq - k) + 1
      BY <1>1, <2>2, <1>4 DEF At
    <3> QED
      BY <1>2, <1>4, <3>1, <3>3, <3>4
  <2> QED
    BY <1>3, <2>1, <2>2
<1>6. Walk = IF ScanLimit(request) /\ Len(ordered) > MaxScan THEN SubSeq(ordered, 1, MaxScan) ELSE ordered
  BY DEF Walk
<1> HIDE DEF ordered
<1>7. CASE ScanLimit(request) /\ lastSeq > MaxScan
  <2>1. MaxScan \in 0 .. Len(ordered) /\ Walk = SubSeq(ordered, 1, MaxScan)
    BY <1>1, <1>3, <1>5, <1>6, <1>7
  <2>2. /\ Walk \in Seq(Jobs) /\ Len(Walk) = MaxScan
        /\ \A a \in 1 .. MaxScan : Walk[a] = ordered[a]
    BY <1>5, <2>1, FirstOnes
  <2> QED
    BY <1>1, <1>3, <1>5, <1>7, <2>2
<1>8. CASE ~(ScanLimit(request) /\ lastSeq > MaxScan)
  BY <1>1, <1>5, <1>6, <1>8
<1> QED
  BY <1>7, <1>8

\* Where the walk may be when the request is answered.
LEMMA WhenFinished ==
    ASSUME StreamInv, ScanInv, Finished
    PROVE  /\ request \in Requests /\ WalkInv /\ CollectedInv /\ HistoryInv /\ CompleteInv
           /\ scanned \in 0 .. Len(Walk) /\ scanned \in Nat /\ scanned <= Len(Walk)
           /\ \/ scanned = Len(Walk)
              \/ fetchLimit(request) > 0 /\ Len(jobs) = fetchLimit(request)
<1>1. /\ request # NoRequest /\ request \in Requests
      /\ WalkInv /\ CollectedInv /\ HistoryInv /\ CompleteInv
  BY DEF Finished, ScanInv, WalkInv
<1>2. /\ request.asc \in BOOLEAN /\ fetchLimit(request) \in Nat /\ MaxScan \in Nat
      /\ lastSeq \in Nat /\ scanned \in 0 .. lastSeq
      /\ Len(Walk) = IF ScanLimit(request) /\ lastSeq > MaxScan THEN MaxScan ELSE lastSeq
      /\ ScanLimit(request) => scanned <= MaxScan
  BY <1>1, RequestTyped, WalkPlaces, WalkIs DEF WalkInv
<1>3. Len(jobs) \in Nat /\ (fetchLimit(request) > 0 => Len(jobs) <= fetchLimit(request))
  BY <1>1 DEF CollectedInv, WalkInv
<1>4. CASE ~InRange
  <2>1. ~(At(scanned + 1) >= 1 /\ At(scanned + 1) <= lastSeq)
    BY <1>1, <1>4 DEF InRange, WalkInv
  <2>2. scanned = lastSeq
    BY <1>2, <2>1 DEF At
  <2> QED
    BY <1>1, <1>2, <2>2
<1>5. CASE ScanLimit(request) /\ scanned >= MaxScan
  BY <1>1, <1>2, <1>5
<1>6. CASE fetchLimit(request) > 0 /\ Len(jobs) >= fetchLimit(request)
  BY <1>1, <1>2, <1>3, <1>6
<1>7. ~Scanning
  BY DEF Finished
<1> QED
  BY <1>1, <1>2, <1>3, <1>4, <1>5, <1>6, <1>7 DEF Scanning

\* The page is what was collected, without the extra job.
LEMMA PageIs ==
    ASSUME request \in Requests, NEW S, jobs \in Seq(S)
    PROVE  /\ Page \in Seq(S)
           /\ Len(Page) = IF hasMore THEN request.limit ELSE Len(jobs)
           /\ Len(Page) <= Len(jobs)
           /\ \A a \in DOMAIN Page : a \in DOMAIN jobs /\ Page[a] = jobs[a]
<1>1. request.limit \in Nat /\ Len(jobs) \in Nat
  BY RequestTyped
<1>2. CASE hasMore
  <2>1. request.limit \in 0 .. Len(jobs) /\ Page = SubSeq(jobs, 1, request.limit)
    BY <1>1, <1>2 DEF hasMore, Page
  <2>2. /\ Page \in Seq(S) /\ Len(Page) = request.limit
        /\ \A a \in 1 .. request.limit : Page[a] = jobs[a]
    BY <2>1, FirstOnes
  <2> QED
    BY <1>1, <1>2, <2>1, <2>2
<1>3. CASE ~hasMore
  BY <1>1, <1>3 DEF Page
<1> QED
  BY <1>2, <1>3

\* How long it is, of all the jobs there are to collect.
LEMMA PageLength ==
    ASSUME request \in Requests, WalkInv, CollectedInv, NEW all \in Nat,
           skipped + Len(jobs) <= all,
           \/ skipped + Len(jobs) = all
           \/ fetchLimit(request) > 0 /\ Len(jobs) = fetchLimit(request),
           NEW rest, rest = IF all > request.offset THEN all - request.offset ELSE 0
    PROVE  /\ Len(Page) = IF request.limit > 0 /\ rest > request.limit THEN request.limit ELSE rest
           /\ request.kind = "LoadJobsFiltered" =>
                (totalFiltered > request.offset + Len(Page) <=> rest > Len(Page))
<1>1. /\ request.limit \in Nat /\ request.offset \in Nat
      /\ request.kind \in {"LoadJobs", "LoadJobsFiltered"}
  BY RequestTyped
<1>2. /\ skipped \in 0 .. request.offset /\ Len(jobs) \in Nat
      /\ Len(jobs) > 0 => skipped = request.offset
      /\ fetchLimit(request) > 0 => Len(jobs) <= fetchLimit(request)
  BY DEF WalkInv, CollectedInv
<1>3. fetchLimit(request) =
        IF request.kind = "LoadJobsFiltered" /\ request.limit > 0 THEN request.limit + 1 ELSE request.limit
  BY DEF fetchLimit
<1>4. /\ Len(Page) = IF hasMore THEN request.limit ELSE Len(jobs)
      /\ hasMore <=> request.kind = "LoadJobsFiltered" /\ request.limit > 0 /\ Len(jobs) > request.limit
  BY PageIs DEF hasMore, CollectedInv
<1>5. /\ rest \in Nat
      /\ rest >= Len(jobs)
      /\ rest = Len(jobs) \/ (fetchLimit(request) > 0 /\ Len(jobs) = fetchLimit(request))
  BY <1>1, <1>2
<1>6. Len(Page) = IF request.limit > 0 /\ rest > request.limit THEN request.limit ELSE rest
  BY <1>1, <1>2, <1>3, <1>4, <1>5
<1>7. totalFiltered > request.offset + Len(Page) <=> hasMore
  BY <1>1, <1>2, <1>4 DEF totalFiltered
<1>8. request.kind = "LoadJobsFiltered" => (hasMore <=> rest > Len(Page))
  BY <1>1, <1>2, <1>3, <1>4, <1>5, <1>6
<1> QED
  BY <1>6, <1>7, <1>8

\* Those that passed, further up and further down.
LEMMA PassedOrdered ==
    ASSUME NEW n \in Nat, NEW m \in Nat
    PROVE  /\ n <= m => PassedUpTo(n) \subseteq PassedUpTo(m)
           /\ \A k \in PassedUpTo(m) :
                /\ k \in 1 .. m /\ k \in PassedUpTo(k)
                /\ k <= n <=> k \in PassedUpTo(n)
<1>1. n <= m => \A k \in 1 .. n : k \in 1 .. m
  OBVIOUS
<1>2. \A k \in 1 .. m : k \in 1 .. k /\ (k <= n <=> k \in 1 .. n)
  OBVIOUS
<1> QED
  BY <1>1, <1>2 DEF PassedUpTo

\* A message's place is where it is.
LEMMA PlaceOfMessage ==
    ASSUME StreamInv, NEW s \in DOMAIN stream
    PROVE  (CHOOSE t \in DOMAIN stream : stream[t] = stream[s]) = s
BY DEF StreamInv, IsInjective

\* Two jobs of a page come from two places of the walk, in its order.
LEMMA OrderHolds ==
    ASSUME StreamInv, ScanInv
    PROVE  InStreamOrder
<1> DEFINE place(j) == CHOOSE s \in DOMAIN stream : stream[s] = j
<1> SUFFICES ASSUME NEW a \in DOMAIN jobs, NEW b \in DOMAIN jobs, a < b
             PROVE  IF request.asc THEN place(jobs[a]) < place(jobs[b])
                    ELSE place(jobs[a]) > place(jobs[b])
  BY DEF InStreamOrder
<1>1. request # NoRequest
  <2>1. DOMAIN << >> = {}
    OBVIOUS
  <2> QED
    BY <2>1 DEF ScanInv
<1>2. request \in Requests /\ WalkInv /\ CollectedInv
  BY <1>1 DEF ScanInv, WalkInv
<1>3. PICK k \in 1 .. scanned : jobs[a] = stream[At(k)]
  BY <1>2 DEF CollectedInv
<1>4. PICK l \in 1 .. scanned : jobs[b] = stream[At(l)]
  BY <1>2 DEF CollectedInv
<1>5. k < l
  BY <1>2, <1>3, <1>4 DEF CollectedInv
<1>6. lastSeq \in Nat /\ scanned \in 0 .. lastSeq /\ request.asc \in BOOLEAN
  BY <1>2, WalkPlaces, RequestTyped DEF WalkInv
<1>7. k \in 1 .. lastSeq /\ l \in 1 .. lastSeq
  BY <1>6
<1>8. At(k) \in DOMAIN stream /\ At(l) \in DOMAIN stream
  BY <1>2, <1>7, WalkPlaces
<1>9. place(jobs[a]) = At(k) /\ place(jobs[b]) = At(l)
  BY <1>3, <1>4, <1>8, PlaceOfMessage
<1>10. IF request.asc THEN At(k) < At(l) ELSE At(k) > At(l)
  BY <1>5, <1>6, <1>7 DEF At
<1> HIDE DEF place
<1> QED
  BY <1>9, <1>10

\* The walk has been gone through unless a limit stopped it.
LEMMA FairnessHolds ==
    ASSUME StreamInv, ScanInv
    PROVE  FilteredIsFair
<1> SUFFICES ASSUME Finished
             PROVE  /\ ToSet(Page) \subseteq ever
                    /\ ~missed /\ request.offset = 0 /\ request.limit = 0 =>
                        ToSet(Walk) \intersect always \subseteq ToSet(Page)
  BY DEF FilteredIsFair
<1>1. /\ request \in Requests /\ CollectedInv /\ CompleteInv
      /\ scanned \in 0 .. Len(Walk)
      /\ \/ scanned = Len(Walk)
         \/ fetchLimit(request) > 0 /\ Len(jobs) = fetchLimit(request)
  BY WhenFinished
<1>2. ToSet(Page) \subseteq ever
  <2>1. Page \in Seq(ever)
    BY <1>1, PageIs DEF CollectedInv
  <2> QED
    BY <2>1 DEF ToSet
<1>3. ASSUME ~missed, request.offset = 0, request.limit = 0
      PROVE  ToSet(Walk) \intersect always \subseteq ToSet(Page)
  <2>1. Page = jobs /\ scanned = Len(Walk)
    BY <1>1, <1>3 DEF Page, hasMore, fetchLimit
  <2>2. /\ Walk \in Seq(Jobs) /\ DOMAIN Walk = 1 .. scanned
        /\ \A k \in 1 .. scanned : Walk[k] = stream[At(k)]
    BY <1>1, <2>1, WalkIs
  <2> SUFFICES ASSUME NEW k \in 1 .. scanned, stream[At(k)] \in always
               PROVE  stream[At(k)] \in ToSet(jobs)
    BY <2>1, <2>2 DEF ToSet
  <2>3. k \in PassedUpTo(scanned)
    BY DEF PassedUpTo
  <2>4. \E a \in DOMAIN jobs : jobs[a] = stream[At(k)]
    BY <1>1, <1>3, <2>3 DEF CompleteInv
  <2> QED
    BY <2>4 DEF ToSet
<1> QED
  BY <1>2, <1>3

\* The window of the walk, of which an unfiltered page is made.
LEMMA WalkWindow ==
    ASSUME Walk \in Seq(Jobs), request.offset \in Nat, request.limit \in Nat
    PROVE  /\ Window(Walk, request.offset, request.limit) \in Seq(Jobs)
           /\ Len(Window(Walk, request.offset, request.limit)) =
                IF request.limit > 0 /\ Len(Walk) - request.offset > request.limit THEN request.limit
                ELSE IF Len(Walk) > request.offset THEN Len(Walk) - request.offset ELSE 0
           /\ \A a \in DOMAIN Window(Walk, request.offset, request.limit) :
                /\ request.offset + a \in 1 .. Len(Walk)
                /\ Window(Walk, request.offset, request.limit)[a] = Walk[request.offset + a]
<1>1. Window(Walk, request.offset, request.limit) \in Seq(Jobs)
  BY WindowIs
<1>2. Len(Window(Walk, request.offset, request.limit)) =
        IF request.limit > 0 /\ Len(Walk) - request.offset > request.limit THEN request.limit
        ELSE IF Len(Walk) > request.offset THEN Len(Walk) - request.offset ELSE 0
  BY WindowIs
<1>3. \A a \in DOMAIN Window(Walk, request.offset, request.limit) :
        /\ request.offset + a \in 1 .. Len(Walk)
        /\ Window(Walk, request.offset, request.limit)[a] = Walk[request.offset + a]
  BY WindowIs
<1> QED
  BY <1>1, <1>2, <1>3

\* Without a filter the jobs are numbered by the walk itself.
LEMMA UnfilteredHolds ==
    ASSUME StreamInv, ScanInv
    PROVE  UnfilteredIsExact
<1> SUFFICES ASSUME Finished, request.statuses = {}, ~missed
             PROVE  Page = Window(Walk, request.offset, request.limit)
  BY DEF UnfilteredIsExact
<1> DEFINE w == Window(Walk, request.offset, request.limit)
           all == Len(Walk)
           rest == IF all > request.offset THEN all - request.offset ELSE 0
<1>1. /\ request \in Requests /\ WalkInv /\ CollectedInv /\ CompleteInv
      /\ scanned \in 0 .. Len(Walk)
      /\ \/ scanned = Len(Walk)
         \/ fetchLimit(request) > 0 /\ Len(jobs) = fetchLimit(request)
  BY WhenFinished
<1>2. request.offset \in Nat /\ request.limit \in Nat
  BY <1>1, RequestTyped
<1>3. skipped + Len(jobs) = scanned /\ \A a \in DOMAIN jobs : jobs[a] = stream[At(request.offset + a)]
  BY <1>1 DEF CompleteInv
<1>4. /\ Walk \in Seq(Jobs) /\ all \in Nat /\ Len(Walk) = all
      /\ \A k \in 1 .. all : Walk[k] = stream[At(k)]
  BY <1>1, WalkIs
<1>5. jobs \in Seq(Jobs)
  <2>1. jobs \in Seq(ever) /\ ever \subseteq Jobs
    BY <1>1, WhenFinished DEF CollectedInv, HistoryInv
  <2> QED
    BY <2>1, SeqMonotonic
<1> HIDE DEF all
<1>6. Len(Page) = IF request.limit > 0 /\ rest > request.limit THEN request.limit ELSE rest
  BY <1>1, <1>3, <1>4, PageLength
<1>7. /\ w \in Seq(Jobs)
      /\ Len(w) = IF request.limit > 0 /\ rest > request.limit THEN request.limit ELSE rest
      /\ \A a \in DOMAIN w : request.offset + a \in 1 .. all /\ w[a] = Walk[request.offset + a]
  <2>1. Walk \in Seq(Jobs)
    BY <1>4
  <2>2. /\ w \in Seq(Jobs)
        /\ Len(w) = IF request.limit > 0 /\ Len(Walk) - request.offset > request.limit THEN request.limit
                    ELSE IF Len(Walk) > request.offset THEN Len(Walk) - request.offset ELSE 0
        /\ \A a \in DOMAIN w : request.offset + a \in 1 .. Len(Walk) /\ w[a] = Walk[request.offset + a]
    BY <1>2, <2>1, WalkWindow
  <2> HIDE DEF w
  <2> QED
    BY <1>2, <1>4, <2>2
<1> HIDE DEF rest
<1>8. /\ Page \in Seq(Jobs)
      /\ \A a \in DOMAIN Page : a \in DOMAIN jobs /\ Page[a] = jobs[a]
  BY <1>1, <1>5, PageIs
<1> HIDE DEF w
<1>9. Len(Page) = Len(w) /\ DOMAIN Page = 1 .. Len(Page) /\ DOMAIN w = 1 .. Len(w)
  BY <1>6, <1>7, <1>8
<1>10. \A a \in 1 .. Len(Page) : Page[a] = w[a]
  BY <1>3, <1>4, <1>7, <1>8, <1>9
<1>11. Page = w
  BY <1>7, <1>8, <1>9, <1>10, SeqEqual
<1> QED
  BY <1>11 DEF w

\* With one they are numbered by those that passed before them.
LEMMA FilteredHolds ==
    ASSUME StreamInv, ScanInv
    PROVE  FilteredIsExact
<1> DEFINE passing == {k \in DOMAIN Walk : Walk[k] \in always}
           number(k) == Cardinality({l \in passing : l <= k})
           all == Cardinality(passing)
           rest == IF all > request.offset THEN all - request.offset ELSE 0
<1> SUFFICES ASSUME Finished, ~missed, always = ever
             PROVE  /\ Len(Page) = IF request.limit > 0 /\ rest > request.limit THEN request.limit ELSE rest
                    /\ \A k \in passing :
                         number(k) - request.offset \in DOMAIN Page =>
                           Page[number(k) - request.offset] = Walk[k]
                    /\ request.kind = "LoadJobsFiltered" =>
                         (totalFiltered > request.offset + Len(Page) <=> rest > Len(Page))
  BY DEF FilteredIsExact
<1>1. /\ request \in Requests /\ WalkInv /\ CollectedInv /\ CompleteInv
      /\ scanned \in 0 .. Len(Walk)
      /\ \/ scanned = Len(Walk)
         \/ fetchLimit(request) > 0 /\ Len(jobs) = fetchLimit(request)
  BY WhenFinished
<1>2. request.offset \in Nat /\ request.limit \in Nat
  BY <1>1, RequestTyped
<1>3. /\ Walk \in Seq(Jobs) /\ Len(Walk) \in Nat /\ DOMAIN Walk = 1 .. Len(Walk)
      /\ \A k \in 1 .. Len(Walk) : Walk[k] = stream[At(k)]
  BY <1>1, WalkIs
<1>4. passing = PassedUpTo(Len(Walk))
  BY <1>3 DEF PassedUpTo
<1>5. \A k \in passing : {l \in passing : l <= k} = PassedUpTo(k) /\ k \in 1 .. Len(Walk)
  <2> SUFFICES ASSUME NEW k \in 1 .. Len(Walk)
               PROVE  {l \in PassedUpTo(Len(Walk)) : l <= k} = PassedUpTo(k)
    BY <1>3, <1>4
  <2> QED
    BY <1>3 DEF PassedUpTo
<1>5a. \A k \in passing : number(k) = Cardinality(PassedUpTo(k))
  BY <1>5
<1> HIDE DEF passing, number
<1>5b. scanned \in Nat /\ scanned <= Len(Walk)
  BY WhenFinished
<1>6. /\ skipped + Len(jobs) = Cardinality(PassedUpTo(scanned))
      /\ \A k \in PassedUpTo(scanned) :
           Cardinality(PassedUpTo(k)) > request.offset =>
             jobs[Cardinality(PassedUpTo(k)) - request.offset] = stream[At(k)]
  BY <1>1 DEF CompleteInv
<1>7. /\ all \in Nat /\ Cardinality(PassedUpTo(scanned)) <= all
      /\ scanned = Len(Walk) => Cardinality(PassedUpTo(scanned)) = all
      /\ IsFiniteSet(passing)
  <2>1. IsFiniteSet(passing) /\ all \in Nat
    BY <1>3, <1>4, PassedIsFinite
  <2>2. PassedUpTo(scanned) \subseteq passing
    BY <1>3, <1>4, <1>5b, PassedOrdered
  <2> QED
    BY <1>4, <2>1, <2>2, FS_Subset
<1>8. /\ skipped \in 0 .. request.offset /\ Len(jobs) \in Nat
      /\ Len(jobs) > 0 => skipped = request.offset
  BY <1>1 DEF WalkInv, CollectedInv
<1>9. /\ jobs \in Seq(ever) /\ Page \in Seq(ever) /\ Len(Page) <= Len(jobs)
      /\ \A a \in DOMAIN Page : a \in DOMAIN jobs /\ Page[a] = jobs[a]
  BY <1>1, PageIs DEF CollectedInv
<1>10. ASSUME NEW k \in passing, number(k) - request.offset \in DOMAIN Page
       PROVE  Page[number(k) - request.offset] = Walk[k]
  <2>1. number(k) = Cardinality(PassedUpTo(k)) /\ number(k) \in Nat /\ k \in 1 .. Len(Walk)
    BY <1>3, <1>5, <1>5a, PassedIsFinite
  <2> DEFINE c == number(k)
  <2> HIDE DEF c
  <2>2. c \in Nat /\ c = Cardinality(PassedUpTo(k)) /\ c = number(k)
    BY <2>1 DEF c
  <2>3. c - request.offset \in 1 .. Len(jobs) /\ c > request.offset
    BY <1>2, <1>8, <1>9, <1>10, <2>2
  <2>4. k <= scanned
    <3> SUFFICES ASSUME ~(k <= scanned) PROVE FALSE
      OBVIOUS
    <3>1. scanned \in Nat /\ k \in Nat /\ k \notin PassedUpTo(scanned) /\ k \in PassedUpTo(k)
      <4>1. scanned \in Nat /\ k \in Nat /\ k \in PassedUpTo(Len(Walk))
        BY <1>4, <1>10, <1>5b, <2>1
      <4> QED
        BY <1>3, <4>1, PassedOrdered
    <3>2. PassedUpTo(scanned) \union {k} \subseteq PassedUpTo(k)
      <4>1. scanned <= k
        BY <3>1
      <4> QED
        BY <3>1, <4>1, PassedOrdered
    <3>3. /\ Cardinality(PassedUpTo(scanned) \union {k}) = Cardinality(PassedUpTo(scanned)) + 1
          /\ Cardinality(PassedUpTo(scanned)) \in Nat
      BY <3>1, PassedIsFinite, FS_AddElement
    <3>4. Cardinality(PassedUpTo(scanned) \union {k}) <= Cardinality(PassedUpTo(k))
      BY <3>1, <3>2, PassedIsFinite, FS_Subset
    <3>5. skipped = request.offset
      BY <1>8, <2>3
    <3> QED
      BY <1>2, <1>6, <1>8, <2>2, <2>3, <3>3, <3>4, <3>5
  <2>5. k \in PassedUpTo(scanned)
    <3>1. scanned \in Nat /\ k \in PassedUpTo(Len(Walk))
      BY <1>4, <1>10, <1>5b
    <3> QED
      BY <1>3, <2>4, <3>1, PassedOrdered
  <2>6. jobs[c - request.offset] = stream[At(k)]
    BY <1>6, <2>2, <2>3, <2>5
  <2> QED
    BY <1>3, <1>9, <1>10, <2>1, <2>2, <2>6
<1> HIDE DEF all
<1>11. /\ Len(Page) = IF request.limit > 0 /\ rest > request.limit THEN request.limit ELSE rest
       /\ request.kind = "LoadJobsFiltered" =>
            (totalFiltered > request.offset + Len(Page) <=> rest > Len(Page))
  BY <1>1, <1>6, <1>7, PageLength
<1> QED
  BY <1>10, <1>11

\* LoadJobs and LoadJobsFiltered return jobs in the order of the stream, none
\* twice, whichever reads fail and whatever happens to the jobs.
THEOREM ListingsInStreamOrder == Spec => []InStreamOrder
<1>1. ReadersInv => InStreamOrder
  BY OrderHolds DEF ReadersInv
<1> QED
  BY <1>1, ReadersKeepTrack, PTL

\* Without a filter, and if no read failed, the page is the window of the stream
\* as it was when the request came in.
THEOREM UnfilteredListingsExact == Spec => []UnfilteredIsExact
<1>1. ReadersInv => UnfilteredIsExact
  BY UnfilteredHolds DEF ReadersInv
<1> QED
  BY <1>1, ReadersKeepTrack, PTL

\* With a filter through which nothing came or went during the walk, the page has
\* the jobs that pass from the offset on, as many as the limit allows, and the
\* total of LoadJobsFiltered says whether there are more.
THEOREM FilteredListingsExact == Spec => []FilteredIsExact
<1>1. ReadersInv => FilteredIsExact
  BY FilteredHolds DEF ReadersInv
<1> QED
  BY <1>1, ReadersKeepTrack, PTL

\* While statuses change, every job on the page passed at some time, and without
\* offset and limit none that passed all along is missing.
THEOREM FilteredListingsFair == Spec => []FilteredIsFair
<1>1. ReadersInv => FilteredIsFair
  BY FairnessHolds DEF ReadersInv
<1> QED
  BY <1>1, ReadersKeepTrack, PTL
\* At the end none is still to come in time.
LEMMA WatchHolds ==
    ASSUME WatchInv
    PROVE  UnchangedSeenOnce
<1> SUFFICES ASSUME watching, Len(entries) > initPending, NEW j \in ToSet(created) \ changed
             PROVE  SeenOnce(j)
  BY DEF UnchangedSeenOnce, WatchFinished, EndOfRecords
<1>1. DeliveryInv /\ (SeenOnce(j) \/ ComesInTime(j))
  BY DEF WatchInv
<1>2. CASE ComesInTime(j)
  <2>1. PICK p \in DOMAIN undelivered :
          undelivered[p] = j /\ (entries # << >> => Len(entries) + p <= initPending + 1)
    BY <1>2 DEF ComesInTime
  <2>2. p \in Nat /\ p >= 1 /\ Len(entries) \in Nat
    BY <1>1 DEF DeliveryInv
  <2>3. entries # << >>
    <3> SUFFICES ASSUME entries = << >> PROVE FALSE
      OBVIOUS
    <3>1. Len(entries) = 0
      OBVIOUS
    <3> QED
      BY <1>1, <3>1 DEF DeliveryInv
  <2>4. initPending \in Nat /\ Len(entries) + p <= initPending + 1
    BY <1>1, <2>1, <2>3 DEF DeliveryInv
  <2> QED
    BY <2>2, <2>4
<1> QED
  BY <1>1, <1>2

\* What LoadJobsByKV and CountJobsByStatus receive: a job whose record was not
\* written during the walk comes once, as it is.
THEOREM UnchangedJobsSeenOnce == Spec => []UnchangedSeenOnce
<1>1. ReadersInv => UnchangedSeenOnce
  BY WatchHolds DEF ReadersInv
<1> QED
  BY <1>1, ReadersKeepTrack, PTL

(***************************************************************************)
(* What the request makes of the entries: sets of places put in order, and *)
(* counts.  Finite sets are gone through by way of a least counterexample. *)
(***************************************************************************)

\* A finite set has an element of the lowest rank.
LEMMA LowestRank ==
    ASSUME NEW S, IsFiniteSet(S), S # {}, NEW rank \in [S -> Nat]
    PROVE  \E m \in S : \A k \in S : rank[m] <= rank[k]
<1> DEFINE below(m) == {k \in S : rank[k] <= rank[m]}
           U == {below(m) : m \in S}
<1>1. IsWellFoundedOn(StrictSubsetOrdering(S), FiniteSubsetsOf(S))
  BY FS_StrictSubsetOrderingWellFounded
<1>2. U \subseteq FiniteSubsetsOf(S) /\ U # {}
  <2>1. ASSUME NEW m \in S PROVE below(m) \in FiniteSubsetsOf(S)
    <3>1. below(m) \in SUBSET S
      OBVIOUS
    <3> QED
      BY <3>1, FS_Subset DEF FiniteSubsetsOf
  <2>2. \A m \in S : below(m) \in U
    OBVIOUS
  <2> HIDE DEF below
  <2> QED
    BY <2>1, <2>2
<1>3. PICK x \in U : \A y \in U : <<y, x>> \notin StrictSubsetOrdering(S)
  <2> HIDE DEF U
  <2> QED
    BY <1>1, <1>2, WFMin
<1>4. PICK m \in S : x = below(m)
  BY <1>3
<1>5. ASSUME NEW k \in S, ~(rank[m] <= rank[k]) PROVE FALSE
  <2>1. rank[m] \in Nat /\ rank[k] \in Nat /\ rank[k] < rank[m]
    BY <1>5
  <2>2. below(k) \subseteq below(m) /\ m \in below(m) /\ m \notin below(k)
    BY <2>1
  <2>3. <<below(k), x>> \in StrictSubsetOrdering(S)
    BY <1>4, <2>2 DEF StrictSubsetOrdering
  <2> QED
    BY <1>3, <2>3
<1> QED
  BY <1>5

\* An enumeration of a finite set.
LEMMA EnumerationIs ==
    ASSUME NEW S, IsFiniteSet(S), NEW order \in SetToSeqs(S)
    PROVE  /\ Cardinality(S) \in Nat /\ order \in [1 .. Cardinality(S) -> S]
           /\ order \in Seq(S) /\ Len(order) = Cardinality(S)
           /\ \A a, b \in DOMAIN order : order[a] = order[b] => a = b
           /\ \A k \in S : \E a \in DOMAIN order : order[a] = k
<1> DEFINE n == Cardinality(S)
<1>1. n \in Nat
  BY FS_CardinalityType
<1>2. order \in [1 .. n -> S] /\ \A a, b \in 1 .. n : order[a] = order[b] => a = b
  BY DEF SetToSeqs
<1>3. order \in Injection(1 .. n, S)
  BY <1>2 DEF Injection, IsInjective
<1>4. Cardinality(1 .. n) = n
  BY <1>1, FS_Interval
<1>5. order \in Surjection(1 .. n, S)
  BY <1>3, <1>4, FS_Injection
<1>6. order \in Seq(S) /\ Len(order) = n
  BY <1>1, <1>2
<1> QED
  BY <1>1, <1>2, <1>5, <1>6 DEF Surjection

\* The highest rank first.
Descending(order, rank) ==
    \A a, b \in DOMAIN order : a < b => rank[order[a]] >= rank[order[b]]

\* A finite set can be put in that order.
LEMMA OrderExists ==
    ASSUME NEW S, IsFiniteSet(S), NEW rank \in [S -> Nat]
    PROVE  \E order \in SetToSeqs(S) : Descending(order, rank)
<1> DEFINE ordered(T) == \E order \in SetToSeqs(T) : Descending(order, rank)
           U == {T \in SUBSET S : ~ordered(T)}
<1> SUFFICES ASSUME U # {} PROVE FALSE
  OBVIOUS
<1>1. IsWellFoundedOn(StrictSubsetOrdering(S), FiniteSubsetsOf(S))
  BY FS_StrictSubsetOrderingWellFounded
<1>2. U \subseteq FiniteSubsetsOf(S)
  BY FS_Subset DEF FiniteSubsetsOf
<1>3. PICK x \in U : \A y \in U : <<y, x>> \notin StrictSubsetOrdering(S)
  <2> HIDE DEF U
  <2> QED
    BY <1>1, <1>2, WFMin
<1>4. x \in SUBSET S /\ IsFiniteSet(x) /\ ~ordered(x)
  BY <1>3, FS_Subset
<1>5. x # {}
  <2> SUFFICES ASSUME x = {} PROVE FALSE
    OBVIOUS
  <2>1. << >> \in [1 .. 0 -> {}] /\ DOMAIN << >> = {}
    OBVIOUS
  <2>2. << >> \in SetToSeqs({}) /\ Descending(<< >>, rank)
    BY <2>1, FS_EmptySet DEF SetToSeqs, Descending
  <2> QED
    BY <1>4, <2>2
<1>6. PICK m \in x : \A k \in x : rank[m] <= rank[k]
  <2>1. [k \in x |-> rank[k]] \in [x -> Nat]
    BY <1>4
  <2>2. \E m \in x : \A k \in x : [l \in x |-> rank[l]][m] <= [l \in x |-> rank[l]][k]
    BY <1>4, <1>5, <2>1, LowestRank
  <2> QED
    BY <2>2
<1> DEFINE T == x \ {m}
           n == Cardinality(x)
<1>7. ordered(T)
  <2>1. T \in SUBSET S /\ T \subseteq x /\ T # x
    BY <1>4, <1>6
  <2>2. <<T, x>> \in StrictSubsetOrdering(S)
    BY <1>4, <2>1 DEF StrictSubsetOrdering
  <2> QED
    BY <1>3, <2>1, <2>2
<1>8. PICK order \in SetToSeqs(T) : Descending(order, rank)
  BY <1>7
<1>9. n \in Nat /\ n > 0 /\ IsFiniteSet(T) /\ Cardinality(T) = n - 1
  <2>1. n \in Nat /\ IsFiniteSet(T) /\ Cardinality(T) = n - 1 /\ Cardinality(T) \in Nat
    BY <1>4, <1>6, FS_CardinalityType, FS_RemoveElement
  <2> QED
    BY <2>1
<1>10. /\ order \in [1 .. n - 1 -> T]
       /\ \A a, b \in 1 .. n - 1 : order[a] = order[b] => a = b
  BY <1>8, <1>9, EnumerationIs
<1> HIDE DEF n
<1> DEFINE more == [a \in 1 .. n |-> IF a = n THEN m ELSE order[a]]
<1>11. /\ \A a \in 1 .. n : a = n \/ a \in 1 .. n - 1
       /\ \A a \in 1 .. n - 1 : a \in 1 .. n /\ a # n /\ a < n
  BY <1>9
<1>12. /\ more \in [1 .. n -> x] /\ more[n] = m
       /\ \A a \in 1 .. n - 1 : more[a] = order[a] /\ order[a] \in x /\ order[a] # m
  BY <1>6, <1>9, <1>10, <1>11
<1> HIDE DEF more
<1>13. more \in SetToSeqs(x)
  <2>1. \A a, b \in 1 .. n : a # b => more[a] # more[b]
    BY <1>10, <1>11, <1>12
  <2> QED
    BY <1>12, <2>1 DEF SetToSeqs, n
<1>14. Descending(more, rank)
  <2> SUFFICES ASSUME NEW a \in 1 .. n, NEW b \in 1 .. n, a < b
               PROVE  rank[more[a]] >= rank[more[b]]
    BY <1>12 DEF Descending
  <2>1. a \in 1 .. n - 1
    BY <1>9
  <2>2. CASE b = n
    <3>1. rank[m] <= rank[order[a]] /\ rank[m] \in Nat /\ rank[order[a]] \in Nat
      BY <1>4, <1>6, <1>12, <2>1
    <3> QED
      BY <1>12, <2>1, <2>2, <3>1
  <2>3. CASE b \in 1 .. n - 1
    BY <1>8, <1>10, <1>12, <2>1, <2>3 DEF Descending
  <2> QED
    BY <1>11, <2>2, <2>3
<1> QED
  BY <1>4, <1>13, <1>14

\* The counts of several statuses, one after the other, add up to the number of
\* entries that have one of them.
LEMMA CountsAddUp ==
    ASSUME NEW S, IsFiniteSet(S), IsFiniteSet(DOMAIN entries)
    PROVE  MapThenSumSet(Count, S) = Cardinality({k \in DOMAIN entries : entries[k].status \in S})
<1> DEFINE first(T) == CHOOSE x \in T : TRUE
           among(T) == {k \in DOMAIN entries : entries[k].status \in T}
           counts == [T \in SUBSET S |-> Cardinality(among(T))]
           Adds(iter) == iter = [T \in SUBSET S |->
               IF T = {} THEN 0 ELSE Count(first(T)) + iter[T \ {first(T)}]]
<1>1. MapThenSumSet(Count, S) = (CHOOSE iter : Adds(iter))[S]
  BY DEF MapThenSumSet, MapThenFoldSet
<1>2. \A T : IsFiniteSet(among(T)) /\ Cardinality(among(T)) \in Nat
  BY FS_Subset, FS_CardinalityType
<1>3. ASSUME NEW T \in SUBSET S, T # {}
      PROVE  Cardinality(among(T)) = Count(first(T)) + Cardinality(among(T \ {first(T)}))
  <2> DEFINE x == first(T)
  <2>1. x \in T
    BY <1>3
  <2> HIDE DEF x
  <2>2. /\ among(T) = among({x}) \union among(T \ {x})
        /\ among({x}) \intersect among(T \ {x}) = {}
    BY <2>1
  <2>7. Count(x) = Cardinality(among({x}))
    <3>1. among({x}) = {k \in DOMAIN entries : entries[k].status = x}
      OBVIOUS
    <3> QED
      BY <3>1 DEF Count
  <2> HIDE DEF among
  <2>3. Cardinality(among({x}) \union among(T \ {x})) =
          Cardinality(among({x})) + Cardinality(among(T \ {x}))
            - Cardinality(among({x}) \intersect among(T \ {x}))
    BY <1>2, FS_Union
  <2>4. Cardinality({}) = 0 /\ Cardinality(among({x})) \in Nat /\ Cardinality(among(T \ {x})) \in Nat
    BY <1>2, FS_EmptySet
  <2>5. /\ Cardinality(among(T)) = Cardinality(among({x}) \union among(T \ {x}))
        /\ Cardinality(among({x}) \intersect among(T \ {x})) = 0
    BY <2>2, <2>4, Zenon
  <2>6. Cardinality(among(T)) = Count(x) + Cardinality(among(T \ {x}))
    BY <2>7, <2>3, <2>4, <2>5
  <2> QED
    BY <2>6 DEF x
<1>4. Adds(counts)
  <2>1. among({}) = {} /\ Cardinality({}) = 0
    BY FS_EmptySet
  <2> HIDE DEF among, first
  <2>2. \A T \in SUBSET S : T \ {first(T)} \in SUBSET S
    OBVIOUS
  <2> QED
    BY <1>3, <2>1, <2>2
<1> DEFINE f == CHOOSE iter : Adds(iter)
<1>5. Adds(f)
  <2> HIDE DEF Adds, counts
  <2> QED
    BY <1>4
<1> HIDE DEF f, among
<1>6. ASSUME NEW T \in SUBSET S
      PROVE  f[T] = IF T = {} THEN 0 ELSE Count(first(T)) + f[T \ {first(T)}]
  BY <1>5
<1> DEFINE U == {T \in SUBSET S : f[T] # Cardinality(among(T))}
<1>7. U = {}
  <2> SUFFICES ASSUME U # {} PROVE FALSE
    OBVIOUS
  <2>1. IsWellFoundedOn(StrictSubsetOrdering(S), FiniteSubsetsOf(S))
    BY FS_StrictSubsetOrderingWellFounded
  <2>2. U \subseteq FiniteSubsetsOf(S)
    BY FS_Subset DEF FiniteSubsetsOf
  <2>3. PICK T \in U : \A y \in U : <<y, T>> \notin StrictSubsetOrdering(S)
    <3> HIDE DEF U
    <3> QED
      BY <2>1, <2>2, WFMin
  <2>4. T # {}
    BY <1>6, <2>3, FS_EmptySet DEF among
  <2>5. first(T) \in T
    BY <2>4
  <2> HIDE DEF first
  <2>6. <<T \ {first(T)}, T>> \in StrictSubsetOrdering(S)
    BY <2>3, <2>5 DEF StrictSubsetOrdering
  <2>7. f[T \ {first(T)}] = Cardinality(among(T \ {first(T)}))
    BY <2>3, <2>6
  <2> QED
    BY <1>3, <1>6, <2>3, <2>4, <2>7
<1> QED
  BY <1>1, <1>7 DEF f, among

\* The statuses a record can have.
LEMMA FiveStatuses == IsFiniteSet(Statuses)
<1> DEFINE five == <<"Submitted", "Running", "Failed", "Succeeded", "Cancelled">>
<1>1. five \in Surjection(1 .. 5, Statuses)
  BY DEF Surjection, Statuses
<1>2. IsFiniteSet(1 .. 5)
  BY FS_Interval, 1 \in Int, 5 \in Int
<1> HIDE DEF five
<1> QED
  BY <1>1, <1>2, FS_Surjection

\* The places of what came.
LEMMA PlacesOfEntries ==
    ASSUME watching, WatchInv, RecordsInv
    PROVE  /\ entries \in Seq(Entry) /\ IsFiniteSet(DOMAIN entries)
           /\ \A statuses : IsFiniteSet(Matched(statuses)) /\ Cardinality(Matched(statuses)) \in Nat
           /\ \A k \in DOMAIN entries :
                entries[k].job \in ToSet(created) /\ entries[k].status \in Statuses
<1>1. entries \in Seq(Entry)
  BY DEF WatchInv, DeliveryInv, Entry
<1>2. IsFiniteSet(DOMAIN entries)
  BY <1>1, FS_Interval
<1>3. ASSUME NEW statuses
      PROVE  IsFiniteSet(Matched(statuses)) /\ Cardinality(Matched(statuses)) \in Nat
  <2>1. Matched(statuses) \in SUBSET DOMAIN entries
    BY DEF Matched
  <2>2. IsFiniteSet(Matched(statuses))
    BY <1>2, <2>1, FS_Subset
  <2> QED
    BY <2>2, FS_CardinalityType
<1> QED
  BY <1>1, <1>2, <1>3 DEF RecordsInv

\* The total of the request is the number of entries that pass its filter.
LEMMA CountedIs ==
    ASSUME watching, WatchInv, RecordsInv, NEW statuses \in SUBSET Statuses
    PROVE  Counted(statuses) = Cardinality(Matched(statuses))
<1> DEFINE S == IF statuses = {} THEN Statuses ELSE statuses
<1>1. IsFiniteSet(S)
  BY FiveStatuses, FS_Subset
<1>2. {k \in DOMAIN entries : entries[k].status \in S} = Matched(statuses)
  BY PlacesOfEntries DEF Matched, PassesFilter
<1> QED
  BY <1>1, <1>2, CountsAddUp, PlacesOfEntries DEF Counted

\* The entries that pass, in any order, make rows.
LEMMA RowsAre ==
    ASSUME watching, WatchInv, RecordsInv, NEW statuses, NEW rows \in Arrangements(statuses)
    PROVE  rows \in Seq(Entry) /\ Len(rows) = Cardinality(Matched(statuses))
<1> DEFINE M == Matched(statuses)
           n == Cardinality(M)
<1>1. PICK order \in SetToSeqs(M) : rows = [k \in DOMAIN order |-> entries[order[k]]]
  BY DEF Arrangements
<1>2. entries \in Seq(Entry) /\ M \subseteq DOMAIN entries /\ IsFiniteSet(M)
  BY PlacesOfEntries DEF Matched
<1>3. n \in Nat /\ order \in [1 .. n -> M]
  BY <1>2, EnumerationIs
<1> HIDE DEF M, n
<1>4. rows \in [1 .. n -> Entry]
  BY <1>1, <1>2, <1>3
<1> QED
  BY <1>3, <1>4 DEF M, n

\* They can be sorted, whatever Created is.
LEMMA SortedRows ==
    ASSUME watching, WatchInv, RecordsInv, NEW Created \in [Jobs -> Nat], NEW statuses
    PROVE  NewestFirst(Created, Arrangements(statuses)) # {}
<1> DEFINE M == Matched(statuses)
           rank == [k \in M |-> Created[entries[k].job]]
<1>1. IsFiniteSet(M) /\ M \subseteq DOMAIN entries /\ entries \in Seq(Entry)
  BY PlacesOfEntries DEF Matched
<1>2. \A k \in M : rank[k] = Created[entries[k].job]
  OBVIOUS
<1>3. rank \in [M -> Nat]
  <2>1. \A k \in M : entries[k].job \in Jobs
    <3>1. \A k \in DOMAIN entries : entries[k] \in Entry
      BY <1>1
    <3>2. \A e \in Entry : e.job \in Jobs
      BY DEF Entry
    <3> HIDE DEF M
    <3> QED
      BY <1>1, <3>1, <3>2
  <2> QED
    BY <2>1
<1> HIDE DEF M, rank
<1>4. PICK order \in SetToSeqs(M) : Descending(order, rank)
  BY <1>1, <1>3, OrderExists
<1> DEFINE rows == [k \in DOMAIN order |-> entries[order[k]]]
<1>5. \A a \in DOMAIN order : order[a] \in M
  BY <1>1, <1>4, EnumerationIs
<1>6. rows \in Arrangements(statuses)
  BY <1>4 DEF Arrangements, M
<1>7. \A a, b \in DOMAIN rows : a < b => Created[rows[a].job] >= Created[rows[b].job]
  BY <1>2, <1>4, <1>5 DEF Descending
<1> HIDE DEF rows
<1> QED
  BY <1>6, <1>7 DEF NewestFirst

\* How many rows a page has.
LEMMA RowsOfPage ==
    ASSUME watching, WatchInv, RecordsInv, NEW statuses, NEW limit \in Nat, NEW offset \in Nat,
           NEW page \in Pages(Arrangements(statuses), limit, offset)
    PROVE  /\ page \in Seq(Entry)
           /\ Len(page) =
                IF limit > 0 /\ Cardinality(Matched(statuses)) - offset > limit THEN limit
                ELSE IF Cardinality(Matched(statuses)) > offset
                     THEN Cardinality(Matched(statuses)) - offset ELSE 0
<1>1. PICK rows \in Arrangements(statuses) : page = Window(rows, offset, limit)
  BY DEF Pages
<1>2. rows \in Seq(Entry) /\ Len(rows) = Cardinality(Matched(statuses))
  BY RowsAre
<1> QED
  BY <1>1, <1>2, WindowIs

\* The rounding of serveQueue.
LEMMA PagesRoundedUp ==
    ASSUME NEW n \in Nat, NEW lim \in Nat \ {0}
    PROVE  LET p == TotalPages(n, lim) IN
           /\ p \in Nat /\ n <= p * lim
           /\ \A k \in 1 .. p : (k - 1) * lim \in Nat /\ (k - 1) * lim < n
<1> DEFINE p == TotalPages(n, lim)
           x == n + lim - 1
<1>1. x \in Nat /\ p = x \div lim
  BY DEF TotalPages
<1> HIDE DEF p, x
<1>2. p \in Nat /\ lim * p <= x /\ x < lim * p + lim
  BY <1>1
<1>3. n <= p * lim
  <2>1. p * lim = lim * p /\ lim * p \in Nat
    BY <1>2
  <2> QED
    BY <1>2, <2>1 DEF x
<1>4. ASSUME NEW k \in 1 .. p PROVE (k - 1) * lim \in Nat /\ (k - 1) * lim < n
  <2>1. k - 1 \in Nat /\ k <= p /\ k \in Nat
    BY <1>2
  <2>2. k * lim <= p * lim
    <3>1. PICK d \in Nat : p = k + d
      <4>1. p - k \in Nat /\ p = k + (p - k)
        BY <1>2, <2>1
      <4> QED
        BY <4>1
    <3>2. (k + d) * lim = k * lim + d * lim
      <4>1. \A a, b, c \in Nat : (a + b) * c = a * c + b * c
        OBVIOUS
      <4> QED
        BY <2>1, <4>1
    <3>3. d * lim \in Nat /\ k * lim \in Nat
      BY <2>1
    <3> QED
      BY <3>1, <3>2, <3>3
  <2>3. (k - 1) * lim = k * lim - lim /\ (k - 1) * lim \in Nat /\ k * lim \in Nat
    BY <2>1
  <2>4. p * lim = lim * p /\ lim * p \in Nat
    BY <1>2
  <2> QED
    BY <1>2, <2>2, <2>3, <2>4 DEF x
<1> QED
  BY <1>2, <1>3, <1>4 DEF p

\* The pages counted, and one more.
LEMMA CountedPagesAre ==
    ASSUME watching, WatchInv, RecordsInv, NEW times \in SUBSET [Jobs -> Nat],
           NEW statuses \in SUBSET Statuses, NEW limit \in Nat \ {0}
    PROVE  PagesHold(times, statuses, limit)
<1> DEFINE total == Cardinality(Matched(statuses))
           count == TotalPages(total, limit)
<1>1. total \in Nat /\ Counted(statuses) = total
  BY CountedIs, PlacesOfEntries
<1>2. /\ count \in Nat /\ total <= count * limit
      /\ \A k \in 1 .. count : (k - 1) * limit \in Nat /\ (k - 1) * limit < total
  BY <1>1, PagesRoundedUp
<1> HIDE DEF count
<1>3. ASSUME NEW Created \in times
      PROVE  LET sorted == NewestFirst(Created, Arrangements(statuses))
                 pages(n) == Pages(sorted, limit, (n - 1) * limit)
             IN  /\ \A n \in 1 .. count : << >> \notin pages(n)
                 /\ pages(count + 1) = {<< >>}
  <2> DEFINE sorted == NewestFirst(Created, Arrangements(statuses))
  <2>1. sorted # {} /\ sorted \subseteq Arrangements(statuses)
    BY SortedRows DEF NewestFirst
  <2> HIDE DEF sorted
  <2>2. \A offset : /\ Pages(sorted, limit, offset) \subseteq Pages(Arrangements(statuses), limit, offset)
                    /\ Pages(sorted, limit, offset) # {}
    BY <2>1 DEF Pages
  <2>3. ASSUME NEW n \in 1 .. count PROVE << >> \notin Pages(sorted, limit, (n - 1) * limit)
    <3> SUFFICES ASSUME << >> \in Pages(sorted, limit, (n - 1) * limit) PROVE FALSE
      OBVIOUS
    <3> DEFINE offset == (n - 1) * limit
    <3>1. offset \in Nat /\ offset < total
      BY <1>2
    <3>2. << >> \in Pages(Arrangements(statuses), limit, offset)
      BY <2>2
    <3> HIDE DEF offset
    <3>3. Len(<< >>) = IF limit > 0 /\ total - offset > limit THEN limit
                       ELSE IF total > offset THEN total - offset ELSE 0
      BY <3>1, <3>2, RowsOfPage
    <3>4. Len(<< >>) = 0
      OBVIOUS
    <3> HIDE DEF total
    <3> QED
      BY <1>1, <3>1, <3>3, <3>4
  <2>4. ASSUME NEW offset \in Nat, total <= offset
        PROVE  Pages(sorted, limit, offset) = {<< >>}
    <3>1. ASSUME NEW page \in Pages(sorted, limit, offset) PROVE page = << >>
      <4>1. page \in Pages(Arrangements(statuses), limit, offset)
        BY <2>2, <3>1
      <4>2. /\ page \in Seq(Entry)
            /\ Len(page) = IF limit > 0 /\ total - offset > limit THEN limit
                           ELSE IF total > offset THEN total - offset ELSE 0
        BY <4>1, RowsOfPage
      <4> HIDE DEF total
      <4>3. Len(page) = 0
        BY <1>1, <2>4, <4>2
      <4> QED
        BY <4>2, <4>3
    <3> QED
      BY <2>2, <3>1
  <2>5. Pages(sorted, limit, ((count + 1) - 1) * limit) = {<< >>}
    <3>1. (count + 1) - 1 = count /\ count * limit \in Nat
      BY <1>2
    <3>2. ((count + 1) - 1) * limit \in Nat /\ total <= ((count + 1) - 1) * limit
      BY <1>2, <3>1
    <3> QED
      BY <2>4, <3>2
  <2> QED
    BY <2>3, <2>5 DEF sorted
<1> QED
  BY <1>1, <1>3 DEF PagesHold, count

\* The jobs with a record that pass a filter.
Passed(statuses) == {j \in ToSet(created) : PassesFilter(statuses, status[j])}

\* A job as it is.
AsItIs(j) == [job |-> j, status |-> status[j]]

\* A walk nothing was written during: the entries are the jobs as they are, each
\* once.
LEMMA QuietEntries ==
    ASSUME WatchFinished, changed = {}, WatchInv, RecordsInv
    PROVE  /\ \A k \in DOMAIN entries : entries[k] = AsItIs(entries[k].job)
           /\ \A k, l \in DOMAIN entries : entries[k].job = entries[l].job => k = l
           /\ \A j \in ToSet(created) : \E k \in DOMAIN entries : entries[k].job = j
<1>1. \A j \in ToSet(created) : SeenOnce(j)
  BY WatchHolds DEF UnchangedSeenOnce
<1>2. \A k \in DOMAIN entries : entries[k].job \in ToSet(created)
  BY DEF RecordsInv
<1>3. ASSUME NEW j \in ToSet(created)
      PROVE  /\ \E k \in DOMAIN entries : entries[k] = AsItIs(j)
             /\ \A k \in DOMAIN entries : entries[k].job = j => entries[k] = AsItIs(j)
             /\ \A k, l \in DOMAIN entries : entries[k].job = j /\ entries[l].job = j => k = l
  BY <1>1, <1>3 DEF SeenOnce, AsItIs
<1>4. \A j : AsItIs(j).job = j
  BY DEF AsItIs
<1> QED
  BY <1>2, <1>3, <1>4

\* Then the entries that pass are those of the jobs that pass.
LEMMA QuietMatched ==
    ASSUME WatchFinished, changed = {}, WatchInv, RecordsInv, NEW statuses
    PROVE  /\ IsFiniteSet(Passed(statuses))
           /\ Cardinality(Passed(statuses)) = Cardinality(Matched(statuses))
           /\ \A k \in Matched(statuses) : entries[k].job \in Passed(statuses)
<1> DEFINE M == Matched(statuses)
           P == Passed(statuses)
           f == [k \in M |-> entries[k].job]
<1>1. M \subseteq DOMAIN entries /\ IsFiniteSet(M)
  BY PlacesOfEntries DEF Matched, WatchFinished
<1>2. \A j : AsItIs(j).status = status[j]
  BY DEF AsItIs
<1>3. \A k \in DOMAIN entries :
        entries[k].job \in ToSet(created) /\ entries[k].status = status[entries[k].job]
  BY <1>2, QuietEntries DEF RecordsInv
<1>4. \A k \in M : entries[k].job \in P
  BY <1>1, <1>3 DEF Matched, Passed
<1>5. \A j \in P : \E k \in M : entries[k].job = j
  BY <1>3, QuietEntries DEF Matched, Passed
<1>6. \A k, l \in M : entries[k].job = entries[l].job => k = l
  BY <1>1, QuietEntries
<1> HIDE DEF M, P
<1>7. f \in Bijection(M, P)
  BY <1>4, <1>5, <1>6 DEF Bijection, Injection, IsInjective, Surjection
<1>8. ExistsBijection(M, P)
  BY <1>7 DEF ExistsBijection
<1>9. IsFiniteSet(P) /\ Cardinality(P) = Cardinality(M)
  BY <1>1, <1>8, FS_Bijection
<1> QED
  BY <1>4, <1>9 DEF M, P

\* The rows are the jobs that pass, each once, as they are.
LEMMA QuietRows ==
    ASSUME WatchFinished, changed = {}, WatchInv, RecordsInv, NEW statuses,
           NEW rows \in Arrangements(statuses)
    PROVE  \E listed \in SetToSeqs(Passed(statuses)) :
              rows = [k \in DOMAIN listed |-> AsItIs(listed[k])]
<1> DEFINE M == Matched(statuses)
           P == Passed(statuses)
           n == Cardinality(M)
<1>1. PICK order \in SetToSeqs(M) : rows = [k \in DOMAIN order |-> entries[order[k]]]
  BY DEF Arrangements
<1>2. M \subseteq DOMAIN entries /\ IsFiniteSet(M)
  BY PlacesOfEntries DEF Matched, WatchFinished
<1>3. /\ n \in Nat /\ order \in [1 .. n -> M]
      /\ \A a, b \in DOMAIN order : order[a] = order[b] => a = b
  BY <1>2, EnumerationIs
<1>4. Cardinality(P) = n /\ \A k \in M : entries[k].job \in P
  BY QuietMatched
<1>5. /\ \A k \in M : entries[k] = AsItIs(entries[k].job)
      /\ \A k, l \in M : entries[k].job = entries[l].job => k = l
  BY <1>2, QuietEntries
<1> HIDE DEF n, M, P
<1> DEFINE listed == [a \in 1 .. n |-> entries[order[a]].job]
<1>6. listed \in [1 .. n -> P] /\ \A a \in 1 .. n : listed[a] = entries[order[a]].job
  BY <1>3, <1>4
<1>7. \A a, b \in 1 .. n : listed[a] = listed[b] => a = b
  BY <1>3, <1>5, <1>6
<1> HIDE DEF listed
<1>8. listed \in SetToSeqs(P)
  BY <1>4, <1>6, <1>7 DEF SetToSeqs
<1>9. \A a \in 1 .. n : entries[order[a]] = AsItIs(listed[a])
  BY <1>3, <1>5, <1>6
<1>10. rows = [k \in DOMAIN listed |-> AsItIs(listed[k])]
  BY <1>1, <1>3, <1>6, <1>9
<1> QED
  BY <1>8, <1>10 DEF P

\* The page of a request that was not disturbed.
LEMMA QuietPage ==
    ASSUME WatchFinished, changed = {}, WatchInv, RecordsInv,
           NEW Created, NEW statuses, NEW limit, NEW offset
    PROVE  PageIsExact(Created, statuses, limit, offset)
<1> DEFINE lists == {[k \in DOMAIN listed |-> AsItIs(listed[k])] : listed \in SetToSeqs(Passed(statuses))}
<1>1. ASSUME NEW page \in LoadJobsByKV(Created, statuses, limit, offset)
      PROVE  \E rows \in lists : InOrder(Created, rows) /\ page = Window(rows, offset, limit)
  <2>1. PICK rows \in NewestFirst(Created, Arrangements(statuses)) :
          page = Window(rows, offset, limit)
    BY <1>1 DEF LoadJobsByKV, Pages
  <2>2. rows \in Arrangements(statuses) /\ InOrder(Created, rows)
    BY DEF NewestFirst, InOrder
  <2>3. rows \in lists
    BY <2>2, QuietRows
  <2> QED
    BY <2>1, <2>2, <2>3
<1> QED
  BY <1>1 DEF PageIsExact, Passed, AsItIs

\* The counts and the rows of a request to the queue page agree, for any filter
\* and any limit, whatever is written while serveQueue and LoadJobsByKV go through
\* the records and whatever the clocks of those who submitted the jobs said: no
\* page counted is empty, and nothing comes after the last.
THEOREM CountedPagesExact ==
    Spec => [](WatchFinished =>
        \A statuses \in SUBSET Statuses, limit \in Nat \ {0} :
            PagesHold([Jobs -> Nat], statuses, limit))
<1>1. ReadersInv => (WatchFinished =>
        \A statuses \in SUBSET Statuses, limit \in Nat \ {0} :
            PagesHold([Jobs -> Nat], statuses, limit))
  BY CountedPagesAre DEF ReadersInv, WatchFinished
<1> QED
  BY <1>1, ReadersKeepTrack, PTL

\* So in particular for the filters, the limit and the times of the run.
THEOREM CountedPages == Spec => []CountedPagesHold
<1>1. ReadersInv => CountedPagesHold
  <2>1. 2 \in Nat \ {0}
    OBVIOUS
  <2>2. Filters \subseteq SUBSET Statuses
    BY DEF Filters, Statuses
  <2> QED
    BY <2>1, <2>2, CountedPagesAre, CreatedTimesAssumption
    DEF CountedPagesHold, ReadersInv, WatchFinished
<1> QED
  BY <1>1, ReadersKeepTrack, PTL

\* If no record was written while LoadJobsByKV went through them, it returns a
\* window of the jobs that pass the filter, as they are, each once and sorted by
\* Created, for any filter, limit and offset and any Created: jobs of one second may
\* come in any order, and Created need not agree with the order in which the
\* records were created.
THEOREM QuietPagesExact ==
    Spec => [](WatchFinished /\ changed = {} =>
        \A Created \in [Jobs -> Nat], statuses \in SUBSET Statuses,
           limit \in Nat, offset \in Nat : PageIsExact(Created, statuses, limit, offset))
<1>1. ReadersInv => (WatchFinished /\ changed = {} =>
        \A Created \in [Jobs -> Nat], statuses \in SUBSET Statuses,
           limit \in Nat, offset \in Nat : PageIsExact(Created, statuses, limit, offset))
  BY QuietPage DEF ReadersInv
<1> QED
  BY <1>1, ReadersKeepTrack, PTL

\* So in particular for the times, filters, limits and offsets of the run.
THEOREM QuietPages == Spec => []QuietPageIsExact
<1>1. ReadersInv => QuietPageIsExact
  BY QuietPage DEF ReadersInv, QuietPageIsExact
<1> QED
  BY <1>1, ReadersKeepTrack, PTL
=============================================================================
