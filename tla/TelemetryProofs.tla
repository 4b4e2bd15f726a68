---------------------------- MODULE TelemetryProofs ----------------------------
(***************************************************************************)
(* What the detector and the collector promise, proved for any number of   *)
(* requests, polls and failures, any rolling window and health settings.   *)
(*                                                                         *)
(* Signals and features are whatever window_signals and build_features     *)
(* compute: most proofs use their definitions only as far as a property is *)
(* about them.  The last part is about what the signals say: the counters  *)
(* of a process number its responses, in every scrape, so a window counts  *)
(* what was answered between its scrapes.                                  *)
(***************************************************************************)
EXTENDS Telemetry, DataLemmas, FiniteSetTheorems

-----------------------------------------------------------------------------
(* The metrics of the orders service are always a snapshot.                *)

ServiceShape(s) ==
    /\ DOMAIN s = {"life", "ready", "sim", "store", "cnt"}
    /\ s.life \in Nat /\ s.cnt \in Snapshots
RequestShape(r) ==
    /\ DOMAIN r = {"pc", "latency", "status", "life", "counted", "sent"}
    /\ r.latency \in Nat
ServiceTyped ==
    /\ ServiceShape(svc)
    /\ DOMAIN req = Orders /\ \A o \in Orders : RequestShape(req[o])

\* A histogram that has observed one more request.
LEMMA ObserveType ==
  ASSUME NEW buckets \in [Buckets -> Nat], NEW latency
  PROVE  Observe(buckets, latency) \in [Buckets -> Nat]
  BY DEF Observe

\* A service that starts.
LEMMA FreshServiceShape ==
  ASSUME NEW life \in Nat, NEW ready
  PROVE  ServiceShape(FreshService(life, ready))
<1>1. EmptySnapshot \in Snapshots
  BY DEF EmptySnapshot, Snapshots
<1>. QED
  BY <1>1 DEF FreshService, ServiceShape

\* PublishFailed counts a failure and the time it took.
LEMMA PublishFailedShape ==
  ASSUME NEW s, ServiceShape(s), NEW wait \in Nat
  PROVE  ServiceShape(PublishFailed(s, wait)) /\ PublishFailed(s, wait).life = s.life
<1>1. PICK c : c = [s.cnt EXCEPT !.pubfail = s.cnt.pubfail + 1]
  OBVIOUS
<1>2. c \in Snapshots
  BY <1>1 DEF Snapshots, ServiceShape
<1>3. PICK e : e = [c EXCEPT !.publat = c.publat + wait]
  OBVIOUS
<1>4. e \in Snapshots
  BY <1>2, <1>3 DEF Snapshots
<1>5. PICK t : t = PublishFailed(s, wait)
  OBVIOUS
<1>6. DOMAIN t = DOMAIN s /\ t.life = s.life
  BY <1>5 DEF PublishFailed, ServiceShape
<1>7. t.cnt = e
  BY <1>1, <1>3, <1>5 DEF PublishFailed, ServiceShape
<1>. QED
  BY <1>4, <1>5, <1>6, <1>7 DEF ServiceShape

\* A request that will be answered.
LEMMA AnsweringShape ==
  ASSUME NEW r, RequestShape(r), NEW status, NEW latency \in Nat
  PROVE  RequestShape(Answering(r, status, latency))
  BY DEF Answering, RequestShape

\* create_order up to its next await.
LEMMA ProceedShape ==
  ASSUME ServiceTyped, NEW o \in Orders, NEW r, RequestShape(r), Proceed(o, r)
  PROVE  ServiceTyped'
<1>1. PICK s : req' = [req EXCEPT ![o] = s] /\ RequestShape(s)
  <2>1. RequestShape(Answering(r, 500, 0)) /\ RequestShape(Answering(r, 503, 0))
    BY AnsweringShape
  <2>2. RequestShape([r EXCEPT !.pc = "publishing"])
    BY DEF RequestShape
  <2>. QED
    BY <2>1, <2>2 DEF Proceed
<1>2. ServiceShape(svc')
  <2>1. svc' = svc \/ svc' = PublishFailed(svc, 0)
    BY DEF Proceed
  <2>. QED
    BY <2>1, PublishFailedShape DEF ServiceTyped
<1>. QED
  BY <1>1, <1>2 DEF ServiceTyped, ServiceShape, RequestShape

\* publish returns and the order is stored and counted.
LEMMA PublishedShape ==
  ASSUME ServiceTyped, NEW o \in Orders, Published(o)
  PROVE  ServiceTyped'
<1>1. PICK r : req' = [req EXCEPT ![o] = r] /\ RequestShape(r)
  <2>1. RequestShape(Answering(req[o], 201, 0)) /\ RequestShape(Answering(req[o], 503, 1))
    BY AnsweringShape DEF ServiceTyped
  <2>. QED
    BY <2>1 DEF Published, ServiceTyped
<1>2. ServiceShape(svc')
  <2>1. CASE svc' = PublishFailed(svc, 2)
    BY <2>1, PublishFailedShape DEF ServiceTyped
  <2>2. CASE svc' = [svc EXCEPT !.store = AddOrder(@, o), !.cnt.created = @ + 1,
                                !.cnt.pubok = @ + 1, !.cnt.publat = @ + 1]
    <3>1. PICK c : c = [svc.cnt EXCEPT !.created = svc.cnt.created + 1]
      OBVIOUS
    <3>2. c \in Snapshots
      BY <3>1 DEF Snapshots, ServiceShape, ServiceTyped
    <3>3. PICK d : d = [c EXCEPT !.pubok = c.pubok + 1]
      OBVIOUS
    <3>4. d \in Snapshots
      BY <3>2, <3>3 DEF Snapshots
    <3>5. PICK e : e = [d EXCEPT !.publat = d.publat + 1]
      OBVIOUS
    <3>6. e \in Snapshots
      BY <3>4, <3>5 DEF Snapshots
    <3>7. DOMAIN svc' = DOMAIN svc /\ svc'.life = svc.life /\ svc'.cnt = e
      BY <2>2, <3>1, <3>3, <3>5 DEF ServiceTyped, ServiceShape
    <3>. QED
      BY <3>6, <3>7 DEF ServiceTyped, ServiceShape
  <2>. QED
    BY <2>1, <2>2 DEF Published
<1>. QED
  BY <1>1, <1>2 DEF ServiceTyped, ServiceShape, RequestShape

\* A response is counted.
LEMMA RespondShape ==
  ASSUME ServiceTyped, NEW o \in Orders, Respond(o)
  PROVE  /\ ServiceTyped'
         /\ svc'.cnt.post = svc.cnt.post + 1 /\ svc'.life = svc.life
<1>1. PICK c1 : c1 = [svc.cnt EXCEPT !.post = svc.cnt.post + 1]
  OBVIOUS
<1>2. PICK c2 : c2 = [c1 EXCEPT !.latency = c1.latency + req[o].latency]
  OBVIOUS
<1>3. PICK c3 : c3 = [c2 EXCEPT !.ok = c2.ok + IF StatusClass(req[o].status) = 2 THEN 1 ELSE 0]
  OBVIOUS
<1>4. PICK c3r : c3r = [c3 EXCEPT !.refused = c3.refused
                                    + IF StatusClass(req[o].status) = 4 THEN 1 ELSE 0]
  OBVIOUS
<1>5. PICK c4 : c4 = [c3r EXCEPT !.err = c3r.err + IF StatusClass(req[o].status) = 5 THEN 1 ELSE 0]
  OBVIOUS
<1>6. PICK c5 : c5 = [c4 EXCEPT !.buckets = Observe(c4.buckets, req[o].latency)]
  OBVIOUS
<1>7. c1 \in Snapshots /\ c1.post = svc.cnt.post + 1
  BY <1>1 DEF ServiceTyped, ServiceShape, Snapshots
<1>8. c2 \in Snapshots /\ c2.post = c1.post
  BY <1>2, <1>7 DEF ServiceTyped, RequestShape, Snapshots
<1>9. c3 \in Snapshots /\ c3.post = c2.post
  BY <1>3, <1>8 DEF Snapshots
<1>10. c3r \in Snapshots /\ c3r.post = c3.post
  BY <1>4, <1>9 DEF Snapshots
<1>11. c4 \in Snapshots /\ c4.post = c3r.post
  BY <1>5, <1>10 DEF Snapshots
<1>12. c5 \in Snapshots /\ c5.post = c4.post
  <2>1. Observe(c4.buckets, req[o].latency) \in [Buckets -> Nat]
    BY <1>11, ObserveType DEF Snapshots
  <2>. QED
    BY <1>6, <1>11, <2>1 DEF Snapshots
<1>13. DOMAIN svc' = DOMAIN svc /\ svc'.life = svc.life /\ svc'.cnt = c5
  BY <1>1, <1>2, <1>3, <1>4, <1>5, <1>6 DEF Respond, ServiceTyped, ServiceShape
<1>14. DOMAIN req' = Orders /\ \A p \in Orders : RequestShape(req'[p])
  BY DEF Respond, ServiceTyped, RequestShape
<1>. QED
  BY <1>7, <1>8, <1>9, <1>10, <1>11, <1>12, <1>13, <1>14 DEF ServiceTyped, ServiceShape, RequestShape

\* Every step keeps the shape of the service and its requests.
LEMMA ServiceStep ==
  ServiceTyped /\ [Next]_vars => ServiceTyped'
<1>. SUFFICES ASSUME ServiceTyped, [Next]_vars PROVE ServiceTyped'
  OBVIOUS
<1>1. ASSUME NEW o \in Orders, Arrive(o) PROVE ServiceTyped'
  <2>1. PICK r : r = [req[o] EXCEPT !.life = svc.life, !.latency = 1, !.sent = col.seg]
    OBVIOUS
  <2>2. RequestShape(r) /\ RequestShape([r EXCEPT !.pc = "sleeping", !.latency = 4])
    BY <2>1 DEF ServiceTyped, RequestShape
  <2>3. \/ req' = [req EXCEPT ![o] = [r EXCEPT !.pc = "sleeping", !.latency = 4]] /\ UNCHANGED svc
        \/ req' = [req EXCEPT ![o] = Answering(r, 422, 0)] /\ UNCHANGED svc
        \/ Proceed(o, r)
    BY <1>1, <2>1 DEF Arrive
  <2>4. CASE req' = [req EXCEPT ![o] = [r EXCEPT !.pc = "sleeping", !.latency = 4]] /\ UNCHANGED svc
    <3>1. PICK t : t = [r EXCEPT !.pc = "sleeping", !.latency = 4]
      OBVIOUS
    <3>2. RequestShape(t) /\ req' = [req EXCEPT ![o] = t]
      BY <2>2, <2>4, <3>1
    <3>. QED
      BY <2>4, <3>2 DEF ServiceTyped, ServiceShape, RequestShape
  <2>5. CASE req' = [req EXCEPT ![o] = Answering(r, 422, 0)] /\ UNCHANGED svc
    <3>1. PICK t : t = Answering(r, 422, 0)
      OBVIOUS
    <3>2. RequestShape(t) /\ req' = [req EXCEPT ![o] = t]
      BY <2>2, <2>5, <3>1, AnsweringShape
    <3>. QED
      BY <2>5, <3>2 DEF ServiceTyped, ServiceShape, RequestShape
  <2>. QED
    BY <2>2, <2>3, <2>4, <2>5, ProceedShape
<1>2. ASSUME NEW o \in Orders, Awake(o) PROVE ServiceTyped'
  BY <1>2, ProceedShape DEF Awake, ServiceTyped
<1>3. CASE PutSimulation
  BY <1>3 DEF PutSimulation, ServiceTyped, ServiceShape, RequestShape
<1>4. CASE RestartService
  <2>1. ServiceShape(svc')
    <3>1. svc.life + 1 \in Nat
      BY DEF ServiceTyped, ServiceShape
    <3>. QED
      BY <1>4, <3>1, FreshServiceShape DEF RestartService
  <2>2. DOMAIN req' = Orders /\ \A o \in Orders : RequestShape(req'[o])
    BY <1>4 DEF RestartService, ServiceTyped, RequestShape
  <2>. QED
    BY <2>1, <2>2 DEF ServiceTyped, ServiceShape, RequestShape
<1>5. CASE StartSegment
  BY <1>5 DEF StartSegment, ServiceTyped, ServiceShape, RequestShape
<1>6. CASE \/ StartDetector \/ ScrapeFails \/ Tick \/ StopDetector \/ DetectorStep
           \/ CollectorFails \/ CollectScrape \/ Drain \/ UNCHANGED vars
  <2>1. UNCHANGED <<svc, req>>
    BY <1>6 DEF StartDetector, ScrapeFails, Tick, StopDetector, DetectorStep, PublishReturns,
                LoopEnds, CollectorFails, CollectScrape, Drain, vars
  <2>. QED
    BY <2>1 DEF ServiceTyped, ServiceShape, RequestShape
<1>. QED
  BY <1>1, <1>2, <1>3, <1>4, <1>5, <1>6, PublishedShape, RespondShape
  DEF Next, OrdersStep, CollectorStep

\* It starts with it.
LEMMA ServiceInit == Init => ServiceTyped
<1>. SUFFICES ASSUME Init PROVE ServiceTyped
  OBVIOUS
<1>1. ServiceShape(svc)
  BY FreshServiceShape DEF Init
<1>2. RequestShape(NewRequest)
  BY DEF NewRequest, RequestShape
<1>. QED
  BY <1>1, <1>2 DEF Init, ServiceTyped

-----------------------------------------------------------------------------
(* The detector's record.                                                  *)

Signals == {WindowSignals(a, b, dt) : a \in Snapshots, b \in Snapshots, dt \in Int}
Rows == [at : Nat, snapshot : Snapshots, scenario : {None}, life : Nat]

DetectorFields ==
    {"pc", "stop", "now", "prev", "prevAt", "buffer", "inferences", "last", "anomalies",
     "published", "failures", "raw", "windows", "features"}

DetectorTyped ==
    /\ DOMAIN det = DetectorFields
    /\ det.pc \in {"off", "unready", "waiting", "publishing", "stopped"}
    /\ det.now \in Nat /\ det.prevAt \in Nat
    /\ det.inferences \in Nat /\ det.last \in Nat /\ det.anomalies \in Nat
    /\ det.published \in Nat /\ det.failures \in Nat
    /\ det.raw \in Seq(Rows) /\ det.windows \in Seq(Signals) /\ det.buffer \in Seq(Signals)

\* The last scrape is the newest row.
Remembers ==
    IF det.raw = <<>> THEN det.prev = None
    ELSE det.prev = Last(det.raw).snapshot /\ det.prevAt = Last(det.raw).at

\* The newest scrape of a tick, and the window it closes.
ScrapedRow == [at |-> det.now + 1, snapshot |-> svc.cnt, scenario |-> None, life |-> svc.life]
Closed == ClosedWindow(det, svc.cnt, det.now + 1)

\* What a tick does to the record, without a window, with one that is not
\* scored, and with one that is.
TickAlways ==
    /\ det'.now = det.now + 1 /\ det'.raw = Append(det.raw, ScrapedRow)
    /\ det'.prev = svc.cnt /\ det'.prevAt = det.now + 1
    /\ det'.stop = det.stop /\ det'.published = det.published /\ det'.failures = det.failures
    /\ DOMAIN det' = DOMAIN det
TickIdle ==
    /\ Closed = None
    /\ det'.windows = det.windows /\ det'.buffer = det.buffer /\ det'.features = det.features
    /\ det'.inferences = det.inferences /\ det'.last = det.last /\ det'.anomalies = det.anomalies
    /\ det'.pc = det.pc
TickWindow ==
    /\ Closed # None
    /\ det'.windows = Append(det.windows, Closed)
    /\ det'.buffer = Push(det.buffer, Closed)
    /\ det'.features = BuildFeatures(Push(det.buffer, Closed))
TickUnscored ==
    /\ det'.inferences = det.inferences /\ det'.last = det.last /\ det'.anomalies = det.anomalies
    /\ det'.pc = det.pc
TickScored ==
    /\ det'.inferences = det.inferences + 1 /\ det'.last = det.now + 1
    /\ \/ det'.anomalies = det.anomalies + 1 /\ det'.pc = "publishing"
       \/ /\ det'.anomalies = det.anomalies
          /\ det'.pc = IF PublishOnlyAnomalies THEN "waiting" ELSE "publishing"

\* The window between two scrapes is one of the signals.
LEMMA ClosedType ==
  ASSUME ServiceTyped, DetectorTyped, Remembers
  PROVE  /\ ScrapedRow \in Rows
         /\ Closed # None => Closed \in Signals /\ det.raw # <<>>
<1>1. ScrapedRow \in Rows
  BY DEF ScrapedRow, Rows, ServiceTyped, ServiceShape, DetectorTyped
<1>2. ASSUME Closed # None PROVE Closed \in Signals /\ det.raw # <<>>
  <2>1. det.prev # None /\ Closed = WindowSignals(det.prev, svc.cnt, (det.now + 1) - det.prevAt)
    BY <1>2 DEF Closed, ClosedWindow
  <2>2. det.raw # <<>>
    BY <2>1 DEF Remembers
  <2>3. Last(det.raw) \in Rows
    BY <2>2, LenProperties, ElementOfSeq DEF DetectorTyped, Last
  <2>4. det.prev \in Snapshots /\ svc.cnt \in Snapshots /\ (det.now + 1) - det.prevAt \in Int
    <3>1. PICK row : row = Last(det.raw)
      OBVIOUS
    <3>2. row.snapshot \in Snapshots /\ row.at \in Nat
      BY <2>3, <3>1 DEF Rows
    <3>3. det.prev = row.snapshot /\ det.prevAt = row.at
      BY <2>2, <3>1 DEF Remembers
    <3>4. svc.cnt \in Snapshots /\ det.now \in Nat
      BY DEF ServiceTyped, ServiceShape, DetectorTyped
    <3>. QED
      BY <3>2, <3>3, <3>4
  <2>. QED
    BY <2>1, <2>2, <2>4 DEF Signals
<1>. QED
  BY <1>1, <1>2

\* Tick is one of the three.
LEMMA TickIs ==
  ASSUME DetectorTyped, Tick
  PROVE  /\ TickAlways
         /\ \/ TickIdle
            \/ TickWindow /\ TickUnscored
            \/ TickWindow /\ TickScored
<1>. DEFINE d == NextWindow(det)
<1>1. /\ DOMAIN d = DOMAIN det
      /\ d.now = det.now + 1 /\ d.raw = Append(det.raw, ScrapedRow)
      /\ d.prev = svc.cnt /\ d.prevAt = det.now + 1
      /\ d.windows = IF Closed = None THEN det.windows ELSE Append(det.windows, Closed)
      /\ \A f \in DetectorFields \ {"now", "raw", "prev", "prevAt", "windows"} : d[f] = det[f]
  BY DEF NextWindow, DetectorTyped, DetectorFields, ScrapedRow, Closed
<1>2. Len(d.windows) = Len(det.windows) <=> Closed = None
  BY <1>1, AppendProperties, LenProperties DEF DetectorTyped
<1>. DEFINE buffer == Push(det.buffer, Last(d.windows))
            scored == [d EXCEPT !.buffer = buffer, !.features = BuildFeatures(buffer)]
<1>. HIDE DEF d
<1>3. CASE Closed = None
  <2>1. det' = d
    BY <1>2, <1>3 DEF Tick, d
  <2>. QED
    BY <1>1, <1>3, <2>1 DEF TickAlways, TickIdle, DetectorFields
<1>4. CASE Closed # None
  <2>1. Last(d.windows) = Closed
    BY <1>1, <1>4, AppendProperties, LenProperties DEF DetectorTyped, Last
  <2>2. buffer = Push(det.buffer, Closed)
    BY <2>1
  <2>. HIDE DEF buffer
  <2>3. /\ DOMAIN scored = DetectorFields
        /\ scored.buffer = buffer /\ scored.features = BuildFeatures(buffer)
        /\ \A f \in DetectorFields \ {"buffer", "features"} : scored[f] = d[f]
    BY <1>1 DEF DetectorTyped, DetectorFields
  <2>4. \/ det' = scored
        \/ \E is_anomaly \in BOOLEAN :
             det' = [RecordInference(scored, is_anomaly)
                       EXCEPT !.pc = IF is_anomaly \/ ~ PublishOnlyAnomalies
                                     THEN "publishing" ELSE "waiting"]
    BY <1>2, <1>4 DEF Tick, d, buffer
  <2>. HIDE DEF scored
  <2>5. CASE det' = scored
    BY <1>1, <1>4, <2>2, <2>3, <2>5
    DEF TickAlways, TickWindow, TickUnscored, DetectorFields, DetectorTyped
  <2>6. CASE \E is_anomaly \in BOOLEAN :
               det' = [RecordInference(scored, is_anomaly)
                         EXCEPT !.pc = IF is_anomaly \/ ~ PublishOnlyAnomalies
                                       THEN "publishing" ELSE "waiting"]
    <3>1. \/ det' = [RecordInference(scored, TRUE) EXCEPT !.pc = "publishing"]
          \/ det' = [RecordInference(scored, FALSE)
                       EXCEPT !.pc = IF PublishOnlyAnomalies THEN "waiting" ELSE "publishing"]
      BY <2>6, TelemetryAssumption
    <3>2. CASE det' = [RecordInference(scored, TRUE) EXCEPT !.pc = "publishing"]
      BY <1>1, <1>4, <2>2, <2>3, <3>2
      DEF TickAlways, TickWindow, TickScored, DetectorFields, DetectorTyped, RecordInference
    <3>3. CASE det' = [RecordInference(scored, FALSE)
                         EXCEPT !.pc = IF PublishOnlyAnomalies THEN "waiting" ELSE "publishing"]
      <4>1. PICK pc : pc = IF PublishOnlyAnomalies THEN "waiting" ELSE "publishing"
        OBVIOUS
      <4>2. det' = [RecordInference(scored, FALSE) EXCEPT !.pc = pc]
        BY <3>3, <4>1
      <4>3. /\ DOMAIN det' = DetectorFields /\ det'.pc = pc
            /\ det'.inferences = scored.inferences + 1 /\ det'.last = scored.now
            /\ det'.anomalies = scored.anomalies + 0
            /\ \A f \in DetectorFields \ {"pc", "inferences", "last", "anomalies"} : det'[f] = scored[f]
        BY <2>3, <4>2 DEF RecordInference, DetectorFields
      <4>4. det'.anomalies = det.anomalies /\ det'.inferences = det.inferences + 1 /\ det'.last = det.now + 1
        <5>1. d.anomalies = det.anomalies /\ d.inferences = det.inferences
          BY <1>1 DEF DetectorFields
        <5>2. scored.anomalies = det.anomalies /\ scored.inferences = det.inferences /\ scored.now = det.now + 1
          BY <1>1, <2>3, <5>1 DEF DetectorFields
        <5>3. det.anomalies \in Nat
          BY DEF DetectorTyped
        <5>. QED
          BY <4>3, <5>2, <5>3
      <4>5. TickScored
        BY <4>1, <4>3, <4>4 DEF TickScored
      <4>6. TickAlways
        BY <1>1, <2>3, <4>3 DEF TickAlways, DetectorFields, DetectorTyped
      <4>7. TickWindow
        BY <1>1, <1>4, <2>2, <2>3, <4>3 DEF TickWindow, DetectorFields
      <4>. QED
        BY <4>5, <4>6, <4>7
    <3>. QED
      BY <3>1, <3>2, <3>3
  <2>. QED
    BY <2>4, <2>5, <2>6
<1>. QED
  BY <1>3, <1>4

\* The larger of two numbers.
LEMMA MaxOfTwo ==
  ASSUME NEW a \in Int, NEW b \in Int
  PROVE  Max({a, b}) = IF a >= b THEN a ELSE b
<1>. DEFINE m == IF a >= b THEN a ELSE b
<1>1. m \in {a, b} /\ \A y \in {a, b} : m >= y
  OBVIOUS
<1>2. \A x \in {a, b} : (\A y \in {a, b} : x >= y) => x = m
  OBVIOUS
<1>. HIDE DEF m
<1>3. Max({a, b}) = m
  BY <1>1, <1>2 DEF Max
<1>. QED
  BY <1>3 DEF m

\* The elements of a tail of a sequence.
LEMMA TrailingIs ==
  ASSUME NEW X, NEW s \in Seq(X), NEW n \in Nat
  PROVE  LET t == Trailing(s, n)
             m == IF n <= Len(s) THEN n ELSE Len(s)
         IN  /\ t \in Seq(X) /\ Len(t) = m /\ m \in Nat
             /\ \A i \in 1 .. m : t[i] = s[(Len(s) - m) + i]
<1>. DEFINE l == Len(s)
            m == IF n <= l THEN n ELSE l
            first == Max({1, l - n + 1})
<1>1. l \in Nat /\ \A i \in 1 .. l : s[i] \in X
  BY LenProperties, ElementOfSeq
<1>. HIDE DEF l
<1>2. first = (l - m) + 1 /\ m \in Nat /\ m <= l
  BY <1>1, MaxOfTwo
<1>. HIDE DEF first, m
<1>3. first \in 1 .. l + 1 /\ first \in Int
  BY <1>1, <1>2
<1>4. \A i \in first .. l : s[i] \in X
  BY <1>1, <1>3
<1>. DEFINE t == SubSeq(s, first, l)
<1>5. t \in Seq(X) /\ Len(t) = (IF first <= l THEN l - first + 1 ELSE 0)
  BY <1>1, <1>3, <1>4, SubSeqProperties
<1>6. \A i \in 1 .. l - first + 1 : t[i] = s[first + i - 1]
  BY <1>1, <1>3, <1>4, SubSeqProperties
<1>. HIDE DEF t
<1>7. Len(t) = m /\ l - first + 1 = m
  BY <1>1, <1>2, <1>3, <1>5
<1>8. \A i \in 1 .. m : first + i - 1 = (l - m) + i
  BY <1>1, <1>2
<1>9. \A i \in 1 .. m : t[i] = s[(l - m) + i]
  BY <1>6, <1>7, <1>8
<1>10. t = Trailing(s, n)
  BY DEF t, first, l, Trailing
<1>. QED
  BY <1>2, <1>5, <1>7, <1>9, <1>10 DEF m, l

\* The same, for a length and a number of elements that have names.
LEMMA TrailingOf ==
  ASSUME NEW X, NEW s \in Seq(X), NEW n \in Nat, NEW m \in Nat,
         m <= n, m <= Len(s), m = n \/ m = Len(s)
  PROVE  /\ Trailing(s, n) \in Seq(X) /\ Len(Trailing(s, n)) = m
         /\ \A i \in 1 .. m : Trailing(s, n)[i] = s[(Len(s) - m) + i]
<1>1. m = IF n <= Len(s) THEN n ELSE Len(s)
  BY LenProperties
<1>. QED
  BY <1>1, TrailingIs

\* The tail of the empty sequence.
LEMMA TrailingEmpty ==
  ASSUME NEW n \in Nat PROVE Trailing(<<>>, n) = <<>>
<1>1. PICK e : e = <<>>
  OBVIOUS
<1>2. e \in Seq({}) /\ 0 = Len(e)
  BY <1>1
<1>3. 0 \in Nat /\ 0 <= n /\ 0 <= Len(e)
  BY <1>2
<1>4. Trailing(e, n) \in Seq({}) /\ Len(Trailing(e, n)) = 0
  BY <1>2, <1>3, TrailingOf, Zenon
<1>5. Trailing(e, n) = <<>>
  BY <1>4, EmptySeq
<1>. QED
  BY <1>1, <1>5

\* A step of the detector, or none.
LEMMA DetectorSteps ==
  ASSUME [Next]_vars
  PROVE  \/ UNCHANGED <<det, events>>
         \/ StartDetector \/ ScrapeFails \/ Tick \/ PublishReturns \/ StopDetector \/ LoopEnds
  BY DEF Next, vars, Arrive, OrdersStep, Awake, Published, Respond, PutSimulation,
         RestartService, CollectorFails, CollectorStep, StartSegment, CollectScrape, Drain,
         DetectorStep

\* What is left of a detector that has ended.
LEMMA GoneIs ==
  /\ DOMAIN Gone = DetectorFields
  /\ Gone.pc = "stopped" /\ Gone.now = 0 /\ Gone.prev = None /\ Gone.prevAt = 0
  /\ Gone.buffer = <<>> /\ Gone.raw = <<>> /\ Gone.windows = <<>> /\ Gone.features = None
  /\ Gone.inferences = 0 /\ Gone.last = 0 /\ Gone.anomalies = 0
  /\ Gone.published = 0 /\ Gone.failures = 0
  BY DEF Gone, FreshDetector, DetectorFields

\* The steps of the detector other than its ticks, as changes of its record.
LEMMA DetectorOther ==
  ASSUME DetectorTyped, StartDetector \/ ScrapeFails \/ PublishReturns \/ StopDetector \/ LoopEnds
  PROVE  \/ det' = Gone /\ events' = events
         \/ /\ DOMAIN det' = DetectorFields
            /\ \A f \in {"prev", "prevAt", "buffer", "inferences", "last", "anomalies", "raw",
                         "windows", "features"} : det'[f] = det[f]
            /\ \/ /\ det'.pc = det.pc /\ det'.published = det.published
                  /\ det'.failures = det.failures /\ events' = events
                  /\ det'.now \in {det.now, det.now + 1}
               \/ /\ det.pc = "off" /\ det'.pc \in {"waiting", "unready"}
                  /\ det'.published = det.published /\ det'.failures = det.failures
                  /\ events' = events /\ det'.now = det.now
               \/ /\ det.pc = "publishing" /\ det'.pc = "waiting" /\ det'.now = det.now
                  /\ \/ /\ det'.published = det.published + 1 /\ det'.failures = det.failures
                        /\ events' = Append(events, Len(det.windows))
                     \/ /\ det'.published = det.published /\ det'.failures = det.failures + 1
                        /\ events' \in {events, Append(events, Len(det.windows))}
<1>. USE DEF DetectorTyped, DetectorFields
<1>1. CASE StartDetector
  BY <1>1 DEF StartDetector
<1>2. CASE ScrapeFails
  BY <1>2 DEF ScrapeFails
<1>3. CASE PublishReturns
  BY <1>3 DEF PublishReturns, AnomalyEvent
<1>4. CASE StopDetector
  BY <1>4 DEF StopDetector
<1>5. CASE LoopEnds
  BY <1>5 DEF LoopEnds
<1>. QED
  BY <1>1, <1>2, <1>3, <1>4, <1>5

\* The record keeps its types, and its last scrape.
LEMMA DetectorTypedStep ==
  ServiceTyped /\ DetectorTyped /\ Remembers /\ [Next]_vars => DetectorTyped' /\ Remembers'
<1>. SUFFICES ASSUME ServiceTyped, DetectorTyped, Remembers, [Next]_vars
              PROVE  DetectorTyped' /\ Remembers'
  OBVIOUS
<1>1. CASE Tick
  <2>1. ScrapedRow \in Rows /\ (Closed # None => Closed \in Signals)
    BY ClosedType
  <2>2. TickAlways /\ (TickIdle \/ (TickWindow /\ (TickUnscored \/ TickScored)))
    BY <1>1, TickIs
  <2>3. det'.raw \in Seq(Rows) /\ det'.raw # <<>> /\ Last(det'.raw) = ScrapedRow
    <3>. HIDE DEF Rows
    <3>1. det.raw \in Seq(Rows) /\ det'.raw = Append(det.raw, ScrapedRow)
      BY <2>2 DEF TickAlways, DetectorTyped
    <3>2. Append(det.raw, ScrapedRow) \in Seq(Rows) /\ Len(Append(det.raw, ScrapedRow)) = Len(det.raw) + 1
          /\ Append(det.raw, ScrapedRow)[Len(det.raw) + 1] = ScrapedRow /\ Len(det.raw) \in Nat
      BY <2>1, <3>1, AppendProperties, LenProperties
    <3>. QED
      BY <3>1, <3>2 DEF Last
  <2>4. Remembers'
    BY <2>2, <2>3 DEF Remembers, TickAlways, ScrapedRow
  <2>5. det'.windows \in Seq(Signals) /\ det'.buffer \in Seq(Signals)
    <3>1. CASE TickIdle
      BY <3>1 DEF TickIdle, DetectorTyped
    <3>2. CASE TickWindow
      <4>1. Append(det.windows, Closed) \in Seq(Signals) /\ Append(det.buffer, Closed) \in Seq(Signals)
        BY <2>1, <3>2, AppendProperties DEF TickWindow, DetectorTyped
      <4>2. Push(det.buffer, Closed) \in Seq(Signals)
        BY <4>1, TrailingIs, SignalAssumption DEF Push
      <4>. QED
        BY <3>2, <4>1, <4>2 DEF TickWindow
    <3>. QED
      BY <2>2, <3>1, <3>2
  <2>6. det'.pc \in {"waiting", "publishing"}
    BY <1>1, <2>2 DEF Tick, NextTick, TickIdle, TickUnscored, TickScored
  <2>7. det'.inferences \in Nat /\ det'.last \in Nat /\ det'.anomalies \in Nat
    <3>1. CASE TickIdle \/ TickUnscored
      BY <3>1 DEF DetectorTyped, TickIdle, TickUnscored
    <3>2. CASE TickScored
      <4>1. /\ det'.inferences = det.inferences + 1 /\ det'.last = det.now + 1
            /\ det'.anomalies = det.anomalies \/ det'.anomalies = det.anomalies + 1
        BY <3>2 DEF TickScored
      <4>. QED
        BY <4>1 DEF DetectorTyped
    <3>. QED
      BY <2>2, <3>1, <3>2
  <2>8. /\ DOMAIN det' = DetectorFields
        /\ det'.now \in Nat /\ det'.prevAt \in Nat
        /\ det'.published \in Nat /\ det'.failures \in Nat
    BY <2>2 DEF DetectorTyped, TickAlways
  <2>. QED
    BY <2>3, <2>4, <2>5, <2>6, <2>7, <2>8 DEF DetectorTyped
<1>2. CASE det' = Gone
  BY <1>2, GoneIs DEF DetectorTyped, Remembers
<1>3. CASE ~ Tick /\ det' # Gone
  <2>1. CASE UNCHANGED <<det, events>>
    BY <2>1 DEF DetectorTyped, Remembers
  <2>2. CASE ~ UNCHANGED <<det, events>>
    <3>1. StartDetector \/ ScrapeFails \/ PublishReturns \/ StopDetector \/ LoopEnds
      BY <1>3, <2>2, DetectorSteps
    <3>2. /\ DOMAIN det' = DetectorFields
          /\ \A f \in {"prev", "prevAt", "buffer", "inferences", "last", "anomalies", "raw",
                         "windows", "features"} : det'[f] = det[f]
          /\ det'.pc \in {"off", "unready", "waiting", "publishing", "stopped"}
          /\ det'.now \in Nat /\ det'.published \in Nat /\ det'.failures \in Nat
      BY <1>3, <3>1, DetectorOther DEF DetectorTyped
    <3>. QED
      BY <3>2 DEF DetectorTyped, Remembers
  <2>. QED
    BY <2>1, <2>2
<1>. QED
  BY <1>1, <1>2, <1>3

-----------------------------------------------------------------------------
(* The events on anomaly.detected.                                         *)

\* An event numbers a window that was closed before the next one is published,
\* and the windows on the topic are in order, each once.
EventsSound ==
    /\ events \in Seq(Nat)
    /\ \A i, j \in DOMAIN events : i < j => events[i] < events[j]
    /\ det.pc # "stopped" => \A i \in DOMAIN events :
          /\ events[i] <= Len(det.windows)
          /\ det.pc = "publishing" => events[i] < Len(det.windows)

\* Every count of the detector, against the others.
CountsAgree ==
    /\ PublishOnlyAnomalies =>
          det.anomalies = det.published + det.failures + IF det.pc = "publishing" THEN 1 ELSE 0
    /\ det.pc # "stopped" =>
          Len(events) >= det.published /\ Len(events) <= det.published + det.failures
    /\ det.inferences <= Len(det.windows)

\* A new event goes behind the others.
LEMMA AppendEvent ==
  ASSUME NEW s \in Seq(Nat), NEW n \in Nat, \A i \in DOMAIN s : s[i] < n,
         \A i, j \in DOMAIN s : i < j => s[i] < s[j]
  PROVE  LET t == Append(s, n)
         IN  /\ t \in Seq(Nat) /\ Len(t) = Len(s) + 1
             /\ \A i \in DOMAIN t : t[i] <= n
             /\ \A i, j \in DOMAIN t : i < j => t[i] < t[j]
<1>. DEFINE t == Append(s, n)
            m == Len(s)
<1>1. m \in Nat /\ DOMAIN s = 1 .. m /\ t \in Seq(Nat) /\ Len(t) = m + 1 /\ DOMAIN t = 1 .. m + 1
  BY AppendProperties, LenProperties
<1>2. t[m + 1] = n /\ \A i \in 1 .. m : t[i] = s[i] /\ s[i] \in Nat
  BY AppendProperties, LenProperties, ElementOfSeq
<1>. HIDE DEF t, m
<1>3. \A i \in DOMAIN t : i = m + 1 \/ i \in 1 .. m
  BY <1>1
<1>4. \A i \in DOMAIN t : t[i] <= n
  BY <1>1, <1>2, <1>3
<1>5. ASSUME NEW i \in DOMAIN t, NEW j \in DOMAIN t, i < j PROVE t[i] < t[j]
  <2>1. i \in 1 .. m
    BY <1>1, <1>5
  <2>. QED
    BY <1>1, <1>2, <1>3, <1>5, <2>1
<1>. QED
  BY <1>1, <1>4, <1>5 DEF t, m

\* Both are kept by every step.
LEMMA ReconcileStep ==
  ServiceTyped /\ DetectorTyped /\ Remembers /\ EventsSound /\ CountsAgree /\ [Next]_vars
     => EventsSound' /\ CountsAgree'
<1>. SUFFICES ASSUME ServiceTyped, DetectorTyped, Remembers, EventsSound, CountsAgree, [Next]_vars
              PROVE  EventsSound' /\ CountsAgree'
  OBVIOUS
<1>0. Len(det.windows) \in Nat /\ Len(events) \in Nat /\ DOMAIN events = 1 .. Len(events)
      /\ \A i \in DOMAIN events : events[i] \in Nat
  BY LenProperties, ElementOfSeq DEF DetectorTyped, EventsSound
<1>1. CASE Tick
  <2>1. TickAlways /\ (TickIdle \/ (TickWindow /\ (TickUnscored \/ TickScored)))
    BY <1>1, TickIs
  <2>2. det.pc = "waiting" /\ events' = events
    BY <1>1 DEF Tick, NextTick
  <2>3. CASE TickIdle
    BY <2>1, <2>2, <2>3 DEF TickAlways, TickIdle, EventsSound, CountsAgree
  <2>4. CASE TickWindow
    <3>1. Len(det'.windows) = Len(det.windows) + 1
      <4>1. Closed \in Signals
        BY <2>4, ClosedType DEF TickWindow
      <4>. QED
        BY <2>4, <4>1, AppendProperties DEF TickWindow, DetectorTyped
    <3>2. EventsSound'
      <4>1. \A i \in DOMAIN events : events[i] < Len(det.windows) + 1
        BY <1>0, <2>2 DEF EventsSound
      <4>. QED
        BY <1>0, <2>2, <3>1, <4>1 DEF EventsSound
    <3>3. CASE TickUnscored
      BY <1>0, <2>1, <2>2, <3>1, <3>2, <3>3
      DEF TickAlways, TickUnscored, CountsAgree, DetectorTyped
    <3>4. CASE TickScored
      <4>1. /\ det'.inferences = det.inferences + 1
            /\ \/ det'.anomalies = det.anomalies + 1 /\ det'.pc = "publishing"
               \/ /\ det'.anomalies = det.anomalies
                  /\ PublishOnlyAnomalies => det'.pc = "waiting"
            /\ det'.pc # "stopped"
            /\ det'.published = det.published /\ det'.failures = det.failures
        BY <2>1, <3>4 DEF TickAlways, TickScored
      <4>2. PublishOnlyAnomalies => det'.anomalies =
              det'.published + det'.failures + IF det'.pc = "publishing" THEN 1 ELSE 0
        BY <2>2, <4>1 DEF CountsAgree, DetectorTyped
      <4>3. CountsAgree'
        BY <1>0, <2>2, <3>1, <4>1, <4>2 DEF CountsAgree, DetectorTyped
      <4>. QED
        BY <3>2, <4>3
    <3>. QED
      BY <2>1, <2>4, <3>3, <3>4 DEF TickIdle, TickWindow
  <2>. QED
    BY <2>1, <2>3, <2>4
<1>2. CASE det' = Gone /\ events' = events
  BY <1>2, <1>0, GoneIs DEF EventsSound, CountsAgree
<1>3. CASE UNCHANGED <<det, events>>
  BY <1>3 DEF EventsSound, CountsAgree
<1>4. CASE /\ StartDetector \/ ScrapeFails \/ PublishReturns \/ StopDetector \/ LoopEnds
           /\ ~ (det' = Gone /\ events' = events)
  <2>1. det'.windows = det.windows /\ det'.inferences = det.inferences /\ det'.anomalies = det.anomalies
    BY <1>4, DetectorOther
  <2>2. CASE /\ events' = events /\ det'.published = det.published /\ det'.failures = det.failures
             /\ det'.pc = det.pc \/ (det.pc = "off" /\ det'.pc \in {"waiting", "unready"})
    BY <2>1, <2>2 DEF EventsSound, CountsAgree
  <2>3. CASE /\ det.pc = "publishing" /\ det'.pc = "waiting"
             /\ \/ /\ det'.published = det.published + 1 /\ det'.failures = det.failures
                   /\ events' = Append(events, Len(det.windows))
                \/ /\ det'.published = det.published /\ det'.failures = det.failures + 1
                   /\ events' \in {events, Append(events, Len(det.windows))}
    <3>1. PICK n \in Nat : n = Len(det.windows)
      BY <1>0
    <3>2. PICK t : t = Append(events, n)
      OBVIOUS
    <3>3. /\ t \in Seq(Nat) /\ Len(t) = Len(events) + 1
          /\ \A i \in DOMAIN t : t[i] <= n
          /\ \A i, j \in DOMAIN t : i < j => t[i] < t[j]
      BY <2>3, <3>1, <3>2, AppendEvent DEF EventsSound
    <3>4. events' = events \/ events' = t
      BY <2>3, <3>1, <3>2
    <3>5. EventsSound'
      BY <2>1, <2>3, <3>1, <3>3, <3>4 DEF EventsSound
    <3>6. /\ Len(events') \in Nat
          /\ \/ Len(events') = Len(events) + 1 /\ det'.published = det.published + 1 /\ det'.failures = det.failures
             \/ /\ Len(events') \in {Len(events), Len(events) + 1}
                /\ det'.published = det.published /\ det'.failures = det.failures + 1
      BY <1>0, <2>3, <3>1, <3>2, <3>3
    <3>7. CountsAgree'
      <4>1. PublishOnlyAnomalies => det'.anomalies = det'.published + det'.failures + 0
        <5>. SUFFICES ASSUME PublishOnlyAnomalies
                      PROVE  det'.anomalies = det'.published + det'.failures + 0
          OBVIOUS
        <5>1. det.anomalies = det.published + det.failures + 1
          BY <2>3 DEF CountsAgree
        <5>2. \/ det'.published = det.published + 1 /\ det'.failures = det.failures
              \/ det'.published = det.published /\ det'.failures = det.failures + 1
          BY <2>3
        <5>3. det'.anomalies = det.anomalies
          BY <2>1
        <5>. QED
          BY <5>1, <5>2, <5>3 DEF DetectorTyped
      <4>2. Len(events') >= det'.published /\ Len(events') <= det'.published + det'.failures
        BY <1>0, <2>3, <3>6 DEF CountsAgree, DetectorTyped
      <4>3. det'.inferences <= Len(det'.windows)
        BY <2>1 DEF CountsAgree
      <4>. QED
        BY <2>3, <4>1, <4>2, <4>3 DEF CountsAgree
    <3>. QED
      BY <3>5, <3>7
  <2>. QED
    BY <1>4, <2>2, <2>3, DetectorOther
<1>. QED
  BY <1>1, <1>2, <1>3, <1>4, DetectorSteps

\* The start of a run.
LEMMA DetectorInit == Init => DetectorTyped /\ Remembers /\ EventsSound /\ CountsAgree
  BY DEF Init, FreshDetector, DetectorTyped, DetectorFields, Remembers, EventsSound, CountsAgree

\* However scrapes, scores and publishes fail, for any number of polls: what the
\* detector publishes and counts reconciles (loop.py, state.py).
THEOREM AnomaliesAccounted == Spec => []AnomaliesReconcile
<1>1. EventsSound /\ CountsAgree => AnomaliesReconcile
  BY DEF EventsSound, CountsAgree, AnomaliesReconcile
<1>. QED
  BY <1>1, ServiceInit, DetectorInit, ServiceStep, DetectorTypedStep, ReconcileStep, PTL DEF Spec

-----------------------------------------------------------------------------
(* The features.                                                           *)

\* Sequences that end alike have the same tail.
LEMMA TrailingAgree ==
  ASSUME NEW X, NEW a \in Seq(X), NEW b \in Seq(X), NEW n \in Nat, NEW k \in Nat,
         k <= n, k <= Len(a), k <= Len(b), k = n \/ (k = Len(a) /\ k = Len(b)),
         \A i \in 1 .. k : a[(Len(a) - k) + i] = b[(Len(b) - k) + i]
  PROVE  Trailing(a, n) = Trailing(b, n)
<1>1. /\ Trailing(a, n) \in Seq(X) /\ Len(Trailing(a, n)) = k
      /\ Trailing(b, n) \in Seq(X) /\ Len(Trailing(b, n)) = k
  BY TrailingOf
<1>2. \A i \in 1 .. k : Trailing(a, n)[i] = a[(Len(a) - k) + i]
  BY TrailingOf
<1>3. \A i \in 1 .. k : Trailing(b, n)[i] = b[(Len(b) - k) + i]
  BY TrailingOf
<1>4. \A i \in 1 .. k : Trailing(a, n)[i] = Trailing(b, n)[i]
  BY <1>2, <1>3
<1>. QED
  BY <1>1, <1>4, SeqEqual

\* Pushing onto the bounded buffer keeps the end of the whole history.
LEMMA TrailingAppend ==
  ASSUME NEW X, NEW s \in Seq(X), NEW x \in X, NEW n \in Nat \ {0}
  PROVE  Trailing(Append(Trailing(s, n), x), n) = Trailing(Append(s, x), n)
<1>. DEFINE l == Len(s)
            m == IF n <= l THEN n ELSE l
            t == Trailing(s, n)
<1>1. l \in Nat /\ m \in Nat /\ t \in Seq(X) /\ Len(t) = m /\ \A i \in 1 .. m : t[i] = s[(l - m) + i]
  BY LenProperties, TrailingIs
<1>. HIDE DEF t, l
<1>. DEFINE a == Append(s, x)
            b == Append(t, x)
            k == IF n <= l + 1 THEN n ELSE l + 1
<1>2. /\ a \in Seq(X) /\ Len(a) = l + 1 /\ a[l + 1] = x /\ \A i \in 1 .. l : a[i] = s[i]
  BY AppendProperties DEF l
<1>3. /\ b \in Seq(X) /\ Len(b) = m + 1 /\ b[m + 1] = x /\ \A i \in 1 .. m : b[i] = t[i]
  BY <1>1, AppendProperties
<1>. HIDE DEF a, b
<1>4. k \in Nat /\ k <= m + 1 /\ k >= 1 /\ k = IF n <= m + 1 THEN n ELSE m + 1
  BY <1>1
<1>5. n \in Nat /\ k <= n /\ k <= Len(a) /\ k <= Len(b) /\ (k = n \/ (k = Len(a) /\ k = Len(b)))
  BY <1>1, <1>2, <1>3, <1>4
<1>7. ASSUME NEW i \in 1 .. k PROVE a[((l + 1) - k) + i] = b[((m + 1) - k) + i]
  <2>1. CASE i = k
    BY <1>1, <1>2, <1>3, <1>4, <2>1
  <2>2. CASE i # k
    <3>1. ((m + 1) - k) + i \in 1 .. m /\ ((l + 1) - k) + i \in 1 .. l
      BY <1>1, <1>4, <2>2
    <3>2. (l - m) + (((m + 1) - k) + i) = ((l + 1) - k) + i
      BY <1>1, <1>4
    <3>. HIDE DEF m, k
    <3>3. b[((m + 1) - k) + i] = t[((m + 1) - k) + i] /\ a[((l + 1) - k) + i] = s[((l + 1) - k) + i]
      BY <1>2, <1>3, <3>1
    <3>4. t[((m + 1) - k) + i] = s[(l - m) + (((m + 1) - k) + i)]
      BY <1>1, <3>1
    <3>. QED
      BY <3>2, <3>3, <3>4
  <2>. QED
    BY <2>1, <2>2
<1>8. PICK c, d, o : c = a /\ d = b /\ o = k
  OBVIOUS
<1>. HIDE DEF m, k
<1>9. c \in Seq(X) /\ d \in Seq(X) /\ o \in Nat /\ o <= n /\ o <= Len(c) /\ o <= Len(d)
      /\ (o = n \/ (o = Len(c) /\ o = Len(d)))
  BY <1>2, <1>3, <1>4, <1>5, <1>8
<1>10. \A i \in 1 .. o : c[(Len(c) - o) + i] = d[(Len(d) - o) + i]
  BY <1>2, <1>3, <1>7, <1>8
<1>11. Trailing(c, n) = Trailing(d, n)
  BY <1>5, <1>9, <1>10, TrailingAgree
<1>. QED
  BY <1>8, <1>11 DEF a, b, t

\* A column and its last values have the same rolling values, change and growth.
LEMMA SameEnd ==
  ASSUME NEW Y, NEW a \in Seq(Y), NEW b \in Seq(Y), Len(a) # 0,
         Len(b) = (IF RollingWindow <= Len(a) THEN RollingWindow ELSE Len(a)),
         \A i \in 1 .. Len(b) : b[i] = a[(Len(a) - Len(b)) + i]
  PROVE  /\ Trailing(b, RollingWindow) = Trailing(a, RollingWindow)
         /\ Delta(b) = Delta(a) /\ GrowthRate(b) = GrowthRate(a)
<1>. DEFINE l == Len(a)
            m == Len(b)
<1>1. /\ l \in Nat \ {0} /\ m \in Nat \ {0} /\ m = (IF RollingWindow <= l THEN RollingWindow ELSE l)
      /\ RollingWindow \in Nat \ {0, 1}
      /\ \A i \in 1 .. m : b[i] = a[(l - m) + i]
  BY LenProperties, SignalAssumption
<1>. HIDE DEF l, m
<1>2. Trailing(b, RollingWindow) = Trailing(a, RollingWindow)
  <2>1. /\ Trailing(a, RollingWindow) \in Seq(Y) /\ Len(Trailing(a, RollingWindow)) = m
        /\ \A i \in 1 .. m : Trailing(a, RollingWindow)[i] = a[(l - m) + i]
    BY <1>1, TrailingIs DEF l
  <2>2. /\ Trailing(b, RollingWindow) \in Seq(Y) /\ Len(Trailing(b, RollingWindow)) = m
        /\ \A i \in 1 .. m : Trailing(b, RollingWindow)[i] = b[(m - m) + i]
    <3>1. m \in Nat /\ m <= RollingWindow /\ m <= Len(b) /\ m = Len(b) /\ RollingWindow \in Nat
      BY <1>1 DEF m
    <3>2. /\ Trailing(b, RollingWindow) \in Seq(Y) /\ Len(Trailing(b, RollingWindow)) = m
          /\ \A i \in 1 .. m : Trailing(b, RollingWindow)[i] = b[(Len(b) - m) + i]
      BY <3>1, TrailingOf, Zenon
    <3>. QED
      BY <3>1, <3>2
  <2>3. \A i \in 1 .. m : (m - m) + i = i
    BY <1>1
  <2>4. \A i \in 1 .. m : Trailing(b, RollingWindow)[i] = Trailing(a, RollingWindow)[i]
    BY <1>1, <2>1, <2>2, <2>3
  <2>. QED
    BY <2>1, <2>2, <2>4, SeqEqual
<1>3. Last(b) = Last(a)
  <2>1. m \in 1 .. m /\ (l - m) + m = l
    BY <1>1
  <2>. QED
    BY <1>1, <2>1 DEF Last, l, m
<1>4. Before(b) = Before(a)
  <2>1. CASE l = 1
    <3>1. m = 1 /\ (l - m) + 1 = 1
      BY <1>1, <2>1
    <3>2. b[1] = a[1]
      BY <1>1, <3>1
    <3>. QED
      BY <2>1, <3>1, <3>2 DEF Before, l, m
  <2>2. CASE l # 1
    <3>1. m # 1 /\ m - 1 \in 1 .. m /\ (l - m) + (m - 1) = l - 1
      BY <1>1, <2>2
    <3>2. b[m - 1] = a[l - 1]
      BY <1>1, <3>1
    <3>. QED
      BY <2>2, <3>1, <3>2 DEF Before, l, m
  <2>. QED
    BY <2>1, <2>2
<1>5. Delta(b) = Delta(a)
  BY <1>3, <1>4 DEF Delta
<1>. QED
  BY <1>2, <1>4, <1>5 DEF GrowthRate

\* The last row of the features depends on the last rolling_window windows only.
LEMMA FeaturesAreLocal ==
  ASSUME NEW X, NEW s \in Seq(X), s # <<>>
  PROVE  BuildFeatures(Trailing(s, RollingWindow)) = BuildFeatures(s)
<1>. DEFINE t == Trailing(s, RollingWindow)
            l == Len(s)
            m == IF RollingWindow <= l THEN RollingWindow ELSE l
            colS(c) == [i \in DOMAIN s |-> s[i][c]]
            colT(c) == [i \in DOMAIN t |-> t[i][c]]
            p95S == [i \in DOMAIN s |-> s[i].latency_quantile[95]]
            p95T == [i \in DOMAIN t |-> t[i].latency_quantile[95]]
<1>1. /\ l \in Nat \ {0} /\ DOMAIN s = 1 .. l /\ RollingWindow \in Nat \ {0, 1}
  BY LenProperties, EmptySeq, SignalAssumption
<1>2. /\ t \in Seq(X) /\ Len(t) = m /\ m \in Nat
      /\ \A i \in 1 .. m : t[i] = s[(l - m) + i]
  BY <1>1, TrailingIs
<1>3. DOMAIN t = 1 .. m
  BY <1>2, LenProperties
<1>. HIDE DEF t, l
<1>4. \A i \in 1 .. m : (l - m) + i \in 1 .. l
  BY <1>1, <1>2
<1>5. m = (IF RollingWindow <= l THEN RollingWindow ELSE l)
  OBVIOUS
<1>. HIDE DEF m
<1>6. ASSUME NEW a, NEW b, DOMAIN a = 1 .. l, DOMAIN b = 1 .. m, a = [i \in 1 .. l |-> a[i]],
             b = [i \in 1 .. m |-> b[i]],
             \A i \in 1 .. m : b[i] = a[(l - m) + i]
      PROVE  /\ Trailing(b, RollingWindow) = Trailing(a, RollingWindow)
             /\ Delta(b) = Delta(a) /\ GrowthRate(b) = GrowthRate(a)
  <2>1. PICK Y : Y = {a[i] : i \in 1 .. l}
    OBVIOUS
  <2>2. a \in [1 .. l -> Y] /\ b \in [1 .. m -> Y]
    BY <1>4, <1>6, <2>1
  <2>3. a \in Seq(Y) /\ Len(a) = l /\ b \in Seq(Y) /\ Len(b) = m
    BY <1>1, <1>2, <2>2
  <2>4. \A i \in 1 .. Len(b) : b[i] = a[(Len(a) - Len(b)) + i]
    BY <1>6, <2>3
  <2>5. Len(a) # 0 /\ Len(b) = (IF RollingWindow <= Len(a) THEN RollingWindow ELSE Len(a))
    BY <1>1, <1>5, <2>3
  <2>. QED
    BY <2>3, <2>4, <2>5, SameEnd
<1>7. ASSUME NEW c
      PROVE  /\ Trailing(colT(c), RollingWindow) = Trailing(colS(c), RollingWindow)
             /\ Delta(colT(c)) = Delta(colS(c)) /\ GrowthRate(colT(c)) = GrowthRate(colS(c))
  <2>1. PICK a, b : a = colS(c) /\ b = colT(c)
    OBVIOUS
  <2>2. /\ DOMAIN a = 1 .. l /\ DOMAIN b = 1 .. m /\ a = [i \in 1 .. l |-> a[i]]
        /\ b = [i \in 1 .. m |-> b[i]]
    BY <1>1, <1>3, <2>1
  <2>3. \A i \in 1 .. m : b[i] = a[(l - m) + i]
    BY <1>1, <1>2, <1>3, <1>4, <2>1
  <2>4. /\ Trailing(b, RollingWindow) = Trailing(a, RollingWindow)
        /\ Delta(b) = Delta(a) /\ GrowthRate(b) = GrowthRate(a)
    BY <1>6, <2>2, <2>3
  <2>. QED
    BY <2>1, <2>4
<1>8. Trailing(p95T, RollingWindow) = Trailing(p95S, RollingWindow)
  <2>1. PICK a, b : a = p95S /\ b = p95T
    OBVIOUS
  <2>2. /\ DOMAIN a = 1 .. l /\ DOMAIN b = 1 .. m /\ a = [i \in 1 .. l |-> a[i]]
        /\ b = [i \in 1 .. m |-> b[i]]
    BY <1>1, <1>3, <2>1
  <2>3. \A i \in 1 .. m : b[i] = a[(l - m) + i]
    BY <1>1, <1>2, <1>3, <1>4, <2>1
  <2>4. Trailing(b, RollingWindow) = Trailing(a, RollingWindow)
    BY <1>6, <2>2, <2>3
  <2>. QED
    BY <2>1, <2>4
<1>9. EngineeredRow(t) = EngineeredRow(s)
  <2>. HIDE DEF colS, colT, p95S, p95T
  <2>1. [c \in {"request_rate", "error_rate", "latency_mean", "publish_error_rate",
                "publish_latency_mean"} |-> RollMean(Trailing(colT(c), RollingWindow))]
        = [c \in {"request_rate", "error_rate", "latency_mean", "publish_error_rate",
                  "publish_latency_mean"} |-> RollMean(Trailing(colS(c), RollingWindow))]
    BY <1>7
  <2>2. RollMean(Trailing(p95T, RollingWindow)) = RollMean(Trailing(p95S, RollingWindow))
    BY <1>8
  <2>3. [c \in {"request_rate", "latency_mean"} |-> RollDeviation(Trailing(colT(c), RollingWindow))]
        = [c \in {"request_rate", "latency_mean"} |-> RollDeviation(Trailing(colS(c), RollingWindow))]
    BY <1>7
  <2>4. [c \in {"request_rate", "error_rate", "latency_mean"} |-> Delta(colT(c))]
        = [c \in {"request_rate", "error_rate", "latency_mean"} |-> Delta(colS(c))]
    BY <1>7
  <2>5. GrowthRate(colT("request_rate")) = GrowthRate(colS("request_rate"))
    BY <1>7
  <2>. QED
    BY <2>1, <2>2, <2>3, <2>4, <2>5, Zenon DEF EngineeredRow, colS, colT, p95S, p95T
<1>10. Last(t) = Last(s)
  <2>1. m \in 1 .. m /\ (l - m) + m = l
    BY <1>1, <1>2, <1>5
  <2>. QED
    BY <1>2, <2>1 DEF Last, l
<1>. QED
  BY <1>9, <1>10 DEF BuildFeatures, t

\* The buffer is the end of the history, and what was scored was built from it.
FeaturesSound ==
    /\ det.buffer = Trailing(det.windows, RollingWindow)
    /\ det.features # None => det.windows # <<>> /\ det.features = BuildFeatures(det.buffer)

\* Every step keeps them together.
LEMMA FeaturesStep ==
  ServiceTyped /\ DetectorTyped /\ Remembers /\ FeaturesSound /\ [Next]_vars => FeaturesSound'
<1>. SUFFICES ASSUME ServiceTyped, DetectorTyped, Remembers, FeaturesSound, [Next]_vars
              PROVE  FeaturesSound'
  OBVIOUS
<1>1. CASE Tick
  <2>1. TickIdle \/ TickWindow
    BY <1>1, TickIs
  <2>2. CASE TickIdle
    BY <2>2 DEF TickIdle, FeaturesSound
  <2>3. CASE TickWindow
    <3>1. Closed \in Signals /\ det.windows \in Seq(Signals) /\ RollingWindow \in Nat \ {0}
      BY <2>3, ClosedType, SignalAssumption DEF TickWindow, DetectorTyped
    <3>2. Push(det.buffer, Closed) = Trailing(Append(det.windows, Closed), RollingWindow)
      BY <3>1, TrailingAppend DEF Push, FeaturesSound
    <3>3. Append(det.windows, Closed) # <<>>
      BY <3>1, AppendProperties
    <3>. QED
      BY <2>3, <3>2, <3>3 DEF TickWindow, FeaturesSound
  <2>. QED
    BY <2>1, <2>2, <2>3
<1>2. CASE det' = Gone
  <2>1. Trailing(<<>>, RollingWindow) = <<>>
    BY TrailingEmpty, SignalAssumption
  <2>. QED
    BY <1>2, <2>1, GoneIs DEF FeaturesSound
<1>3. CASE UNCHANGED <<det, events>>
  BY <1>3 DEF FeaturesSound
<1>4. CASE /\ StartDetector \/ ScrapeFails \/ PublishReturns \/ StopDetector \/ LoopEnds
           /\ ~ (det' = Gone)
  <2>1. det'.windows = det.windows /\ det'.buffer = det.buffer /\ det'.features = det.features
    BY <1>4, DetectorOther
  <2>. QED
    BY <2>1 DEF FeaturesSound
<1>. QED
  BY <1>1, <1>2, <1>3, <1>4, DetectorSteps

\* For every rolling window: what is scored on the bounded buffer of
\* StreamFeaturizer is what build_features would make of the whole history.
THEOREM StreamIsBatch == Spec => []StreamMatchesBatch
<1>1. Init => FeaturesSound
  <2>. SUFFICES ASSUME Init PROVE FeaturesSound
    OBVIOUS
  <2>1. det.buffer = <<>> /\ det.windows = <<>> /\ det.features = None
    BY DEF Init, FreshDetector
  <2>4. Trailing(<<>>, RollingWindow) = <<>>
    BY TrailingEmpty, SignalAssumption
  <2>. QED
    BY <2>1, <2>4 DEF FeaturesSound
<1>2. DetectorTyped /\ FeaturesSound => StreamMatchesBatch
  BY FeaturesAreLocal DEF DetectorTyped, FeaturesSound, StreamMatchesBatch
<1>. QED
  BY <1>1, <1>2, ServiceInit, DetectorInit, ServiceStep, DetectorTypedStep, FeaturesStep, PTL DEF Spec

-----------------------------------------------------------------------------
(* prepare_run.                                                            *)

\* Scrapes, and the windows between them.
IsRows(R) == \A r \in R : r.at \in Nat /\ r.snapshot \in Snapshots
WindowsOf(R) == [signals : Signals, label : {r.scenario : r \in R}, first : R, last : R]
Pairs(rows) == [i \in 1 .. Len(rows) - 1 |-> WindowBetween(rows[i], rows[i + 1])]

\* Two scrapes close at most one window.
LEMMA WindowBetweenIs ==
  ASSUME NEW R, IsRows(R), NEW p \in R, NEW q \in R
  PROVE  /\ WindowBetween(p, q) \in Seq(WindowsOf(R))
         /\ Len(WindowBetween(p, q)) \in {0, 1}
<1>. DEFINE signals == WindowSignals(p.snapshot, q.snapshot, q.at - p.at)
            w == [signals |-> signals, label |-> q.scenario, first |-> p, last |-> q]
<1>1. p.snapshot \in Snapshots /\ q.snapshot \in Snapshots /\ q.at - p.at \in Int
  BY DEF IsRows
<1>2. signals \in Signals
  BY <1>1 DEF Signals
<1>3. WindowBetween(p, q) = IF p.scenario = q.scenario /\ signals # None THEN <<w>> ELSE <<>>
  BY DEF WindowBetween
<1>. HIDE DEF signals
<1>4. w \in WindowsOf(R)
  BY <1>2 DEF WindowsOf
<1>. HIDE DEF w
<1>5. PICK one, none : one = <<w>> /\ none = <<>>
  OBVIOUS
<1>6. one \in Seq(WindowsOf(R)) /\ Len(one) = 1
  BY <1>4, <1>5
<1>7. none \in Seq(WindowsOf(R)) /\ Len(none) = 0
  BY <1>5
<1>8. WindowBetween(p, q) \in {one, none}
  BY <1>3, <1>5
<1>. QED
  BY <1>6, <1>7, <1>8

\* The sequence that prepare_run flattens.
LEMMA PairsType ==
  ASSUME NEW R, IsRows(R), NEW rows \in Seq(R)
  PROVE  /\ Pairs(rows) \in Seq(Seq(WindowsOf(R)))
         /\ Len(Pairs(rows)) = IF Len(rows) = 0 THEN 0 ELSE Len(rows) - 1
<1>. DEFINE n == IF Len(rows) = 0 THEN 0 ELSE Len(rows) - 1
<1>1. n \in Nat /\ 1 .. Len(rows) - 1 = 1 .. n /\ n + 1 \in Nat
      /\ \A i \in 1 .. n : i \in 1 .. Len(rows) /\ i + 1 \in 1 .. Len(rows)
  BY LenProperties
<1>2. \A i \in 1 .. Len(rows) : rows[i] \in R
  BY ElementOfSeq
<1>3. \A i \in 1 .. n : WindowBetween(rows[i], rows[i + 1]) \in Seq(WindowsOf(R))
  BY <1>1, <1>2, WindowBetweenIs
<1>. HIDE DEF n
<1>4. Pairs(rows) \in [1 .. n -> Seq(WindowsOf(R))]
  BY <1>1, <1>3 DEF Pairs
<1>5. Pairs(rows) \in Seq(Seq(WindowsOf(R))) /\ Len(Pairs(rows)) = n
  BY <1>1, <1>4
<1>. QED
  BY <1>5 DEF n

\* One scrape more adds the window between it and the one before.
LEMMA PrepareAppend ==
  ASSUME NEW R, IsRows(R), NEW rows \in Seq(R), NEW r \in R, rows # <<>>
  PROVE  PrepareRun(Append(rows, r)) = PrepareRun(rows) \o WindowBetween(Last(rows), r)
<1>. DEFINE n == Len(rows)
            more == Append(rows, r)
            e == WindowBetween(Last(rows), r)
<1>1. n \in Nat \ {0} /\ \A i \in 1 .. n : rows[i] \in R
  BY LenProperties, EmptySeq, ElementOfSeq
<1>2. more \in Seq(R) /\ Len(more) = n + 1 /\ more[n + 1] = r /\ \A i \in 1 .. n : more[i] = rows[i]
  BY AppendProperties
<1>3. Last(rows) = rows[n] /\ Last(rows) \in R
  BY <1>1 DEF Last
<1>. HIDE DEF n, more
<1>4. e \in Seq(WindowsOf(R))
  BY <1>3, WindowBetweenIs
<1>5. Pairs(rows) \in Seq(Seq(WindowsOf(R))) /\ Len(Pairs(rows)) = n - 1
  BY <1>1, PairsType DEF n
<1>6. Pairs(more) \in Seq(Seq(WindowsOf(R))) /\ Len(Pairs(more)) = n
  BY <1>1, <1>2, PairsType
<1>7. ASSUME NEW i \in 1 .. n - 1 PROVE Pairs(more)[i] = Pairs(rows)[i]
  <2>1. i \in 1 .. Len(more) - 1 /\ i \in 1 .. n /\ i + 1 \in 1 .. n
    BY <1>1, <1>2
  <2>2. Pairs(more)[i] = WindowBetween(more[i], more[i + 1])
    BY <2>1 DEF Pairs
  <2>3. Pairs(rows)[i] = WindowBetween(rows[i], rows[i + 1])
    BY DEF Pairs, n
  <2>. QED
    BY <1>2, <2>1, <2>2, <2>3
<1>8. Pairs(more)[n] = e
  <2>1. n \in 1 .. Len(more) - 1 /\ n \in 1 .. n
    BY <1>1, <1>2
  <2>2. Pairs(more)[n] = WindowBetween(more[n], more[n + 1])
    BY <2>1 DEF Pairs
  <2>. QED
    BY <1>2, <1>3, <2>1, <2>2
<1>. HIDE DEF e
<1>9. PICK a : a = Append(Pairs(rows), e)
  OBVIOUS
<1>10. /\ a \in Seq(Seq(WindowsOf(R))) /\ Len(a) = n /\ a[n] = e
       /\ \A i \in 1 .. n - 1 : a[i] = Pairs(rows)[i]
  <2>1. /\ a \in Seq(Seq(WindowsOf(R))) /\ Len(a) = Len(Pairs(rows)) + 1 /\ a[Len(Pairs(rows)) + 1] = e
        /\ \A i \in 1 .. Len(Pairs(rows)) : a[i] = Pairs(rows)[i]
    BY <1>4, <1>5, <1>9, AppendProperties
  <2>2. Len(Pairs(rows)) + 1 = n
    BY <1>1, <1>5
  <2>. QED
    BY <1>5, <2>1, <2>2
<1>11. \A i \in 1 .. n : i = n \/ i \in 1 .. n - 1
  BY <1>1
<1>12. \A i \in 1 .. n : Pairs(more)[i] = a[i]
  BY <1>7, <1>8, <1>10, <1>11
<1>13. Pairs(more) = a
  BY <1>6, <1>10, <1>12, SeqEqual
<1>14. FlattenSeq(Append(Pairs(rows), e)) = FlattenSeq(Pairs(rows)) \o e
  BY <1>4, <1>5, FlattenAppend
<1>. QED
  BY <1>9, <1>13, <1>14 DEF PrepareRun, Pairs, more, e

\* The windows of a run are those between consecutive scrapes.
LEMMA PrepareElements ==
  ASSUME NEW R, IsRows(R), NEW rows \in Seq(R)
  PROVE  /\ PrepareRun(rows) \in Seq(WindowsOf(R))
         /\ \A w \in Range(PrepareRun(rows)) :
               \E i \in 1 .. Len(rows) - 1 : WindowBetween(rows[i], rows[i + 1]) = <<w>>
         /\ \A i \in 1 .. Len(rows) - 1 : \A w :
               WindowBetween(rows[i], rows[i + 1]) = <<w>> => w \in Range(PrepareRun(rows))
<1>1. PICK ps : ps = Pairs(rows)
  OBVIOUS
<1>2. ps \in Seq(Seq(WindowsOf(R))) /\ PrepareRun(rows) = FlattenSeq(ps)
  BY <1>1, PairsType DEF PrepareRun, Pairs
<1>3. PrepareRun(rows) \in Seq(WindowsOf(R))
  BY <1>2, FlattenElements
<1>4. \A x : x \in Range(PrepareRun(rows))
             <=> \E i \in 1 .. Len(ps) : \E k \in 1 .. Len(ps[i]) : ps[i][k] = x
  <2>1. \A x : (\E j \in 1 .. Len(FlattenSeq(ps)) : FlattenSeq(ps)[j] = x)
               <=> (\E i \in 1 .. Len(ps) : \E k \in 1 .. Len(ps[i]) : ps[i][k] = x)
    BY <1>2, FlattenElements, Zenon
  <2>2. \A x : x \in Range(FlattenSeq(ps)) <=> \E j \in 1 .. Len(FlattenSeq(ps)) : FlattenSeq(ps)[j] = x
    BY <1>2, <1>3, LenProperties DEF Range
  <2>3. \A x : x \in Range(FlattenSeq(ps))
               <=> \E i \in 1 .. Len(ps) : \E k \in 1 .. Len(ps[i]) : ps[i][k] = x
    BY <2>1, <2>2, Zenon
  <2>. QED
    BY <1>2, <2>3
<1>5. 1 .. Len(ps) = 1 .. Len(rows) - 1
      /\ \A i \in 1 .. Len(rows) - 1 : i \in 1 .. Len(rows) /\ i + 1 \in 1 .. Len(rows)
  BY <1>1, PairsType, LenProperties
<1>6. \A i \in 1 .. Len(rows) - 1 : ps[i] = WindowBetween(rows[i], rows[i + 1])
  BY <1>1 DEF Pairs
<1>7. \A i \in 1 .. Len(rows) : rows[i] \in R
  BY ElementOfSeq
<1>8. ASSUME NEW w \in Range(PrepareRun(rows))
      PROVE  \E i \in 1 .. Len(rows) - 1 : WindowBetween(rows[i], rows[i + 1]) = <<w>>
  <2>1. PICK i \in 1 .. Len(rows) - 1 : \E k \in 1 .. Len(ps[i]) : ps[i][k] = w
    BY <1>4, <1>5, <1>8
  <2>2. PICK b : b = WindowBetween(rows[i], rows[i + 1])
    OBVIOUS
  <2>3. b \in Seq(WindowsOf(R)) /\ Len(b) \in {0, 1}
    BY <1>5, <1>7, <2>2, WindowBetweenIs
  <2>4. PICK k \in 1 .. Len(b) : b[k] = w
    BY <1>6, <2>1, <2>2
  <2>5. Len(b) = 1 /\ b[1] = w
    BY <2>3, <2>4
  <2>6. b = <<w>>
    BY <2>3, <2>5
  <2>. QED
    BY <2>2, <2>6
<1>9. ASSUME NEW i \in 1 .. Len(rows) - 1, NEW w, WindowBetween(rows[i], rows[i + 1]) = <<w>>
      PROVE  w \in Range(PrepareRun(rows))
  <2>1. PICK b : b = WindowBetween(rows[i], rows[i + 1])
    OBVIOUS
  <2>2. 1 \in 1 .. Len(b) /\ b[1] = w
    BY <1>9, <2>1
  <2>3. \E k \in 1 .. Len(ps[i]) : ps[i][k] = w
    BY <1>6, <2>1, <2>2
  <2>4. i \in 1 .. Len(ps)
    BY <1>5
  <2>. QED
    BY <1>4, <2>3, <2>4
<1>. QED
  BY <1>3, <1>8, <1>9

-----------------------------------------------------------------------------
(* Live and offline.                                                       *)

SignalsOf(windows) == [i \in DOMAIN windows |-> windows[i].signals]

\* The rows the detector scrapes.
LEMMA DetectorRows == IsRows(Rows)
  BY DEF IsRows, Rows

\* A detector that has a scrape closes what prepare_run finds between the last
\* two rows.
LEMMA ClosedIsWindow ==
  ASSUME ServiceTyped, DetectorTyped, Remembers, det.raw # <<>>
  PROVE  /\ Last(det.raw) \in Rows
         /\ Closed = WindowSignals(Last(det.raw).snapshot, ScrapedRow.snapshot,
                                   ScrapedRow.at - Last(det.raw).at)
         /\ WindowBetween(Last(det.raw), ScrapedRow)
              = IF Closed # None
                THEN <<[signals |-> Closed, label |-> None, first |-> Last(det.raw),
                        last |-> ScrapedRow]>>
                ELSE <<>>
<1>1. Last(det.raw) \in Rows
  BY LenProperties, ElementOfSeq, EmptySeq DEF DetectorTyped, Last
<1>2. det.prev = Last(det.raw).snapshot /\ det.prevAt = Last(det.raw).at
  BY DEF Remembers
<1>3. det.prev # None
  BY <1>1, <1>2, SignalAssumption DEF Rows
<1>4. Closed = WindowSignals(det.prev, svc.cnt, (det.now + 1) - det.prevAt)
  BY <1>3 DEF Closed, ClosedWindow
<1>5. ScrapedRow.snapshot = svc.cnt /\ ScrapedRow.at = det.now + 1 /\ ScrapedRow.scenario = None
  BY DEF ScrapedRow
<1>6. Closed = WindowSignals(Last(det.raw).snapshot, ScrapedRow.snapshot,
                             ScrapedRow.at - Last(det.raw).at)
  BY <1>2, <1>4, <1>5
<1>7. Last(det.raw).scenario = None
  BY <1>1 DEF Rows
<1>. QED
  BY <1>1, <1>5, <1>6, <1>7 DEF WindowBetween

\* One scrape makes no window.
LEMMA PrepareOne ==
  ASSUME NEW r PROVE PrepareRun(<<r>>) = <<>> /\ PrepareRun(<<>>) = <<>>
<1>1. PICK one, none : one = <<r>> /\ none = <<>>
  OBVIOUS
<1>2. Len(one) = 1 /\ Len(none) = 0
  BY <1>1
<1>3. Pairs(one) = <<>> /\ Pairs(none) = <<>>
  <2>1. 1 .. Len(one) - 1 = 1 .. 0 /\ 1 .. Len(none) - 1 = 1 .. 0
    BY <1>2
  <2>2. PICK zero \in Nat : zero = 0
    OBVIOUS
  <2>3. Pairs(one) \in [1 .. zero -> {}] /\ Pairs(none) \in [1 .. zero -> {}]
    BY <2>1, <2>2 DEF Pairs
  <2>4. Pairs(one) \in Seq({}) /\ Len(Pairs(one)) = 0 /\ Pairs(none) \in Seq({}) /\ Len(Pairs(none)) = 0
    BY <2>2, <2>3
  <2>. QED
    BY <2>4, EmptySeq
<1>4. FlattenSeq(<<>>) = <<>>
  BY FlattenFew, EmptySeq
<1>. QED
  BY <1>1, <1>3, <1>4 DEF PrepareRun, Pairs

\* The signals of the windows, with one more.
LEMMA SignalsAppend ==
  ASSUME NEW X, NEW s \in Seq(X), NEW w \in X
  PROVE  SignalsOf(s \o <<w>>) = Append(SignalsOf(s), w.signals)
<1>1. PICK t, one, Y : t = s \o one /\ one = <<w>> /\ Y = {x.signals : x \in X}
  OBVIOUS
<1>2. one \in Seq(X) /\ Len(one) = 1 /\ one[1] = w
  BY <1>1
<1>3. PICK n \in Nat : n = Len(s)
  BY LenProperties
<1>4. /\ t \in Seq(X) /\ Len(t) = n + 1 /\ \A i \in 1 .. n : t[i] = s[i]
  BY <1>1, <1>2, <1>3, ConcatProperties
<1>5. t[n + 1] = w
  <2>1. \A i \in 1 .. Len(s) + Len(one) : t[i] = IF i <= Len(s) THEN s[i] ELSE one[i - Len(s)]
    BY <1>1, <1>2, ConcatProperties
  <2>2. n + 1 \in 1 .. n + 1 /\ ~ (n + 1 <= n) /\ (n + 1) - n = 1
    OBVIOUS
  <2>3. \A i \in 1 .. n + 1 : t[i] = IF i <= n THEN s[i] ELSE one[i - n]
    BY <1>2, <1>3, <2>1
  <2>4. t[n + 1] = IF n + 1 <= n THEN s[n + 1] ELSE one[(n + 1) - n]
    BY <2>2, <2>3
  <2>. QED
    BY <1>2, <2>2, <2>4
<1>6. DOMAIN s = 1 .. n /\ DOMAIN t = 1 .. n + 1 /\ \A i \in 1 .. n : s[i] \in X
  BY <1>3, <1>4, LenProperties, ElementOfSeq
<1>7. PICK a, b : a = SignalsOf(s) /\ b = SignalsOf(t)
  OBVIOUS
<1>8. a \in [1 .. n -> Y] /\ \A i \in 1 .. n : a[i] = s[i].signals
  BY <1>1, <1>6, <1>7 DEF SignalsOf
<1>9. DOMAIN b = 1 .. n + 1 /\ b = [i \in 1 .. n + 1 |-> b[i]]
      /\ \A i \in 1 .. n + 1 : b[i] = t[i].signals
  BY <1>6, <1>7 DEF SignalsOf
<1>10. a \in Seq(Y) /\ Len(a) = n
  BY <1>8
<1>11. PICK c : c = Append(a, w.signals)
  OBVIOUS
<1>12. w.signals \in Y
  BY <1>1
<1>13. /\ c \in Seq(Y) /\ Len(c) = n + 1 /\ c[n + 1] = w.signals
       /\ \A i \in 1 .. n : c[i] = a[i]
  BY <1>10, <1>11, <1>12, AppendProperties
<1>14. \A i \in 1 .. n + 1 : i = n + 1 \/ i \in 1 .. n
  OBVIOUS
<1>15. \A i \in 1 .. n + 1 : b[i] = c[i]
  BY <1>4, <1>5, <1>8, <1>9, <1>13, <1>14
<1>16. DOMAIN c = 1 .. n + 1 /\ c = [i \in 1 .. n + 1 |-> c[i]]
  BY <1>13, LenProperties
<1>17. b = c
  BY <1>9, <1>15, <1>16
<1>. QED
  BY <1>1, <1>7, <1>11, <1>17

\* Every step keeps the live windows those of prepare_run.
LEMMA OfflineStep ==
  ServiceTyped /\ DetectorTyped /\ Remembers /\ LiveMatchesOffline /\ [Next]_vars
     => LiveMatchesOffline'
<1>. SUFFICES ASSUME ServiceTyped, DetectorTyped, Remembers, LiveMatchesOffline, [Next]_vars
              PROVE  LiveMatchesOffline'
  OBVIOUS
<1>0. det.windows = SignalsOf(PrepareRun(det.raw))
  BY DEF LiveMatchesOffline, SignalsOf
<1>. SUFFICES det'.windows = SignalsOf(PrepareRun(det'.raw))
  BY DEF LiveMatchesOffline, SignalsOf
<1>1. CASE Tick
  <2>1. TickAlways /\ (TickIdle \/ TickWindow)
    BY <1>1, TickIs
  <2>2. det.raw \in Seq(Rows) /\ ScrapedRow \in Rows /\ det'.raw = Append(det.raw, ScrapedRow)
    BY <2>1, ClosedType DEF DetectorTyped, TickAlways
  <2>3. CASE det.raw = <<>>
    <3>1. Closed = None
      BY <2>3, ClosedType
    <3>2. det'.windows = det.windows
      BY <2>1, <3>1 DEF TickIdle, TickWindow
    <3>3. det'.raw = <<ScrapedRow>>
      BY <2>2, <2>3
    <3>4. PrepareRun(det'.raw) = PrepareRun(det.raw)
      BY <2>3, <3>3, PrepareOne
    <3>. QED
      BY <1>0, <3>2, <3>4
  <2>4. CASE det.raw # <<>>
    <3>1. PICK w : w = [signals |-> Closed, label |-> None, first |-> Last(det.raw),
                        last |-> ScrapedRow]
      OBVIOUS
    <3>2. WindowBetween(Last(det.raw), ScrapedRow) = IF Closed # None THEN <<w>> ELSE <<>>
      BY <2>4, <3>1, ClosedIsWindow
    <3>3. PrepareRun(det'.raw) = PrepareRun(det.raw) \o WindowBetween(Last(det.raw), ScrapedRow)
      BY <2>2, <2>4, DetectorRows, PrepareAppend
    <3>4. PrepareRun(det.raw) \in Seq(WindowsOf(Rows))
      BY <2>2, DetectorRows, PrepareElements
    <3>5. CASE Closed = None
      <4>1. PrepareRun(det'.raw) = PrepareRun(det.raw)
        BY <3>2, <3>3, <3>4, <3>5, ConcatEmptySeq
      <4>2. det'.windows = det.windows
        BY <2>1, <3>5 DEF TickIdle, TickWindow
      <4>. QED
        BY <1>0, <4>1, <4>2
    <3>6. CASE Closed # None
      <4>1. Closed \in Signals /\ Last(det.raw) \in Rows
        BY <2>4, <3>6, ClosedType, ClosedIsWindow
      <4>2. w \in WindowsOf(Rows) /\ w.signals = Closed
        <5>1. None \in {r.scenario : r \in Rows}
          BY <2>2 DEF ScrapedRow
        <5>. QED
          BY <2>2, <3>1, <4>1, <5>1 DEF WindowsOf
      <4>3. PrepareRun(det'.raw) = PrepareRun(det.raw) \o <<w>>
        BY <3>2, <3>3, <3>6
      <4>4. SignalsOf(PrepareRun(det.raw) \o <<w>>) = Append(SignalsOf(PrepareRun(det.raw)), w.signals)
        BY <3>4, <4>2, SignalsAppend
      <4>5. det'.windows = Append(det.windows, Closed)
        BY <2>1, <3>6 DEF TickIdle, TickWindow
      <4>. QED
        BY <1>0, <4>2, <4>3, <4>4, <4>5
    <3>. QED
      BY <3>5, <3>6
  <2>. QED
    BY <2>3, <2>4
<1>2. CASE det' = Gone
  <2>1. det'.windows = <<>> /\ det'.raw = <<>>
    BY <1>2, GoneIs
  <2>2. SignalsOf(<<>>) = <<>>
    BY DEF SignalsOf
  <2>. QED
    BY <2>1, <2>2, PrepareOne
<1>3. CASE UNCHANGED <<det, events>>
  BY <1>0, <1>3
<1>4. CASE /\ StartDetector \/ ScrapeFails \/ PublishReturns \/ StopDetector \/ LoopEnds
           /\ ~ (det' = Gone)
  <2>1. det'.windows = det.windows /\ det'.raw = det.raw
    BY <1>4, DetectorOther
  <2>. QED
    BY <1>0, <2>1
<1>. QED
  BY <1>1, <1>2, <1>3, <1>4, DetectorSteps

\* However scrapes fail and services restart: training and serving see the same
\* telemetry (next_window and prepare_run).
THEOREM LiveIsOffline == Spec => []LiveMatchesOffline
<1>1. Init => LiveMatchesOffline
  <2>. SUFFICES ASSUME Init PROVE LiveMatchesOffline
    OBVIOUS
  <2>1. det.windows = <<>> /\ det.raw = <<>>
    BY DEF Init, FreshDetector
  <2>2. SignalsOf(<<>>) = <<>>
    BY DEF SignalsOf
  <2>3. det.windows = SignalsOf(PrepareRun(det.raw))
    BY <2>1, <2>2, PrepareOne
  <2>. QED
    BY <2>3 DEF LiveMatchesOffline, SignalsOf
<1>. QED
  BY <1>1, ServiceInit, DetectorInit, ServiceStep, DetectorTypedStep, OfflineStep, PTL DEF Spec

-----------------------------------------------------------------------------
(* Health.                                                                 *)

\* One scrape a poll at most, and what was scored last closed a window.
ScrapesDated == \A i \in 1 .. Len(det.raw) : det.raw[i].at + (Len(det.raw) - i) <= det.now
LastWindow(raw, last) ==
    \E k \in 2 .. Len(raw) : raw[k].at = last /\ Len(WindowBetween(raw[k - 1], raw[k])) = 1
ScoredWindow == det.inferences # 0 => LastWindow(det.raw, det.last)

\* Every step keeps both.
LEMMA HealthStep ==
  ServiceTyped /\ DetectorTyped /\ Remembers /\ ScrapesDated /\ ScoredWindow /\ [Next]_vars
     => ScrapesDated' /\ ScoredWindow'
<1>. SUFFICES ASSUME ServiceTyped, DetectorTyped, Remembers, ScrapesDated, ScoredWindow, [Next]_vars
              PROVE  ScrapesDated' /\ ScoredWindow'
  OBVIOUS
<1>1. CASE Tick
  <2>1. TickAlways /\ (TickIdle \/ (TickWindow /\ (TickUnscored \/ TickScored)))
    BY <1>1, TickIs
  <2>2. /\ det.raw \in Seq(Rows) /\ ScrapedRow \in Rows /\ det'.raw = Append(det.raw, ScrapedRow)
        /\ det'.now = det.now + 1 /\ ScrapedRow.at = det.now + 1 /\ det.now \in Nat
    BY <2>1, ClosedType DEF DetectorTyped, TickAlways, ScrapedRow
  <2>3. PICK n \in Nat : n = Len(det.raw)
    BY <2>2, LenProperties
  <2>4. /\ det'.raw \in Seq(Rows) /\ Len(det'.raw) = n + 1 /\ det'.raw[n + 1] = ScrapedRow
        /\ \A i \in 1 .. n : det'.raw[i] = det.raw[i]
    BY <2>2, <2>3, AppendProperties
  <2>5. \A i \in 1 .. n : det.raw[i].at \in Nat
    <3>1. \A i \in 1 .. n : det.raw[i] \in Rows
      BY <2>2, <2>3, ElementOfSeq
    <3>. QED
      BY <3>1, DetectorRows DEF IsRows
  <2>6. ScrapesDated'
    <3>. SUFFICES ASSUME NEW i \in 1 .. n + 1
                  PROVE  det'.raw[i].at + ((n + 1) - i) <= det'.now
      BY <2>4 DEF ScrapesDated
    <3>1. CASE i = n + 1
      BY <2>2, <2>4, <3>1
    <3>2. CASE i \in 1 .. n
      <4>1. det.raw[i].at + (n - i) <= det.now
        BY <2>3, <3>2 DEF ScrapesDated
      <4>2. det'.raw[i].at = det.raw[i].at /\ det.raw[i].at \in Nat
        BY <2>4, <2>5, <3>2
      <4>. QED
        BY <2>2, <4>1, <4>2
    <3>. QED
      BY <3>1, <3>2
  <2>7. ASSUME NEW last, LastWindow(det.raw, last) PROVE LastWindow(det'.raw, last)
    <3>1. PICK k \in 2 .. n : det.raw[k].at = last /\ Len(WindowBetween(det.raw[k - 1], det.raw[k])) = 1
      BY <2>3, <2>7 DEF LastWindow
    <3>2. k \in 1 .. n /\ k - 1 \in 1 .. n /\ k \in 2 .. n + 1
      OBVIOUS
    <3>3. det'.raw[k] = det.raw[k] /\ det'.raw[k - 1] = det.raw[k - 1]
      BY <2>4, <3>2
    <3>. QED
      BY <2>4, <3>1, <3>2, <3>3 DEF LastWindow
  <2>8. CASE TickIdle \/ TickUnscored
    <3>1. det'.inferences = det.inferences /\ det'.last = det.last
      BY <2>8 DEF TickIdle, TickUnscored
    <3>2. PICK last : last = det.last
      OBVIOUS
    <3>3. det.inferences # 0 => LastWindow(det'.raw, last)
      BY <2>7, <3>2 DEF ScoredWindow
    <3>. QED
      BY <2>6, <3>1, <3>2, <3>3 DEF ScoredWindow, LastWindow
  <2>9. CASE TickWindow /\ TickScored
    <3>1. Closed # None /\ det.raw # <<>> /\ det'.last = det.now + 1
      BY <2>9, ClosedType DEF TickWindow, TickScored
    <3>2. n # 0 /\ Last(det.raw) = det.raw[n]
      BY <2>2, <2>3, <3>1, EmptySeq DEF Last
    <3>3. PICK b, w : b = WindowBetween(det.raw[n], ScrapedRow) /\ b = <<w>>
      BY <3>1, <3>2, ClosedIsWindow
    <3>4. Len(b) = 1
      BY <3>3
    <3>5. n + 1 \in 2 .. n + 1 /\ (n + 1) - 1 = n /\ n \in 1 .. n
      BY <3>2
    <3>6. det'.raw[(n + 1) - 1] = det.raw[n]
      BY <2>4, <3>5
    <3>7. Len(WindowBetween(det'.raw[(n + 1) - 1], det'.raw[n + 1])) = 1
      BY <2>4, <3>3, <3>4, <3>6
    <3>8. LastWindow(det'.raw, det'.last)
      BY <2>2, <2>4, <3>1, <3>5, <3>7 DEF LastWindow
    <3>. QED
      BY <2>6, <3>8 DEF ScoredWindow, LastWindow
  <2>. QED
    BY <2>1, <2>8, <2>9
<1>2. CASE det' = Gone
  <2>1. det'.raw = <<>> /\ det'.inferences = 0
    BY <1>2, GoneIs
  <2>2. Len(det'.raw) = 0
    BY <2>1
  <2>. QED
    BY <2>1, <2>2 DEF ScrapesDated, ScoredWindow
<1>3. CASE UNCHANGED <<det, events>>
  BY <1>3 DEF ScrapesDated, ScoredWindow, LastWindow
<1>4. CASE /\ StartDetector \/ ScrapeFails \/ PublishReturns \/ StopDetector \/ LoopEnds
           /\ ~ (det' = Gone)
  <2>1. /\ det'.raw = det.raw /\ det'.inferences = det.inferences /\ det'.last = det.last
        /\ det'.now \in {det.now, det.now + 1}
    BY <1>4, DetectorOther
  <2>2. ScoredWindow'
    BY <2>1 DEF ScoredWindow, LastWindow
  <2>3. ASSUME NEW i \in 1 .. Len(det.raw) PROVE det.raw[i].at + (Len(det.raw) - i) <= det'.now
    <3>1. det.raw[i].at \in Nat /\ det.now \in Nat /\ Len(det.raw) \in Nat
      <4>1. det.raw[i] \in Rows /\ det.now \in Nat /\ Len(det.raw) \in Nat
        BY LenProperties, ElementOfSeq DEF DetectorTyped
      <4>. QED
        BY <4>1, DetectorRows DEF IsRows
    <3>2. det.raw[i].at + (Len(det.raw) - i) <= det.now
      BY DEF ScrapesDated
    <3>. QED
      BY <2>1, <3>1, <3>2
  <2>. QED
    BY <2>1, <2>2, <2>3 DEF ScrapesDated
<1>. QED
  BY <1>1, <1>2, <1>3, <1>4, DetectorSteps

\* A recent inference is in the recent scrapes.
LEMMA RecentWindow ==
  ASSUME DetectorTyped, ScrapesDated, ScoredWindow, Healthy(det), ~ (det.now <= MaxIdle)
  PROVE  \E w \in Range(PrepareRun(Trailing(det.raw, MaxIdle + 2))) :
            w.last.at >= det.now - MaxIdle
<1>1. det.now \in Nat /\ det.last \in Nat /\ MaxIdle \in Nat /\ MaxIdle + 2 \in Nat
  BY TelemetryAssumption DEF DetectorTyped
<1>2. det.inferences # 0 /\ det.now - det.last <= MaxIdle
  BY DEF Healthy, AssessHealth, IdleFor
<1>3. PICK raw \in Seq(Rows) : raw = det.raw
  BY DEF DetectorTyped
<1>4. PICK n \in Nat : n = Len(raw)
  BY LenProperties
<1>5. PICK k \in 2 .. n : raw[k].at = det.last /\ Len(WindowBetween(raw[k - 1], raw[k])) = 1
  BY <1>2, <1>3, <1>4 DEF ScoredWindow, LastWindow
<1>6. n - k <= MaxIdle
  <2>1. k \in 1 .. Len(det.raw)
    BY <1>3, <1>4
  <2>2. det.raw[k].at + (Len(det.raw) - k) <= det.now
    BY <2>1 DEF ScrapesDated
  <2>3. det.last + (n - k) <= det.now
    BY <1>3, <1>4, <1>5, <2>2
  <2>. QED
    BY <1>1, <1>2, <2>3
<1>7. PICK m \in Nat : m = IF MaxIdle + 2 <= n THEN MaxIdle + 2 ELSE n
  BY <1>1
<1>8. PICK t : t = Trailing(raw, MaxIdle + 2)
  OBVIOUS
<1>9. m <= MaxIdle + 2 /\ m <= Len(raw) /\ (m = MaxIdle + 2 \/ m = Len(raw))
  BY <1>1, <1>4, <1>7
<1>10. t \in Seq(Rows) /\ Len(t) = m
  BY <1>1, <1>8, <1>9, TrailingOf
<1>11. \A i \in 1 .. m : t[i] = raw[(n - m) + i]
  <2>1. \A i \in 1 .. m : Trailing(raw, MaxIdle + 2)[i] = raw[(Len(raw) - m) + i]
    BY <1>1, <1>9, TrailingOf
  <2>. QED
    BY <1>4, <1>8, <2>1
<1>12. PICK j \in 1 .. m - 1 : (n - m) + j = k - 1
  <2>1. PICK j : j = (k - 1) - (n - m)
    OBVIOUS
  <2>2. j \in 1 .. m - 1 /\ (n - m) + j = k - 1
    <3>1. CASE m = MaxIdle + 2
      BY <1>1, <1>4, <1>6, <1>9, <2>1, <3>1
    <3>2. CASE m = n
      BY <1>1, <2>1, <3>2
    <3>. QED
      BY <1>4, <1>9, <3>1, <3>2
  <2>. QED
    BY <2>2
<1>13. t[j] = raw[k - 1] /\ t[j + 1] = raw[k]
  <2>1. j \in 1 .. m /\ j + 1 \in 1 .. m /\ (n - m) + (j + 1) = k
    BY <1>12
  <2>. QED
    BY <1>11, <1>12, <2>1
<1>14. raw[k - 1] \in Rows /\ raw[k] \in Rows /\ raw[k].at \in Nat
  <2>1. k - 1 \in 1 .. Len(raw) /\ k \in 1 .. Len(raw)
    BY <1>4
  <2>2. raw[k - 1] \in Rows /\ raw[k] \in Rows
    BY <2>1, ElementOfSeq
  <2>. QED
    BY <2>2, DetectorRows DEF IsRows
<1>15. PICK w : WindowBetween(t[j], t[j + 1]) = <<w>> /\ w.last = raw[k]
  <2>1. PICK p, q : p = raw[k - 1] /\ q = raw[k]
    OBVIOUS
  <2>2. PICK w : w = [signals |-> WindowSignals(p.snapshot, q.snapshot, q.at - p.at),
                      label |-> q.scenario, first |-> p, last |-> q]
    OBVIOUS
  <2>3. PICK b : b = WindowBetween(p, q)
    OBVIOUS
  <2>4. b = <<w>> \/ b = <<>>
    BY <2>2, <2>3 DEF WindowBetween
  <2>5. Len(b) = 1
    BY <1>5, <2>1, <2>3
  <2>6. b = <<w>>
    BY <2>4, <2>5
  <2>7. w.last = q
    BY <2>2
  <2>. QED
    BY <1>13, <2>1, <2>3, <2>6, <2>7
<1>16. w \in Range(PrepareRun(t))
  <2>1. j \in 1 .. Len(t) - 1
    BY <1>10
  <2>. QED
    BY <1>10, <1>15, <2>1, DetectorRows, PrepareElements
<1>17. w.last.at >= det.now - MaxIdle
  BY <1>1, <1>2, <1>5, <1>14, <1>15
<1>. QED
  BY <1>3, <1>8, <1>16, <1>17

\* Both hold when nothing has been scraped.
LEMMA HealthInit == Init => ScrapesDated /\ ScoredWindow
<1>. SUFFICES ASSUME Init PROVE ScrapesDated /\ ScoredWindow
  OBVIOUS
<1>1. det.raw = <<>> /\ det.inferences = 0
  BY DEF Init, FreshDetector
<1>2. Len(det.raw) = 0
  BY <1>1
<1>. QED
  BY <1>1, <1>2 DEF ScrapesDated, ScoredWindow

\* For every idle limit and any loss of scrapes: a healthy detector has just
\* started or has a recent window (_readiness, assess_health).
THEOREM HealthHonest == Spec => []HealthIsCurrent
<1>1. DetectorTyped /\ ScrapesDated /\ ScoredWindow => HealthIsCurrent
  BY RecentWindow DEF HealthIsCurrent
<1>. QED
  BY <1>1, HealthInit, ServiceInit, DetectorInit, ServiceStep, DetectorTypedStep, HealthStep, PTL DEF Spec

-----------------------------------------------------------------------------
(* Labels.                                                                 *)

CollectRows == [at : Nat, snapshot : Snapshots, scenario : {Plan[g] : g \in Nat}, life : Nat]
CollectorTyped ==
    /\ DOMAIN col = {"pc", "seg", "at", "count", "rows"}
    /\ col.pc \in {"off", "segment", "scraping", "draining", "written", "failed"}
    /\ col.seg \in Nat /\ col.at \in Nat /\ col.count \in Nat
    /\ col.rows \in Seq(CollectRows)
    /\ watcher = "detector" => col.pc = "off"

Waiting == {"sleeping", "publishing", "responding"}

\* A request is counted once, in the process it was sent to; a process has not
\* counted more than its counter says.
RequestsCounted ==
    \A o \in Orders :
        /\ req[o].life \in Nat /\ req[o].life <= svc.life /\ req[o].counted \in Nat
        /\ req[o].pc \in {"new"} \cup Waiting => req[o].counted = 0
        /\ req[o].pc \in Waiting => req[o].life = svc.life
        /\ req[o].life = svc.life => req[o].counted <= svc.cnt.post

\* No scrape is ahead of the process it is from.
ScrapesBehind ==
    \A i \in 1 .. Len(col.rows) :
        /\ col.rows[i].life <= svc.life
        /\ col.rows[i].life = svc.life => col.rows[i].snapshot.post <= svc.cnt.post

Collecting == col.pc \in {"segment", "scraping", "draining", "written"}

\* Requests are in flight during their own segment only.
SentInSegment ==
    Collecting => \A o \in Orders : req[o].pc \in Waiting =>
                     col.pc \in {"scraping", "draining"} /\ req[o].sent = col.seg

\* The segment has no row yet.
NoRowYet == col.pc \in {"segment", "written"} \/ (col.pc = "scraping" /\ col.count = 0)

\* What is counted after a row.
CountedAfter(o, row) == req[o].life = row.life /\ req[o].counted > row.snapshot.post

\* What is counted after the newest row was sent under its scenario, or in the
\* segment that has no row yet.
NewestRow ==
    Collecting /\ Len(col.rows) # 0 =>
        LET row == col.rows[Len(col.rows)]
        IN  /\ ~ NoRowYet => row.scenario = Plan[col.seg]
            /\ \A o \in Orders : CountedAfter(o, row) =>
                  \/ Plan[req[o].sent] = row.scenario
                  \/ col.pc = "scraping" /\ col.count = 0 /\ req[o].sent = col.seg

\* What is counted between two rows of one scenario was sent under it.
LabelsSound ==
    \A i \in 1 .. Len(col.rows) - 1 :
        /\ col.rows[i].scenario = col.rows[i + 1].scenario
        /\ col.rows[i].life = col.rows[i + 1].life
        => \A o \in Orders :
              CountedAfter(o, col.rows[i]) /\ req[o].counted <= col.rows[i + 1].snapshot.post
                 => Plan[req[o].sent] = col.rows[i + 1].scenario

\* What a step of a request does: it goes on, it comes in, it is answered.
OneRequest(o) == svc'.life = svc.life /\ \A p \in Orders : p # o => req'[p] = req[p]
Moved(o) ==
    /\ OneRequest(o) /\ svc'.cnt.post = svc.cnt.post
    /\ req[o].pc \in Waiting /\ req'[o].pc \in Waiting
    /\ req'[o].life = req[o].life /\ req'[o].counted = req[o].counted /\ req'[o].sent = req[o].sent
Arrived(o) ==
    /\ OneRequest(o) /\ svc'.cnt.post = svc.cnt.post
    /\ req[o].pc = "new" /\ req'[o].pc \in Waiting /\ MaySend
    /\ req'[o].life = svc.life /\ req'[o].counted = req[o].counted /\ req'[o].sent = col.seg
Answered(o) ==
    /\ OneRequest(o) /\ svc'.cnt.post = svc.cnt.post + 1
    /\ req[o].pc \in Waiting /\ req'[o].pc = "done"
    /\ req'[o].life = req[o].life /\ req'[o].sent = req[o].sent
    /\ req'[o].counted = svc.cnt.post + 1

\* A failed publish counts no request.
LEMMA PublishFailedPost ==
  ASSUME NEW s, ServiceShape(s), NEW wait \in Nat
  PROVE  PublishFailed(s, wait).cnt.post = s.cnt.post
<1>1. PICK c : c = [s.cnt EXCEPT !.pubfail = s.cnt.pubfail + 1]
  OBVIOUS
<1>2. PICK e : e = [c EXCEPT !.publat = c.publat + wait]
  OBVIOUS
<1>3. PublishFailed(s, wait).cnt = e
  BY <1>1, <1>2 DEF PublishFailed, ServiceShape
<1>4. c.post = s.cnt.post
  BY <1>1 DEF ServiceShape, Snapshots
<1>5. DOMAIN c = DOMAIN s.cnt /\ DOMAIN s.cnt = DOMAIN EmptySnapshot
  BY <1>1 DEF ServiceShape, Snapshots, EmptySnapshot
<1>6. e.post = c.post
  BY <1>2, <1>5 DEF EmptySnapshot
<1>. QED
  BY <1>3, <1>4, <1>6

\* create_order up to its next await.
LEMMA ProceedEffect ==
  ASSUME ServiceTyped, NEW o \in Orders, NEW r, RequestShape(r), Proceed(o, r)
  PROVE  /\ OneRequest(o) /\ svc'.cnt.post = svc.cnt.post /\ req'[o].pc \in Waiting
         /\ req'[o].life = r.life /\ req'[o].counted = r.counted /\ req'[o].sent = r.sent
<1>1. svc' = svc \/ svc' = PublishFailed(svc, 0)
  BY DEF Proceed
<1>2. svc'.life = svc.life /\ svc'.cnt.post = svc.cnt.post
  BY <1>1, PublishFailedShape, PublishFailedPost DEF ServiceTyped
<1>3. PICK t : /\ req' = [req EXCEPT ![o] = t] /\ t.pc \in Waiting
               /\ t.life = r.life /\ t.counted = r.counted /\ t.sent = r.sent
  <2>1. \/ req' = [req EXCEPT ![o] = Answering(r, 500, 0)]
        \/ req' = [req EXCEPT ![o] = Answering(r, 503, 0)]
        \/ req' = [req EXCEPT ![o] = [r EXCEPT !.pc = "publishing"]]
    BY DEF Proceed
  <2>2. PICK a, b, c : a = Answering(r, 500, 0) /\ b = Answering(r, 503, 0)
                       /\ c = [r EXCEPT !.pc = "publishing"]
    OBVIOUS
  <2>3. /\ a.pc \in Waiting /\ a.life = r.life /\ a.counted = r.counted /\ a.sent = r.sent
        /\ b.pc \in Waiting /\ b.life = r.life /\ b.counted = r.counted /\ b.sent = r.sent
        /\ c.pc \in Waiting /\ c.life = r.life /\ c.counted = r.counted /\ c.sent = r.sent
    BY <2>2 DEF Answering, RequestShape, Waiting
  <2>4. \E t \in {a, b, c} : req' = [req EXCEPT ![o] = t]
    BY <2>1, <2>2
  <2>. QED
    BY <2>3, <2>4
<1>4. req'[o] = t /\ \A p \in Orders : p # o => req'[p] = req[p]
  BY <1>3 DEF ServiceTyped
<1>. QED
  BY <1>2, <1>3, <1>4 DEF OneRequest

\* Every step of a request is one of the three.
LEMMA RequestSteps ==
  ASSUME ServiceTyped, NEW o \in Orders, Arrive(o) \/ OrdersStep(o)
  PROVE  Moved(o) \/ Arrived(o) \/ Answered(o)
<1>1. CASE Arrive(o)
  <2>1. PICK r : r = [req[o] EXCEPT !.life = svc.life, !.latency = 1, !.sent = col.seg]
    OBVIOUS
  <2>2. /\ RequestShape(r) /\ r.life = svc.life /\ r.counted = req[o].counted /\ r.sent = col.seg
    BY <2>1 DEF ServiceTyped, RequestShape
  <2>3. req[o].pc = "new" /\ MaySend
    BY <1>1 DEF Arrive
  <2>4. CASE Proceed(o, r)
    BY <2>2, <2>3, <2>4, ProceedEffect DEF Arrived
  <2>5. CASE req' = [req EXCEPT ![o] = [r EXCEPT !.pc = "sleeping", !.latency = 4]] /\ UNCHANGED svc
    <3>1. PICK t : t = [r EXCEPT !.pc = "sleeping", !.latency = 4]
      OBVIOUS
    <3>2. t.pc \in Waiting /\ t.life = r.life /\ t.counted = r.counted /\ t.sent = r.sent
      BY <2>2, <3>1 DEF RequestShape, Waiting
    <3>3. req'[o] = t /\ \A p \in Orders : p # o => req'[p] = req[p]
      BY <2>5, <3>1 DEF ServiceTyped
    <3>. QED
      BY <2>2, <2>3, <2>5, <3>2, <3>3 DEF Arrived, OneRequest
  <2>6. CASE req' = [req EXCEPT ![o] = Answering(r, 422, 0)] /\ UNCHANGED svc
    <3>1. PICK t : t = Answering(r, 422, 0)
      OBVIOUS
    <3>2. t.pc \in Waiting /\ t.life = r.life /\ t.counted = r.counted /\ t.sent = r.sent
      BY <2>2, <3>1 DEF Answering, RequestShape, Waiting
    <3>3. req'[o] = t /\ \A p \in Orders : p # o => req'[p] = req[p]
      BY <2>6, <3>1 DEF ServiceTyped
    <3>. QED
      BY <2>2, <2>3, <2>6, <3>2, <3>3 DEF Arrived, OneRequest
  <2>. QED
    BY <1>1, <2>1, <2>4, <2>5, <2>6 DEF Arrive
<1>2. CASE Awake(o)
  BY <1>2, ProceedEffect DEF Awake, Moved, ServiceTyped, Waiting
<1>3. CASE Published(o)
  <2>1. svc'.life = svc.life /\ svc'.cnt.post = svc.cnt.post
    <3>1. CASE svc' = PublishFailed(svc, 2)
      BY <3>1, PublishFailedShape, PublishFailedPost DEF ServiceTyped
    <3>2. CASE svc' = [svc EXCEPT !.store = AddOrder(@, o), !.cnt.created = @ + 1,
                                  !.cnt.pubok = @ + 1, !.cnt.publat = @ + 1]
      <4>1. PICK c : c = [svc.cnt EXCEPT !.created = svc.cnt.created + 1]
        OBVIOUS
      <4>2. PICK d : d = [c EXCEPT !.pubok = c.pubok + 1]
        OBVIOUS
      <4>3. PICK e : e = [d EXCEPT !.publat = d.publat + 1]
        OBVIOUS
      <4>4. svc'.life = svc.life /\ svc'.cnt = e
        BY <3>2, <4>1, <4>2, <4>3 DEF ServiceTyped, ServiceShape
      <4>5. c \in Snapshots /\ c.post = svc.cnt.post
        BY <4>1 DEF Snapshots, ServiceShape, ServiceTyped
      <4>6. d \in Snapshots /\ d.post = c.post
        BY <4>2, <4>5 DEF Snapshots
      <4>7. e.post = d.post
        BY <4>3, <4>6 DEF Snapshots
      <4>. QED
        BY <4>4, <4>5, <4>6, <4>7
    <3>. QED
      BY <1>3, <3>1, <3>2 DEF Published
  <2>2. PICK t : /\ req' = [req EXCEPT ![o] = t] /\ t.pc \in Waiting
                 /\ t.life = req[o].life /\ t.counted = req[o].counted /\ t.sent = req[o].sent
    <3>1. PICK a, b : a = Answering(req[o], 201, 0) /\ b = Answering(req[o], 503, 1)
      OBVIOUS
    <3>2. /\ a.pc \in Waiting /\ a.life = req[o].life /\ a.counted = req[o].counted /\ a.sent = req[o].sent
          /\ b.pc \in Waiting /\ b.life = req[o].life /\ b.counted = req[o].counted /\ b.sent = req[o].sent
      BY <3>1 DEF Answering, ServiceTyped, RequestShape, Waiting
    <3>3. \E t \in {a, b} : req' = [req EXCEPT ![o] = t]
      BY <1>3, <3>1 DEF Published, ServiceTyped
    <3>. QED
      BY <3>2, <3>3
  <2>3. req'[o] = t /\ \A p \in Orders : p # o => req'[p] = req[p]
    BY <2>2 DEF ServiceTyped
  <2>4. req[o].pc \in Waiting
    BY <1>3 DEF Published, Waiting
  <2>. QED
    BY <2>1, <2>2, <2>3, <2>4 DEF Moved, OneRequest
<1>4. CASE Respond(o)
  <2>1. svc'.cnt.post = svc.cnt.post + 1 /\ svc'.life = svc.life
    BY <1>4, RespondShape
  <2>2. /\ req[o].pc \in Waiting /\ req'[o].pc = "done" /\ req'[o].counted = svc.cnt.post + 1
        /\ req'[o].life = req[o].life /\ req'[o].sent = req[o].sent
        /\ \A p \in Orders : p # o => req'[p] = req[p]
    BY <1>4 DEF Respond, ServiceTyped, RequestShape, Waiting
  <2>. QED
    BY <2>1, <2>2 DEF Answered, OneRequest
<1>. QED
  BY <1>1, <1>2, <1>3, <1>4 DEF OrdersStep

\* Steps that leave the collector alone.
LEMMA CollectorSteps ==
  ASSUME [Next]_vars
  PROVE  \/ UNCHANGED <<watcher, col>>
         \/ StartSegment \/ CollectScrape \/ Drain \/ CollectorFails
  BY DEF Next, vars, Arrive, OrdersStep, Awake, Published, Respond, PutSimulation,
         RestartService, CollectorStep, StartDetector, ScrapeFails, Tick, StopDetector,
         DetectorStep, PublishReturns, LoopEnds

\* A scrape of the collector.
LEMMA CollectIs ==
  ASSUME ServiceTyped, CollectorTyped, CollectScrape
  PROVE  \E row \in CollectRows :
            /\ row.snapshot = svc.cnt /\ row.life = svc.life /\ row.scenario = Plan[col.seg]
            /\ row.at = col.at + 1
            /\ col'.rows = Append(col.rows, row) /\ col'.seg = col.seg
            /\ col'.at = col.at + 1 /\ col'.count = col.count + 1
            /\ col'.pc \in {"scraping", "draining"} /\ DOMAIN col' = DOMAIN col
            /\ UNCHANGED <<watcher, svc, req>>
<1>1. PICK row : row = [at |-> col.at + 1, snapshot |-> svc.cnt, scenario |-> Plan[col.seg],
                        life |-> svc.life]
  OBVIOUS
<1>2. row \in CollectRows
  BY <1>1 DEF CollectRows, CollectorTyped, ServiceTyped, ServiceShape
<1>3. /\ row.snapshot = svc.cnt /\ row.life = svc.life /\ row.scenario = Plan[col.seg]
      /\ row.at = col.at + 1
  BY <1>1
<1>4. PICK pc : pc = (IF col.count + 1 = ScrapesPerSegment THEN "draining" ELSE col.pc)
  OBVIOUS
<1>5. pc \in {"scraping", "draining"}
  BY <1>4 DEF CollectScrape
<1>6. col' = [col EXCEPT !.at = @ + 1, !.count = @ + 1, !.rows = Append(@, row), !.pc = pc]
  BY <1>1, <1>4 DEF CollectScrape
<1>7. /\ col'.rows = Append(col.rows, row) /\ col'.seg = col.seg /\ col'.at = col.at + 1
      /\ col'.count = col.count + 1 /\ col'.pc = pc /\ DOMAIN col' = DOMAIN col
  BY <1>6 DEF CollectorTyped
<1>. QED
  BY <1>2, <1>3, <1>5, <1>7 DEF CollectScrape

\* The start of a segment, or the end of the run.
LEMMA StartIs ==
  ASSUME ServiceTyped, CollectorTyped, StartSegment
  PROVE  /\ col.pc = "segment" /\ DOMAIN col' = DOMAIN col
         /\ col'.seg = col.seg /\ col'.at = col.at /\ col'.rows = col.rows
         /\ \/ col'.pc = "scraping" /\ col'.count = 0
            \/ col'.pc = "written" /\ col'.count = col.count
         /\ svc'.life = svc.life /\ svc'.cnt = svc.cnt /\ UNCHANGED <<watcher, req>>
<1>1. col.pc = "segment" /\ UNCHANGED <<watcher, req>>
  BY DEF StartSegment
<1>2. \/ col' = [col EXCEPT !.pc = "scraping", !.count = 0]
      \/ col' = [col EXCEPT !.pc = "written"]
  BY DEF StartSegment
<1>3. PICK sim : svc' = [svc EXCEPT !.sim = sim]
  BY DEF StartSegment
<1>4. svc'.life = svc.life /\ svc'.cnt = svc.cnt
  BY <1>3 DEF ServiceTyped, ServiceShape
<1>5. /\ DOMAIN col' = DOMAIN col /\ col'.seg = col.seg /\ col'.at = col.at /\ col'.rows = col.rows
      /\ \/ col'.pc = "scraping" /\ col'.count = 0
         \/ col'.pc = "written" /\ col'.count = col.count
  BY <1>2 DEF CollectorTyped
<1>. QED
  BY <1>1, <1>4, <1>5

\* The collector's record keeps its types.
LEMMA CollectorTypedStep ==
  ServiceTyped /\ CollectorTyped /\ [Next]_vars => CollectorTyped'
<1>. SUFFICES ASSUME ServiceTyped, CollectorTyped, [Next]_vars PROVE CollectorTyped'
  OBVIOUS
<1>1. CASE UNCHANGED <<watcher, col>>
  BY <1>1 DEF CollectorTyped
<1>2. CASE StartSegment
  <2>1. watcher # "detector"
    BY <1>2 DEF CollectorTyped, StartSegment
  <2>. QED
    BY <1>2, <2>1, StartIs DEF CollectorTyped
<1>3. CASE CollectScrape
  <2>1. PICK row \in CollectRows :
            /\ col'.rows = Append(col.rows, row) /\ col'.seg = col.seg
            /\ col'.at = col.at + 1 /\ col'.count = col.count + 1
            /\ col'.pc \in {"scraping", "draining"} /\ DOMAIN col' = DOMAIN col
            /\ UNCHANGED watcher
    BY <1>3, CollectIs
  <2>2. col'.rows \in Seq(CollectRows)
    BY <2>1, AppendProperties DEF CollectorTyped
  <2>3. watcher # "detector"
    BY <1>3 DEF CollectorTyped, CollectScrape
  <2>. QED
    BY <2>1, <2>2, <2>3 DEF CollectorTyped
<1>4. CASE Drain
  BY <1>4 DEF Drain, CollectorTyped
<1>5. CASE CollectorFails
  BY <1>5 DEF CollectorFails, CollectorTyped
<1>. QED
  BY <1>1, <1>2, <1>3, <1>4, <1>5, CollectorSteps

LabelInv == RequestsCounted /\ ScrapesBehind /\ SentInSegment /\ NewestRow /\ LabelsSound

\* A step of a request keeps the labels.
LEMMA LabelsRequest ==
  ASSUME ServiceTyped, CollectorTyped, LabelInv, UNCHANGED <<watcher, col>>,
         NEW o \in Orders, Moved(o) \/ Arrived(o) \/ Answered(o)
  PROVE  LabelInv'
<1>0. svc.cnt.post \in Nat /\ svc.life \in Nat /\ svc'.life = svc.life
      /\ svc'.cnt.post \in {svc.cnt.post, svc.cnt.post + 1} /\ svc'.cnt.post >= svc.cnt.post
      /\ \A p \in Orders : p # o => req'[p] = req[p]
  BY DEF ServiceTyped, ServiceShape, Snapshots, Moved, Arrived, Answered, OneRequest
<1>1. RequestsCounted'
  <2>. SUFFICES ASSUME NEW p \in Orders
                PROVE  /\ req'[p].life \in Nat /\ req'[p].life <= svc'.life /\ req'[p].counted \in Nat
                       /\ req'[p].pc \in {"new"} \cup Waiting => req'[p].counted = 0
                       /\ req'[p].pc \in Waiting => req'[p].life = svc'.life
                       /\ req'[p].life = svc'.life => req'[p].counted <= svc'.cnt.post
    BY DEF RequestsCounted
  <2>1. CASE p # o
    BY <1>0, <2>1 DEF LabelInv, RequestsCounted
  <2>2. CASE p = o
    <3>1. CASE Moved(o)
      BY <1>0, <2>2, <3>1 DEF LabelInv, RequestsCounted, Moved
    <3>2. CASE Arrived(o)
      BY <1>0, <2>2, <3>2 DEF LabelInv, RequestsCounted, Arrived
    <3>3. CASE Answered(o)
      BY <1>0, <2>2, <3>3 DEF LabelInv, RequestsCounted, Answered, Waiting
    <3>. QED
      BY <3>1, <3>2, <3>3
  <2>. QED
    BY <2>1, <2>2
<1>2. ScrapesBehind'
  <2>1. ASSUME NEW i \in 1 .. Len(col.rows)
        PROVE  /\ col.rows[i].life <= svc'.life
               /\ col.rows[i].life = svc'.life => col.rows[i].snapshot.post <= svc'.cnt.post
    <3>1. col.rows[i] \in CollectRows
      BY ElementOfSeq DEF CollectorTyped
    <3>2. col.rows[i].life \in Nat /\ col.rows[i].snapshot.post \in Nat
      BY <3>1 DEF CollectRows, Snapshots
    <3>. QED
      BY <1>0, <3>2 DEF LabelInv, ScrapesBehind
  <2>. QED
    BY <2>1 DEF ScrapesBehind
<1>3. SentInSegment'
  <2>. SUFFICES ASSUME Collecting, NEW p \in Orders, req'[p].pc \in Waiting
                PROVE  col.pc \in {"scraping", "draining"} /\ req'[p].sent = col.seg
    BY DEF SentInSegment, Collecting
  <2>1. CASE p # o \/ Moved(o)
    BY <1>0, <2>1 DEF LabelInv, SentInSegment, Moved
  <2>2. CASE p = o /\ Arrived(o)
    BY <2>2 DEF Arrived, MaySend, CollectorTyped, Collecting
  <2>3. CASE p = o /\ Answered(o)
    BY <2>3 DEF Answered, Waiting
  <2>. QED
    BY <2>1, <2>2, <2>3
<1>4. ASSUME NEW p \in Orders, NEW row \in CollectRows, CountedAfter(p, row)', ~ (p = o /\ Answered(o))
      PROVE  CountedAfter(p, row) /\ req'[p].sent = req[p].sent /\ req'[p].counted = req[p].counted
  <2>0. row.snapshot.post \in Nat
    BY DEF CollectRows, Snapshots
  <2>1. CASE p # o \/ Moved(o)
    BY <1>0, <1>4, <2>1 DEF Moved, CountedAfter
  <2>2. CASE p = o /\ Arrived(o)
    <3>1. req'[o].counted = 0
      BY <2>2 DEF Arrived, LabelInv, RequestsCounted
    <3>2. 0 > row.snapshot.post
      BY <1>4, <2>2, <3>1 DEF CountedAfter
    <3>. QED
      BY <2>0, <3>2
  <2>. QED
    BY <1>4, <2>1, <2>2
<1>5. NewestRow'
  <2>. SUFFICES ASSUME Collecting, Len(col.rows) # 0
                PROVE  LET row == col.rows[Len(col.rows)]
                       IN  /\ ~ NoRowYet => row.scenario = Plan[col.seg]
                           /\ \A p \in Orders : CountedAfter(p, row)' =>
                                 \/ Plan[req'[p].sent] = row.scenario
                                 \/ col.pc = "scraping" /\ col.count = 0 /\ req'[p].sent = col.seg
    BY DEF NewestRow, Collecting, NoRowYet, CountedAfter
  <2>1. PICK row : row = col.rows[Len(col.rows)]
    OBVIOUS
  <2>2. row \in CollectRows /\ Len(col.rows) \in 1 .. Len(col.rows)
    BY <2>1, LenProperties, ElementOfSeq DEF CollectorTyped
  <2>3. /\ ~ NoRowYet => row.scenario = Plan[col.seg]
        /\ \A p \in Orders : CountedAfter(p, row) =>
              \/ Plan[req[p].sent] = row.scenario
              \/ col.pc = "scraping" /\ col.count = 0 /\ req[p].sent = col.seg
    BY <2>1 DEF LabelInv, NewestRow
  <2>4. ASSUME NEW p \in Orders, CountedAfter(p, row)'
        PROVE  \/ Plan[req'[p].sent] = row.scenario
               \/ col.pc = "scraping" /\ col.count = 0 /\ req'[p].sent = col.seg
    <3>1. CASE p = o /\ Answered(o)
      <4>1. req'[p].sent = col.seg /\ col.pc \in {"scraping", "draining"}
        BY <3>1 DEF Answered, LabelInv, SentInSegment
      <4>. QED
        BY <2>3, <4>1 DEF NoRowYet
    <3>2. CASE ~ (p = o /\ Answered(o))
      <4>1. CountedAfter(p, row) /\ req'[p].sent = req[p].sent
        BY <1>4, <2>2, <2>4, <3>2
      <4>. QED
        BY <2>3, <4>1
    <3>. QED
      BY <3>1, <3>2
  <2>. QED
    BY <2>1, <2>3, <2>4
<1>6. LabelsSound'
  <2>. SUFFICES ASSUME NEW i \in 1 .. Len(col.rows) - 1,
                       col.rows[i].scenario = col.rows[i + 1].scenario,
                       col.rows[i].life = col.rows[i + 1].life,
                       NEW p \in Orders, CountedAfter(p, col.rows[i])',
                       req'[p].counted <= col.rows[i + 1].snapshot.post
                PROVE  Plan[req'[p].sent] = col.rows[i + 1].scenario
    BY DEF LabelsSound, CountedAfter
  <2>1. PICK first, last : first = col.rows[i] /\ last = col.rows[i + 1]
    OBVIOUS
  <2>2. i \in 1 .. Len(col.rows) /\ i + 1 \in 1 .. Len(col.rows)
    BY LenProperties DEF CollectorTyped
  <2>3. first \in CollectRows /\ last \in CollectRows
    BY <2>1, <2>2, ElementOfSeq DEF CollectorTyped
  <2>4. CountedAfter(p, first)'
    BY <2>1 DEF CountedAfter
  <2>5. ~ (p = o /\ Answered(o))
    <3>. SUFFICES ASSUME p = o, Answered(o) PROVE FALSE
      OBVIOUS
    <3>1. req'[p].counted = svc.cnt.post + 1 /\ req'[p].life = svc.life
      BY DEF Answered, LabelInv, RequestsCounted
    <3>2. last.life = svc.life
      BY <2>1, <2>4, <3>1 DEF CountedAfter
    <3>3. last.snapshot.post <= svc.cnt.post
      BY <2>1, <2>2, <3>2 DEF LabelInv, ScrapesBehind
    <3>4. last.snapshot.post \in Nat
      BY <2>3 DEF CollectRows, Snapshots
    <3>. QED
      BY <1>0, <2>1, <3>1, <3>3, <3>4
  <2>6. CountedAfter(p, first) /\ req'[p].sent = req[p].sent /\ req'[p].counted = req[p].counted
    BY <1>4, <2>3, <2>4, <2>5
  <2>. QED
    BY <2>1, <2>6 DEF LabelInv, LabelsSound
<1>. QED
  BY <1>1, <1>2, <1>3, <1>5, <1>6 DEF LabelInv

\* Where the requests, the counters and the rows stay, so does what was counted.
LEMMA LabelsKept ==
  ASSUME LabelInv, svc'.life = svc.life, svc'.cnt.post = svc.cnt.post, UNCHANGED req, col'.rows = col.rows
  PROVE  RequestsCounted' /\ ScrapesBehind' /\ LabelsSound'
<1>1. RequestsCounted'
  BY DEF LabelInv, RequestsCounted
<1>2. ScrapesBehind'
  BY DEF LabelInv, ScrapesBehind
<1>3. LabelsSound'
  BY DEF LabelInv, LabelsSound, CountedAfter
<1>. QED
  BY <1>1, <1>2, <1>3

\* A restart of the service.
LEMMA LabelsRestart ==
  ASSUME ServiceTyped, CollectorTyped, LabelInv, RestartService
  PROVE  LabelInv'
<1>1. /\ svc'.life = svc.life + 1 /\ svc'.cnt.post = 0 /\ svc.life \in Nat
      /\ UNCHANGED <<watcher, col>>
  BY DEF RestartService, FreshService, EmptySnapshot, ServiceTyped, ServiceShape
<1>2. ASSUME NEW o \in Orders
      PROVE  /\ req'[o].life = req[o].life /\ req'[o].counted = req[o].counted
             /\ req'[o].sent = req[o].sent /\ req'[o].pc \notin Waiting
             /\ req'[o].pc = req[o].pc \/ req'[o].pc = "lost"
  <2>1. req'[o] = IF o \in Inflight THEN [req[o] EXCEPT !.pc = "lost"] ELSE req[o]
    BY DEF RestartService
  <2>2. o \in Inflight <=> req[o].pc \in Waiting
    BY DEF Inflight, Waiting
  <2>3. RequestShape(req[o])
    BY DEF ServiceTyped
  <2>. QED
    BY <2>1, <2>2, <2>3 DEF RequestShape, Waiting
<1>3. RequestsCounted'
  <2>. SUFFICES ASSUME NEW o \in Orders
                PROVE  /\ req'[o].life \in Nat /\ req'[o].life <= svc'.life /\ req'[o].counted \in Nat
                       /\ req'[o].pc \in {"new"} \cup Waiting => req'[o].counted = 0
                       /\ req'[o].pc \in Waiting => req'[o].life = svc'.life
                       /\ req'[o].life = svc'.life => req'[o].counted <= svc'.cnt.post
    BY DEF RequestsCounted
  <2>1. /\ req[o].life \in Nat /\ req[o].life <= svc.life /\ req[o].counted \in Nat
        /\ req[o].pc \in {"new"} \cup Waiting => req[o].counted = 0
    BY DEF LabelInv, RequestsCounted
  <2>2. req'[o].life \in Nat /\ req'[o].life <= svc.life /\ req'[o].life # svc'.life
    BY <1>1, <1>2, <2>1
  <2>3. req'[o].pc \in {"new"} \cup Waiting => req'[o].counted = 0
    BY <1>2, <2>1 DEF Waiting
  <2>. QED
    BY <1>1, <1>2, <2>1, <2>2, <2>3
<1>4. ScrapesBehind'
  <2>1. ASSUME NEW i \in 1 .. Len(col.rows)
        PROVE  col.rows[i].life <= svc'.life /\ col.rows[i].life # svc'.life
    <3>1. col.rows[i] \in CollectRows
      BY ElementOfSeq DEF CollectorTyped
    <3>2. col.rows[i].life \in Nat
      BY <3>1 DEF CollectRows
    <3>3. col.rows[i].life <= svc.life
      BY DEF LabelInv, ScrapesBehind
    <3>. QED
      BY <1>1, <3>2, <3>3
  <2>. QED
    BY <1>1, <2>1 DEF ScrapesBehind
<1>5. SentInSegment'
  BY <1>2 DEF SentInSegment
<1>6. NewestRow'
  BY <1>1, <1>2 DEF LabelInv, NewestRow, Collecting, NoRowYet, CountedAfter
<1>7. LabelsSound'
  BY <1>1, <1>2 DEF LabelInv, LabelsSound, CountedAfter
<1>. QED
  BY <1>3, <1>4, <1>5, <1>6, <1>7 DEF LabelInv

\* A scrape of the collector closes what it counts.
LEMMA LabelsScrape ==
  ASSUME ServiceTyped, CollectorTyped, LabelInv, CollectScrape
  PROVE  LabelInv'
<1>1. PICK row \in CollectRows :
            /\ row.snapshot = svc.cnt /\ row.life = svc.life /\ row.scenario = Plan[col.seg]
            /\ col'.rows = Append(col.rows, row) /\ col'.seg = col.seg
            /\ col'.count = col.count + 1
            /\ col'.pc \in {"scraping", "draining"} /\ UNCHANGED <<svc, req>>
  BY CollectIs
<1>2. PICK n \in Nat : n = Len(col.rows)
  BY LenProperties DEF CollectorTyped
<1>3. /\ col'.rows \in Seq(CollectRows) /\ Len(col'.rows) = n + 1 /\ col'.rows[n + 1] = row
      /\ \A i \in 1 .. n : col'.rows[i] = col.rows[i]
  BY <1>1, <1>2, AppendProperties DEF CollectorTyped
<1>4. col.pc = "scraping" /\ col.count \in Nat /\ svc.cnt.post \in Nat /\ svc.life \in Nat
  BY DEF CollectScrape, CollectorTyped, ServiceTyped, ServiceShape, Snapshots
<1>5. \A i \in 1 .. n + 1 : i = n + 1 \/ i \in 1 .. n
  OBVIOUS
<1>6. RequestsCounted'
  BY <1>1 DEF LabelInv, RequestsCounted
<1>7. ScrapesBehind'
  <2>1. ASSUME NEW i \in 1 .. n + 1
        PROVE  /\ col'.rows[i].life <= svc.life
               /\ col'.rows[i].life = svc.life => col'.rows[i].snapshot.post <= svc.cnt.post
    BY <1>1, <1>2, <1>3, <1>4, <1>5 DEF LabelInv, ScrapesBehind
  <2>. QED
    BY <1>1, <1>3, <2>1 DEF ScrapesBehind
<1>8. SentInSegment'
  BY <1>1, <1>4 DEF LabelInv, SentInSegment, Collecting
<1>9. \A o \in Orders : ~ CountedAfter(o, row)
  BY <1>1, <1>4 DEF CountedAfter, LabelInv, RequestsCounted
<1>10. NewestRow'
  <2>1. \A o \in Orders : ~ CountedAfter(o, row)'
    BY <1>1, <1>9 DEF CountedAfter
  <2>2. Len(col'.rows) = n + 1 /\ col'.rows[n + 1] = row /\ row.scenario = Plan[col'.seg]
    BY <1>1, <1>3
  <2>. QED
    BY <2>1, <2>2 DEF NewestRow, CountedAfter
<1>11. LabelsSound'
  <2>. SUFFICES ASSUME NEW i \in 1 .. n,
                       col'.rows[i].scenario = col'.rows[i + 1].scenario,
                       col'.rows[i].life = col'.rows[i + 1].life,
                       NEW o \in Orders, CountedAfter(o, col'.rows[i]),
                       req[o].counted <= col'.rows[i + 1].snapshot.post
                PROVE  Plan[req[o].sent] = col'.rows[i + 1].scenario
    <3>1. 1 .. Len(col'.rows) - 1 = 1 .. n
      BY <1>3
    <3>. QED
      BY <1>1, <3>1 DEF LabelsSound, CountedAfter
  <2>1. CASE i = n
    <3>1. col'.rows[i] = col.rows[n] /\ col'.rows[i + 1] = row /\ n # 0
      BY <1>3, <2>1
    <3>2. PICK last : last = col.rows[n]
      OBVIOUS
    <3>3. CountedAfter(o, last) /\ last.scenario = row.scenario
      BY <3>1, <3>2
    <3>4. \/ Plan[req[o].sent] = last.scenario
          \/ req[o].sent = col.seg
      BY <1>2, <1>4, <3>1, <3>2, <3>3 DEF LabelInv, NewestRow, Collecting
    <3>. QED
      BY <1>1, <3>1, <3>3, <3>4
  <2>2. CASE i # n
    <3>1. i \in 1 .. n - 1 /\ i \in 1 .. n /\ i + 1 \in 1 .. n
      BY <2>2
    <3>2. col'.rows[i] = col.rows[i] /\ col'.rows[i + 1] = col.rows[i + 1]
      BY <1>3, <3>1
    <3>. QED
      BY <1>2, <3>1, <3>2 DEF LabelInv, LabelsSound
  <2>. QED
    BY <2>1, <2>2
<1>. QED
  BY <1>6, <1>7, <1>8, <1>10, <1>11 DEF LabelInv

\* Every step keeps the labels.
LEMMA LabelsStep ==
  ServiceTyped /\ CollectorTyped /\ LabelInv /\ [Next]_vars => LabelInv'
<1>. SUFFICES ASSUME ServiceTyped, CollectorTyped, LabelInv, [Next]_vars PROVE LabelInv'
  OBVIOUS
<1>1. ASSUME NEW o \in Orders, Arrive(o) \/ OrdersStep(o) PROVE LabelInv'
  <2>1. UNCHANGED <<watcher, col>>
    BY <1>1 DEF Arrive, OrdersStep, Awake, Published, Respond
  <2>. QED
    BY <1>1, <2>1, RequestSteps, LabelsRequest
<1>2. CASE StartSegment
  <2>1. /\ col.pc = "segment" /\ col'.seg = col.seg /\ col'.rows = col.rows
        /\ (col'.pc = "scraping" /\ col'.count = 0) \/ col'.pc = "written"
        /\ svc'.life = svc.life /\ svc'.cnt = svc.cnt /\ UNCHANGED req
    BY <1>2, StartIs
  <2>2. RequestsCounted' /\ ScrapesBehind' /\ LabelsSound'
    BY <2>1, LabelsKept
  <2>3. SentInSegment'
    BY <2>1 DEF LabelInv, SentInSegment, Collecting
  <2>4. NewestRow'
    BY <2>1 DEF LabelInv, NewestRow, Collecting, NoRowYet, CountedAfter
  <2>. QED
    BY <2>2, <2>3, <2>4 DEF LabelInv
<1>3. CASE Drain
  <2>1. /\ col.pc = "draining" /\ col'.pc = "segment" /\ col'.rows = col.rows /\ UNCHANGED <<svc, req>>
    BY <1>3 DEF Drain, CollectorTyped
  <2>2. \A o \in Orders : req[o].pc \notin Waiting
    BY <1>3 DEF Drain, Inflight, Waiting
  <2>3. RequestsCounted' /\ ScrapesBehind' /\ LabelsSound'
    BY <2>1, LabelsKept
  <2>4. SentInSegment'
    BY <2>1, <2>2 DEF SentInSegment
  <2>5. NewestRow'
    BY <2>1 DEF LabelInv, NewestRow, Collecting, NoRowYet, CountedAfter
  <2>. QED
    BY <2>3, <2>4, <2>5 DEF LabelInv
<1>4. CASE CollectorFails
  <2>1. col'.pc = "failed" /\ col'.rows = col.rows /\ UNCHANGED <<svc, req>>
    BY <1>4 DEF CollectorFails, CollectorTyped
  <2>2. ~ Collecting'
    BY <2>1 DEF Collecting
  <2>. QED
    BY <2>1, <2>2, LabelsKept DEF LabelInv, SentInSegment, NewestRow
<1>5. CASE \/ PutSimulation \/ StartDetector \/ ScrapeFails \/ Tick \/ StopDetector
           \/ DetectorStep \/ UNCHANGED vars
  <2>1. UNCHANGED <<req, col>>
    BY <1>5 DEF PutSimulation, StartDetector, ScrapeFails, Tick, StopDetector, DetectorStep,
                PublishReturns, LoopEnds, vars
  <2>2. svc'.life = svc.life /\ svc'.cnt.post = svc.cnt.post
    <3>1. CASE PutSimulation
      BY <3>1 DEF PutSimulation, ServiceTyped, ServiceShape
    <3>2. CASE ~ PutSimulation
      <4>1. UNCHANGED svc
        BY <1>5, <3>2 DEF StartDetector, ScrapeFails, Tick, StopDetector, DetectorStep,
                          PublishReturns, LoopEnds, vars
      <4>. QED
        BY <4>1
    <3>. QED
      BY <3>1, <3>2
  <2>3. RequestsCounted' /\ ScrapesBehind' /\ LabelsSound'
    BY <2>1, <2>2, LabelsKept
  <2>4. SentInSegment' /\ NewestRow'
    BY <2>1 DEF LabelInv, SentInSegment, NewestRow, Collecting, NoRowYet, CountedAfter
  <2>. QED
    BY <2>3, <2>4 DEF LabelInv
<1>. QED
  BY <1>1, <1>2, <1>3, <1>4, <1>5, LabelsRestart, LabelsScrape DEF Next, CollectorStep

\* A run starts without rows or requests.
LEMMA LabelsInit == Init => CollectorTyped /\ LabelInv
<1>. SUFFICES ASSUME Init PROVE CollectorTyped /\ LabelInv
  OBVIOUS
<1>1. /\ DOMAIN col = {"pc", "seg", "at", "count", "rows"} /\ col.seg = 1 /\ col.at = 0
      /\ col.count = 0 /\ col.rows = <<>>
      /\ col.pc = IF watcher = "collector" THEN "segment" ELSE "off"
  BY DEF Init
<1>2. Len(col.rows) = 0 /\ col.rows \in Seq(CollectRows)
  BY <1>1
<1>3. CollectorTyped
  BY <1>1, <1>2 DEF CollectorTyped
<1>4. svc.life = 1 /\ svc.cnt.post = 0
  BY DEF Init, FreshService, EmptySnapshot
<1>5. \A o \in Orders : req[o].pc = "new" /\ req[o].life = 0 /\ req[o].counted = 0
  BY DEF Init, NewRequest
<1>6. RequestsCounted /\ SentInSegment
  BY <1>4, <1>5 DEF RequestsCounted, SentInSegment, Waiting
<1>7. ScrapesBehind /\ NewestRow /\ LabelsSound
  BY <1>2 DEF ScrapesBehind, NewestRow, LabelsSound
<1>. QED
  BY <1>3, <1>6, <1>7 DEF LabelInv

\* For every plan, however requests overlap, fail and are cut off: a window of
\* a training run has the label its requests were sent under (collect_signals,
\* prepare_run).
THEOREM HonestLabels == Spec => []LabelsHonest
<1>1. CollectorTyped /\ LabelInv => LabelsHonest
  <2>. SUFFICES ASSUME CollectorTyped, LabelInv, NEW w \in Range(PrepareRun(col.rows)),
                       w.first.life = w.last.life, NEW o \in CountedBetween(w.first, w.last)
                PROVE  Plan[req[o].sent] = w.label
    BY DEF LabelsHonest
  <2>1. IsRows(CollectRows) /\ col.rows \in Seq(CollectRows)
    BY DEF IsRows, CollectRows, CollectorTyped
  <2>2. PICK i \in 1 .. Len(col.rows) - 1 : WindowBetween(col.rows[i], col.rows[i + 1]) = <<w>>
    BY <2>1, PrepareElements
  <2>3. PICK p, q : p = col.rows[i] /\ q = col.rows[i + 1]
    OBVIOUS
  <2>4. p.scenario = q.scenario /\ w.label = q.scenario /\ w.first = p /\ w.last = q
    <3>1. PICK v : v = [signals |-> WindowSignals(p.snapshot, q.snapshot, q.at - p.at),
                        label |-> q.scenario, first |-> p, last |-> q]
      OBVIOUS
    <3>2. PICK one : one = <<w>>
      OBVIOUS
    <3>3. (one = <<v>> /\ p.scenario = q.scenario) \/ one = <<>>
      BY <2>2, <2>3, <3>1, <3>2 DEF WindowBetween
    <3>4. w = v /\ p.scenario = q.scenario
      BY <3>2, <3>3
    <3>. QED
      BY <3>1, <3>4
  <2>5. /\ o \in Orders /\ req[o].counted > p.snapshot.post /\ req[o].counted <= q.snapshot.post
        /\ req[o].life = q.life /\ p.life = q.life
    BY <2>4 DEF CountedBetween
  <2>6. CountedAfter(o, p)
    BY <2>5 DEF CountedAfter
  <2>. QED
    BY <2>3, <2>4, <2>5, <2>6 DEF LabelInv, LabelsSound
<1>. QED
  BY <1>1, LabelsInit, ServiceInit, ServiceStep, CollectorTypedStep, LabelsStep, PTL DEF Spec

-----------------------------------------------------------------------------
(* Ratios and quantiles, in integers.                                      *)

\* A quotient grows with what is divided.
LEMMA QuotientGrows ==
  ASSUME NEW x \in Nat, NEW y \in Nat, x <= y, NEW d \in Nat \ {0}
  PROVE  x \div d \in Nat /\ x \div d <= y \div d
<1>. DEFINE a == x \div d
            b == y \div d
<1>1. a \in Int /\ b \in Int /\ d * a <= x /\ y < d * (b + 1) /\ 0 <= a
  BY Z3
<1>2. d * a < d * (b + 1)
  <2>. HIDE DEF a, b
  <2>1. d * a \in Int /\ d * (b + 1) \in Int
    BY <1>1
  <2>. QED
    BY <1>1, <2>1
<1>3. a < b + 1
  <2>. HIDE DEF a, b
  <2>1. SUFFICES ASSUME b + 1 <= a PROVE FALSE
    BY <1>1
  <2>2. PICK k \in Nat : a = (b + 1) + k
    <3>1. a - (b + 1) \in Nat /\ a = (b + 1) + (a - (b + 1))
      BY <1>1, <2>1
    <3>. QED
      BY <3>1
  <2>3. d * a = d * (b + 1) + d * k /\ d * k \in Nat
    BY <1>1, <2>2
  <2>. QED
    BY <1>1, <1>2, <2>3
<1>. QED
  BY <1>1, <1>3

\* A quotient that comes out even.
LEMMA QuotientExact ==
  ASSUME NEW a \in Nat, NEW d \in Nat \ {0}
  PROVE  (a * d) \div d = a
  BY Z3

\* A product grows with its factor.
LEMMA ProductGrows ==
  ASSUME NEW a \in Nat, NEW x \in Int, NEW y \in Int, x <= y
  PROVE  a * x \in Int /\ a * x <= a * y
<1>1. PICK k \in Nat : y = x + k
  <2>1. y - x \in Nat /\ y = x + (y - x)
    OBVIOUS
  <2>. QED
    BY <2>1
<1>2. a * y = a * x + a * k /\ a * k \in Nat /\ a * x \in Int
  BY <1>1
<1>. QED
  BY <1>2

\* The histogram has two bounds, and a last bucket without one.
LEMMA BoundsAre ==
  /\ Len(Bounds) = 2 /\ Bounds[1] = 1 /\ Bounds[2] = 3 /\ Buckets = 1 .. 3
  /\ Min({1, 2}) = 1 /\ Min({2, 2}) = 2 /\ Min({3, 2}) = 2
<1>1. Len(Bounds) = 2 /\ Bounds[1] = 1 /\ Bounds[2] = 3
  BY DEF Bounds
<1>2. Min({1, 2}) = 1
  <2>1. 1 \in {1, 2} /\ \A y \in {1, 2} : 1 <= y
    OBVIOUS
  <2>2. \A x \in {1, 2} : (\A y \in {1, 2} : x <= y) => x = 1
    OBVIOUS
  <2>. QED
    BY <2>1, <2>2 DEF Min
<1>3. Min({2, 2}) = 2
  BY DEF Min
<1>4. Min({3, 2}) = 2
  <2>1. 2 \in {3, 2} /\ \A y \in {3, 2} : 2 <= y
    OBVIOUS
  <2>2. \A x \in {3, 2} : (\A y \in {3, 2} : x <= y) => x = 2
    OBVIOUS
  <2>. QED
    BY <2>1, <2>2 DEF Min
<1>. QED
  BY <1>1, <1>2, <1>3, <1>4 DEF Buckets

\* A histogram of some requests: each bucket holds the one before it.
Histogram(deltas) ==
    /\ deltas \in [Buckets -> Nat]
    /\ deltas[1] <= deltas[2] /\ deltas[2] <= deltas[3] /\ deltas[3] # 0

\* The first bucket that reaches a target, in hundredths of requests.
Hit(deltas, target) == Min({b \in Buckets : 100 * deltas[b] >= target})
Lower(b) == IF b = 1 THEN 0 ELSE Bounds[b - 1]
Upper(b) == Bounds[Min({b, Len(Bounds)})]

\* The bucket a quantile is estimated in.
Aims(deltas, pct, target, h) == target = pct * deltas[3] /\ h = Hit(deltas, target)

\* There is one, and it is no later for a smaller target.
LEMMA HitIs ==
  ASSUME NEW deltas, Histogram(deltas), NEW target \in Nat, target <= 100 * deltas[3],
         NEW h, h = Hit(deltas, target)
  PROVE  /\ h \in 1 .. 3 /\ 100 * deltas[h] >= target
         /\ \A b \in 1 .. 3 : b < h => 100 * deltas[b] < target
<1>. DEFINE S == {b \in Buckets : 100 * deltas[b] >= target}
<1>1. 3 \in S /\ S \in SUBSET Nat /\ S \subseteq 1 .. 3
  BY BoundsAre DEF Histogram
<1>2. PICK m \in S : \A y \in S : m <= y
  BY <1>1, LeastMember
<1>3. Hit(deltas, target) = m
  <2>1. \A x \in S : (\A y \in S : x <= y) => x = m
    BY <1>1, <1>2
  <2>. HIDE DEF S
  <2>2. Min(S) = m
    BY <1>2, <2>1 DEF Min
  <2>. QED
    BY <2>2 DEF Hit, S
<1>4. ASSUME NEW b \in 1 .. 3, b < m PROVE 100 * deltas[b] < target
  <2>1. b \notin S
    BY <1>1, <1>2, <1>4
  <2>2. deltas[b] \in Nat
    BY BoundsAre DEF Histogram
  <2>. QED
    BY <2>1, <2>2, BoundsAre
<1>. QED
  BY <1>1, <1>2, <1>3, <1>4

\* The bucket before a bucket, and how far into it a target is.
Below(deltas, b) == IF b = 1 THEN 0 ELSE deltas[b - 1]
Interpolated(deltas, b, target) ==
    (Scale * (Bounds[b] - Lower(b)) * (target - 100 * Below(deltas, b)))
        \div (100 * (deltas[b] - Below(deltas, b)))

\* What estimate_quantile_from_bucket_deltas returns for a histogram of some requests.
LEMMA QuantileIs ==
  ASSUME NEW deltas, Histogram(deltas), NEW pct \in 1 .. 100,
         NEW target, NEW h, Aims(deltas, pct, target, h)
  PROVE  /\ h \in 1 .. 3 /\ target \in Nat
         /\ h = 3 => Quantile(deltas, pct) = Scale * Lower(h)
         /\ h # 3 => /\ Quantile(deltas, pct) = Scale * Lower(h) + Interpolated(deltas, h, target)
                     /\ deltas[h] - Below(deltas, h) \in Nat \ {0}
                     /\ target - 100 * Below(deltas, h) \in Nat
                     /\ target - 100 * Below(deltas, h) <= 100 * (deltas[h] - Below(deltas, h))
<1>1. target = pct * deltas[3]
  BY DEF Aims
<1>2. deltas[1] \in Nat /\ deltas[2] \in Nat /\ deltas[3] \in Nat \ {0}
  BY BoundsAre DEF Histogram
<1>3. target \in Nat \ {0} /\ target <= 100 * deltas[3]
  <2>1. PICK t \in Nat \ {0} : t = deltas[3]
    BY <1>2
  <2>2. pct * t \in Nat /\ pct * t >= t /\ pct * t <= 100 * t
    <3>1. t * pct \in Int /\ t * 1 <= t * pct /\ t * pct <= t * 100
      BY ProductGrows
    <3>2. t * pct = pct * t /\ t * 1 = t /\ t * 100 = 100 * t
      OBVIOUS
    <3>. QED
      BY <3>1, <3>2
  <2>. QED
    BY <1>1, <2>1, <2>2
<1>4. h = Hit(deltas, target)
  BY DEF Aims
<1>5. h \in 1 .. 3 /\ 100 * deltas[h] >= target /\ \A b \in 1 .. 3 : b < h => 100 * deltas[b] < target
  BY <1>3, <1>4, HitIs
<1>6. PICK hit : hit = Min({b \in Buckets : 100 * deltas[b] >= pct * deltas[3]})
  OBVIOUS
<1>7. hit = h
  BY <1>1, <1>4, <1>6 DEF Hit
<1>8. CASE h = 3
  <2>1. Quantile(deltas, pct) = Scale * Bounds[2]
    BY <1>2, <1>6, <1>7, <1>8, BoundsAre DEF Quantile
  <2>. QED
    BY <1>3, <1>5, <1>8, <2>1 DEF Lower
<1>9. CASE h # 3
  <2>1. /\ deltas[h] - Below(deltas, h) \in Nat \ {0}
        /\ target - 100 * Below(deltas, h) \in Nat
        /\ target - 100 * Below(deltas, h) <= 100 * (deltas[h] - Below(deltas, h))
    <3>1. CASE h = 1
      BY <1>2, <1>3, <1>5, <3>1 DEF Below
    <3>2. CASE h = 2
      BY <1>2, <1>3, <1>5, <3>2 DEF Below
    <3>. QED
      BY <1>5, <1>9, <3>1, <3>2
  <2>2. PICK lo, c : lo = Lower(h) /\ c = Below(deltas, h)
    OBVIOUS
  <2>3. Quantile(deltas, pct)
          = Scale * lo + (Scale * (Bounds[h] - lo) * (target - 100 * c)) \div (100 * (deltas[h] - c))
    <3>1. /\ deltas[Len(Bounds) + 1] # 0 /\ ~ (h > Len(Bounds)) /\ ~ (deltas[h] - c <= 0)
          /\ pct * deltas[Len(Bounds) + 1] = target
      BY <1>1, <1>2, <1>5, <1>9, <2>1, <2>2, BoundsAre
    <3>2. lo = (IF hit = 1 THEN 0 ELSE Bounds[hit - 1]) /\ c = (IF hit = 1 THEN 0 ELSE deltas[hit - 1])
      BY <1>7, <2>2 DEF Lower, Below
    <3>3. Min({b \in Buckets : 100 * deltas[b] >= pct * deltas[Len(Bounds) + 1]}) = h
      BY <1>6, <1>7, BoundsAre
    <3>. QED
      BY <1>7, <3>1, <3>2, <3>3, Zenon DEF Quantile
  <2>4. Quantile(deltas, pct) = Scale * Lower(h) + Interpolated(deltas, h, target)
    BY <2>2, <2>3 DEF Interpolated
  <2>. QED
    BY <1>3, <1>5, <1>9, <2>1, <2>4
<1>. QED
  BY <1>8, <1>9

\* An interpolation stays within its bucket.
LEMMA InterpolationStays ==
  ASSUME NEW a \in Nat, NEW d \in Nat \ {0}, NEW x \in Nat, NEW y \in Nat, x <= y, y <= d
  PROVE  /\ (a * x) \div d \in Nat /\ (a * x) \div d <= (a * y) \div d
         /\ (a * y) \div d \in Nat /\ (a * y) \div d <= a
<1>1. a * x \in Nat /\ a * y \in Nat /\ a * d \in Nat
  OBVIOUS
<1>2. a * x <= a * y /\ a * y <= a * d
  BY ProductGrows
<1>3. PICK p, q, r : p = a * x /\ q = a * y /\ r = a * d
  OBVIOUS
<1>4. p \div d \in Nat /\ p \div d <= q \div d /\ q \div d \in Nat /\ q \div d <= r \div d
  BY <1>1, <1>2, <1>3, QuotientGrows
<1>5. r \div d = a
  BY <1>3, QuotientExact
<1>. QED
  BY <1>3, <1>4, <1>5

\* An estimate lies in the bucket its target is in.
LEMMA QuantileLocated ==
  ASSUME NEW deltas, Histogram(deltas), NEW pct \in 1 .. 100,
         NEW target, NEW h, Aims(deltas, pct, target, h)
  PROVE  /\ h \in 1 .. 3 /\ Quantile(deltas, pct) \in Int
         /\ Quantile(deltas, pct) >= Scale * Lower(h)
         /\ Quantile(deltas, pct) <= Scale * Upper(h)
<1>1. /\ h \in 1 .. 3 /\ target \in Nat
      /\ h = 3 => Quantile(deltas, pct) = Scale * Lower(h)
      /\ h # 3 => /\ Quantile(deltas, pct) = Scale * Lower(h) + Interpolated(deltas, h, target)
                  /\ deltas[h] - Below(deltas, h) \in Nat \ {0}
                  /\ target - 100 * Below(deltas, h) \in Nat
                  /\ target - 100 * Below(deltas, h) <= 100 * (deltas[h] - Below(deltas, h))
  BY QuantileIs
<1>2. h \in 1 .. 3 /\ Scale \in Nat
  BY <1>1, SignalAssumption
<1>3. CASE h = 3
  <2>1. Lower(h) = 3 /\ Upper(h) = 3
    BY <1>3, BoundsAre DEF Lower, Upper
  <2>. QED
    BY <1>1, <1>2, <1>3, <2>1
<1>4. CASE h # 3
  <2>1. /\ Lower(h) \in Nat /\ Bounds[h] \in Nat /\ Bounds[h] - Lower(h) \in Nat
        /\ Upper(h) = Bounds[h]
    <3>1. CASE h = 1
      BY <3>1, BoundsAre DEF Lower, Upper
    <3>2. CASE h = 2
      BY <3>2, BoundsAre DEF Lower, Upper
    <3>. QED
      BY <1>2, <1>4, <3>1, <3>2
  <2>2. PICK a, n, s : /\ a = Scale * (Bounds[h] - Lower(h))
                       /\ n = target - 100 * Below(deltas, h)
                       /\ s = 100 * (deltas[h] - Below(deltas, h))
    OBVIOUS
  <2>3. a \in Nat /\ n \in Nat /\ s \in Nat \ {0} /\ n <= s
    BY <1>1, <1>2, <1>4, <2>1, <2>2
  <2>4. (a * n) \div s \in Nat /\ (a * n) \div s <= a
    BY <2>3, InterpolationStays
  <2>5. Interpolated(deltas, h, target) = (a * n) \div s
    BY <2>2 DEF Interpolated
  <2>6. Quantile(deltas, pct) = Scale * Lower(h) + (a * n) \div s
    BY <1>1, <1>4, <2>5
  <2>7. Scale * Lower(h) \in Nat /\ Scale * Lower(h) + a = Scale * Bounds[h]
    BY <1>2, <2>1, <2>2
  <2>. QED
    BY <1>1, <1>2, <2>1, <2>3, <2>4, <2>6, <2>7
<1>. QED
  BY <1>3, <1>4

\* A higher quantile is estimated no lower.
LEMMA QuantilesOrdered ==
  ASSUME NEW deltas, Histogram(deltas), NEW p \in 1 .. 100, NEW q \in 1 .. 100, p <= q
  PROVE  Quantile(deltas, p) <= Quantile(deltas, q)
<1>1. PICK s, t : s = p * deltas[3] /\ t = q * deltas[3]
  OBVIOUS
<1>2. deltas[1] \in Nat /\ deltas[2] \in Nat /\ deltas[3] \in Nat /\ Scale \in Nat
  BY BoundsAre, SignalAssumption DEF Histogram
<1>3. s \in Nat /\ t \in Nat /\ s <= t /\ t <= 100 * deltas[3]
  <2>1. /\ deltas[3] * p \in Int /\ deltas[3] * p <= deltas[3] * q
        /\ deltas[3] * q <= deltas[3] * 100
    BY <1>2, ProductGrows
  <2>2. PICK k \in Nat : k = deltas[3]
    BY <1>2
  <2>3. k * p = p * k /\ k * q = q * k /\ k * 100 = 100 * k /\ p * k \in Nat /\ q * k \in Nat
    OBVIOUS
  <2>. QED
    BY <1>1, <2>1, <2>2, <2>3
<1>4. PICK g, h : g = Hit(deltas, s) /\ h = Hit(deltas, t)
  OBVIOUS
<1>10. Aims(deltas, p, s, g) /\ Aims(deltas, q, t, h)
  BY <1>1, <1>4 DEF Aims
<1>5. /\ g \in 1 .. 3 /\ h \in 1 .. 3 /\ 100 * deltas[h] >= t
      /\ \A b \in 1 .. 3 : b < g => 100 * deltas[b] < s
  <2>1. s <= 100 * deltas[3]
    BY <1>2, <1>3
  <2>2. h \in 1 .. 3 /\ 100 * deltas[h] >= t
    BY <1>3, <1>4, HitIs
  <2>3. g \in 1 .. 3 /\ \A b \in 1 .. 3 : b < g => 100 * deltas[b] < s
    BY <1>3, <1>4, <2>1, HitIs
  <2>. QED
    BY <2>2, <2>3
<1>6. g <= h
  BY <1>2, <1>3, <1>5
<1>7. CASE g = h /\ h = 3
  <2>1. Quantile(deltas, p) = Scale * Lower(g) /\ Quantile(deltas, q) = Scale * Lower(h)
    BY <1>10, <1>7, QuantileIs
  <2>2. Lower(h) = 3
    BY <1>7, BoundsAre DEF Lower
  <2>. QED
    BY <1>2, <1>7, <2>1, <2>2
<1>8. CASE g = h /\ h # 3
  <2>1. PICK a, n, m, d : /\ a = Scale * (Bounds[h] - Lower(h))
                          /\ n = s - 100 * Below(deltas, h)
                          /\ m = t - 100 * Below(deltas, h)
                          /\ d = 100 * (deltas[h] - Below(deltas, h))
    OBVIOUS
  <2>2. deltas[h] - Below(deltas, h) \in Nat \ {0} /\ n \in Nat /\ m \in Nat /\ m <= d
    <3>1. /\ s - 100 * Below(deltas, h) \in Nat /\ t - 100 * Below(deltas, h) \in Nat
          /\ deltas[h] - Below(deltas, h) \in Nat \ {0}
          /\ t - 100 * Below(deltas, h) <= 100 * (deltas[h] - Below(deltas, h))
      BY <1>10, <1>8, QuantileIs
    <3>. QED
      BY <2>1, <3>1
  <2>3. Below(deltas, h) \in Nat
    BY <1>2, <1>5, <1>8 DEF Below
  <2>4. n <= m /\ d \in Nat \ {0}
    BY <1>3, <2>1, <2>2, <2>3
  <2>5. a \in Nat /\ Scale * Lower(h) \in Nat
    <3>1. CASE h = 1
      BY <1>2, <2>1, <3>1, BoundsAre DEF Lower
    <3>2. CASE h = 2
      BY <1>2, <2>1, <3>2, BoundsAre DEF Lower
    <3>. QED
      BY <1>5, <1>8, <3>1, <3>2
  <2>6. (a * n) \div d \in Nat /\ (a * n) \div d <= (a * m) \div d /\ (a * m) \div d \in Nat
    BY <2>2, <2>4, <2>5, InterpolationStays
  <2>7. /\ Interpolated(deltas, h, s) = (a * n) \div d
        /\ Interpolated(deltas, h, t) = (a * m) \div d
    BY <2>1 DEF Interpolated
  <2>8. /\ Quantile(deltas, p) = Scale * Lower(h) + (a * n) \div d
        /\ Quantile(deltas, q) = Scale * Lower(h) + (a * m) \div d
    <3>1. /\ Quantile(deltas, p) = Scale * Lower(h) + Interpolated(deltas, h, s)
          /\ Quantile(deltas, q) = Scale * Lower(h) + Interpolated(deltas, h, t)
      BY <1>10, <1>8, QuantileIs
    <3>. QED
      BY <2>7, <3>1
  <2>. QED
    BY <2>5, <2>6, <2>8
<1>9. CASE g < h
  <2>1. Upper(g) \in Nat /\ Lower(h) \in Nat /\ Upper(g) <= Lower(h)
    <3>1. CASE g = 1 /\ h = 2
      BY <3>1, BoundsAre DEF Lower, Upper
    <3>2. CASE g = 1 /\ h = 3
      BY <3>2, BoundsAre DEF Lower, Upper
    <3>3. CASE g = 2 /\ h = 3
      BY <3>3, BoundsAre DEF Lower, Upper
    <3>. QED
      BY <1>5, <1>9, <3>1, <3>2, <3>3
  <2>2. Scale * Upper(g) \in Int /\ Scale * Upper(g) <= Scale * Lower(h) /\ Scale * Lower(h) \in Int
    BY <1>2, <2>1, ProductGrows
  <2>3. /\ Quantile(deltas, p) \in Int /\ Quantile(deltas, p) <= Scale * Upper(g)
        /\ Quantile(deltas, q) \in Int /\ Quantile(deltas, q) >= Scale * Lower(h)
    BY <1>10, QuantileLocated
  <2>. QED
    BY <2>2, <2>3
<1>. QED
  BY <1>5, <1>6, <1>7, <1>8, <1>9

-----------------------------------------------------------------------------
(* What the counters count.                                                *)

\* The first n responses of a process, and those within a bucket.
Responses(rs, life, n) == {o \in Orders : rs[o].life = life /\ rs[o].counted \in 1 .. n}
Within(r, b) == b > Len(Bounds) \/ r.latency <= Bounds[Min({b, Len(Bounds)})]

\* The counters c of a process are the numbers of its responses.
Tally(rs, life, c) ==
    LET R == Responses(rs, life, c.post)
    IN  /\ c.post = Cardinality(R)
        /\ c.ok = Cardinality({o \in R : rs[o].status = 201})
        /\ c.err = Cardinality({o \in R : rs[o].status \in {500, 503}})
        /\ \A b \in Buckets : c.buckets[b] = Cardinality({o \in R : Within(rs[o], b)})

\* A request that is or has been answered has one of the route's answers.
Answers == {201, 422, 500, 503}
AnswersTyped ==
    \A o \in Orders :
        req[o].pc = "responding" \/ req[o].counted # 0 => req[o].status \in Answers

\* The counters of the running process, and those of every scrape.
CountersTally == Tally(req, svc.life, svc.cnt)
RowsTally(rows) ==
    \A i \in 1 .. Len(rows) :
        /\ Tally(req, rows[i].life, rows[i].snapshot)
        /\ rows[i].life <= svc.life
        /\ rows[i].life = svc.life => rows[i].snapshot.post <= svc.cnt.post
ScrapesTally == RowsTally(det.raw) /\ RowsTally(col.rows)
TallyInv == AnswersTyped /\ CountersTally /\ ScrapesTally

\* There are finitely many requests.
LEMMA OrdersFinite ==
  /\ IsFiniteSet(Orders) /\ Cardinality(Orders) = MaxOrders
  /\ \A S \in SUBSET Orders : /\ IsFiniteSet(S) /\ Cardinality(S) \in Nat
                              /\ Cardinality(S) <= MaxOrders
<1>1. MaxOrders \in Nat
  BY TelemetryAssumption
<1>2. IsFiniteSet(Orders) /\ Cardinality(Orders) = MaxOrders
  BY <1>1, FS_Interval DEF Orders
<1>3. ASSUME NEW S \in SUBSET Orders
      PROVE  IsFiniteSet(S) /\ Cardinality(S) \in Nat /\ Cardinality(S) <= MaxOrders
  BY <1>2, <1>3, FS_Subset, FS_CardinalityType
<1>. QED
  BY <1>2, <1>3

\* The tally is of the responses alone.
LEMMA SameTally ==
  ASSUME NEW rs, NEW rt, NEW life, NEW c,
         Responses(rs, life, c.post) = Responses(rt, life, c.post),
         \A o \in Responses(rs, life, c.post) :
            rs[o].status = rt[o].status /\ rs[o].latency = rt[o].latency,
         Tally(rs, life, c)
  PROVE  Tally(rt, life, c)
<1>. DEFINE R == Responses(rs, life, c.post)
<1>1. /\ {o \in R : rs[o].status = 201} = {o \in R : rt[o].status = 201}
      /\ {o \in R : rs[o].status \in {500, 503}} = {o \in R : rt[o].status \in {500, 503}}
  OBVIOUS
<1>2. ASSUME NEW b PROVE {o \in R : Within(rs[o], b)} = {o \in R : Within(rt[o], b)}
  <2>1. \A o \in R : Within(rs[o], b) <=> Within(rt[o], b)
    BY DEF Within
  <2>. HIDE DEF R
  <2>. QED
    BY <2>1
<1>3. R = Responses(rt, life, c.post)
  OBVIOUS
<1>. HIDE DEF R
<1>4. /\ c.post = Cardinality(R)
      /\ c.ok = Cardinality({o \in R : rs[o].status = 201})
      /\ c.err = Cardinality({o \in R : rs[o].status \in {500, 503}})
      /\ \A b \in Buckets : c.buckets[b] = Cardinality({o \in R : Within(rs[o], b)})
  BY DEF Tally, R
<1>5. /\ c.post = Cardinality(R)
      /\ c.ok = Cardinality({o \in R : rt[o].status = 201})
      /\ c.err = Cardinality({o \in R : rt[o].status \in {500, 503}})
      /\ \A b \in Buckets : c.buckets[b] = Cardinality({o \in R : Within(rt[o], b)})
  <2>1. /\ c.ok = Cardinality({o \in R : rt[o].status = 201})
        /\ c.err = Cardinality({o \in R : rt[o].status \in {500, 503}})
    BY <1>1, <1>4
  <2>2. ASSUME NEW b \in Buckets PROVE c.buckets[b] = Cardinality({o \in R : Within(rt[o], b)})
    <3>1. {o \in R : Within(rs[o], b)} = {o \in R : Within(rt[o], b)}
      BY <1>2
    <3>2. c.buckets[b] = Cardinality({o \in R : Within(rs[o], b)})
      BY <1>4
    <3>. QED
      BY <3>1, <3>2, Zenon
  <2>. QED
    BY <1>4, <2>1, <2>2
<1>. QED
  BY <1>3, <1>5 DEF Tally

\* One more member that has a property, or has not.
LEMMA CountOne ==
  ASSUME NEW R \in SUBSET Orders, NEW o \in Orders \ R, NEW S, NEW T,
         S \subseteq R, T = S \/ T = S \cup {o}
  PROVE  /\ T = S => Cardinality(T) = Cardinality(S)
         /\ T = S \cup {o} => Cardinality(T) = Cardinality(S) + 1
<1>1. IsFiniteSet(S) /\ o \notin S
  BY OrdersFinite
<1>. QED
  BY <1>1, FS_AddElement

\* A response more.
LEMMA TallyRespond ==
  ASSUME NEW rs, NEW rt, NEW life, NEW c, NEW d, NEW o \in Orders,
         c.post \in Nat, c.buckets \in [Buckets -> Nat], Tally(rs, life, c),
         Responses(rt, life, c.post + 1) = Responses(rs, life, c.post) \cup {o},
         o \notin Responses(rs, life, c.post),
         \A p \in Responses(rs, life, c.post) :
            rt[p].status = rs[p].status /\ rt[p].latency = rs[p].latency,
         d.post = c.post + 1,
         d.ok = c.ok + IF rt[o].status = 201 THEN 1 ELSE 0,
         NEW one, one = IF rt[o].status \in {500, 503} THEN 1 ELSE 0, d.err = c.err + one,
         d.buckets = Observe(c.buckets, rt[o].latency)
  PROVE  Tally(rt, life, d)
<1>1. PICK R, T : R = Responses(rs, life, c.post) /\ T = Responses(rt, life, d.post)
  OBVIOUS
<1>2. T = R \cup {o} /\ o \notin R /\ R \in SUBSET Orders
  BY <1>1 DEF Responses
<1>3. \A p \in R : rt[p].status = rs[p].status /\ rt[p].latency = rs[p].latency
  BY <1>1
<1>4. /\ c.post = Cardinality(R)
      /\ c.ok = Cardinality({p \in R : rs[p].status = 201})
      /\ c.err = Cardinality({p \in R : rs[p].status \in {500, 503}})
      /\ \A b \in Buckets : c.buckets[b] = Cardinality({p \in R : Within(rs[p], b)})
  BY <1>1 DEF Tally
<1>5. d.post = Cardinality(T)
  BY <1>2, <1>4, CountOne
<1>6. d.ok = Cardinality({p \in T : rt[p].status = 201})
  <2>. DEFINE A == {p \in R : rs[p].status = 201}
              B == {p \in T : rt[p].status = 201}
  <2>1. A \subseteq R /\ B = IF rt[o].status = 201 THEN A \cup {o} ELSE A
    BY <1>2, <1>3
  <2>2. c.ok = Cardinality(A)
    BY <1>4
  <2>3. Cardinality(A) \in Nat
    BY <1>2, <2>1, OrdersFinite
  <2>. HIDE DEF A, B
  <2>4. Cardinality(B) = Cardinality(A) + IF rt[o].status = 201 THEN 1 ELSE 0
    BY <1>2, <2>1, <2>3, CountOne
  <2>. QED
    BY <2>2, <2>4 DEF B
<1>7. d.err = Cardinality({p \in T : rt[p].status \in {500, 503}})
  <2>. DEFINE A == {p \in R : rs[p].status \in {500, 503}}
              B == {p \in T : rt[p].status \in {500, 503}}
  <2>1. A \subseteq R /\ B = IF rt[o].status \in {500, 503} THEN A \cup {o} ELSE A
    BY <1>2, <1>3
  <2>2. c.err = Cardinality(A)
    BY <1>4
  <2>3. Cardinality(A) \in Nat
    BY <1>2, <2>1, OrdersFinite
  <2>. HIDE DEF A, B
  <2>4. Cardinality(B) = Cardinality(A) + IF rt[o].status \in {500, 503} THEN 1 ELSE 0
    BY <1>2, <2>1, <2>3, CountOne
  <2>. QED
    BY <2>2, <2>4 DEF B
<1>8. ASSUME NEW b \in Buckets PROVE d.buckets[b] = Cardinality({p \in T : Within(rt[p], b)})
  <2>. DEFINE A == {p \in R : Within(rs[p], b)}
              B == {p \in T : Within(rt[p], b)}
  <2>1. \A p \in R : Within(rt[p], b) <=> Within(rs[p], b)
    BY <1>3 DEF Within
  <2>2. A \subseteq R /\ B = IF Within(rt[o], b) THEN A \cup {o} ELSE A
    BY <1>2, <2>1
  <2>3. c.buckets[b] = Cardinality(A)
    BY <1>4
  <2>4. Cardinality(A) \in Nat
    BY <1>2, <2>2, OrdersFinite
  <2>5. d.buckets[b] = c.buckets[b] + IF Within(rt[o], b) THEN 1 ELSE 0
    BY <2>3, <2>4 DEF Observe, Within
  <2>. HIDE DEF A, B
  <2>6. Cardinality(B) = Cardinality(A) + IF Within(rt[o], b) THEN 1 ELSE 0
    BY <1>2, <2>2, <2>4, CountOne
  <2>. QED
    BY <2>3, <2>5, <2>6 DEF B
<1>. QED
  BY <1>1, <1>5, <1>6, <1>7, <1>8 DEF Tally

\* The counters of responses.
CountsKept(c, d) == d.post = c.post /\ d.ok = c.ok /\ d.err = c.err /\ d.buckets = c.buckets

\* Only what has no answer yet may change its record.
HistoryKept ==
    \A p \in Orders :
        /\ req'[p].counted = req[p].counted
        /\ req[p].counted # 0 => /\ req'[p].life = req[p].life
                                 /\ req'[p].status = req[p].status
                                 /\ req'[p].latency = req[p].latency

\* A failed publish counts no response.
LEMMA PublishFailedCounts ==
  ASSUME NEW s, ServiceShape(s), NEW wait \in Nat
  PROVE  CountsKept(s.cnt, PublishFailed(s, wait).cnt)
<1>1. PICK c : c = [s.cnt EXCEPT !.pubfail = s.cnt.pubfail + 1]
  OBVIOUS
<1>2. PICK e : e = [c EXCEPT !.publat = c.publat + wait]
  OBVIOUS
<1>3. PublishFailed(s, wait).cnt = e
  BY <1>1, <1>2 DEF PublishFailed, ServiceShape
<1>4. c \in Snapshots /\ CountsKept(s.cnt, c)
  BY <1>1 DEF ServiceShape, Snapshots, CountsKept
<1>5. CountsKept(c, e)
  BY <1>2, <1>4 DEF Snapshots, CountsKept
<1>. QED
  BY <1>3, <1>4, <1>5 DEF CountsKept

\* A published order counts no response.
LEMMA PublishedCounts ==
  ASSUME ServiceTyped, NEW o \in Orders, Published(o)
  PROVE  CountsKept(svc.cnt, svc'.cnt)
<1>1. CASE svc' = PublishFailed(svc, 2)
  BY <1>1, PublishFailedCounts DEF ServiceTyped
<1>2. CASE svc' = [svc EXCEPT !.store = AddOrder(@, o), !.cnt.created = @ + 1,
                              !.cnt.pubok = @ + 1, !.cnt.publat = @ + 1]
  <2>1. PICK c : c = [svc.cnt EXCEPT !.created = svc.cnt.created + 1]
    OBVIOUS
  <2>2. PICK d : d = [c EXCEPT !.pubok = c.pubok + 1]
    OBVIOUS
  <2>3. PICK e : e = [d EXCEPT !.publat = d.publat + 1]
    OBVIOUS
  <2>4. svc'.cnt = e
    BY <1>2, <2>1, <2>2, <2>3 DEF ServiceTyped, ServiceShape
  <2>5. c \in Snapshots /\ CountsKept(svc.cnt, c)
    BY <2>1 DEF Snapshots, ServiceShape, ServiceTyped, CountsKept
  <2>6. d \in Snapshots /\ CountsKept(c, d)
    BY <2>2, <2>5 DEF Snapshots, CountsKept
  <2>7. CountsKept(d, e)
    BY <2>3, <2>6 DEF Snapshots, CountsKept
  <2>. QED
    BY <2>4, <2>5, <2>6, <2>7 DEF CountsKept
<1>. QED
  BY <1>1, <1>2 DEF Published

\* create_order up to its next await counts no response and gives a known answer.
LEMMA ProceedCounts ==
  ASSUME ServiceTyped, NEW o \in Orders, NEW r, RequestShape(r), Proceed(o, r)
  PROVE  /\ CountsKept(svc.cnt, svc'.cnt)
         /\ req'[o].pc = "responding" => req'[o].status \in Answers
         /\ \A p \in Orders : p # o => req'[p] = req[p]
<1>1. CountsKept(svc.cnt, svc'.cnt)
  <2>1. svc' = svc \/ svc' = PublishFailed(svc, 0)
    BY DEF Proceed
  <2>2. CASE svc' = svc
    BY <2>2 DEF CountsKept
  <2>3. CASE svc' = PublishFailed(svc, 0)
    BY <2>3, PublishFailedCounts DEF ServiceTyped
  <2>. QED
    BY <2>1, <2>2, <2>3
<1>2. PICK a, b, c : a = Answering(r, 500, 0) /\ b = Answering(r, 503, 0)
                     /\ c = [r EXCEPT !.pc = "publishing"]
  OBVIOUS
<1>3. a.status = 500 /\ b.status = 503 /\ c.pc = "publishing"
  BY <1>2 DEF Answering, RequestShape
<1>4. \E t \in {a, b, c} : req' = [req EXCEPT ![o] = t]
  BY <1>2 DEF Proceed
<1>5. PICK t \in {a, b, c} : req' = [req EXCEPT ![o] = t]
  BY <1>4
<1>6. t.pc = "responding" => t.status \in Answers
  BY <1>3 DEF Answers
<1>7. req'[o] = t /\ \A p \in Orders : p # o => req'[p] = req[p]
  BY <1>5 DEF ServiceTyped
<1>. QED
  BY <1>1, <1>6, <1>7

\* Steps of a request before its response.
LEMMA RequestCounts ==
  ASSUME ServiceTyped, AnswersTyped, RequestsCounted, NEW o \in Orders,
         Arrive(o) \/ Awake(o) \/ Published(o)
  PROVE  /\ svc'.life = svc.life /\ CountsKept(svc.cnt, svc'.cnt) /\ HistoryKept /\ AnswersTyped'
<1>1. /\ CountsKept(svc.cnt, svc'.cnt)
      /\ req'[o].pc = "responding" => req'[o].status \in Answers
      /\ \A p \in Orders : p # o => req'[p] = req[p]
  <2>1. CASE Arrive(o)
    <3>1. PICK r : r = [req[o] EXCEPT !.life = svc.life, !.latency = 1, !.sent = col.seg]
      OBVIOUS
    <3>2. RequestShape(r)
      BY <3>1 DEF ServiceTyped, RequestShape
    <3>3. \/ req' = [req EXCEPT ![o] = [r EXCEPT !.pc = "sleeping", !.latency = 4]] /\ UNCHANGED svc
          \/ req' = [req EXCEPT ![o] = Answering(r, 422, 0)] /\ UNCHANGED svc
          \/ Proceed(o, r)
      BY <2>1, <3>1 DEF Arrive
    <3>4. CASE req' = [req EXCEPT ![o] = [r EXCEPT !.pc = "sleeping", !.latency = 4]] /\ UNCHANGED svc
      <4>1. PICK t : t = [r EXCEPT !.pc = "sleeping", !.latency = 4]
        OBVIOUS
      <4>2. t.pc = "sleeping"
        BY <3>2, <4>1 DEF RequestShape
      <4>3. req'[o] = t /\ \A p \in Orders : p # o => req'[p] = req[p]
        BY <3>4, <4>1 DEF ServiceTyped
      <4>4. CountsKept(svc.cnt, svc'.cnt)
        BY <3>4 DEF CountsKept
      <4>. QED
        BY <4>2, <4>3, <4>4
    <3>5. CASE Proceed(o, r)
      BY <3>2, <3>5, ProceedCounts
    <3>6. CASE req' = [req EXCEPT ![o] = Answering(r, 422, 0)] /\ UNCHANGED svc
      <4>1. PICK t : t = Answering(r, 422, 0)
        OBVIOUS
      <4>2. t.status \in Answers
        BY <3>2, <4>1 DEF Answering, RequestShape, Answers
      <4>3. req'[o] = t /\ \A p \in Orders : p # o => req'[p] = req[p]
        BY <3>6, <4>1 DEF ServiceTyped
      <4>4. CountsKept(svc.cnt, svc'.cnt)
        BY <3>6 DEF CountsKept
      <4>. QED
        BY <4>2, <4>3, <4>4
    <3>. QED
      BY <3>3, <3>4, <3>5, <3>6
  <2>2. CASE Awake(o)
    BY <2>2, ProceedCounts DEF Awake, ServiceTyped
  <2>3. CASE Published(o)
    <3>1. PICK a, b : a = Answering(req[o], 201, 0) /\ b = Answering(req[o], 503, 1)
      OBVIOUS
    <3>2. a.status = 201 /\ b.status = 503
      BY <3>1 DEF Answering, ServiceTyped, RequestShape
    <3>3. \E t \in {a, b} : req' = [req EXCEPT ![o] = t]
      BY <2>3, <3>1 DEF Published, ServiceTyped
    <3>4. PICK t \in {a, b} : req' = [req EXCEPT ![o] = t]
      BY <3>3
    <3>5. req'[o] = t /\ \A p \in Orders : p # o => req'[p] = req[p]
      BY <3>4 DEF ServiceTyped
    <3>6. t.status \in Answers
      BY <3>2 DEF Answers
    <3>. QED
      BY <2>3, <3>5, <3>6, PublishedCounts
  <2>. QED
    BY <2>1, <2>2, <2>3
<1>2. Moved(o) \/ Arrived(o)
  <2>1. Moved(o) \/ Arrived(o) \/ Answered(o)
    BY RequestSteps DEF OrdersStep
  <2>2. svc'.cnt.post = svc.cnt.post /\ svc.cnt.post \in Nat
    BY <1>1 DEF CountsKept, ServiceTyped, ServiceShape, Snapshots
  <2>3. ~ Answered(o)
    BY <2>2 DEF Answered
  <2>. QED
    BY <2>1, <2>3
<1>3. svc'.life = svc.life /\ req'[o].counted = req[o].counted /\ req[o].pc \in {"new"} \cup Waiting
  BY <1>2 DEF Moved, Arrived, OneRequest
<1>4. req[o].counted = 0
  BY <1>3 DEF RequestsCounted
<1>5. HistoryKept
  BY <1>1, <1>3, <1>4 DEF HistoryKept
<1>6. AnswersTyped'
  BY <1>1, <1>3, <1>4 DEF AnswersTyped
<1>. QED
  BY <1>1, <1>3, <1>5, <1>6

\* A response.
LEMMA RespondCounts ==
  ASSUME ServiceTyped, AnswersTyped, NEW o \in Orders, Respond(o)
  PROVE  /\ AnswersTyped' /\ svc'.life = svc.life
         /\ svc'.cnt.post = svc.cnt.post + 1
         /\ svc'.cnt.ok = svc.cnt.ok + IF req'[o].status = 201 THEN 1 ELSE 0
         /\ svc'.cnt.err = svc.cnt.err + IF req'[o].status \in {500, 503} THEN 1 ELSE 0
         /\ svc'.cnt.buckets = Observe(svc.cnt.buckets, req'[o].latency)
         /\ req'[o].counted = svc.cnt.post + 1 /\ req'[o].life = req[o].life
         /\ req[o].pc = "responding" /\ \A p \in Orders : p # o => req'[p] = req[p]
<1>1. req[o].pc = "responding" /\ req[o].status \in Answers
  BY DEF Respond, AnswersTyped
<1>2. /\ StatusClass(req[o].status) = 2 <=> req[o].status = 201
      /\ StatusClass(req[o].status) = 5 <=> req[o].status \in {500, 503}
  <2>1. 201 \div 100 = 2 /\ 422 \div 100 = 4 /\ 500 \div 100 = 5 /\ 503 \div 100 = 5
    OBVIOUS
  <2>. QED
    BY <1>1, <2>1 DEF StatusClass, Answers
<1>3. PICK t : t = [req[o] EXCEPT !.pc = "done", !.counted = svc.cnt.post + 1]
  OBVIOUS
<1>4. req'[o] = t /\ \A p \in Orders : p # o => req'[p] = req[p]
  BY <1>3 DEF Respond, ServiceTyped, RequestShape
<1>5. /\ t.status = req[o].status /\ t.latency = req[o].latency /\ t.life = req[o].life
      /\ t.counted = svc.cnt.post + 1 /\ t.pc = "done"
  BY <1>3 DEF ServiceTyped, RequestShape
<1>6. PICK c1 : c1 = [svc.cnt EXCEPT !.post = svc.cnt.post + 1]
  OBVIOUS
<1>7. PICK c2 : c2 = [c1 EXCEPT !.latency = c1.latency + req[o].latency]
  OBVIOUS
<1>8. PICK c3 : c3 = [c2 EXCEPT !.ok = c2.ok + IF StatusClass(req[o].status) = 2 THEN 1 ELSE 0]
  OBVIOUS
<1>9. PICK c3r : c3r = [c3 EXCEPT !.refused = c3.refused
                                    + IF StatusClass(req[o].status) = 4 THEN 1 ELSE 0]
  OBVIOUS
<1>10. PICK c4 : c4 = [c3r EXCEPT !.err = c3r.err + IF StatusClass(req[o].status) = 5 THEN 1 ELSE 0]
  OBVIOUS
<1>11. PICK c5 : c5 = [c4 EXCEPT !.buckets = Observe(c4.buckets, req[o].latency)]
  OBVIOUS
<1>12. svc'.life = svc.life /\ svc'.cnt = c5
  BY <1>6, <1>7, <1>8, <1>9, <1>10, <1>11 DEF Respond, ServiceTyped, ServiceShape
<1>13. /\ c1 \in Snapshots /\ c1.post = svc.cnt.post + 1 /\ c1.ok = svc.cnt.ok
       /\ c1.err = svc.cnt.err /\ c1.buckets = svc.cnt.buckets
  BY <1>6 DEF ServiceTyped, ServiceShape, Snapshots
<1>14. c2 \in Snapshots /\ CountsKept(c1, c2)
  BY <1>7, <1>13 DEF ServiceTyped, RequestShape, Snapshots, CountsKept
<1>15. /\ c3 \in Snapshots /\ c3.post = c2.post /\ c3.err = c2.err /\ c3.buckets = c2.buckets
       /\ c3.ok = c2.ok + IF req[o].status = 201 THEN 1 ELSE 0
  BY <1>2, <1>8, <1>14 DEF Snapshots
<1>16. c3r \in Snapshots /\ CountsKept(c3, c3r)
  BY <1>9, <1>15 DEF Snapshots, CountsKept
<1>17. /\ c4 \in Snapshots /\ c4.post = c3r.post /\ c4.ok = c3r.ok /\ c4.buckets = c3r.buckets
       /\ c4.err = c3r.err + IF req[o].status \in {500, 503} THEN 1 ELSE 0
  BY <1>2, <1>10, <1>16 DEF Snapshots
<1>18. /\ c5.post = c4.post /\ c5.ok = c4.ok /\ c5.err = c4.err
       /\ c5.buckets = Observe(c4.buckets, req[o].latency)
  BY <1>11, <1>17 DEF Snapshots
<1>19. AnswersTyped'
  BY <1>1, <1>4, <1>5 DEF AnswersTyped
<1>. QED
  BY <1>1, <1>4, <1>5, <1>12, <1>13, <1>14, <1>15, <1>16, <1>17, <1>18, <1>19 DEF CountsKept

\* A tally stays while the records of what was counted do.
LEMMA TallyKept ==
  ASSUME HistoryKept, NEW life, NEW c, c.post \in Nat, Tally(req, life, c)
  PROVE  Tally(req', life, c)
<1>1. \A o \in Orders : o \in Responses(req, life, c.post) <=> o \in Responses(req', life, c.post)
  <2>. SUFFICES ASSUME NEW o \in Orders
                PROVE  (req[o].life = life /\ req[o].counted \in 1 .. c.post)
                          <=> (req'[o].life = life /\ req'[o].counted \in 1 .. c.post)
    BY DEF Responses
  <2>1. /\ req'[o].counted = req[o].counted
        /\ req[o].counted # 0 => req'[o].life = req[o].life
    BY DEF HistoryKept
  <2>2. 0 \notin 1 .. c.post
    OBVIOUS
  <2>. QED
    BY <2>1, <2>2
<1>2. Responses(req, life, c.post) = Responses(req', life, c.post)
  BY <1>1 DEF Responses
<1>3. \A o \in Responses(req, life, c.post) :
         req[o].status = req'[o].status /\ req[o].latency = req'[o].latency
  <2>. SUFFICES ASSUME NEW o \in Orders, req[o].counted \in 1 .. c.post
                PROVE  req[o].status = req'[o].status /\ req[o].latency = req'[o].latency
    BY DEF Responses
  <2>1. req[o].counted # 0
    OBVIOUS
  <2>. QED
    BY <2>1 DEF HistoryKept
<1>. QED
  BY <1>2, <1>3, SameTally

\* A tally is of four counters.
LEMMA TallyOfCounts ==
  ASSUME NEW rs, NEW life, NEW c, NEW d, CountsKept(c, d), Tally(rs, life, c)
  PROVE  Tally(rs, life, d)
  BY DEF Tally, CountsKept

\* A process that has just started has counted nothing.
LEMMA TallyEmpty ==
  ASSUME NEW rs, NEW life, NEW c, c.post = 0, c.ok = 0, c.err = 0,
         \A b \in Buckets : c.buckets[b] = 0
  PROVE  Tally(rs, life, c)
<1>1. Responses(rs, life, c.post) = {}
  BY DEF Responses
<1>2. PICK R : R = Responses(rs, life, c.post)
  OBVIOUS
<1>3. /\ {o \in R : rs[o].status = 201} = {} /\ {o \in R : rs[o].status \in {500, 503}} = {}
      /\ \A b : {o \in R : Within(rs[o], b)} = {}
  BY <1>1, <1>2
<1>4. Cardinality({}) = 0
  BY FS_EmptySet
<1>5. /\ c.post = Cardinality(R)
      /\ c.ok = Cardinality({o \in R : rs[o].status = 201})
      /\ c.err = Cardinality({o \in R : rs[o].status \in {500, 503}})
      /\ \A b \in Buckets : c.buckets[b] = Cardinality({o \in R : Within(rs[o], b)})
  BY <1>1, <1>2, <1>3, <1>4
<1>. QED
  BY <1>2, <1>5 DEF Tally

\* The rows of a program that watches.
AreScrapes(R) == \A r \in R : r.life \in Nat /\ r.snapshot \in Snapshots

\* What happens to the counters, except when a response is counted.
Quiet ==
    /\ HistoryKept
    /\ \/ svc'.life = svc.life /\ CountsKept(svc.cnt, svc'.cnt)
       \/ svc'.life = svc.life + 1 /\ svc'.cnt = EmptySnapshot

\* Rows that stay keep their tallies.
LEMMA RowsQuiet ==
  ASSUME ServiceTyped, Quiet, NEW R, AreScrapes(R), NEW rows \in Seq(R), RowsTally(rows)
  PROVE  RowsTally(rows)'
<1>1. svc.cnt.post \in Nat /\ svc.life \in Nat
  BY DEF ServiceTyped, ServiceShape, Snapshots
<1>. SUFFICES ASSUME NEW i \in 1 .. Len(rows)
              PROVE  /\ Tally(req', rows[i].life, rows[i].snapshot)
                     /\ rows[i].life <= svc'.life
                     /\ rows[i].life = svc'.life => rows[i].snapshot.post <= svc'.cnt.post
  BY DEF RowsTally
<1>2. PICK row : row = rows[i]
  OBVIOUS
<1>3. row.life \in Nat /\ row.snapshot.post \in Nat
  <2>1. row \in R
    BY <1>2, ElementOfSeq
  <2>. QED
    BY <2>1 DEF AreScrapes, Snapshots
<1>4. /\ Tally(req, row.life, row.snapshot) /\ row.life <= svc.life
      /\ row.life = svc.life => row.snapshot.post <= svc.cnt.post
  BY <1>2 DEF RowsTally
<1>5. Tally(req', row.life, row.snapshot)
  BY <1>3, <1>4, TallyKept DEF Quiet
<1>6. /\ row.life <= svc'.life
      /\ row.life = svc'.life => row.snapshot.post <= svc'.cnt.post
  BY <1>1, <1>3, <1>4 DEF Quiet, CountsKept
<1>. QED
  BY <1>2, <1>5, <1>6

\* So do those of the running process.
LEMMA CountersQuiet ==
  ASSUME ServiceTyped, Quiet, CountersTally
  PROVE  CountersTally'
<1>1. svc.cnt.post \in Nat
  BY DEF ServiceTyped, ServiceShape, Snapshots
<1>2. CASE svc'.life = svc.life /\ CountsKept(svc.cnt, svc'.cnt)
  <2>1. Tally(req', svc.life, svc.cnt)
    BY <1>1, TallyKept DEF Quiet, CountersTally
  <2>2. Tally(req', svc.life, svc'.cnt)
    BY <1>2, <2>1, TallyOfCounts
  <2>. QED
    BY <1>2, <2>2 DEF CountersTally
<1>3. CASE svc'.cnt = EmptySnapshot
  <2>1. /\ svc'.cnt.post = 0 /\ svc'.cnt.ok = 0 /\ svc'.cnt.err = 0
        /\ \A b \in Buckets : svc'.cnt.buckets[b] = 0
    BY <1>3 DEF EmptySnapshot
  <2>2. Tally(req', svc'.life, svc'.cnt)
    BY <2>1, TallyEmpty
  <2>. QED
    BY <2>2 DEF CountersTally
<1>. QED
  BY <1>2, <1>3 DEF Quiet

\* A response is not one of an earlier scrape.
LEMMA RowsAnswer ==
  ASSUME ServiceTyped, AnswersTyped, RequestsCounted, NEW o \in Orders, Respond(o),
         NEW R, AreScrapes(R), NEW rows \in Seq(R), RowsTally(rows)
  PROVE  RowsTally(rows)'
<1>1. /\ svc'.life = svc.life /\ svc'.cnt.post = svc.cnt.post + 1
      /\ req'[o].counted = svc.cnt.post + 1 /\ req'[o].life = req[o].life
      /\ req[o].pc = "responding" /\ \A p \in Orders : p # o => req'[p] = req[p]
  BY RespondCounts
<1>2. svc.cnt.post \in Nat /\ svc.life \in Nat
  BY DEF ServiceTyped, ServiceShape, Snapshots
<1>3. req[o].counted = 0 /\ req[o].life = svc.life
  BY <1>1 DEF RequestsCounted, Waiting
<1>. SUFFICES ASSUME NEW i \in 1 .. Len(rows)
              PROVE  /\ Tally(req', rows[i].life, rows[i].snapshot)
                     /\ rows[i].life <= svc'.life
                     /\ rows[i].life = svc'.life => rows[i].snapshot.post <= svc'.cnt.post
  BY DEF RowsTally
<1>4. PICK row : row = rows[i]
  OBVIOUS
<1>5. row.life \in Nat /\ row.snapshot.post \in Nat
  <2>1. row \in R
    BY <1>4, ElementOfSeq
  <2>. QED
    BY <2>1 DEF AreScrapes, Snapshots
<1>6. /\ Tally(req, row.life, row.snapshot) /\ row.life <= svc.life
      /\ row.life = svc.life => row.snapshot.post <= svc.cnt.post
  BY <1>4 DEF RowsTally
<1>7. o \notin Responses(req, row.life, row.snapshot.post)
  BY <1>3, <1>5 DEF Responses
<1>8. o \notin Responses(req', row.life, row.snapshot.post)
  <2>1. row.life = svc.life => svc.cnt.post + 1 \notin 1 .. row.snapshot.post
    BY <1>2, <1>5, <1>6
  <2>. QED
    BY <1>1, <1>3, <2>1 DEF Responses
<1>9. Responses(req, row.life, row.snapshot.post) = Responses(req', row.life, row.snapshot.post)
  <2>1. \A p \in Orders : p # o => req'[p] = req[p]
    BY <1>1
  <2>. QED
    BY <1>7, <1>8, <2>1 DEF Responses
<1>10. \A p \in Responses(req, row.life, row.snapshot.post) :
          req[p].status = req'[p].status /\ req[p].latency = req'[p].latency
  BY <1>1, <1>7 DEF Responses
<1>11. Tally(req', row.life, row.snapshot)
  BY <1>6, <1>9, <1>10, SameTally
<1>. QED
  BY <1>1, <1>2, <1>4, <1>5, <1>6, <1>11

\* It is one more of the running process.
LEMMA CountersAnswer ==
  ASSUME ServiceTyped, AnswersTyped, RequestsCounted, NEW o \in Orders, Respond(o), CountersTally
  PROVE  CountersTally'
<1>1. /\ svc'.life = svc.life
      /\ svc'.cnt.post = svc.cnt.post + 1
      /\ svc'.cnt.ok = svc.cnt.ok + IF req'[o].status = 201 THEN 1 ELSE 0
      /\ svc'.cnt.err = svc.cnt.err + IF req'[o].status \in {500, 503} THEN 1 ELSE 0
      /\ svc'.cnt.buckets = Observe(svc.cnt.buckets, req'[o].latency)
      /\ req'[o].counted = svc.cnt.post + 1 /\ req'[o].life = req[o].life
      /\ req[o].pc = "responding" /\ \A p \in Orders : p # o => req'[p] = req[p]
  BY RespondCounts
<1>2. svc.cnt.post \in Nat /\ svc.cnt.buckets \in [Buckets -> Nat] /\ svc.life \in Nat
  BY DEF ServiceTyped, ServiceShape, Snapshots
<1>3. req[o].counted = 0 /\ req[o].life = svc.life
  BY <1>1 DEF RequestsCounted, Waiting
<1>4. \A p \in Orders : req[p].life = svc.life =>
         req[p].counted \in Nat /\ req[p].counted <= svc.cnt.post
  BY DEF RequestsCounted
<1>5. Responses(req', svc.life, svc.cnt.post + 1) = Responses(req, svc.life, svc.cnt.post) \cup {o}
  <2>1. ASSUME NEW p \in Orders
        PROVE  (req'[p].life = svc.life /\ req'[p].counted \in 1 .. svc.cnt.post + 1)
                  <=> (p = o \/ (req[p].life = svc.life /\ req[p].counted \in 1 .. svc.cnt.post))
    <3>1. CASE p = o
      BY <1>1, <1>2, <1>3, <3>1
    <3>2. CASE p # o
      <4>1. req'[p] = req[p]
        BY <1>1, <3>2
      <4>2. req[p].life = svc.life => (req[p].counted \in 1 .. svc.cnt.post + 1
                                         <=> req[p].counted \in 1 .. svc.cnt.post)
        BY <1>2, <1>4
      <4>. QED
        BY <3>2, <4>1, <4>2
    <3>. QED
      BY <3>1, <3>2
  <2>. QED
    BY <2>1 DEF Responses
<1>6. o \notin Responses(req, svc.life, svc.cnt.post)
  BY <1>2, <1>3 DEF Responses
<1>7. \A p \in Responses(req, svc.life, svc.cnt.post) :
         req'[p].status = req[p].status /\ req'[p].latency = req[p].latency
  BY <1>1, <1>6 DEF Responses
<1>8. Tally(req, svc.life, svc.cnt)
  BY DEF CountersTally
<1>9. Tally(req', svc.life, svc'.cnt)
  <2>1. PICK rt, c, d, life : rt = req' /\ c = svc.cnt /\ d = svc'.cnt /\ life = svc.life
    OBVIOUS
  <2>2. /\ c.post \in Nat /\ c.buckets \in [Buckets -> Nat] /\ Tally(req, life, c)
        /\ Responses(rt, life, c.post + 1) = Responses(req, life, c.post) \cup {o}
        /\ o \notin Responses(req, life, c.post)
        /\ \A p \in Responses(req, life, c.post) :
              rt[p].status = req[p].status /\ rt[p].latency = req[p].latency
    BY <1>2, <1>5, <1>6, <1>7, <1>8, <2>1, Zenon
  <2>3. /\ d.post = c.post + 1
        /\ d.ok = c.ok + IF rt[o].status = 201 THEN 1 ELSE 0
        /\ d.buckets = Observe(c.buckets, rt[o].latency)
    BY <1>1, <2>1
  <2>4. PICK one : one = (IF rt[o].status \in {500, 503} THEN 1 ELSE 0) /\ d.err = c.err + one
    BY <1>1, <2>1
  <2>5. Tally(rt, life, d)
    BY <2>2, <2>3, <2>4, TallyRespond
  <2>. QED
    BY <2>1, <2>5
<1>. QED
  BY <1>1, <1>9 DEF CountersTally

\* Every step that leaves the rows keeps them: responses, and all else.
LEMMA TallyRows ==
  ASSUME ServiceTyped, DetectorTyped, CollectorTyped, RequestsCounted, TallyInv,
         AnswersTyped', det'.raw = det.raw, col'.rows = col.rows,
         Quiet \/ \E o \in Orders : Respond(o)
  PROVE  TallyInv'
<1>1. AreScrapes(Rows) /\ AreScrapes(CollectRows)
  BY DEF AreScrapes, Rows, CollectRows
<1>2. PICK raw \in Seq(Rows), rows \in Seq(CollectRows) : raw = det.raw /\ rows = col.rows
  BY DEF DetectorTyped, CollectorTyped
<1>3. RowsTally(raw) /\ RowsTally(rows) /\ CountersTally /\ AnswersTyped
  BY <1>2 DEF TallyInv, ScrapesTally
<1>4. RowsTally(raw)' /\ RowsTally(rows)' /\ CountersTally'
  <2>1. CASE Quiet
    BY <1>1, <1>3, <2>1, RowsQuiet, CountersQuiet
  <2>2. CASE \E o \in Orders : Respond(o)
    <3>1. PICK o \in Orders : Respond(o)
      BY <2>2
    <3>. QED
      BY <1>1, <1>3, <3>1, RowsAnswer, CountersAnswer
  <2>. QED
    BY <2>1, <2>2
<1>5. raw = det'.raw /\ rows = col'.rows
  BY <1>2
<1>. QED
  BY <1>4, <1>5 DEF TallyInv, ScrapesTally

\* A scrape takes the tally of the running process.
LEMMA RowsScrape ==
  ASSUME ServiceTyped, CountersTally, UNCHANGED <<svc, req>>,
         NEW R, NEW rows \in Seq(R), RowsTally(rows),
         NEW row \in R, row.snapshot = svc.cnt, row.life = svc.life
  PROVE  RowsTally(Append(rows, row))'
<1>1. PICK n \in Nat : n = Len(rows)
  BY LenProperties
<1>2. PICK longer : longer = Append(rows, row)
  OBVIOUS
<1>3. Len(longer) = n + 1 /\ longer[n + 1] = row /\ \A i \in 1 .. n : longer[i] = rows[i]
  BY <1>1, <1>2, AppendProperties
<1>4. svc.cnt.post \in Nat /\ svc.life \in Nat
  BY DEF ServiceTyped, ServiceShape, Snapshots
<1>5. ASSUME NEW i \in 1 .. n + 1
      PROVE  /\ Tally(req, longer[i].life, longer[i].snapshot)
             /\ longer[i].life <= svc.life
             /\ longer[i].life = svc.life => longer[i].snapshot.post <= svc.cnt.post
  <2>1. CASE i = n + 1
    BY <1>3, <1>4, <2>1 DEF CountersTally
  <2>2. CASE i \in 1 .. n
    <3>1. longer[i] = rows[i]
      BY <1>3, <2>2
    <3>2. /\ Tally(req, rows[i].life, rows[i].snapshot)
          /\ rows[i].life <= svc.life
          /\ rows[i].life = svc.life => rows[i].snapshot.post <= svc.cnt.post
      BY <1>1, <2>2 DEF RowsTally
    <3>. QED
      BY <3>1, <3>2
  <2>. QED
    BY <2>1, <2>2
<1>6. RowsTally(longer)'
  BY <1>3, <1>5 DEF RowsTally
<1>. QED
  BY <1>2, <1>6

\* Every step keeps the tallies.
LEMMA TallyStep ==
  /\ ServiceTyped /\ DetectorTyped /\ Remembers /\ CollectorTyped /\ RequestsCounted /\ TallyInv
  /\ [Next]_vars
  => TallyInv'
<1>. SUFFICES ASSUME ServiceTyped, DetectorTyped, Remembers, CollectorTyped, RequestsCounted,
                     TallyInv, [Next]_vars
              PROVE  TallyInv'
  OBVIOUS
<1>1. ASSUME NEW o \in Orders, Arrive(o) \/ OrdersStep(o) PROVE TallyInv'
  <2>1. det' = det /\ col' = col
    BY <1>1 DEF Arrive, OrdersStep, Awake, Published, Respond
  <2>2. CASE Respond(o)
    BY <2>1, <2>2, RespondCounts, TallyRows DEF TallyInv
  <2>3. CASE Arrive(o) \/ Awake(o) \/ Published(o)
    BY <2>1, <2>3, RequestCounts, TallyRows DEF TallyInv, Quiet
  <2>. QED
    BY <1>1, <2>2, <2>3 DEF OrdersStep
<1>2. CASE RestartService
  <2>1. svc'.life = svc.life + 1 /\ svc'.cnt = EmptySnapshot /\ det' = det /\ col' = col
    BY <1>2 DEF RestartService, FreshService
  <2>2. ASSUME NEW p \in Orders
        PROVE  /\ req'[p].counted = req[p].counted /\ req'[p].life = req[p].life
               /\ req'[p].status = req[p].status /\ req'[p].latency = req[p].latency
               /\ req'[p].pc = req[p].pc \/ req'[p].pc = "lost"
    <3>1. req'[p] = IF p \in Inflight THEN [req[p] EXCEPT !.pc = "lost"] ELSE req[p]
      BY <1>2 DEF RestartService
    <3>2. RequestShape(req[p])
      BY DEF ServiceTyped
    <3>. QED
      BY <3>1, <3>2 DEF RequestShape
  <2>3. HistoryKept
    BY <2>2 DEF HistoryKept
  <2>4. AnswersTyped'
    BY <2>2 DEF TallyInv, AnswersTyped
  <2>. QED
    BY <2>1, <2>3, <2>4, TallyRows DEF Quiet
<1>3. CASE \/ PutSimulation \/ StartSegment \/ CollectorFails \/ Drain
           \/ StartDetector \/ ScrapeFails \/ StopDetector \/ DetectorStep \/ UNCHANGED vars
  <2>1. svc'.life = svc.life /\ svc'.cnt = svc.cnt /\ req' = req
    BY <1>3 DEF PutSimulation, StartSegment, CollectorFails, Drain, StartDetector, ScrapeFails,
                StopDetector, DetectorStep, PublishReturns, LoopEnds, vars, ServiceTyped, ServiceShape
  <2>2. Quiet /\ AnswersTyped'
    BY <2>1 DEF Quiet, CountsKept, HistoryKept, TallyInv, AnswersTyped
  <2>3. col'.rows = col.rows
    BY <1>3 DEF PutSimulation, StartSegment, CollectorFails, Drain, StartDetector, ScrapeFails,
                StopDetector, DetectorStep, PublishReturns, LoopEnds, vars, CollectorTyped
  <2>4. CASE det'.raw = det.raw
    BY <2>2, <2>3, <2>4, TallyRows
  <2>5. CASE det' = Gone /\ svc' = svc
    <3>1. Len(det'.raw) = 0
      BY <2>5, GoneIs
    <3>2. RowsTally(det.raw)'
      BY <3>1 DEF RowsTally
    <3>3. RowsTally(col.rows)'
      BY <2>1, <2>3, <2>5 DEF TallyInv, ScrapesTally, RowsTally
    <3>4. CountersTally'
      BY <2>1, <2>5 DEF TallyInv, CountersTally
    <3>. QED
      BY <2>2, <3>2, <3>3, <3>4 DEF TallyInv, ScrapesTally
  <2>6. \/ det'.raw = det.raw
        \/ det' = Gone /\ svc' = svc
    <3>1. CASE StartDetector \/ ScrapeFails \/ StopDetector \/ DetectorStep
      <4>1. svc' = svc
        BY <3>1 DEF StartDetector, ScrapeFails, StopDetector, DetectorStep, PublishReturns, LoopEnds
      <4>. QED
        BY <3>1, <4>1, DetectorOther DEF DetectorStep
    <3>2. CASE PutSimulation \/ StartSegment \/ CollectorFails \/ Drain \/ UNCHANGED vars
      BY <3>2 DEF PutSimulation, StartSegment, CollectorFails, Drain, vars
    <3>. QED
      BY <1>3, <3>1, <3>2
  <2>. QED
    BY <2>4, <2>5, <2>6
<1>4. CASE Tick
  <2>1. TickAlways /\ ScrapedRow \in Rows /\ UNCHANGED <<svc, req, col>>
    BY <1>4, TickIs, ClosedType DEF Tick
  <2>2. PICK row \in Rows : row = ScrapedRow
    BY <2>1
  <2>3. row.snapshot = svc.cnt /\ row.life = svc.life
    BY <2>2 DEF ScrapedRow
  <2>4. PICK raw \in Seq(Rows) : raw = det.raw
    BY DEF DetectorTyped
  <2>5. RowsTally(raw) /\ CountersTally
    BY <2>4 DEF TallyInv, ScrapesTally
  <2>6. RowsTally(Append(raw, row))'
    BY <2>1, <2>3, <2>5, RowsScrape
  <2>7. det'.raw = Append(raw, row)
    BY <2>1, <2>2, <2>4 DEF TickAlways
  <2>8. RowsTally(det.raw)'
    BY <2>6, <2>7
  <2>9. RowsTally(col.rows)' /\ CountersTally' /\ AnswersTyped'
    BY <2>1 DEF TallyInv, ScrapesTally, RowsTally, CountersTally, AnswersTyped
  <2>. QED
    BY <2>8, <2>9 DEF TallyInv, ScrapesTally
<1>5. CASE CollectScrape
  <2>1. PICK row \in CollectRows :
             /\ row.snapshot = svc.cnt /\ row.life = svc.life
             /\ col'.rows = Append(col.rows, row) /\ UNCHANGED <<svc, req>>
    BY <1>5, CollectIs
  <2>2. PICK rows \in Seq(CollectRows) : rows = col.rows
    BY DEF CollectorTyped
  <2>3. RowsTally(rows) /\ CountersTally
    BY <2>2 DEF TallyInv, ScrapesTally
  <2>4. RowsTally(Append(rows, row))'
    BY <2>1, <2>3, RowsScrape
  <2>5. RowsTally(col.rows)'
    BY <2>1, <2>2, <2>4
  <2>6. RowsTally(det.raw)' /\ CountersTally' /\ AnswersTyped'
    BY <1>5, <2>1 DEF CollectScrape, TallyInv, ScrapesTally, RowsTally, CountersTally, AnswersTyped
  <2>. QED
    BY <2>5, <2>6 DEF TallyInv, ScrapesTally
<1>. QED
  BY <1>1, <1>2, <1>3, <1>4, <1>5 DEF Next, CollectorStep

\* It starts with them.
LEMMA TallyInit == Init => TallyInv
<1>. SUFFICES ASSUME Init PROVE TallyInv
  OBVIOUS
<1>1. AnswersTyped
  BY DEF Init, NewRequest, AnswersTyped
<1>2. CountersTally
  <2>1. svc.cnt = EmptySnapshot
    BY DEF Init, FreshService
  <2>2. /\ svc.cnt.post = 0 /\ svc.cnt.ok = 0 /\ svc.cnt.err = 0
        /\ \A b \in Buckets : svc.cnt.buckets[b] = 0
    BY <2>1 DEF EmptySnapshot
  <2>. QED
    BY <2>2, TallyEmpty DEF CountersTally
<1>3. ScrapesTally
  <2>1. det.raw = <<>> /\ col.rows = <<>>
    BY DEF Init, FreshDetector
  <2>2. Len(det.raw) = 0 /\ Len(col.rows) = 0
    BY <2>1
  <2>. QED
    BY <2>2 DEF ScrapesTally, RowsTally
<1>. QED
  BY <1>1, <1>2, <1>3 DEF TallyInv

-----------------------------------------------------------------------------
(* One window and the traffic between its scrapes.                         *)

\* Two scrapes that close a window, and its signals.
Signalled(prev, cur, dt, signals) ==
    LET d(f) == cur[f] - prev[f]
        attempts == d("pubok") + d("pubfail")
    IN  /\ dt > 0 /\ \A f \in Cumulative : d(f) >= 0
        /\ signals.request_rate = (Scale * d("post")) \div dt
        /\ signals.error_rate = (Scale * d("err")) \div OrOne(d("post"))
        /\ signals.success_rate = (Scale * d("ok")) \div OrOne(d("post"))
        /\ signals.publish_error_rate = (Scale * d("pubfail")) \div OrOne(attempts)
        /\ \A q \in Quantiles : signals.latency_quantile[q] = Quantile(Deltas(prev, cur), q)

\* window_signals: time has passed and no counter went back.
LEMMA SignalsAre ==
  ASSUME NEW prev \in Snapshots, NEW cur \in Snapshots, NEW dt \in Int,
         WindowSignals(prev, cur, dt) # None
  PROVE  Signalled(prev, cur, dt, WindowSignals(prev, cur, dt))
<1>1. ~ (dt <= 0 \/ \E f \in Cumulative : cur[f] - prev[f] < 0)
  BY Zenon DEF WindowSignals
<1>2. dt > 0 /\ \A f \in Cumulative : cur[f] - prev[f] >= 0
  <2>1. \A f \in Cumulative : cur[f] \in Nat /\ prev[f] \in Nat
    BY DEF Snapshots, Cumulative
  <2>. QED
    BY <1>1, <2>1
<1>3. PICK a, b, c, d, e, g, h, i :
        /\ a = (Scale * (cur["post"] - prev["post"])) \div dt
        /\ b = (Scale * (cur["err"] - prev["err"])) \div OrOne(cur["post"] - prev["post"])
        /\ c = (Scale * (cur["ok"] - prev["ok"])) \div OrOne(cur["post"] - prev["post"])
        /\ d = (Scale * (cur["pubfail"] - prev["pubfail"]))
                  \div OrOne((cur["pubok"] - prev["pubok"]) + (cur["pubfail"] - prev["pubfail"]))
        /\ e = (Scale * (cur["latency"] - prev["latency"])) \div OrOne(cur["post"] - prev["post"])
        /\ g = (Scale * ((cur["pubok"] - prev["pubok"]) + (cur["pubfail"] - prev["pubfail"]))) \div dt
        /\ h = (Scale * (cur["publat"] - prev["publat"]))
                  \div OrOne((cur["pubok"] - prev["pubok"]) + (cur["pubfail"] - prev["pubfail"]))
        /\ i = (Scale * (cur["created"] - prev["created"])) \div dt
  OBVIOUS
<1>4. WindowSignals(prev, cur, dt)
        = [request_rate |-> a, error_rate |-> b, success_rate |-> c, latency_mean |-> e,
           latency_quantile |-> [q \in Quantiles |-> Quantile(Deltas(prev, cur), q)],
           publish_rate |-> g, publish_error_rate |-> d, publish_latency_mean |-> h,
           created_rate |-> i]
  BY <1>1, <1>3, Zenon DEF WindowSignals
<1>5. PICK s : s = WindowSignals(prev, cur, dt)
  OBVIOUS
<1>6. /\ s.request_rate = a /\ s.error_rate = b /\ s.success_rate = c /\ s.publish_error_rate = d
      /\ s.latency_quantile = [q \in Quantiles |-> Quantile(Deltas(prev, cur), q)]
  BY <1>4, <1>5
<1>7. \A q \in Quantiles : s.latency_quantile[q] = Quantile(Deltas(prev, cur), q)
  BY <1>6, Zenon
<1>. QED
  BY <1>2, <1>3, <1>5, <1>6, <1>7, Zenon DEF Signalled

\* The requests that leave a set when its subset does.
LEMMA CountRest ==
  ASSUME NEW A, NEW B, A \subseteq B, B \subseteq Orders, NEW C, C = B \ A
  PROVE  Cardinality(C) = Cardinality(B) - Cardinality(A)
<1>1. IsFiniteSet(B) /\ B \cap A = A
  BY OrdersFinite
<1>. QED
  BY <1>1, FS_Difference

\* What two tallies of one process differ by is what was counted between them.
Between(p, q) ==
    LET C == CountedBetween(p, q)
    IN  /\ q.snapshot.post - p.snapshot.post = Cardinality(C)
        /\ q.snapshot.ok - p.snapshot.ok = Cardinality({o \in C : req[o].status = 201})
        /\ q.snapshot.err - p.snapshot.err = Cardinality({o \in C : req[o].status \in {500, 503}})
        /\ \A b \in Buckets : q.snapshot.buckets[b] - p.snapshot.buckets[b]
                                  = Cardinality({o \in C : Within(req[o], b)})

\* Two tallies of one process, the later after the earlier.
LEMMA TallyBetween ==
  ASSUME RequestsCounted, NEW p, NEW q, p.snapshot.post \in Nat, q.snapshot.post \in Nat,
         p.snapshot.post <= q.snapshot.post, p.life = q.life,
         Tally(req, p.life, p.snapshot), Tally(req, q.life, q.snapshot)
  PROVE  Between(p, q)
<1>1. PICK A, B, C : /\ A = Responses(req, p.life, p.snapshot.post)
                     /\ B = Responses(req, q.life, q.snapshot.post)
                     /\ C = CountedBetween(p, q)
  OBVIOUS
<1>2. A \subseteq B /\ B \subseteq Orders
  BY <1>1 DEF Responses
<1>3. C = B \ A
  <2>1. ASSUME NEW o \in Orders PROVE o \in C <=> o \in B /\ o \notin A
    <3>1. req[o].counted \in Nat
      BY DEF RequestsCounted
    <3>. QED
      BY <1>1, <3>1 DEF CountedBetween, Responses
  <2>2. C \subseteq Orders
    BY <1>1 DEF CountedBetween
  <2>. QED
    BY <1>2, <2>1, <2>2
<1>4. /\ p.snapshot.post = Cardinality(A)
      /\ p.snapshot.ok = Cardinality({o \in A : req[o].status = 201})
      /\ p.snapshot.err = Cardinality({o \in A : req[o].status \in {500, 503}})
      /\ \A b \in Buckets : p.snapshot.buckets[b] = Cardinality({o \in A : Within(req[o], b)})
  BY <1>1 DEF Tally
<1>5. /\ q.snapshot.post = Cardinality(B)
      /\ q.snapshot.ok = Cardinality({o \in B : req[o].status = 201})
      /\ q.snapshot.err = Cardinality({o \in B : req[o].status \in {500, 503}})
      /\ \A b \in Buckets : q.snapshot.buckets[b] = Cardinality({o \in B : Within(req[o], b)})
  BY <1>1 DEF Tally
<1>6. q.snapshot.post - p.snapshot.post = Cardinality(C)
  BY <1>2, <1>3, <1>4, <1>5, CountRest
<1>7. q.snapshot.ok - p.snapshot.ok = Cardinality({o \in C : req[o].status = 201})
  <2>1. PICK a, b, c : /\ a = {o \in A : req[o].status = 201} /\ b = {o \in B : req[o].status = 201}
                       /\ c = {o \in C : req[o].status = 201}
    OBVIOUS
  <2>2. a \subseteq b /\ b \subseteq Orders /\ c = b \ a
    BY <1>2, <1>3, <2>1
  <2>. QED
    BY <1>4, <1>5, <2>1, <2>2, CountRest
<1>8. q.snapshot.err - p.snapshot.err = Cardinality({o \in C : req[o].status \in {500, 503}})
  <2>1. PICK a, b, c : /\ a = {o \in A : req[o].status \in {500, 503}} /\ b = {o \in B : req[o].status \in {500, 503}}
                       /\ c = {o \in C : req[o].status \in {500, 503}}
    OBVIOUS
  <2>2. a \subseteq b /\ b \subseteq Orders /\ c = b \ a
    BY <1>2, <1>3, <2>1
  <2>. QED
    BY <1>4, <1>5, <2>1, <2>2, CountRest
<1>9. ASSUME NEW k \in Buckets
      PROVE  q.snapshot.buckets[k] - p.snapshot.buckets[k] = Cardinality({o \in C : Within(req[o], k)})
  <2>1. PICK a, b, c : /\ a = {o \in A : Within(req[o], k)} /\ b = {o \in B : Within(req[o], k)}
                       /\ c = {o \in C : Within(req[o], k)}
    OBVIOUS
  <2>2. a \subseteq b /\ b \subseteq Orders /\ c = b \ a
    BY <1>2, <1>3, <2>1
  <2>3. p.snapshot.buckets[k] = Cardinality(a) /\ q.snapshot.buckets[k] = Cardinality(b)
    BY <1>4, <1>5, <2>1
  <2>. QED
    BY <2>1, <2>2, <2>3, CountRest
<1>. QED
  BY <1>1, <1>6, <1>7, <1>8, <1>9 DEF Between

\* Quotient and remainder.
LEMMA Division ==
  ASSUME NEW s \in Int, NEW d \in Int, d > 0
  PROVE  s = d * (s \div d) + (s % d)
  BY SMT

\* A number that another divides.
LEMMA Divides ==
  ASSUME NEW s \in Nat, NEW d \in Nat \ {0}, NEW rest, rest = s % d, rest = 0
  PROVE  s \div d \in Nat /\ s = (s \div d) * d
<1>1. PICK m : m = s \div d
  OBVIOUS
<1>2. m \in Int /\ m >= 0
  BY <1>1, Z3
<1>3. s = d * m + rest
  <2>1. s \in Int /\ d \in Int /\ d > 0
    OBVIOUS
  <2>2. s = d * (s \div d) + (s % d)
    BY <2>1, Division, Zenon
  <2>. QED
    BY <1>1, <2>2, Zenon
<1>. QED
  BY <1>1, <1>2, <1>3

\* A ratio of a part to its whole, when the units divide the whole.
LEMMA ExactShare ==
  ASSUME NEW n \in Nat, NEW d \in Nat \ {0}, Scale % d = 0
  PROVE  \E m \in Nat : Scale = m * d /\ (Scale * n) \div d = m * n
<1>1. PICK m : m = Scale \div d
  OBVIOUS
<1>2. m \in Nat /\ Scale \in Nat /\ Scale = m * d
  <2>1. Scale \in Nat
    BY SignalAssumption
  <2>. QED
    BY <1>1, <2>1, Divides
<1>3. Scale * n = (m * n) * d
  BY <1>2
<1>4. m * n \in Nat
  BY <1>2
<1>5. ((m * n) * d) \div d = m * n
  BY <1>4, QuotientExact
<1>. QED
  BY <1>2, <1>3, <1>5

\* A window between two tallies of one process accounts for its traffic, if the
\* units divide its time.
LEMMA SignalsAccount ==
  ASSUME NEW p, NEW q, p.snapshot \in Snapshots, q.snapshot \in Snapshots, Between(p, q),
         NEW dt \in Int, NEW signals, Signalled(p.snapshot, q.snapshot, dt, signals),
         Scale % dt = 0, \A o \in CountedBetween(p, q) : req[o].status \in Answers
  PROVE  LET counted == CountedBetween(p, q)
             answered(statuses) == Cardinality({o \in counted : req[o].status \in statuses})
             error_rate == signals.error_rate
             success_rate == signals.success_rate
         IN  /\ signals.request_rate * dt = Scale * Cardinality(counted)
             /\ error_rate * OrOne(Cardinality(counted)) = Scale * answered({500, 503})
             /\ success_rate * OrOne(Cardinality(counted)) = Scale * answered({201})
             /\ (Scale - error_rate - success_rate) * Cardinality(counted) = Scale * answered({422})
             /\ signals.publish_error_rate \in 0 .. Scale
<1>1. PICK C, F, G, H : /\ C = CountedBetween(p, q) /\ F = {o \in C : req[o].status \in {500, 503}}
                        /\ G = {o \in C : req[o].status \in {201}}
                        /\ H = {o \in C : req[o].status \in {422}}
  OBVIOUS
<1>2. C \subseteq Orders /\ F \subseteq C /\ G \subseteq C \ F /\ H = (C \ F) \ G
  <2>1. \A o \in C : req[o].status \in {201, 422, 500, 503}
    BY <1>1 DEF Answers
  <2>2. C \subseteq Orders
    BY <1>1 DEF CountedBetween
  <2>. QED
    BY <1>1, <2>1, <2>2
<1>3. PICK n, e, k, h : /\ n = Cardinality(C) /\ e = Cardinality(F)
                        /\ k = Cardinality(G) /\ h = Cardinality(H)
  OBVIOUS
<1>4. /\ n \in Nat /\ e \in Nat /\ k \in Nat /\ h \in Nat
      /\ n <= MaxOrders /\ MaxOrders \in Nat /\ n = e + k + h
  <2>1. C \in SUBSET Orders /\ F \in SUBSET Orders /\ G \in SUBSET Orders /\ H \in SUBSET Orders
    BY <1>2
  <2>2. n \in Nat /\ e \in Nat /\ k \in Nat /\ h \in Nat /\ n <= MaxOrders
    BY <1>3, <2>1, OrdersFinite
  <2>3. Cardinality(C \ F) = n - e
    BY <1>2, <1>3, CountRest
  <2>4. h = Cardinality(C \ F) - k
    BY <1>2, <1>3, CountRest
  <2>. QED
    BY <2>2, <2>3, <2>4, TelemetryAssumption
<1>5. /\ q.snapshot.post - p.snapshot.post = n
      /\ q.snapshot.ok - p.snapshot.ok = k /\ q.snapshot.err - p.snapshot.err = e
  <2>1. G = {o \in C : req[o].status = 201}
    BY <1>1
  <2>. QED
    BY <1>1, <1>3, <2>1 DEF Between
<1>6. PICK d : d = OrOne(n)
  OBVIOUS
<1>7. d \in Nat \ {0} /\ Scale % d = 0 /\ (n = 0 => d = 1) /\ (n # 0 => d = n)
  <2>1. CASE n = 0
    <3>1. d = 1 /\ Scale \in Nat
      BY <1>6, <2>1, SignalAssumption DEF OrOne
    <3>. QED
      BY <2>1, <3>1
  <2>2. CASE n # 0
    <3>1. d = n /\ n \in 1 .. MaxOrders
      BY <1>4, <1>6, <2>2 DEF OrOne
    <3>. QED
      BY <2>2, <3>1, ScaleAssumption
  <2>. QED
    BY <2>1, <2>2
<1>8. PICK m \in Nat : Scale = m * d /\ (Scale * e) \div d = m * e
  BY <1>4, <1>7, ExactShare
<1>9. PICK l \in Nat : Scale = l * d /\ (Scale * k) \div d = l * k
  BY <1>4, <1>7, ExactShare
<1>10. l = m
  <2>1. (m * d) \div d = m /\ (l * d) \div d = l
    BY <1>7, QuotientExact
  <2>2. m * d = l * d
    BY <1>8, <1>9
  <2>. QED
    BY <2>1, <2>2
<1>11. signals.error_rate = m * e /\ signals.success_rate = m * k
  <2>1. /\ signals.error_rate = (Scale * e) \div d /\ signals.success_rate = (Scale * k) \div d
    BY <1>5, <1>6 DEF Signalled
  <2>. QED
    BY <1>8, <1>9, <1>10, <2>1
<1>12. /\ signals.success_rate * OrOne(n) = Scale * k
       /\ (Scale - signals.error_rate - signals.success_rate) * n = Scale * h
  <2>1. (m * k) * d = (m * d) * k
    BY <1>4, <1>7
  <2>2. (Scale - m * e - m * k) * n = Scale * h
    <3>1. CASE n = 0
      <4>1. h = 0
        BY <1>4, <3>1
      <4>2. Scale \in Nat /\ m * e \in Nat /\ m * k \in Nat
        BY <1>4, SignalAssumption
      <4>. QED
        BY <3>1, <4>1, <4>2
    <3>2. CASE n # 0
      <4>1. Scale = m * n
        BY <1>7, <1>8, <3>2
      <4>2. m * n = m * e + m * k + m * h
        BY <1>4
      <4>3. Scale - m * e - m * k = m * h
        BY <1>4, <4>1, <4>2
      <4>4. (m * h) * n = (m * n) * h
        BY <1>4
      <4>. QED
        BY <4>1, <4>3, <4>4
    <3>. QED
      BY <3>1, <3>2
  <2>. QED
    BY <1>6, <1>8, <1>11, <2>1, <2>2
<1>13. signals.error_rate * OrOne(n) = Scale * e
  <2>1. (m * e) * d = (m * d) * e
    BY <1>4, <1>7
  <2>. QED
    BY <1>6, <1>8, <1>11, <2>1
<1>14. signals.request_rate * dt = Scale * n
  <2>1. dt \in Nat \ {0} /\ signals.request_rate = (Scale * n) \div dt
    BY <1>5 DEF Signalled
  <2>2. PICK j \in Nat : Scale = j * dt /\ (Scale * n) \div dt = j * n
    BY <1>4, <2>1, ExactShare
  <2>3. (j * n) * dt = (j * dt) * n
    BY <1>4, <2>1
  <2>. QED
    BY <2>1, <2>2, <2>3
<1>15. signals.publish_error_rate \in 0 .. Scale
  <2>1. PICK x, y : /\ x = q.snapshot.pubfail - p.snapshot.pubfail
                    /\ y = q.snapshot.pubok - p.snapshot.pubok
    OBVIOUS
  <2>2. x \in Nat /\ y \in Nat
    <3>1. x \in Int /\ y \in Int
      BY <2>1 DEF Snapshots
    <3>2. q.snapshot["pubfail"] - p.snapshot["pubfail"] >= 0 /\ q.snapshot["pubok"] - p.snapshot["pubok"] >= 0
      BY DEF Signalled, Cumulative
    <3>. QED
      BY <2>1, <3>1, <3>2
  <2>3. PICK z : z = OrOne(y + x)
    OBVIOUS
  <2>4. z \in Nat \ {0} /\ x <= z
    BY <2>2, <2>3 DEF OrOne
  <2>5. Scale \in Nat
    BY SignalAssumption
  <2>6. (Scale * x) \div z \in Nat /\ (Scale * x) \div z <= Scale
    BY <2>2, <2>4, <2>5, InterpolationStays
  <2>7. signals.publish_error_rate = (Scale * x) \div z
    BY <2>1, <2>3 DEF Signalled
  <2>. QED
    BY <2>5, <2>6, <2>7
<1>. QED
  BY <1>1, <1>3, <1>12, <1>13, <1>14, <1>15

\* A window between two tallies of one process locates its latencies.
LEMMA SignalsLocate ==
  ASSUME ServiceTyped, NEW p, NEW q, Between(p, q), NEW dt, NEW signals,
         Signalled(p.snapshot, q.snapshot, dt, signals),
         CountedBetween(p, q) # {}
  PROVE  LET counted == CountedBetween(p, q)
             upto(b) == {o \in counted : Within(req[o], b)}
             bucket(r) == Min({b \in Buckets : 100 * Cardinality(upto(b)) >= r * Cardinality(counted)})
         IN  /\ \A r \in Quantiles :
                   /\ signals.latency_quantile[r] >= Scale * Lower(bucket(r))
                   /\ signals.latency_quantile[r] <= Scale * Upper(bucket(r))
             /\ signals.latency_quantile[50] <= signals.latency_quantile[90]
             /\ signals.latency_quantile[90] <= signals.latency_quantile[95]
<1>. DEFINE counted == CountedBetween(p, q)
            upto(b) == {o \in counted : Within(req[o], b)}
            bucket(r) == Min({b \in Buckets : 100 * Cardinality(upto(b)) >= r * Cardinality(counted)})
<1>1. PICK deltas : deltas = Deltas(p.snapshot, q.snapshot)
  OBVIOUS
<1>2. counted \in SUBSET Orders /\ \A b : upto(b) \in SUBSET Orders
  BY DEF CountedBetween
<1>3. \A b \in Buckets : deltas[b] = Cardinality(upto(b)) /\ deltas[b] \in Nat
  <2>1. ASSUME NEW b \in Buckets PROVE deltas[b] = Cardinality(upto(b)) /\ deltas[b] \in Nat
    <3>1. PICK x : x = q.snapshot.buckets[b] - p.snapshot.buckets[b]
      OBVIOUS
    <3>2. x = Cardinality(upto(b))
      BY <3>1 DEF Between
    <3>3. x \in Nat
      BY <1>2, <3>2, OrdersFinite
    <3>4. Max({x, 0}) = x
      BY <3>3, MaxOfTwo
    <3>5. deltas[b] = Max({x, 0})
      BY <1>1, <3>1 DEF Deltas
    <3>. QED
      BY <3>2, <3>3, <3>4, <3>5
  <2>. QED
    BY <2>1
<1>4. upto(3) = counted /\ upto(1) \subseteq upto(2) /\ upto(2) \subseteq upto(3)
  <2>1. \A o \in Orders : /\ Within(req[o], 1) <=> req[o].latency <= 1
                          /\ Within(req[o], 2) <=> req[o].latency <= 3
                          /\ Within(req[o], 3)
    BY BoundsAre DEF Within
  <2>2. ASSUME NEW o \in counted, req[o].latency <= 1 PROVE req[o].latency <= 3
    <3>1. req[o].latency \in Nat
      BY <1>2 DEF ServiceTyped, RequestShape
    <3>. QED
      BY <2>2, <3>1
  <2>. QED
    BY <1>2, <2>1, <2>2
<1>5. Histogram(deltas)
  <2>1. deltas \in [Buckets -> Nat]
    BY <1>1, <1>3 DEF Deltas
  <2>2. Cardinality(upto(1)) <= Cardinality(upto(2)) /\ Cardinality(upto(2)) <= Cardinality(upto(3))
    BY <1>2, <1>4, OrdersFinite, FS_Subset
  <2>3. Cardinality(upto(3)) # 0
    <3>1. IsFiniteSet(counted) /\ counted # {}
      BY <1>2, OrdersFinite
    <3>. QED
      BY <1>4, <3>1, FS_EmptySet
  <2>. QED
    BY <1>3, <2>1, <2>2, <2>3, BoundsAre DEF Histogram
<1>6. deltas[3] = Cardinality(counted)
  BY <1>3, <1>4, BoundsAre
<1>7. \A r \in Quantiles : signals.latency_quantile[r] = Quantile(deltas, r)
  BY <1>1 DEF Signalled
<1>8. ASSUME NEW r \in Quantiles
      PROVE  /\ signals.latency_quantile[r] >= Scale * Lower(bucket(r))
             /\ signals.latency_quantile[r] <= Scale * Upper(bucket(r))
  <2>1. PICK target, h : target = r * deltas[3] /\ h = Hit(deltas, target)
    OBVIOUS
  <2>2. Aims(deltas, r, target, h) /\ r \in 1 .. 100
    BY <2>1 DEF Aims, Quantiles
  <2>3. Quantile(deltas, r) >= Scale * Lower(h) /\ Quantile(deltas, r) <= Scale * Upper(h)
    BY <1>5, <2>2, QuantileLocated
  <2>4. h = bucket(r)
    <3>1. {b \in Buckets : 100 * deltas[b] >= target}
            = {b \in Buckets : 100 * Cardinality(upto(b)) >= r * Cardinality(counted)}
      <4>1. target = r * Cardinality(counted)
        BY <1>6, <2>1
      <4>. HIDE DEF upto, counted
      <4>. QED
        BY <1>3, <4>1
    <3>. QED
      BY <2>1, <3>1 DEF Hit
  <2>. QED
    BY <1>7, <2>3, <2>4
<1>9. /\ signals.latency_quantile[50] <= signals.latency_quantile[90]
      /\ signals.latency_quantile[90] <= signals.latency_quantile[95]
  <2>1. 50 \in Quantiles /\ 90 \in Quantiles /\ 95 \in Quantiles
    BY DEF Quantiles
  <2>2. Quantile(deltas, 50) <= Quantile(deltas, 90) /\ Quantile(deltas, 90) <= Quantile(deltas, 95)
    BY <1>5, QuantilesOrdered
  <2>. QED
    BY <1>7, <2>1, <2>2
<1>. QED
  BY <1>8, <1>9

-----------------------------------------------------------------------------
(* Every window that is ever closed.                                       *)

\* When the rows were taken: not after the last poll, and one a poll.
Dated ==
    /\ det.now <= MaxPolls
    /\ \A i \in 1 .. Len(col.rows) : col.rows[i].at + (Len(col.rows) - i) = col.at

\* Every step keeps the dates.
LEMMA DatedStep ==
  ServiceTyped /\ DetectorTyped /\ CollectorTyped /\ Dated /\ [Next]_vars => Dated'
<1>. SUFFICES ASSUME ServiceTyped, DetectorTyped, CollectorTyped, Dated, [Next]_vars PROVE Dated'
  OBVIOUS
<1>1. det'.now <= MaxPolls
  <2>1. MaxPolls \in Nat /\ det.now \in Nat /\ det.now <= MaxPolls
    BY TelemetryAssumption DEF DetectorTyped, Dated
  <2>2. CASE Tick
    <3>1. det.now < MaxPolls /\ det'.now = det.now + 1
      BY <2>2, TickIs DEF Tick, NextTick, TickAlways
    <3>. QED
      BY <2>1, <3>1
  <2>3. CASE ScrapeFails
    BY <2>1, <2>3 DEF ScrapeFails, NextTick, DetectorTyped, DetectorFields
  <2>4. CASE StartDetector \/ PublishReturns \/ StopDetector \/ LoopEnds
    <3>1. det'.now = det.now \/ det' = Gone
      BY <2>4 DEF StartDetector, PublishReturns, StopDetector, LoopEnds, DetectorTyped, DetectorFields
    <3>. QED
      BY <2>1, <3>1, GoneIs
  <2>5. CASE UNCHANGED <<det, events>>
    BY <2>1, <2>5
  <2>. QED
    BY <2>2, <2>3, <2>4, <2>5, DetectorSteps
<1>2. \A i \in 1 .. Len(col'.rows) : col'.rows[i].at + (Len(col'.rows) - i) = col'.at
  <2>1. CASE CollectScrape
    <3>1. PICK row \in CollectRows : /\ row.at = col.at + 1 /\ col'.at = col.at + 1
                                     /\ col'.rows = Append(col.rows, row)
      BY <2>1, CollectIs
    <3>2. PICK n \in Nat : n = Len(col.rows)
      BY LenProperties DEF CollectorTyped
    <3>3. /\ Len(col'.rows) = n + 1 /\ col'.rows[n + 1] = row
          /\ \A i \in 1 .. n : col'.rows[i] = col.rows[i]
      BY <3>1, <3>2, AppendProperties DEF CollectorTyped
    <3>4. \A i \in 1 .. n : col.rows[i].at \in Nat /\ col.rows[i].at + (n - i) = col.at
      <4>1. \A i \in 1 .. n : col.rows[i] \in CollectRows
        BY <3>2, ElementOfSeq DEF CollectorTyped
      <4>. QED
        BY <3>2, <4>1 DEF CollectRows, Dated
    <3>5. col.at \in Nat
      BY DEF CollectorTyped
    <3>6. ASSUME NEW i \in 1 .. n + 1 PROVE col'.rows[i].at + ((n + 1) - i) = col.at + 1
      <4>1. CASE i = n + 1
        BY <3>1, <3>3, <3>5, <4>1
      <4>2. CASE i \in 1 .. n
        <5>1. PICK x : x = col.rows[i].at
          OBVIOUS
        <5>2. col'.rows[i] = col.rows[i] /\ x \in Nat /\ x + (n - i) = col.at
          BY <3>3, <3>4, <4>2, <5>1
        <5>3. x + ((n + 1) - i) = col.at + 1
          BY <3>5, <4>2, <5>2
        <5>. QED
          BY <5>1, <5>2, <5>3
      <4>. QED
        BY <4>1, <4>2
    <3>. QED
      BY <3>1, <3>3, <3>6
  <2>2. CASE ~ CollectScrape
    <3>1. col'.rows = col.rows /\ col'.at = col.at
      BY <2>2, CollectorSteps DEF StartSegment, Drain, CollectorFails, CollectorTyped
    <3>. QED
      BY <3>1 DEF Dated
  <2>. QED
    BY <2>1, <2>2
<1>. QED
  BY <1>1, <1>2 DEF Dated

\* The windows of two tallied rows, one right after the other.
LEMMA WindowSound ==
  ASSUME ServiceTyped, RequestsCounted, AnswersTyped,
         NEW R, IsRows(R), NEW rows \in Seq(R), RowsTally(rows),
         NEW i \in 1 .. Len(rows) - 1, Scale % (rows[i + 1].at - rows[i].at) = 0,
         NEW w, WindowBetween(rows[i], rows[i + 1]) = <<w>>
  PROVE  AccountsForTraffic(w) /\ LocatesLatency(w)
<1>1. PICK p, q : p = rows[i] /\ q = rows[i + 1]
  OBVIOUS
<1>2. p \in R /\ q \in R /\ Tally(req, p.life, p.snapshot) /\ Tally(req, q.life, q.snapshot)
  <2>1. i \in 1 .. Len(rows) /\ i + 1 \in 1 .. Len(rows)
    BY LenProperties
  <2>. QED
    BY <1>1, <2>1, ElementOfSeq DEF RowsTally
<1>3. /\ p.snapshot \in Snapshots /\ q.snapshot \in Snapshots /\ q.at - p.at \in Int
      /\ p.snapshot.post \in Nat /\ q.snapshot.post \in Nat
  <2>1. /\ p.at \in Nat /\ q.at \in Nat
        /\ p.snapshot \in Snapshots /\ q.snapshot \in Snapshots
    BY <1>2 DEF IsRows
  <2>2. p.snapshot.post \in Nat /\ q.snapshot.post \in Nat
    BY <2>1 DEF Snapshots
  <2>3. q.at - p.at \in Int
    BY <2>1
  <2>. QED
    BY <2>1, <2>2, <2>3
<1>4. PICK dt, signals : dt = q.at - p.at /\ signals = WindowSignals(p.snapshot, q.snapshot, dt)
  OBVIOUS
<1>5. signals # None /\ w.first = p /\ w.last = q /\ w.signals = signals
  <2>1. PICK v : v = [signals |-> signals, label |-> q.scenario, first |-> p, last |-> q]
    OBVIOUS
  <2>2. PICK b, one, none : b = WindowBetween(p, q) /\ one = <<v>> /\ none = <<>>
    OBVIOUS
  <2>3. (b = one /\ signals # None) \/ b = none
    BY <1>4, <2>1, <2>2 DEF WindowBetween
  <2>4. b = <<w>>
    BY <1>1, <2>2
  <2>5. b = one /\ signals # None
    BY <2>2, <2>3, <2>4
  <2>6. w = v
    BY <2>2, <2>4, <2>5
  <2>. QED
    BY <2>1, <2>5, <2>6
<1>6. Signalled(p.snapshot, q.snapshot, dt, signals)
  BY <1>3, <1>4, <1>5, SignalsAre
<1>7. dt \in Int /\ Scale % dt = 0
  BY <1>1, <1>3, <1>4
<1>8. ASSUME p.life = q.life PROVE Between(p, q)
  <2>1. q.snapshot["post"] - p.snapshot["post"] >= 0
    BY <1>6 DEF Signalled, Cumulative
  <2>2. p.snapshot.post <= q.snapshot.post
    BY <1>3, <2>1
  <2>. QED
    BY <1>2, <1>3, <1>8, <2>2, TallyBetween
<1>9. AccountsForTraffic(w)
  <2>. SUFFICES ASSUME p.life = q.life
                PROVE  LET counted == CountedBetween(p, q)
                           answered(statuses) ==
                               Cardinality({o \in counted : req[o].status \in statuses})
                           error_rate == signals.error_rate
                           success_rate == signals.success_rate
                       IN  /\ signals.request_rate * dt = Scale * Cardinality(counted)
                           /\ error_rate * OrOne(Cardinality(counted)) = Scale * answered({500, 503})
                           /\ success_rate * OrOne(Cardinality(counted)) = Scale * answered({201})
                           /\ (Scale - error_rate - success_rate) * Cardinality(counted)
                                 = Scale * answered({422})
                           /\ signals.publish_error_rate \in 0 .. Scale
    BY <1>4, <1>5, Zenon DEF AccountsForTraffic
  <2>1. Between(p, q)
    BY <1>8
  <2>2. \A o \in CountedBetween(p, q) : req[o].status \in Answers
    <3>1. ASSUME NEW o \in CountedBetween(p, q) PROVE req[o].status \in Answers
      <4>1. o \in Orders /\ req[o].counted > p.snapshot.post /\ req[o].counted \in Nat
        BY <3>1 DEF CountedBetween, RequestsCounted
      <4>2. req[o].counted # 0
        BY <1>3, <4>1
      <4>. QED
        BY <4>1, <4>2 DEF AnswersTyped
    <3>. QED
      BY <3>1
  <2>. QED
    BY <1>3, <1>6, <1>7, <2>1, <2>2, SignalsAccount, Zenon
<1>10. LocatesLatency(w)
  <2>. SUFFICES ASSUME p.life = q.life, CountedBetween(p, q) # {}
                PROVE  LET counted == CountedBetween(p, q)
                           upto(b) == {o \in counted : Within(req[o], b)}
                           bucket(r) == Min({b \in Buckets : 100 * Cardinality(upto(b)) >= r * Cardinality(counted)})
                       IN  /\ \A r \in Quantiles :
                                 /\ signals.latency_quantile[r] >= Scale * Lower(bucket(r))
                                 /\ signals.latency_quantile[r] <= Scale * Upper(bucket(r))
                           /\ signals.latency_quantile[50] <= signals.latency_quantile[90]
                           /\ signals.latency_quantile[90] <= signals.latency_quantile[95]
    BY <1>5, Zenon DEF LocatesLatency, Within, Lower, Upper
  <2>1. Between(p, q)
    BY <1>8
  <2>. QED
    BY <1>6, <2>1, SignalsLocate, Zenon
<1>. QED
  BY <1>9, <1>10

\* All the windows of consecutive rows are sound.
WindowsSound(rows) ==
    \A i \in 1 .. Len(rows) - 1 : \A w :
        WindowBetween(rows[i], rows[i + 1]) = <<w>> => AccountsForTraffic(w) /\ LocatesLatency(w)

\* Then so are those of the run, and of its end.
LEMMA RunSound ==
  ASSUME NEW R, IsRows(R), NEW rows \in Seq(R), WindowsSound(rows)
  PROVE  /\ \A w \in Range(PrepareRun(rows)) : AccountsForTraffic(w) /\ LocatesLatency(w)
         /\ \A w \in Range(PrepareRun(Trailing(rows, 2))) : AccountsForTraffic(w) /\ LocatesLatency(w)
<1>1. ASSUME NEW s \in Seq(R), WindowsSound(s), NEW w \in Range(PrepareRun(s))
      PROVE  AccountsForTraffic(w) /\ LocatesLatency(w)
  <2>1. PICK i \in 1 .. Len(s) - 1 : WindowBetween(s[i], s[i + 1]) = <<w>>
    BY PrepareElements
  <2>. QED
    BY <1>1, <2>1, Zenon DEF WindowsSound
<1>2. PICK n \in Nat : n = Len(rows)
  BY LenProperties
<1>3. PICK m \in Nat : m = IF 2 <= n THEN 2 ELSE n
  BY <1>2
<1>4. PICK t : t = Trailing(rows, 2)
  OBVIOUS
<1>5. m <= 2 /\ m <= Len(rows) /\ (m = 2 \/ m = Len(rows)) /\ 2 \in Nat
  BY <1>2, <1>3
<1>6. t \in Seq(R) /\ Len(t) = m
  BY <1>4, <1>5, TrailingOf
<1>7. \A i \in 1 .. m : t[i] = rows[(n - m) + i]
  <2>1. \A i \in 1 .. m : Trailing(rows, 2)[i] = rows[(Len(rows) - m) + i]
    BY <1>5, TrailingOf
  <2>. QED
    BY <1>2, <1>4, <2>1
<1>8. WindowsSound(t)
  <2>. SUFFICES ASSUME NEW i \in 1 .. m - 1, NEW w, WindowBetween(t[i], t[i + 1]) = <<w>>
                PROVE  AccountsForTraffic(w) /\ LocatesLatency(w)
    BY <1>6, Zenon DEF WindowsSound
  <2>1. PICK j : j = (n - m) + i
    OBVIOUS
  <2>2. j \in 1 .. n - 1 /\ i \in 1 .. m /\ i + 1 \in 1 .. m /\ j + 1 = (n - m) + (i + 1)
    BY <1>2, <1>5, <2>1
  <2>3. t[i] = rows[j] /\ t[i + 1] = rows[j + 1]
    BY <1>7, <2>1, <2>2
  <2>. QED
    BY <1>2, <2>2, <2>3, Zenon DEF WindowsSound
<1>. QED
  BY <1>1, <1>4, <1>6, <1>8

\* There is no window unless time has passed.
LEMMA WindowTakesTime ==
  ASSUME NEW p, NEW q, q.at - p.at <= 0, NEW w, WindowBetween(p, q) = <<w>>
  PROVE  FALSE
<1>1. WindowSignals(p.snapshot, q.snapshot, q.at - p.at) = None
  BY Zenon DEF WindowSignals
<1>2. WindowBetween(p, q) = <<>>
  BY <1>1, Zenon DEF WindowBetween
<1>. QED
  BY <1>2

\* Every window of the detector's scrapes is sound.
LEMMA LiveSound ==
  ServiceTyped /\ DetectorTyped /\ RequestsCounted /\ TallyInv /\ ScrapesDated /\ Dated
     => WindowsSound(det.raw)
<1>. SUFFICES ASSUME ServiceTyped, DetectorTyped, RequestsCounted, TallyInv, ScrapesDated, Dated,
                     NEW i \in 1 .. Len(det.raw) - 1, NEW w,
                     WindowBetween(det.raw[i], det.raw[i + 1]) = <<w>>
              PROVE  AccountsForTraffic(w) /\ LocatesLatency(w)
  BY Zenon DEF WindowsSound
<1>1. PICK n \in Nat : n = Len(det.raw)
  BY LenProperties DEF DetectorTyped
<1>2. i \in 1 .. n - 1 /\ i \in 1 .. n /\ i + 1 \in 1 .. n
  BY <1>1
<1>3. det.raw[i].at \in Nat /\ det.raw[i + 1].at \in Nat
  <2>1. det.raw[i] \in Rows /\ det.raw[i + 1] \in Rows
    BY <1>1, <1>2, ElementOfSeq DEF DetectorTyped
  <2>. QED
    BY <2>1, DetectorRows DEF IsRows
<1>4. PICK dt \in Int : dt = det.raw[i + 1].at - det.raw[i].at
  BY <1>3
<1>5. dt > 0
  <2>. SUFFICES ASSUME dt <= 0 PROVE FALSE
    OBVIOUS
  <2>1. det.raw[i + 1].at - det.raw[i].at <= 0
    BY <1>4
  <2>. QED
    BY <2>1, WindowTakesTime, Zenon
<1>6. dt <= MaxPolls
  <2>1. det.raw[i + 1].at + (n - (i + 1)) <= det.now
    BY <1>1, <1>2 DEF ScrapesDated
  <2>2. det.now \in Nat /\ det.now <= MaxPolls /\ MaxPolls \in Nat
    BY TelemetryAssumption DEF DetectorTyped, Dated
  <2>3. PICK x, y \in Nat : x = det.raw[i + 1].at /\ y = det.raw[i].at
    BY <1>3
  <2>4. PICK now \in Nat, most \in Nat : now = det.now /\ most = MaxPolls /\ now <= most
    BY <2>2
  <2>5. PICK later : later = n - (i + 1)
    OBVIOUS
  <2>6. later \in Nat
    BY <1>2, <2>5
  <2>7. x + later <= now /\ dt = x - y
    BY <1>4, <2>1, <2>3, <2>4, <2>5
  <2>8. dt <= most
    BY <2>4, <2>6, <2>7
  <2>. QED
    BY <2>4, <2>8
<1>7. Scale % dt = 0
  BY <1>5, <1>6, ScaleAssumption, TelemetryAssumption
<1>8. AnswersTyped /\ RowsTally(det.raw) /\ det.raw \in Seq(Rows)
  BY DEF TallyInv, ScrapesTally, DetectorTyped
<1>. QED
  BY <1>4, <1>7, <1>8, DetectorRows, WindowSound

\* So is every window of the collector's.
LEMMA CollectedSound ==
  ServiceTyped /\ CollectorTyped /\ RequestsCounted /\ TallyInv /\ Dated => WindowsSound(col.rows)
<1>. SUFFICES ASSUME ServiceTyped, CollectorTyped, RequestsCounted, TallyInv, Dated,
                     NEW i \in 1 .. Len(col.rows) - 1, NEW w,
                     WindowBetween(col.rows[i], col.rows[i + 1]) = <<w>>
              PROVE  AccountsForTraffic(w) /\ LocatesLatency(w)
  BY Zenon DEF WindowsSound
<1>1. PICK n \in Nat : n = Len(col.rows)
  BY LenProperties DEF CollectorTyped
<1>2. i \in 1 .. n - 1 /\ i \in 1 .. n /\ i + 1 \in 1 .. n
  BY <1>1
<1>3. IsRows(CollectRows) /\ col.rows \in Seq(CollectRows)
  BY DEF IsRows, CollectRows, CollectorTyped
<1>4. PICK x, y \in Nat : x = col.rows[i].at /\ y = col.rows[i + 1].at
  <2>1. col.rows[i] \in CollectRows /\ col.rows[i + 1] \in CollectRows
    BY <1>1, <1>2, <1>3, ElementOfSeq
  <2>. QED
    BY <1>3, <2>1 DEF IsRows
<1>5. x + (n - i) = col.at /\ y + (n - (i + 1)) = col.at /\ col.at \in Nat
  BY <1>1, <1>2, <1>4 DEF Dated, CollectorTyped
<1>6. y - x = 1
  BY <1>2, <1>5
<1>7. Scale % 1 = 0
  <2>1. Scale \in Nat
    BY SignalAssumption
  <2>. QED
    BY <2>1
<1>8. AnswersTyped /\ RowsTally(col.rows)
  BY DEF TallyInv, ScrapesTally
<1>. QED
  BY <1>3, <1>4, <1>6, <1>7, <1>8, WindowSound

\* What the windows' soundness rests on, all together.
TrafficInv ==
    /\ ServiceTyped /\ DetectorTyped /\ Remembers /\ CollectorTyped
    /\ LabelInv /\ TallyInv /\ ScrapesDated /\ ScoredWindow /\ Dated

\* Every step keeps it.
LEMMA TrafficInvariant == Spec => []TrafficInv
<1>1. Init => Dated
  <2>. SUFFICES ASSUME Init PROVE Dated
    OBVIOUS
  <2>1. det.now = 0 /\ col.rows = <<>> /\ MaxPolls \in Nat
    BY TelemetryAssumption DEF Init, FreshDetector
  <2>2. Len(col.rows) = 0
    BY <2>1
  <2>. QED
    BY <2>1, <2>2 DEF Dated
<1>2. Init => TrafficInv
  BY <1>1, ServiceInit, DetectorInit, LabelsInit, TallyInit, HealthInit DEF TrafficInv
<1>3. TrafficInv /\ [Next]_vars => TrafficInv'
  <2>. SUFFICES ASSUME TrafficInv, [Next]_vars PROVE TrafficInv'
    OBVIOUS
  <2>1. /\ ServiceTyped /\ DetectorTyped /\ Remembers /\ CollectorTyped
        /\ LabelInv /\ TallyInv /\ ScrapesDated /\ ScoredWindow /\ Dated
    BY DEF TrafficInv
  <2>2. RequestsCounted
    BY <2>1 DEF LabelInv
  <2>3. ServiceTyped' /\ DetectorTyped' /\ Remembers' /\ CollectorTyped' /\ LabelInv'
    BY <2>1, ServiceStep, DetectorTypedStep, CollectorTypedStep, LabelsStep
  <2>4. TallyInv' /\ ScrapesDated' /\ ScoredWindow' /\ Dated'
    BY <2>1, <2>2, TallyStep, HealthStep, DatedStep
  <2>. QED
    BY <2>3, <2>4 DEF TrafficInv
<1>. QED
  BY <1>2, <1>3, PTL DEF Spec

\* All that was ever scraped, by the detector or for a training run.
EveryWindow == Range(PrepareRun(det.raw)) \cup Range(PrepareRun(col.rows))
NewestWindowsSound == \A w \in NewestWindows : AccountsForTraffic(w) /\ LocatesLatency(w)
EveryWindowSound == \A w \in EveryWindow : AccountsForTraffic(w) /\ LocatesLatency(w)

\* The invariant makes them sound.
LEMMA TrafficSound == TrafficInv => NewestWindowsSound /\ EveryWindowSound
<1>. SUFFICES ASSUME TrafficInv PROVE NewestWindowsSound /\ EveryWindowSound
  OBVIOUS
<1>1. /\ ServiceTyped /\ DetectorTyped /\ CollectorTyped /\ RequestsCounted
      /\ TallyInv /\ ScrapesDated /\ Dated
  BY DEF TrafficInv, LabelInv
<1>2. WindowsSound(det.raw) /\ WindowsSound(col.rows)
  BY <1>1, LiveSound, CollectedSound
<1>3. /\ \A w \in Range(PrepareRun(det.raw)) : AccountsForTraffic(w) /\ LocatesLatency(w)
      /\ \A w \in Range(PrepareRun(Trailing(det.raw, 2))) : AccountsForTraffic(w) /\ LocatesLatency(w)
  <2>1. IsRows(Rows) /\ det.raw \in Seq(Rows)
    BY <1>1, DetectorRows DEF DetectorTyped
  <2>. QED
    BY <1>2, <2>1, RunSound
<1>4. /\ \A w \in Range(PrepareRun(col.rows)) : AccountsForTraffic(w) /\ LocatesLatency(w)
      /\ \A w \in Range(PrepareRun(Trailing(col.rows, 2))) : AccountsForTraffic(w) /\ LocatesLatency(w)
  <2>1. IsRows(CollectRows) /\ col.rows \in Seq(CollectRows)
    BY <1>1 DEF IsRows, CollectRows, CollectorTyped
  <2>. QED
    BY <1>2, <2>1, RunSound
<1>. QED
  BY <1>3, <1>4, Zenon DEF NewestWindowsSound, EveryWindowSound, EveryWindow, NewestWindows

\* For any number of requests, scrapes, restarts and failures: what a window
\* says of rates and ratios is exactly the traffic answered while it was open
\* (window_signals over the instrumentation of the orders service).
THEOREM TrafficAccounted == Spec => []WindowsAccountForTraffic
<1>1. TrafficInv => WindowsAccountForTraffic
  BY TrafficSound, Zenon DEF NewestWindowsSound, WindowsAccountForTraffic
<1>. QED
  BY <1>1, TrafficInvariant, PTL

\* And its latency quantiles are in the buckets of the true ones, in order
\* (estimate_quantile_from_bucket_deltas).
THEOREM LatencyLocated == Spec => []QuantilesLocateLatency
<1>1. TrafficInv => QuantilesLocateLatency
  BY TrafficSound, Zenon DEF NewestWindowsSound, QuantilesLocateLatency
<1>. QED
  BY <1>1, TrafficInvariant, PTL

\* Nor does what comes later make a window that was ever closed wrong: the
\* whole training run and the whole live history stay sound (prepare_run).
THEOREM HistorySound == Spec => []EveryWindowSound
<1>. QED
  BY TrafficSound, TrafficInvariant, PTL

-----------------------------------------------------------------------------
(* Types.                                                                  *)

StoreBounded(s) ==
    /\ s.ready \in BOOLEAN
    /\ s.store \in Seq(Orders) /\ Len(s.store) <= MaxStore
RequestTyped(r) ==
    /\ r.pc \in {"new", "sleeping", "publishing", "responding", "done", "lost"}
    /\ r.status \in {None, 201, 422, 500, 503}

OrdersBounded == StoreBounded(svc) /\ \A o \in Orders : RequestTyped(req[o])
DetectorBounded == det.stop \in BOOLEAN /\ det.now <= MaxPolls /\ Len(det.buffer) <= RollingWindow
RestTyped ==
    /\ watcher \in {"detector", "collector"} /\ topic \subseteq Orders
    /\ faults \in 0 .. MaxFaults

\* The tail of a sequence is no longer than its bound.
LEMMA TrailingBound ==
  ASSUME NEW X, NEW s \in Seq(X), NEW n \in Nat
  PROVE  Trailing(s, n) \in Seq(X) /\ Len(Trailing(s, n)) <= n
<1>1. Len(s) \in Nat
  BY LenProperties
<1>2. PICK m \in Nat : m <= n /\ m <= Len(s) /\ (m = n \/ m = Len(s))
  BY <1>1
<1>3. Trailing(s, n) \in Seq(X) /\ Len(Trailing(s, n)) = m
  BY <1>2, TrailingOf
<1>. QED
  BY <1>2, <1>3

\* OrderStore.add keeps the bound, whatever was in the store.
LEMMA StoreKeepsBound ==
  ASSUME NEW store \in Seq(Orders), NEW o \in Orders
  PROVE  AddOrder(store, o) \in Seq(Orders) /\ Len(AddOrder(store, o)) <= MaxStore
<1>1. Append(store, o) \in Seq(Orders) /\ MaxStore \in Nat
  BY TelemetryAssumption, AppendProperties
<1>2. PICK longer \in Seq(Orders) : longer = Append(store, o)
  BY <1>1
<1>3. Trailing(longer, MaxStore) \in Seq(Orders) /\ Len(Trailing(longer, MaxStore)) <= MaxStore
  BY <1>1, TrailingBound
<1>. QED
  BY <1>2, <1>3 DEF AddOrder

\* A failed publish does not touch the store.
LEMMA FailureKeepsStore ==
  ASSUME ServiceTyped, StoreBounded(svc), NEW wait
  PROVE  StoreBounded(PublishFailed(svc, wait))
<1>1. PICK t : t = PublishFailed(svc, wait)
  OBVIOUS
<1>2. t.ready = svc.ready /\ t.store = svc.store
  BY <1>1 DEF PublishFailed, ServiceTyped, ServiceShape
<1>. QED
  BY <1>1, <1>2 DEF StoreBounded

\* A request that will be answered has one of the four statuses.
LEMMA AnsweringTyped ==
  ASSUME NEW r, RequestShape(r), NEW status \in {201, 422, 500, 503}, NEW latency
  PROVE  RequestTyped(Answering(r, status, latency))
BY DEF Answering, RequestShape, RequestTyped

\* One request moves.
LEMMA OneRequestTyped ==
  ASSUME ServiceTyped, OrdersBounded, NEW o \in Orders, NEW r, RequestTyped(r),
         req' = [req EXCEPT ![o] = r], StoreBounded(svc')
  PROVE  OrdersBounded'
<1>1. \A p \in Orders : RequestTyped(req'[p])
  BY DEF ServiceTyped, OrdersBounded
<1>. QED
  BY <1>1 DEF OrdersBounded, StoreBounded, RequestTyped

\* create_order up to its next await.
LEMMA ProceedTyped ==
  ASSUME ServiceTyped, OrdersBounded, NEW o \in Orders, NEW r, RequestShape(r), RequestTyped(r),
         Proceed(o, r)
  PROVE  OrdersBounded'
<1>1. StoreBounded(svc')
  <2>1. svc' = svc \/ svc' = PublishFailed(svc, 0)
    BY DEF Proceed
  <2>. QED
    BY <2>1, FailureKeepsStore DEF OrdersBounded
<1>2. PICK t : req' = [req EXCEPT ![o] = t] /\ RequestTyped(t)
  <2>1. RequestTyped(Answering(r, 500, 0)) /\ RequestTyped(Answering(r, 503, 0))
    BY AnsweringTyped
  <2>2. RequestTyped([r EXCEPT !.pc = "publishing"])
    BY DEF RequestShape, RequestTyped
  <2>. QED
    BY <2>1, <2>2 DEF Proceed
<1>. QED
  BY <1>1, <1>2, OneRequestTyped

\* The orders service keeps its types and its store's bound.
LEMMA OrdersBoundedStep ==
  ServiceTyped /\ OrdersBounded /\ [Next]_vars => OrdersBounded'
<1>. SUFFICES ASSUME ServiceTyped, OrdersBounded, [Next]_vars PROVE OrdersBounded'
  OBVIOUS
<1>1. ASSUME NEW o \in Orders, Arrive(o) PROVE OrdersBounded'
  <2>1. PICK r : r = [req[o] EXCEPT !.life = svc.life, !.latency = 1, !.sent = col.seg]
    OBVIOUS
  <2>2. RequestShape(r) /\ RequestTyped(r)
    BY <2>1 DEF ServiceTyped, RequestShape, OrdersBounded, RequestTyped
  <2>3. PICK t : t = [r EXCEPT !.pc = "sleeping", !.latency = 4]
    OBVIOUS
  <2>4. RequestTyped(t)
    BY <2>2, <2>3 DEF RequestShape, RequestTyped
  <2>5. PICK u : u = Answering(r, 422, 0)
    OBVIOUS
  <2>6. RequestTyped(u)
    BY <2>2, <2>5, AnsweringTyped
  <2>7. \/ req' = [req EXCEPT ![o] = t] /\ UNCHANGED svc
        \/ req' = [req EXCEPT ![o] = u] /\ UNCHANGED svc
        \/ Proceed(o, r)
    BY <1>1, <2>1, <2>3, <2>5 DEF Arrive
  <2>. QED
    BY <2>2, <2>4, <2>6, <2>7, ProceedTyped, OneRequestTyped DEF OrdersBounded
<1>2. ASSUME NEW o \in Orders, Awake(o) PROVE OrdersBounded'
  BY <1>2, ProceedTyped DEF Awake, ServiceTyped, OrdersBounded
<1>3. ASSUME NEW o \in Orders, Published(o) PROVE OrdersBounded'
  <2>1. RequestTyped(Answering(req[o], 201, 0)) /\ RequestTyped(Answering(req[o], 503, 1))
    BY AnsweringTyped DEF ServiceTyped
  <2>2. PICK t : req' = [req EXCEPT ![o] = t] /\ RequestTyped(t)
    BY <1>3, <2>1 DEF Published, ServiceTyped
  <2>3. StoreBounded(svc')
    <3>1. CASE svc' = PublishFailed(svc, 2)
      BY <3>1, FailureKeepsStore DEF OrdersBounded
    <3>2. CASE svc' = [svc EXCEPT !.store = AddOrder(@, o), !.cnt.created = @ + 1,
                                  !.cnt.pubok = @ + 1, !.cnt.publat = @ + 1]
      <4>1. svc'.ready = svc.ready /\ svc'.store = AddOrder(svc.store, o)
        BY <3>2 DEF ServiceTyped, ServiceShape
      <4>. QED
        BY <4>1, StoreKeepsBound DEF OrdersBounded, StoreBounded
    <3>. QED
      BY <1>3, <3>1, <3>2 DEF Published
  <2>. QED
    BY <2>2, <2>3, OneRequestTyped
<1>4. ASSUME NEW o \in Orders, Respond(o) PROVE OrdersBounded'
  <2>1. svc'.ready = svc.ready /\ svc'.store = svc.store
    BY <1>4 DEF Respond, ServiceTyped, ServiceShape
  <2>2. \A p \in Orders : RequestTyped(req'[p])
    BY <1>4 DEF Respond, ServiceTyped, RequestShape, OrdersBounded, RequestTyped
  <2>. QED
    BY <2>1, <2>2 DEF OrdersBounded, StoreBounded, RequestTyped
<1>5. CASE RestartService
  <2>1. StoreBounded(svc')
    <3>1. PICK ready \in BOOLEAN : svc' = FreshService(svc.life + 1, ready)
      BY <1>5 DEF RestartService
    <3>2. svc'.ready = ready /\ svc'.store = <<>>
      BY <3>1 DEF FreshService
    <3>3. <<>> \in Seq(Orders) /\ Len(<<>>) <= MaxStore
      BY TelemetryAssumption
    <3>. QED
      BY <3>2, <3>3 DEF StoreBounded
  <2>2. \A o \in Orders : RequestTyped(req'[o])
    BY <1>5 DEF RestartService, ServiceTyped, RequestShape, OrdersBounded, RequestTyped
  <2>. QED
    BY <2>1, <2>2 DEF OrdersBounded, StoreBounded, RequestTyped
<1>6. CASE PutSimulation \/ StartSegment
  <2>1. svc'.ready = svc.ready /\ svc'.store = svc.store /\ req' = req
    BY <1>6 DEF PutSimulation, StartSegment, ServiceTyped, ServiceShape
  <2>. QED
    BY <2>1 DEF OrdersBounded, StoreBounded, RequestTyped
<1>7. CASE \/ StartDetector \/ ScrapeFails \/ Tick \/ StopDetector \/ DetectorStep
           \/ CollectorFails \/ CollectScrape \/ Drain \/ UNCHANGED vars
  <2>1. UNCHANGED <<svc, req>>
    BY <1>7 DEF StartDetector, ScrapeFails, Tick, StopDetector, DetectorStep, PublishReturns,
                LoopEnds, CollectorFails, CollectScrape, Drain, vars
  <2>. QED
    BY <2>1 DEF OrdersBounded, StoreBounded, RequestTyped
<1>. QED
  BY <1>1, <1>2, <1>3, <1>4, <1>5, <1>6, <1>7 DEF Next, OrdersStep, CollectorStep

\* The detector keeps its buffer's bound.
LEMMA DetectorBoundedStep ==
  ServiceTyped /\ DetectorTyped /\ Remembers /\ DetectorBounded /\ [Next]_vars => DetectorBounded'
<1>. SUFFICES ASSUME ServiceTyped, DetectorTyped, Remembers, DetectorBounded, [Next]_vars
              PROVE  DetectorBounded'
  OBVIOUS
<1>0. det.now \in Nat /\ MaxPolls \in Nat /\ RollingWindow \in Nat
  BY TelemetryAssumption, SignalAssumption DEF DetectorTyped
<1>1. CASE Tick
  <2>1. TickAlways /\ (TickIdle \/ TickWindow)
    BY <1>1, TickIs
  <2>2. det'.stop \in BOOLEAN /\ det'.now <= MaxPolls
    BY <1>0, <1>1, <2>1 DEF TickAlways, DetectorBounded, Tick, NextTick
  <2>3. Len(det'.buffer) <= RollingWindow
    <3>1. CASE TickIdle
      BY <3>1 DEF TickIdle, DetectorBounded
    <3>2. CASE TickWindow
      <4>1. PICK longer \in Seq(Signals) : longer = Append(det.buffer, Closed)
        BY <3>2, ClosedType, AppendProperties DEF TickWindow, DetectorTyped
      <4>2. Len(Trailing(longer, RollingWindow)) <= RollingWindow
        BY <1>0, TrailingBound
      <4>. QED
        BY <3>2, <4>1, <4>2 DEF TickWindow, Push
    <3>. QED
      BY <2>1, <3>1, <3>2
  <2>. QED
    BY <2>2, <2>3 DEF DetectorBounded
<1>2. CASE det' = Gone
  <2>1. Gone.stop = TRUE
    BY DEF Gone, FreshDetector
  <2>2. det'.stop = TRUE /\ det'.now = 0 /\ det'.buffer = <<>>
    BY <1>2, <2>1, GoneIs
  <2>3. Len(<<>>) <= RollingWindow
    BY <1>0
  <2>4. Len(det'.buffer) <= RollingWindow
    BY <2>2, <2>3
  <2>5. det'.stop \in BOOLEAN
    BY <2>2
  <2>6. det'.now <= MaxPolls
    BY <1>0, <2>2
  <2>. QED
    BY <2>4, <2>5, <2>6, Zenon DEF DetectorBounded
<1>3. CASE UNCHANGED det
  BY <1>3 DEF DetectorBounded
<1>4. CASE (StartDetector \/ ScrapeFails \/ PublishReturns \/ StopDetector \/ LoopEnds) /\ det' # Gone
  <2>1. det'.buffer = det.buffer
    BY <1>4, DetectorOther
  <2>2. det'.stop \in BOOLEAN
    <3>1. CASE StartDetector \/ ScrapeFails \/ PublishReturns
      <4>1. det'.stop = det.stop
        BY <3>1 DEF StartDetector, ScrapeFails, PublishReturns, DetectorTyped, DetectorFields
      <4>. QED
        BY <4>1 DEF DetectorBounded
    <3>2. CASE StopDetector
      <4>1. det' = [det EXCEPT !.stop = TRUE]
        BY <1>4, <3>2 DEF StopDetector
      <4>2. det'.stop = TRUE
        BY <4>1 DEF DetectorTyped, DetectorFields
      <4>. QED
        BY <4>2
    <3>3. CASE LoopEnds
      BY <1>4, <3>3 DEF LoopEnds
    <3>. QED
      BY <1>4, <3>1, <3>2, <3>3
  <2>3. det'.now <= MaxPolls
    <3>1. CASE ScrapeFails
      <4>1. det'.now = det.now + 1 /\ det.now < MaxPolls
        BY <3>1 DEF ScrapeFails, NextTick, DetectorTyped, DetectorFields
      <4>. QED
        BY <1>0, <4>1
    <3>2. CASE StartDetector \/ PublishReturns
      <4>1. det'.now = det.now
        BY <3>2 DEF StartDetector, PublishReturns, DetectorTyped, DetectorFields
      <4>. QED
        BY <4>1 DEF DetectorBounded
    <3>3. CASE StopDetector
      <4>1. det' = [det EXCEPT !.stop = TRUE]
        BY <1>4, <3>3 DEF StopDetector
      <4>2. det'.now = det.now
        BY <4>1 DEF DetectorTyped, DetectorFields
      <4>. QED
        BY <4>2 DEF DetectorBounded
    <3>4. CASE LoopEnds
      BY <1>4, <3>4 DEF LoopEnds
    <3>. QED
      BY <1>4, <3>1, <3>2, <3>3, <3>4
  <2>. QED
    BY <2>1, <2>2, <2>3 DEF DetectorBounded
<1>. QED
  BY <1>1, <1>2, <1>3, <1>4, DetectorSteps

\* So do the topic and the faults.
LEMMA RestTypedStep ==
  RestTyped /\ [Next]_vars => RestTyped'
<1>. SUFFICES ASSUME RestTyped, [Next]_vars PROVE RestTyped'
  OBVIOUS
<1>1. watcher' = watcher
  BY DEF Next, vars, Arrive, OrdersStep, Awake, Published, Respond, PutSimulation, RestartService,
         CollectorFails, CollectorStep, StartSegment, CollectScrape, Drain, StartDetector,
         ScrapeFails, Tick, StopDetector, DetectorStep, PublishReturns, LoopEnds
<1>2. topic' = topic \/ \E o \in Orders : topic' = topic \cup {o}
  BY DEF Next, vars, Arrive, OrdersStep, Awake, Published, Respond, PutSimulation, RestartService,
         CollectorFails, CollectorStep, StartSegment, CollectScrape, Drain, StartDetector,
         ScrapeFails, Tick, StopDetector, DetectorStep, PublishReturns, LoopEnds
<1>3. faults' = faults \/ Fail
  BY DEF Next, vars, Arrive, OrdersStep, Awake, Published, Respond, PutSimulation, RestartService,
         CollectorFails, CollectorStep, StartSegment, CollectScrape, Drain, StartDetector,
         ScrapeFails, Tick, StopDetector, DetectorStep, PublishReturns, LoopEnds
<1>4. faults' \in 0 .. MaxFaults
  BY <1>3, TelemetryAssumption DEF Fail, CanFail, RestTyped
<1>. QED
  BY <1>1, <1>2, <1>4 DEF RestTyped

\* Every part of the state has its type, for any number of requests, polls and
\* failures: the order store keeps max_size (store.py), the featurizer's buffer
\* its window, and a POST /orders is answered 201, 422, 500 or 503 (api.py and the
\* validation of CreateOrderRequest, domain.py).
THEOREM TypeCorrectness == Spec => []TypeOK
<1>1. Init => OrdersBounded /\ DetectorBounded /\ RestTyped
  <2>. SUFFICES ASSUME Init PROVE OrdersBounded /\ DetectorBounded /\ RestTyped
    OBVIOUS
  <2>1. MaxStore \in Nat /\ RollingWindow \in Nat /\ MaxPolls \in Nat /\ MaxFaults \in Nat
    BY TelemetryAssumption, SignalAssumption
  <2>2. <<>> \in Seq(Orders) /\ Len(<<>>) <= MaxStore /\ Len(<<>>) <= RollingWindow
    BY <2>1
  <2>3. svc.ready = TRUE /\ svc.store = <<>> /\ det.stop = FALSE /\ det.now = 0 /\ det.buffer = <<>>
    BY DEF Init, FreshService, FreshDetector
  <2>4. \A o \in Orders : RequestTyped(req[o])
    BY DEF Init, NewRequest, RequestTyped
  <2>5. StoreBounded(svc)
    BY <2>2, <2>3 DEF StoreBounded
  <2>6. DetectorBounded
    <3>1. Len(det.buffer) <= RollingWindow
      BY <2>2, <2>3
    <3>2. det.stop \in BOOLEAN
      BY <2>3
    <3>3. det.now <= MaxPolls
      BY <2>1, <2>3
    <3>. QED
      BY <3>1, <3>2, <3>3, Zenon DEF DetectorBounded
  <2>7. RestTyped
    BY <2>1 DEF Init, RestTyped
  <2>. QED
    BY <2>4, <2>5, <2>6, <2>7 DEF OrdersBounded
<1>2. ServiceTyped /\ DetectorTyped /\ EventsSound /\ CollectorTyped
        /\ OrdersBounded /\ DetectorBounded /\ RestTyped => TypeOK
  <2>. SUFFICES ASSUME ServiceTyped, DetectorTyped, EventsSound, CollectorTyped,
                       OrdersBounded, DetectorBounded, RestTyped
                PROVE  TypeOK
    OBVIOUS
  <2>1. svc.life \in Nat /\ \A f \in Cumulative : svc.cnt[f] \in Nat
    BY DEF ServiceTyped, ServiceShape, Snapshots, Cumulative
  <2>2. det.now \in 0 .. MaxPolls
    BY TelemetryAssumption DEF DetectorTyped, DetectorBounded
  <2>3. Range(events) \subseteq Nat
    BY DEF EventsSound, Range
  <2>. QED
    BY <2>1, <2>2, <2>3 DEF DetectorTyped, CollectorTyped, OrdersBounded, StoreBounded, RequestTyped,
                            DetectorBounded, RestTyped, TypeOK
<1>. QED
  BY <1>1, <1>2, ServiceInit, DetectorInit, LabelsInit, ServiceStep, DetectorTypedStep, ReconcileStep,
     CollectorTypedStep, OrdersBoundedStep, DetectorBoundedStep, RestTypedStep, PTL DEF Spec
=============================================================================
