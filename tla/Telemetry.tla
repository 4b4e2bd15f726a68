------------------------------ MODULE Telemetry ------------------------------
(***************************************************************************)
(* The orders service and the two programs that watch its /metrics: the    *)
(* anomaly detector's scrape-score-publish loop, and the collector that    *)
(* drives labelled traffic for training.  One of the two watches.          *)
(*                                                                         *)
(* Coroutines of the orders service interleave at their awaits: the        *)
(* injected sleep, the publish, the response.  Latencies are in abstract   *)
(* units, a second of the detector's clock is one poll interval.           *)
(***************************************************************************)
EXTENDS SignalWindows

CONSTANTS
    MaxOrders,              \* bounds the POST /orders requests
    Payloads,               \* the knob settings a developer puts
    Plan,                   \* the collector's sequence of scenarios
    ScrapesPerSegment,
    MaxInflight,            \* requests the collector keeps in flight
    MaxStore,               \* OrderStore.max_size
    MaxPolls,               \* bounds the detector's scrapes
    MaxFaults,              \* bounds restarts, failures and simulation changes
    MaxIdle,                \* HealthSettings: polls without an inference
    MaxAnomalyPercent,      \* HealthSettings: share of anomalies
    PublishOnlyAnomalies

ASSUME TelemetryAssumption ==
    /\ Payloads \subseteq [latency : BOOLEAN, error : BOOLEAN, puberr : BOOLEAN]
    /\ MaxOrders \in Nat /\ ScrapesPerSegment \in Nat \ {0, 1}
    /\ MaxInflight \in Nat \ {0} /\ MaxStore \in Nat \ {0}
    /\ MaxPolls \in Nat /\ MaxFaults \in Nat
    /\ MaxIdle \in Nat /\ MaxAnomalyPercent \in 0 .. 100
    /\ PublishOnlyAnomalies \in BOOLEAN

\* The code's floats hold every ratio of counts and every rate exactly enough:
\* the units divide every number of requests and every time between scrapes.
ASSUME ScaleAssumption ==
    /\ \A n \in 1 .. MaxOrders : Scale % n = 0
    /\ \A t \in 1 .. MaxPolls : Scale % t = 0

VARIABLES
    watcher,     \* which program watches: "detector" or "collector"
    svc,         \* the orders service
    req,         \* its requests
    topic,       \* orders delivered to orders.events
    det,         \* the detector
    events,      \* the windows delivered to anomaly.detected, as their numbers
    col,         \* the collector
    faults

vars == <<watcher, svc, req, topic, det, events, col, faults>>

\* The requests, numbered as they arrive.
Orders == 1 .. MaxOrders

\* SCENARIOS: what the simulation knobs allow.
Scenarios ==
    [normal |-> [latency |-> FALSE, error |-> FALSE, puberr |-> FALSE],
     latency |-> [latency |-> TRUE, error |-> FALSE, puberr |-> FALSE],
     errors |-> [latency |-> FALSE, error |-> TRUE, puberr |-> FALSE],
     publish_failure |-> [latency |-> FALSE, error |-> FALSE, puberr |-> TRUE],
     surge |-> [latency |-> FALSE, error |-> FALSE, puberr |-> FALSE],
     recovery |-> [latency |-> FALSE, error |-> FALSE, puberr |-> FALSE]]

\* A process of the orders service: everything here dies with it.
FreshService(life, ready) ==
    [life |-> life, ready |-> ready, sim |-> Scenarios["normal"], store |-> <<>>,
     cnt |-> EmptySnapshot]

\* counted: which response of its process life the request was; sent: the segment.
NewRequest == [pc |-> "new", latency |-> 0, status |-> None, life |-> 0, counted |-> 0, sent |-> None]

\* A process of the detector: the metrics source, the featurizer's buffer and
\* the counters; raw and windows record what it scraped and what it scored.
FreshDetector ==
    [pc |-> "off", stop |-> FALSE, now |-> 0, prev |-> None, prevAt |-> 0, buffer |-> <<>>,
     inferences |-> 0, last |-> 0, anomalies |-> 0, published |-> 0, failures |-> 0,
     raw |-> <<>>, windows |-> <<>>, features |-> None]

Init ==
    /\ watcher \in {"detector", "collector"}
    /\ svc = FreshService(1, TRUE)
    /\ req = [o \in Orders |-> NewRequest]
    /\ topic = {}
    /\ det = FreshDetector
    /\ events = <<>>
    /\ col = [pc |-> IF watcher = "collector" THEN "segment" ELSE "off", seg |-> 1, at |-> 0,
              count |-> 0, rows |-> <<>>]
    /\ faults = 0

CanFail == faults < MaxFaults
Fail == CanFail /\ faults' = faults + 1

\* Mutant of Inflight: a request whose connection broke stays pending.
MutantInflightKeepsLost ==
    {o \in Orders : req[o].pc \in {"sleeping", "publishing", "responding", "lost"}}

\* Requests without an answer yet: the collector's pending tasks.
Inflight == {o \in Orders : req[o].pc \in {"sleeping", "publishing", "responding"}}

-----------------------------------------------------------------------------
(* The orders service.                                                     *)

\* The response a request will get; the http metrics see it when it is sent.
Answering(r, status, latency) ==
    [r EXCEPT !.pc = "responding", !.status = status, !.latency = @ + latency]

\* _publish_event on failure, after a wait of so long.
PublishFailed(s, wait) == [s EXCEPT !.cnt.pubfail = @ + 1, !.cnt.publat = @ + wait]

\* OrderStore.add: the oldest order makes room.
AddOrder(store, o) == Trailing(Append(store, o), MaxStore)

\* create_order from the end of the injected latency to the next await: the
\* knobs are read now, not when the request arrived.
Proceed(o, r) ==
    \/ /\ svc.sim.error
       /\ req' = [req EXCEPT ![o] = Answering(r, 500, 0)]
       /\ UNCHANGED svc
    \/ /\ svc.sim.puberr \/ ~ svc.ready
       /\ req' = [req EXCEPT ![o] = Answering(r, 503, 0)]
       /\ svc' = PublishFailed(svc, 0)
    \/ /\ svc.ready
       /\ req' = [req EXCEPT ![o] = [r EXCEPT !.pc = "publishing"]]
       /\ UNCHANGED svc

\* Nothing new happens to the service once its watcher has left: no property
\* would see it.
Watched == ~ det.stop /\ col.pc \notin {"written", "failed"}

\* Traffic comes from clients, or from the collector's _drive_traffic while its
\* segment runs, never more than max_inflight at once.
MaySend == \/ watcher = "detector" /\ Watched
           \/ col.pc = "scraping" /\ Cardinality(Inflight) < MaxInflight

\* A POST /orders: a body that CreateOrderRequest does not accept is answered 422
\* before create_order, which the collector's bodies never are; otherwise
\* create_order is entered, and apply_request_latency sleeps if the knob is set.
Arrive(o) ==
    LET r == [req[o] EXCEPT !.life = svc.life, !.latency = 1, !.sent = col.seg]
    IN  /\ req[o].pc = "new" /\ \A p \in 1 .. o - 1 : req[p].pc # "new"
        /\ MaySend
        /\ \/ /\ watcher = "detector"
              /\ req' = [req EXCEPT ![o] = Answering(r, 422, 0)]
              /\ UNCHANGED svc
           \/ /\ svc.sim.latency
              /\ req' = [req EXCEPT ![o] = [r EXCEPT !.pc = "sleeping", !.latency = 4]]
              /\ UNCHANGED svc
           \/ /\ ~ svc.sim.latency
              /\ Proceed(o, r)
        /\ UNCHANGED <<watcher, topic, det, events, col, faults>>

\* apply_request_latency returns.
Awake(o) ==
    /\ req[o].pc = "sleeping"
    /\ Proceed(o, req[o])
    /\ UNCHANGED <<watcher, topic, det, events, col, faults>>

\* publish and what follows it: an order is stored and counted once its event
\* is acknowledged; a failed or timed out publish is a 503, although the broker
\* may have the event.
Published(o) ==
    /\ req[o].pc = "publishing"
    /\ \/ /\ topic' = topic \cup {o}
          /\ svc' = [svc EXCEPT !.store = AddOrder(@, o), !.cnt.created = @ + 1,
                                !.cnt.pubok = @ + 1, !.cnt.publat = @ + 1]
          /\ req' = [req EXCEPT ![o] = Answering(@, 201, 0)]
          /\ UNCHANGED faults
       \/ /\ Fail
          /\ topic' \in {topic, topic \cup {o}}
          /\ svc' = PublishFailed(svc, 2)
          /\ req' = [req EXCEPT ![o] = Answering(@, 503, 1)]
    /\ UNCHANGED <<watcher, det, events, col>>

\* Mutant of StatusClass: what is no success is a server error, also a refusal.
MutantStatusClassTwoWays(status) == IF status = 201 THEN 2 ELSE 5

\* _status_class: the first digit of the answer, 201, 422, 500 or 503.
StatusClass(status) == status \div 100

\* The HTTP instrumentation counts a request when its response is sent.
Respond(o) ==
    LET r == req[o]
    IN  /\ r.pc = "responding"
        /\ svc' = [svc EXCEPT !.cnt.post = @ + 1, !.cnt.latency = @ + r.latency,
                              !.cnt.ok = @ + IF StatusClass(r.status) = 2 THEN 1 ELSE 0,
                              !.cnt.refused = @ + IF StatusClass(r.status) = 4 THEN 1 ELSE 0,
                              !.cnt.err = @ + IF StatusClass(r.status) = 5 THEN 1 ELSE 0,
                              !.cnt.buckets = Observe(@, r.latency)]
        /\ req' = [req EXCEPT ![o].pc = "done", ![o].counted = svc.cnt.post + 1]
        /\ UNCHANGED <<watcher, topic, det, events, col, faults>>

\* put_simulation by a developer.
PutSimulation ==
    /\ watcher = "detector" /\ Watched
    /\ Fail
    /\ \E payload \in Payloads : svc' = [svc EXCEPT !.sim = payload]
    /\ UNCHANGED <<watcher, req, topic, det, events, col>>

\* The process restarts: its requests get no answer, its counters start over,
\* the knobs are those of its settings; the producer may fail to start.
RestartService ==
    /\ Watched
    /\ Fail
    /\ \E ready \in BOOLEAN : svc' = FreshService(svc.life + 1, ready)
    /\ req' = [o \in Orders |-> IF o \in Inflight THEN [req[o] EXCEPT !.pc = "lost"] ELSE req[o]]
    /\ UNCHANGED <<watcher, topic, det, events, col>>

OrdersStep(o) == Awake(o) \/ Published(o) \/ Respond(o)

-----------------------------------------------------------------------------
(* The detector.                                                           *)

\* lifespan: if the topics or the producer cannot be had, the loop never starts.
StartDetector ==
    /\ watcher = "detector"
    /\ det.pc = "off" /\ ~ det.stop
    /\ \/ /\ det' = [det EXCEPT !.pc = "waiting"]
          /\ UNCHANGED faults
       \/ /\ Fail
          /\ det' = [det EXCEPT !.pc = "unready"]
    /\ UNCHANGED <<watcher, svc, req, topic, events, col>>

\* _run's loop condition, at the start of a tick.
NextTick == det.pc = "waiting" /\ ~ det.stop /\ det.now < MaxPolls

\* ScrapeError: the tick ends, the previous snapshot stays.
ScrapeFails ==
    /\ NextTick
    /\ Fail
    /\ det' = [det EXCEPT !.now = @ + 1]
    /\ UNCHANGED <<watcher, svc, req, topic, events, col>>

\* The window that a scrape closes, None when there is none to close.
ClosedWindow(d, snapshot, at) ==
    IF d.prev = None THEN None ELSE WindowSignals(d.prev, snapshot, at - d.prevAt)

\* Mutant of NextWindow: an invalid window does not replace the previous scrape.
MutantNextWindowKeepsPrevious(d) ==
    LET at == d.now + 1
        signals == ClosedWindow(d, svc.cnt, at)
        row == [at |-> at, snapshot |-> svc.cnt, scenario |-> None, life |-> svc.life]
    IN  [d EXCEPT !.now = at, !.raw = Append(@, row),
                  !.prev = IF signals = None /\ @ # None THEN @ ELSE svc.cnt,
                  !.prevAt = IF signals = None /\ d.prev # None THEN @ ELSE at,
                  !.windows = IF signals = None THEN @ ELSE Append(@, signals)]

\* next_window: the new scrape replaces the previous one, also when the window
\* between them is invalid.
NextWindow(d) ==
    LET at == d.now + 1
        signals == ClosedWindow(d, svc.cnt, at)
        row == [at |-> at, snapshot |-> svc.cnt, scenario |-> None, life |-> svc.life]
    IN  [d EXCEPT !.now = at, !.raw = Append(@, row), !.prev = svc.cnt, !.prevAt = at,
                  !.windows = IF signals = None THEN @ ELSE Append(@, signals)]

\* DetectorState.record_inference and the service metrics.
RecordInference(d, is_anomaly) ==
    [d EXCEPT !.inferences = @ + 1, !.last = d.now, !.anomalies = @ + IF is_anomaly THEN 1 ELSE 0]

\* Mutant of IdleFor: the time since the last scrape.
MutantIdleForScrape(d) == d.now - d.prevAt

\* How long nothing has been scored: since the start, or since the last inference.
IdleFor(d) == IF d.inferences = 0 THEN d.now ELSE d.now - d.last

\* assess_health, without the latency of the scoring.
AssessHealth(d) == IdleFor(d) <= MaxIdle /\ 100 * d.anomalies <= MaxAnomalyPercent * d.inferences

\* _readiness: ok while the loop runs, healthy if it also works.
Ok(d) == d.pc \in {"waiting", "publishing"}
Healthy(d) == Ok(d) /\ AssessHealth(d)

\* The anomaly.detected event of the newest window; its number stands for it.
AnomalyEvent(d) == Len(d.windows)

\* tick to its next await.  The model's verdict is free; scoring may raise, which
\* ends the tick with the window in the featurizer's buffer.
Tick ==
    /\ NextTick
    /\ LET d == NextWindow(det)
           buffer == Push(det.buffer, Last(d.windows))
           scored == [d EXCEPT !.buffer = buffer, !.features = BuildFeatures(buffer)]
       IN  IF Len(d.windows) = Len(det.windows)
           THEN det' = d /\ UNCHANGED faults
           ELSE \/ /\ Fail
                   /\ det' = scored
                \/ /\ \E is_anomaly \in BOOLEAN :
                         det' = [RecordInference(scored, is_anomaly)
                                   EXCEPT !.pc = IF is_anomaly \/ ~ PublishOnlyAnomalies
                                                 THEN "publishing" ELSE "waiting"]
                   /\ UNCHANGED faults
    /\ UNCHANGED <<watcher, svc, req, topic, events, col>>

\* Mutant of PublishReturns: a failed publish is tried again on the next round.
MutantPublishReturnsRetries ==
    /\ det.pc = "publishing"
    /\ \/ /\ events' = Append(events, AnomalyEvent(det))
          /\ det' = [det EXCEPT !.pc = "waiting", !.published = @ + 1]
          /\ UNCHANGED faults
       \/ /\ Fail
          /\ events' \in {events, Append(events, AnomalyEvent(det))}
          /\ det' = [det EXCEPT !.failures = @ + 1]
    /\ UNCHANGED <<watcher, svc, req, topic, col>>

\* _publish: a failure is counted and the window is not tried again; the broker
\* may have the event all the same.
PublishReturns ==
    /\ det.pc = "publishing"
    /\ \/ /\ events' = Append(events, AnomalyEvent(det))
          /\ det' = [det EXCEPT !.pc = "waiting", !.published = @ + 1]
          /\ UNCHANGED faults
       \/ /\ Fail
          /\ events' \in {events, Append(events, AnomalyEvent(det))}
          /\ det' = [det EXCEPT !.pc = "waiting", !.failures = @ + 1]
    /\ UNCHANGED <<watcher, svc, req, topic, col>>

\* A process that has ended: its counters and buffers are gone.
Gone == [FreshDetector EXCEPT !.pc = "stopped", !.stop = TRUE]

\* The end of the lifespan: runner.stop sets the event, which wakes a waiting
\* loop, and awaits the loop.
StopDetector ==
    /\ watcher = "detector" /\ ~ det.stop
    /\ det' = IF det.pc = "publishing" THEN [det EXCEPT !.stop = TRUE] ELSE Gone
    /\ UNCHANGED <<watcher, svc, req, topic, events, col, faults>>

\* The loop sees the event at the end of a tick; healthy goes, then the producer.
LoopEnds ==
    /\ det.stop /\ det.pc = "waiting"
    /\ det' = Gone
    /\ UNCHANGED <<watcher, svc, req, topic, events, col, faults>>

-----------------------------------------------------------------------------
(* The collector.                                                          *)

\* A request of the collector to the service gets no answer and raises; the
\* status of an answer is not looked at.
CollectorFails ==
    /\ col.pc \in {"segment", "scraping"}
    /\ Fail
    /\ col' = [col EXCEPT !.pc = "failed"]
    /\ UNCHANGED <<watcher, svc, req, topic, det, events>>

\* collect: the next segment's knobs are set and its traffic starts; after the
\* last one the knobs go back to normal and the rows are written.
StartSegment ==
    /\ col.pc = "segment"
    /\ IF col.seg <= Len(Plan)
       THEN /\ svc' = [svc EXCEPT !.sim = Scenarios[Plan[col.seg]]]
            /\ col' = [col EXCEPT !.pc = "scraping", !.count = 0]
       ELSE /\ svc' = [svc EXCEPT !.sim = Scenarios["normal"]]
            /\ col' = [col EXCEPT !.pc = "written"]
    /\ UNCHANGED <<watcher, req, topic, det, events, faults>>

CollectScrape ==
    LET row == [at |-> col.at + 1, snapshot |-> svc.cnt, scenario |-> Plan[col.seg],
                life |-> svc.life]
    IN  /\ col.pc = "scraping"
        /\ col' = [col EXCEPT !.at = @ + 1, !.count = @ + 1, !.rows = Append(@, row),
                              !.pc = IF col.count + 1 = ScrapesPerSegment THEN "draining" ELSE @]
        /\ UNCHANGED <<watcher, svc, req, topic, det, events, faults>>

\* Mutant of Drain: the next segment starts while requests are in flight.
MutantDrainAtOnce ==
    /\ col.pc = "draining"
    /\ col' = [col EXCEPT !.pc = "segment", !.seg = @ + 1]
    /\ UNCHANGED <<watcher, svc, req, topic, det, events, faults>>

\* stop.set and await traffic: a request ends within the 10 s of the client.
Drain ==
    /\ col.pc = "draining"
    /\ Inflight = {}
    /\ col' = [col EXCEPT !.pc = "segment", !.seg = @ + 1]
    /\ UNCHANGED <<watcher, svc, req, topic, det, events, faults>>

-----------------------------------------------------------------------------
DetectorStep == PublishReturns \/ LoopEnds
CollectorStep == StartSegment \/ CollectScrape \/ Drain

Next ==
    \/ \E o \in Orders : Arrive(o) \/ OrdersStep(o)
    \/ PutSimulation \/ RestartService
    \/ StartDetector \/ ScrapeFails \/ Tick \/ StopDetector \/ DetectorStep
    \/ CollectorFails \/ CollectorStep

Spec == Init /\ [][Next]_vars

\* Sleeps and publishes end (publish_timeout_seconds, the producer's own
\* timeout), the event loop runs what is ready.
Fairness ==
    /\ \A o \in Orders : WF_vars(OrdersStep(o))
    /\ WF_vars(DetectorStep)
    /\ WF_vars(CollectorStep)

FairSpec == Spec /\ Fairness

-----------------------------------------------------------------------------
(* Properties.                                                             *)

\* Every part of the state has its type; the stores and buffers keep their bounds.
TypeOK ==
    /\ watcher \in {"detector", "collector"}
    /\ svc.life \in Nat /\ svc.ready \in BOOLEAN
    /\ svc.store \in Seq(Orders) /\ Len(svc.store) <= MaxStore
    /\ \A f \in Cumulative : svc.cnt[f] \in Nat
    /\ \A o \in Orders :
          /\ req[o].pc \in {"new", "sleeping", "publishing", "responding", "done", "lost"}
          /\ req[o].status \in {None, 201, 422, 500, 503}
    /\ topic \subseteq Orders
    /\ det.pc \in {"off", "unready", "waiting", "publishing", "stopped"}
    /\ det.stop \in BOOLEAN /\ det.now \in 0 .. MaxPolls
    /\ Len(det.buffer) <= RollingWindow
    /\ Range(events) \subseteq Nat
    /\ col.pc \in {"off", "segment", "scraping", "draining", "written", "failed"}
    /\ faults \in 0 .. MaxFaults

\* The requests a window between two scrapes of one process life is about.
CountedBetween(first, last) ==
    {o \in Orders : /\ req[o].counted > first.snapshot.post /\ req[o].counted <= last.snapshot.post
                    /\ req[o].life = last.life}

\* The live windows of the detector are the windows that the offline pipeline
\* makes of the same scrapes: failed scrapes, restarts of the service and
\* invalid windows do not make training and serving see different telemetry.
LiveMatchesOffline ==
    LET prepared == PrepareRun(det.raw)
    IN  det.windows = [i \in DOMAIN prepared |-> prepared[i].signals]

\* The window that the newest scrape of the detector or the collector closes.
NewestWindows == Range(PrepareRun(Trailing(det.raw, 2))) \cup Range(PrepareRun(Trailing(col.rows, 2)))

\* A window between scrapes of one process life accounts exactly for the
\* requests answered between them: all of them over the time, the orders created
\* and those that failed over all of them; what the two ratios leave is refused.
AccountsForTraffic(w) ==
    LET counted == CountedBetween(w.first, w.last)
        answered(statuses) == Cardinality({o \in counted : req[o].status \in statuses})
        error_rate == w.signals.error_rate
        success_rate == w.signals.success_rate
    IN  w.first.life = w.last.life =>
          /\ w.signals.request_rate * (w.last.at - w.first.at) = Scale * Cardinality(counted)
          /\ error_rate * OrOne(Cardinality(counted)) = Scale * answered({500, 503})
          /\ success_rate * OrOne(Cardinality(counted)) = Scale * answered({201})
          /\ (Scale - error_rate - success_rate) * Cardinality(counted) = Scale * answered({422})
          /\ w.signals.publish_error_rate \in 0 .. Scale

\* Every window, live or of a training run, accounts for its traffic, whatever
\* requests are in flight, fail, are refused or are cut off while it is open.
WindowsAccountForTraffic == \A w \in NewestWindows : AccountsForTraffic(w)

\* The latency quantiles of a window lie in the histogram bucket where the true
\* quantile of the requests it counts lies, and are in order.
LocatesLatency(w) ==
    LET counted == CountedBetween(w.first, w.last)
        upto(b) == {o \in counted : b > Len(Bounds) \/ req[o].latency <= Bounds[Min({b, Len(Bounds)})]}
        bucket(q) == Min({b \in Buckets : 100 * Cardinality(upto(b)) >= q * Cardinality(counted)})
        lower(b) == IF b = 1 THEN 0 ELSE Bounds[b - 1]
    IN  w.first.life = w.last.life /\ counted # {} =>
          /\ \A q \in Quantiles :
                /\ w.signals.latency_quantile[q] >= Scale * lower(bucket(q))
                /\ w.signals.latency_quantile[q] <= Scale * Bounds[Min({bucket(q), Len(Bounds)})]
          /\ w.signals.latency_quantile[50] <= w.signals.latency_quantile[90]
          /\ w.signals.latency_quantile[90] <= w.signals.latency_quantile[95]

\* Every window, live or of a training run, estimates the latencies of its own
\* requests, not of those before it.
QuantilesLocateLatency == \A w \in NewestWindows : LocatesLatency(w)

\* The features the model scored, built from the bounded buffer, are those that
\* training would build from the detector's whole history.
StreamMatchesBatch ==
    det.features # None => det.features = BuildFeatures(det.windows)

\* Every anomalous window is published, or counted as failed, exactly once, and
\* no window is on the topic twice or out of order, whatever scrapes, scores
\* and publishes fail, and also while the detector is being stopped.
AnomaliesReconcile ==
    /\ PublishOnlyAnomalies =>
          det.anomalies = det.published + det.failures + IF det.pc = "publishing" THEN 1 ELSE 0
    /\ det.pc # "stopped" =>
          Len(events) >= det.published /\ Len(events) <= det.published + det.failures
    /\ \A i, j \in DOMAIN events : i < j => events[i] < events[j]
    /\ det.inferences <= Len(det.windows)

\* A detector that calls itself healthy has just started, or has not long ago
\* closed a window: a service that cannot be scraped, or whose counters keep
\* starting over, shows in the detector's health although its loop goes on.
HealthIsCurrent ==
    Healthy(det) => \/ det.now <= MaxIdle
                    \/ \E w \in Range(PrepareRun(Trailing(det.raw, MaxIdle + 2))) :
                          w.last.at >= det.now - MaxIdle

\* A window of a training run is labelled with the scenario under which every
\* request it counts was sent, unless the service restarted in the segment.
LabelsHonest ==
    col.pc = "written" =>
        \A w \in Range(PrepareRun(col.rows)) :
            w.first.life = w.last.life =>
                \A o \in CountedBetween(w.first, w.last) : Plan[req[o].sent] = w.label

\* A collection ends, written or given up on the first failed request: every
\* request it drains is answered or dies with its process.
CollectionEnds == watcher = "collector" ~> col.pc \in {"written", "failed"}

==============================================================================
