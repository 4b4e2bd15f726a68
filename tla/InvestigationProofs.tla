------------------------- MODULE InvestigationProofs -------------------------
(***************************************************************************)
(* What Investigation promises, proved for any partition of records, any   *)
(* incidents and callers and any number of retries, faults and runs: no    *)
(* committed record is skipped, an incident has one run started by an      *)
(* event at most, a finished run is never written again, and an answer     *)
(* that says a run has ended shows all of it.                              *)
(***************************************************************************)
EXTENDS Investigation, TLAPS

-----------------------------------------------------------------------------
(* The inductive invariant.                                                *)

Owning == {"run", "complete"}
Working == {"check", "begin", "lookup"} \cup Owning

HasRow(i) == \E n \in Runs : investigations[n].incident = i
HasRowNext(i) == \E n \in Runs : investigations'[n].incident = i

Tables ==
    /\ DOMAIN investigations = Runs
    /\ DOMAIN starter = Starters

\* What the consumer's position is worth: everything before it is settled, and
\* so is the record it is about to commit.
ConsumerSound ==
    /\ committed \in Nat /\ consumer.pos \in Nat
    /\ \A o \in Offsets : o < committed => Settled(o)
    /\ consumer.pc \notin {"down", "dead"} => \A o \in Offsets : o < consumer.pos => Settled(o)
    /\ consumer.pc = "committing" => consumer.pos \in handled
    /\ consumer.pc = "committingDlq" => consumer.pos \in dlq \cup unwritten

\* A handled announcement has left a row.
HandledHasRow ==
    \A o \in Offsets : o \in handled /\ IsIncidentOpened(Message[o]) => HasRow(Message[o].incident)

\* A run that some process works on is reserved, for its incident, and not
\* finished; and only one process works on it.
RunsOwned ==
    /\ \A s \in Starters : starter[s].pc \in Owning =>
          /\ starter[s].run \in Runs
          /\ investigations[starter[s].run].incident = starter[s].incident
          /\ investigations[starter[s].run].status = "PENDING"
    /\ \A s, t \in Starters :
          /\ starter[s].pc \in Owning /\ starter[t].pc \in Owning
          /\ starter[s].run = starter[t].run
          => s = t

EventRowOf(n, i) == investigations[n].trigger = "EVENT" /\ investigations[n].incident = i

\* The handler works on the consumer's record, and past its check no run of its
\* incident was started by an event: only the handler starts those.
HandlerSound ==
    LET r == starter[Handler]
    IN  /\ r.pc # "idle" => /\ r.pc \in Working
                            /\ consumer.pc = "handling"
                            /\ r.incident = Message[consumer.pos].incident
        /\ r.pc = "begin" => \A n \in Runs : ~ EventRowOf(n, r.incident)

IInv ==
    /\ Tables
    /\ ConsumerSound
    /\ HandledHasRow
    /\ RunsOwned
    /\ HandlerSound
    /\ OneEventRunPerIncident

-----------------------------------------------------------------------------
(* Lemmas.                                                                 *)

\* Initially nothing is committed, reserved or running.
LEMMA InitEstablishes == Init => IInv
<1> SUFFICES ASSUME Init PROVE IInv
  OBVIOUS
<1> USE DEF Init, ConsumerInit, Absent, Row, Idle, StarterAt, Down, Task
<1>1. Tables /\ RunsOwned /\ HandlerSound
  BY DEF Tables, RunsOwned, HandlerSound, Owning, Starters
<1>2. ConsumerSound /\ HandledHasRow
  BY ConsumerAssumption DEF ConsumerSound, HandledHasRow, Offsets
<1>3. OneEventRunPerIncident
  BY DEF OneEventRunPerIncident
<1> QED
  BY <1>1, <1>2, <1>3 DEF IInv

\* What writes to the table of investigations: nothing, the INSERT of s, or its UPDATE.
Written(s) ==
    \/ UNCHANGED investigations
    \/ \E n \in NextRow : Reserve(s, n)
    \/ \E report \in BOOLEAN : Store(s, report)

\* No write takes a row away from its incident, or a run of an event from its.
LEMMA RowsStay ==
    ASSUME IInv, NEW s \in Starters, Written(s)
    PROVE  /\ DOMAIN investigations' = Runs
           /\ \A i \in Incidents : HasRow(i) => HasRow(i)'
<1>1. CASE UNCHANGED investigations
  BY <1>1 DEF IInv, Tables, HasRow
<1>2. ASSUME NEW n \in NextRow, Reserve(s, n)
      PROVE  /\ DOMAIN investigations' = Runs
             /\ \A i \in Incidents : HasRow(i) => HasRow(i)'
  <2>1. n \in Runs /\ investigations[n] = Absent
    BY DEF NextRow, Exists
  <2>2. investigations[n].incident = Nobody
    BY <2>1 DEF Absent, Row
  <2>3. \A m \in Runs : m # n => investigations'[m] = investigations[m]
    BY <1>2 DEF Reserve, IInv, Tables
  <2>4. ASSUME NEW i \in Incidents, HasRow(i)
        PROVE  HasRow(i)'
    BY <2>2, <2>3, <2>4, InvestigationAssumption DEF HasRow
  <2> QED
    BY <1>2, <2>4 DEF Reserve, IInv, Tables
<1>3. ASSUME NEW report \in BOOLEAN, Store(s, report)
      PROVE  /\ DOMAIN investigations' = Runs
             /\ \A i \in Incidents : HasRow(i) => HasRow(i)'
  <2>1. \A m \in Runs : investigations'[m].incident = investigations[m].incident
    BY <1>3 DEF Store, IInv, Tables, Row
  <2> QED
    BY <1>3, <2>1 DEF Store, IInv, Tables, HasRow
<1> QED
  BY <1>1, <1>2, <1>3 DEF Written

\* The handler returns: its record is settled before it is committed, and a
\* handler that returns without an error has left a row.
LEMMA ReturnSettles ==
    ASSUME IInv, NEW outcome, HandlerReturned(outcome),
           \A i \in Incidents : HasRow(i) => HasRow(i)',
           outcome = "ok" /\ IsIncidentOpened(Message[consumer.pos])
             => HasRowNext(Message[consumer.pos].incident)
    PROVE  ConsumerSound' /\ HandledHasRow'
<1>1. /\ consumer.pc = "handling" /\ consumer'.pos = consumer.pos
      /\ consumer'.pc \in {"committing", "deadlettering", "handling"}
      /\ consumer'.pc = "committing" => outcome = "ok"
      /\ handled' = IF outcome = "ok" THEN handled \cup {consumer.pos} ELSE handled
      /\ UNCHANGED <<committed, dlq, unwritten>>
  BY DEF HandlerReturned, ConsumerAt, Goto, Task
<1>2. \A o \in Offsets : Settled(o) => Settled(o)'
  BY <1>1 DEF Settled
<1>3. ConsumerSound'
  BY <1>1, <1>2 DEF IInv, ConsumerSound
<1>4. HandledHasRow'
  BY <1>1, InvestigationAssumption DEF IInv, HandledHasRow, HasRow, HasRowNext
<1> QED
  BY <1>3, <1>4

\* A write touches a row that nobody owns or that its writer owns, and only the
\* handler inserts runs of an event.
LEMMA WritesOwnRow ==
    ASSUME IInv, NEW s \in Starters, Written(s)
    PROVE  /\ \A t \in Starters : t # s /\ starter[t].pc \in Owning =>
                investigations'[starter[t].run] = investigations[starter[t].run]
           /\ \A n \in Runs : investigations[n].status \in TerminalStatuses =>
                investigations'[n] = investigations[n]
           /\ \A n \in Runs : \A i : s # Handler /\ EventRowOf(n, i)' => EventRowOf(n, i)
           /\ OneEventRunPerIncident'
<1>1. CASE UNCHANGED investigations
  BY <1>1 DEF IInv, EventRowOf, OneEventRunPerIncident
<1>2. ASSUME NEW n \in NextRow, Reserve(s, n)
      PROVE  /\ \A t \in Starters : t # s /\ starter[t].pc \in Owning =>
                  investigations'[starter[t].run] = investigations[starter[t].run]
             /\ \A m \in Runs : investigations[m].status \in TerminalStatuses =>
                  investigations'[m] = investigations[m]
             /\ \A m \in Runs : \A i : s # Handler /\ EventRowOf(m, i)' => EventRowOf(m, i)
             /\ OneEventRunPerIncident'
  <2>1. n \in Runs /\ investigations[n].status = "ABSENT"
    BY DEF NextRow, Exists, Absent, Row
  <2>2. \A m \in Runs : m # n => investigations'[m] = investigations[m]
    BY <1>2 DEF Reserve, IInv, Tables
  <2>3. /\ investigations'[n].trigger = Trigger(s)
        /\ investigations'[n].incident = starter[s].incident
    BY <1>2, <2>1 DEF Reserve, IInv, Tables, Row
  <2>4. s = Handler => \A m \in Runs : ~ EventRowOf(m, starter[Handler].incident)
    BY <1>2 DEF Reserve, IInv, HandlerSound
  <2>5. OneEventRunPerIncident'
    <3>1. CASE s = Handler
      BY <2>2, <2>3, <2>4, <3>1 DEF IInv, OneEventRunPerIncident, EventRowOf
    <3>2. CASE s # Handler
      BY <2>2, <2>3, <3>2 DEF IInv, OneEventRunPerIncident, Trigger
    <3> QED
      BY <3>1, <3>2
  <2>6. \A t \in Starters : starter[t].pc \in Owning => starter[t].run # n
    BY <2>1 DEF IInv, RunsOwned
  <2>7. \A m \in Runs : investigations[m].status \in TerminalStatuses => m # n
    BY <2>1 DEF TerminalStatuses
  <2>8. \A m \in Runs : \A i : s # Handler /\ EventRowOf(m, i)' => EventRowOf(m, i)
    BY <2>2, <2>3 DEF EventRowOf, Trigger
  <2> QED
    BY <2>2, <2>5, <2>6, <2>7, <2>8 DEF IInv, RunsOwned
<1>3. ASSUME NEW report \in BOOLEAN, Store(s, report)
      PROVE  /\ \A t \in Starters : t # s /\ starter[t].pc \in Owning =>
                  investigations'[starter[t].run] = investigations[starter[t].run]
             /\ \A m \in Runs : investigations[m].status \in TerminalStatuses =>
                  investigations'[m] = investigations[m]
             /\ \A m \in Runs : \A i : s # Handler /\ EventRowOf(m, i)' => EventRowOf(m, i)
             /\ OneEventRunPerIncident'
  <2>1. starter[s].pc \in Owning
    BY <1>3 DEF Store, Owning
  <2>2. /\ starter[s].run \in Runs
        /\ investigations[starter[s].run].status = "PENDING"
    BY <2>1 DEF IInv, RunsOwned
  <2>3. \A m \in Runs : m # starter[s].run => investigations'[m] = investigations[m]
    BY <1>3 DEF Store, IInv, Tables
  <2>4. \A m \in Runs : /\ investigations'[m].incident = investigations[m].incident
                        /\ investigations'[m].trigger = investigations[m].trigger
    BY <1>3 DEF Store, IInv, Tables, Row
  <2>5. \A t \in Starters : t # s /\ starter[t].pc \in Owning =>
          starter[t].run \in Runs /\ starter[t].run # starter[s].run
    BY <2>1 DEF IInv, RunsOwned
  <2>6. \A m \in Runs : investigations[m].status \in TerminalStatuses => m # starter[s].run
    BY <2>2 DEF TerminalStatuses
  <2>7. OneEventRunPerIncident'
    BY <2>4 DEF IInv, OneEventRunPerIncident
  <2> QED
    BY <2>3, <2>4, <2>5, <2>6, <2>7 DEF EventRowOf
<1> QED
  BY <1>1, <1>2, <1>3 DEF Written

\* A starter ends, with or without a last write.
LEMMA OutcomeKeeps ==
    ASSUME IInv, NEW s \in Starters, NEW outcome, Outcome(s, outcome), Written(s),
           s = Handler /\ outcome = "ok" /\ IsIncidentOpened(Message[consumer.pos])
             => HasRowNext(Message[consumer.pos].incident)
    PROVE  IInv'
<1>1. /\ starter' = [starter EXCEPT ![s] = Idle]
      /\ s = Handler => HandlerReturned(outcome)
      /\ s # Handler => UNCHANGED <<committed, consumer, handled, dlq, unwritten>>
  BY DEF Outcome
<1>2. Idle.pc = "idle"
  BY DEF Idle, StarterAt
<1>3. Tables'
  BY <1>1, RowsStay DEF IInv, Tables
<1>4. starter'[s] = Idle /\ \A t \in Starters : t # s => starter'[t] = starter[t]
  BY <1>1 DEF IInv, Tables
<1>5. ConsumerSound' /\ HandledHasRow'
  <2>1. CASE s = Handler
    BY <1>1, <2>1, RowsStay, ReturnSettles
  <2>2. CASE s # Handler
    <3>1. ConsumerSound'
      BY <1>1, <2>2 DEF IInv, ConsumerSound, Settled
    <3>2. HandledHasRow'
      BY <1>1, <2>2, RowsStay, InvestigationAssumption DEF IInv, HandledHasRow
    <3> QED
      BY <3>1, <3>2
  <2> QED
    BY <2>1, <2>2
<1>6. RunsOwned'
  BY <1>2, <1>4, WritesOwnRow DEF IInv, RunsOwned, Owning
<1>7. HandlerSound'
  <2>1. CASE s = Handler
    BY <1>2, <1>4, <2>1 DEF HandlerSound
  <2>2. CASE s # Handler
    <3>1. starter'[Handler] = starter[Handler] /\ consumer' = consumer
      BY <1>1, <1>4, <2>2 DEF Starters
    <3>2. \A n \in Runs : \A i : EventRowOf(n, i)' => EventRowOf(n, i)
      BY <2>2, WritesOwnRow
    <3>3. HandlerSound
      BY DEF IInv
    <3> QED
      BY <3>1, <3>2, <3>3 DEF HandlerSound
  <2> QED
    BY <2>1, <2>2
<1>8. OneEventRunPerIncident'
  BY WritesOwnRow
<1> QED
  BY <1>3, <1>5, <1>6, <1>7, <1>8 DEF IInv

\* A starter goes on, without a write and without a run of its own.
LEMMA StarterMoves ==
    ASSUME IInv, NEW s \in Starters, NEW record,
           starter' = [starter EXCEPT ![s] = record],
           UNCHANGED <<consumerVars, investigations>>,
           record.pc \in Owning => /\ starter[s].pc \in Owning
                                   /\ record.run = starter[s].run
                                   /\ record.incident = starter[s].incident,
           s = Handler => /\ record.pc \in Working
                          /\ consumer.pc = "handling"
                          /\ record.incident = Message[consumer.pos].incident
                          /\ record.pc = "begin" => \A n \in Runs : ~ EventRowOf(n, record.incident)
    PROVE  IInv'
<1>1. starter'[s] = record /\ \A t \in Starters : t # s => starter'[t] = starter[t]
  BY DEF IInv, Tables
<1>2. Tables' /\ ConsumerSound' /\ HandledHasRow' /\ OneEventRunPerIncident'
  BY DEF IInv, Tables, ConsumerSound, Settled, HandledHasRow, HasRow, OneEventRunPerIncident,
         consumerVars
<1>3. RunsOwned'
  BY <1>1 DEF IInv, RunsOwned
<1>4. HandlerSound'
  <2>1. consumer' = consumer /\ \A n \in Runs : \A i : EventRowOf(n, i)' => EventRowOf(n, i)
    BY DEF consumerVars, EventRowOf
  <2>2. CASE s = Handler
    BY <1>1, <2>1, <2>2 DEF HandlerSound
  <2>3. CASE s # Handler
    BY <1>1, <2>1, <2>3 DEF IInv, HandlerSound, Starters
  <2> QED
    BY <2>2, <2>3
<1> QED
  BY <1>2, <1>3, <1>4 DEF IInv

-----------------------------------------------------------------------------
(* The consumer's own steps.                                               *)

\* While the consumer is not handling a record its handler is idle.
LEMMA ConsumerMoves ==
    ASSUME IInv, StartConsumer \/ StartFails \/ ConsumerStep,
           UNCHANGED <<investigations, starter>>
    PROVE  IInv'
<1>1. consumer.pc # "handling"
  BY DEF StartConsumer, StartFails, ConsumerStep, TakeRecord, Commit, CommitFails, ToDlq, ConsumerAt
<1>2. Tables' /\ RunsOwned' /\ OneEventRunPerIncident'
  BY DEF IInv, Tables, RunsOwned, OneEventRunPerIncident
<1>3. HandlerSound'
  BY <1>1 DEF IInv, HandlerSound
<1>4. HandledHasRow'
  BY DEF IInv, HandledHasRow, HasRow, StartConsumer, StartFails, ConsumerStep, TakeRecord,
         Commit, CommitFails, ToDlq
<1>5. ConsumerSound'
  <2> USE DEF ConsumerSound, Settled, ConsumerAt, Task, Goto
  <2>1. CASE StartConsumer
    BY <2>1 DEF IInv, StartConsumer
  <2>2. CASE StartFails
    BY <2>2 DEF IInv, StartFails
  <2>3. CASE TakeRecord
    BY <2>3 DEF IInv, TakeRecord
  <2>4. CASE Commit
    <3>1. /\ committed' = consumer.pos + 1 /\ consumer'.pos = consumer.pos + 1
          /\ consumer'.pc = "polling" /\ UNCHANGED <<handled, dlq, unwritten>>
      BY <2>4 DEF Commit
    <3>2. consumer.pos \in handled \cup dlq \cup unwritten
      BY <2>4 DEF Commit, IInv
    <3>3. \A o \in Offsets : o < consumer.pos + 1 => o \in handled \cup dlq \cup unwritten
      BY <2>4, <3>2, ConsumerAssumption DEF Commit, IInv, Offsets
    <3> QED
      BY <3>1, <3>3 DEF IInv
  <2>5. ASSUME NEW applied \in BOOLEAN, CommitFails(applied)
        PROVE  ConsumerSound'
    <3>1. /\ committed' = IF applied THEN consumer.pos + 1 ELSE committed
          /\ consumer'.pos = consumer.pos /\ consumer'.pc \in {"deadlettering", "dead"}
          /\ consumer.pc \in {"committing", "committingDlq"}
          /\ UNCHANGED <<handled, dlq, unwritten>>
      BY <2>5 DEF CommitFails
    <3>2. consumer.pos \in handled \cup dlq \cup unwritten
      BY <3>1 DEF IInv
    <3>3. \A o \in Offsets : o < consumer.pos + 1 => o \in handled \cup dlq \cup unwritten
      BY <3>1, <3>2, ConsumerAssumption DEF IInv, Offsets
    <3> QED
      BY <3>1, <3>3 DEF IInv
  <2>6. ASSUME NEW written \in BOOLEAN, ToDlq(written)
        PROVE  ConsumerSound'
    BY <2>6 DEF IInv, ToDlq
  <2> QED
    BY <2>1, <2>2, <2>3, <2>4, <2>5, <2>6 DEF ConsumerStep
<1> QED
  BY <1>2, <1>3, <1>4, <1>5 DEF IInv

\* The process dies or stops: what is settled and what is written stay.
LEMMA RestartKeeps ==
    ASSUME IInv, Crash \/ Shutdown
    PROVE  IInv'
<1>1. /\ consumer' = Down /\ starter' = [s \in Starters |-> Idle]
      /\ UNCHANGED <<committed, handled, dlq, unwritten, investigations>>
  BY DEF Crash, Shutdown, StopConsumer
<1>2. Idle.pc = "idle" /\ Down.pc = "down" /\ Down.pos = 0
  BY DEF Idle, StarterAt, Down, Task
<1>3. Tables' /\ OneEventRunPerIncident' /\ HandledHasRow'
  BY <1>1 DEF IInv, Tables, OneEventRunPerIncident, HandledHasRow, HasRow
<1>4. ConsumerSound'
  BY <1>1, <1>2 DEF IInv, ConsumerSound, Settled
<1>5. RunsOwned' /\ HandlerSound'
  BY <1>1, <1>2 DEF RunsOwned, HandlerSound, Owning, Starters
<1> QED
  BY <1>3, <1>4, <1>5 DEF IInv

-----------------------------------------------------------------------------
(* The steps of a starter.                                                 *)

\* What a row of the handler's incident is worth to the record it handles.
LEMMA HandlerRecord ==
    ASSUME IInv, starter[Handler].pc # "idle"
    PROVE  /\ starter[Handler].incident = Message[consumer.pos].incident
           /\ consumer.pc = "handling"
BY DEF IInv, HandlerSound

\* The handler takes an event: it acknowledges or rejects it, or looks for a run.
LEMMA HandleEventKeeps ==
    ASSUME IInv, HandleEvent
    PROVE  IInv'
<1> DEFINE msg == Message[consumer.pos]
<1>1. Handler \in Starters /\ consumer.pc = "handling" /\ Written(Handler)
  BY DEF HandleEvent, ConsumerAt, Starters, Written
<1>2. CASE ~ IsIncidentOpened(msg) /\ Finish(Handler, "ok")
  BY <1>1, <1>2, OutcomeKeeps DEF Finish
<1>3. CASE Finish(Handler, "rejected")
  BY <1>1, <1>3, OutcomeKeeps DEF Finish
<1>4. CASE /\ starter' = [starter EXCEPT ![Handler] =
                            StarterAt("check", msg.incident, NoRun, "ABSENT")]
           /\ UNCHANGED consumerVars
  <2> DEFINE record == StarterAt("check", msg.incident, NoRun, "ABSENT")
  <2>1. /\ record.pc = "check" /\ record.pc \notin Owning /\ record.pc \in Working
        /\ record.incident = msg.incident
    BY DEF StarterAt, Owning, Working
  <2>2. UNCHANGED <<consumerVars, investigations>>
    BY <1>4 DEF HandleEvent
  <2> HIDE DEF record
  <2> QED
    BY <1>1, <1>4, <2>1, <2>2, StarterMoves DEF record
<1> QED
  BY <1>2, <1>3, <1>4 DEF HandleEvent

\* A starter goes on to a step that owns no run, or keeps the run it owns.
LEMMA ContinueKeeps ==
    ASSUME IInv, NEW s \in Starters, NEW pc \in Working, NEW run, NEW status,
           Continue(s, pc, run, status), UNCHANGED investigations,
           starter[s].pc # "idle",
           pc \in Owning => starter[s].pc \in Owning /\ run = starter[s].run,
           pc = "begin" => \A n \in Runs : ~ EventRowOf(n, starter[s].incident)
    PROVE  IInv'
<1> DEFINE record == StarterAt(pc, starter[s].incident, run, status)
<1>1. /\ record.pc = pc /\ record.incident = starter[s].incident /\ record.run = run
  BY DEF StarterAt
<1>2. starter' = [starter EXCEPT ![s] = record]
  BY DEF Continue, IInv, Tables
<1>3. UNCHANGED <<consumerVars, investigations>>
  BY DEF Continue
<1> HIDE DEF record
<1> QED
  BY <1>1, <1>2, <1>3, HandlerRecord, StarterMoves

\* The INSERT gives the starter a row that no other starter owns.
LEMMA BeginKeeps ==
    ASSUME IInv, NEW s \in Starters, Begin(s)
    PROVE  IInv'
<1>1. PICK n \in NextRow : Reserve(s, n) /\ Continue(s, "run", n, "ABSENT")
  BY DEF Begin
<1>2. Written(s)
  BY <1>1 DEF Written
<1>3. n \in Runs /\ investigations[n].status = "ABSENT"
  BY DEF NextRow, Exists, Absent, Row
<1>4. /\ starter'[s].pc = "run" /\ starter'[s].run = n
      /\ starter'[s].incident = starter[s].incident
      /\ DOMAIN starter' = Starters
      /\ \A t \in Starters : t # s => starter'[t] = starter[t]
      /\ starter[s].pc = "begin"
      /\ UNCHANGED consumerVars
  BY <1>1 DEF Continue, Reserve, StarterAt, IInv, Tables
<1>5. /\ investigations'[n].status = "PENDING"
      /\ investigations'[n].incident = starter[s].incident
  BY <1>1, <1>3 DEF Reserve, Row, IInv, Tables
<1>6. \A t \in Starters : starter[t].pc \in Owning => starter[t].run # n
  BY <1>3 DEF IInv, RunsOwned
<1>7. Tables'
  BY <1>2, <1>4, RowsStay DEF Tables
<1>8. ConsumerSound' /\ HandledHasRow'
  <2>1. ConsumerSound'
    BY <1>4 DEF IInv, ConsumerSound, Settled, consumerVars
  <2>2. HandledHasRow'
    BY <1>2, <1>4, RowsStay, InvestigationAssumption DEF IInv, HandledHasRow, consumerVars
  <2> QED
    BY <2>1, <2>2
<1>9. RunsOwned'
  <2>1. ASSUME NEW t \in Starters, starter'[t].pc \in Owning
        PROVE  /\ starter'[t].run \in Runs
               /\ investigations'[starter'[t].run].incident = starter'[t].incident
               /\ investigations'[starter'[t].run].status = "PENDING"
    <3>1. CASE t = s
      BY <1>3, <1>4, <1>5, <3>1
    <3>2. CASE t # s
      BY <1>2, <1>4, <2>1, <3>2, WritesOwnRow DEF IInv, RunsOwned
    <3> QED
      BY <3>1, <3>2
  <2>2. ASSUME NEW t \in Starters, NEW u \in Starters,
               starter'[t].pc \in Owning, starter'[u].pc \in Owning,
               starter'[t].run = starter'[u].run
        PROVE  t = u
    BY <1>4, <1>6, <2>2 DEF IInv, RunsOwned
  <2> QED
    BY <2>1, <2>2 DEF RunsOwned
<1>10. HandlerSound'
  <2>1. CASE s = Handler
    BY <1>4, <2>1, HandlerRecord DEF HandlerSound, Working, Owning, consumerVars
  <2>2. CASE s # Handler
    <3>1. starter'[Handler] = starter[Handler] /\ consumer' = consumer
      BY <1>4, <2>2 DEF Starters, consumerVars
    <3>2. \A m \in Runs : \A i : EventRowOf(m, i)' => EventRowOf(m, i)
      BY <1>2, <2>2, WritesOwnRow
    <3>3. HandlerSound
      BY DEF IInv
    <3> QED
      BY <3>1, <3>2, <3>3 DEF HandlerSound
  <2> QED
    BY <2>1, <2>2
<1>11. OneEventRunPerIncident'
  BY <1>2, WritesOwnRow
<1> QED
  BY <1>7, <1>8, <1>9, <1>10, <1>11 DEF IInv

\* Every step of a run keeps the invariant: what acknowledges a record has a row.
LEMMA RunStepKeeps ==
    ASSUME IInv, NEW s \in Starters, RunStep(s)
    PROVE  IInv'
<1>1. CASE CheckExisting(s)
  <2>1. starter[s].pc = "check" /\ Written(s) /\ UNCHANGED investigations
    BY <1>1 DEF CheckExisting, Written
  <2>2. CASE LatestInvestigation(starter[s].incident) # {} /\ Finish(s, "ok")
    <3>1. HasRow(starter[s].incident)
      BY <2>2 DEF LatestInvestigation, HasRow
    <3>2. s = Handler => HasRowNext(Message[consumer.pos].incident)
      BY <2>1, <3>1, HandlerRecord DEF HasRow, HasRowNext
    <3>3. Outcome(s, "ok")
      BY <2>2 DEF Finish
    <3> QED
      BY <2>1, <3>2, <3>3, OutcomeKeeps
  <2>3. CASE LatestInvestigation(starter[s].incident) = {} /\ Continue(s, "begin", NoRun, "ABSENT")
    <3>1. \A n \in Runs : ~ EventRowOf(n, starter[s].incident)
      BY <2>3 DEF LatestInvestigation, EventRowOf
    <3>2. "begin" \in Working /\ "begin" \notin Owning
      BY DEF Working, Owning
    <3> QED
      BY <2>1, <2>3, <3>1, <3>2, ContinueKeeps
  <2> QED
    BY <1>1, <2>2, <2>3 DEF CheckExisting
<1>2. CASE Begin(s)
  BY <1>2, BeginKeeps
<1>3. CASE BeginLoses(s)
  <2>1. "lookup" \in Working /\ "lookup" \notin Owning
    BY DEF Working, Owning
  <2> QED
    BY <1>3, <2>1, ContinueKeeps DEF BeginLoses
<1>4. CASE LookupActive(s)
  <2> DEFINE found == ActiveInvestigation(starter[s].incident) # {}
             outcome == IF found THEN "ok" ELSE "retryable"
  <2>1. starter[s].pc = "lookup" /\ UNCHANGED investigations /\ Finish(s, outcome)
    BY <1>4 DEF LookupActive
  <2>2. outcome = "ok" => HasRow(starter[s].incident)
    BY DEF ActiveInvestigation, HasRow
  <2> HIDE DEF outcome
  <2>3. s = Handler /\ outcome = "ok" => HasRowNext(Message[consumer.pos].incident)
    BY <2>1, <2>2, HandlerRecord DEF HasRow, HasRowNext
  <2> QED
    <3>1. Outcome(s, outcome) /\ Written(s)
      BY <2>1 DEF Finish, Written
    <3> QED
      BY <2>3, <3>1, OutcomeKeeps
<1>5. ASSUME NEW status \in TerminalStatuses, RunEngine(s, status)
      PROVE  IInv'
  <2>1. "complete" \in Working /\ starter[s].pc \in Owning
    BY <1>5 DEF RunEngine, Working, Owning
  <2> QED
    BY <1>5, <2>1, ContinueKeeps DEF RunEngine, Owning
<1>6. ASSUME NEW report \in BOOLEAN, Complete(s, report)
      PROVE  IInv'
  <2>1. Written(s) /\ starter[s].pc = "complete"
    BY <1>6 DEF Complete, Store, Written
  <2>2. starter[s].run \in Runs /\ investigations[starter[s].run].incident = starter[s].incident
    BY <2>1 DEF IInv, RunsOwned, Owning
  <2>3. investigations'[starter[s].run].incident = starter[s].incident
    BY <1>6, <2>2 DEF Complete, Store, Row, IInv, Tables
  <2>4. s = Handler => HasRowNext(Message[consumer.pos].incident)
    <3>1. CASE s = Handler
      <4>1. Message[consumer.pos].incident = starter[s].incident
        BY <2>1, <3>1, HandlerRecord
      <4> QED
        BY <2>2, <2>3, <4>1 DEF HasRowNext
    <3> QED
      BY <3>1
  <2> QED
    <3>1. Outcome(s, "ok")
      BY <1>6 DEF Complete, Finish
    <3> QED
      BY <2>1, <2>4, <3>1, OutcomeKeeps
<1> QED
  BY <1>1, <1>2, <1>3, <1>4, <1>5, <1>6 DEF RunStep

\* A caller that asks for a run, or reads one, touches nothing but itself.
LEMMA CallerKeeps ==
    ASSUME IInv, NEW c \in Callers,
           \/ \E i \in Incidents : Submit(c, i)
           \/ \E n \in Runs : GetInvestigation(c, n)
           \/ Read(c)
    PROVE  IInv'
<1>1. c \in Starters /\ c # Handler
  BY InvestigationAssumption DEF Starters
<1>2. ASSUME NEW record, record.pc \notin Owning,
             starter' = [starter EXCEPT ![c] = record],
             UNCHANGED <<consumerVars, investigations>>
      PROVE  IInv'
  BY <1>1, <1>2, StarterMoves
<1>3. ASSUME NEW i \in Incidents, Submit(c, i) PROVE IInv'
  <2>1. StarterAt("check", i, NoRun, "ABSENT").pc \notin Owning
    BY DEF StarterAt, Owning
  <2>2. /\ starter' = [starter EXCEPT ![c] = StarterAt("check", i, NoRun, "ABSENT")]
        /\ UNCHANGED <<consumerVars, investigations>>
    BY <1>3 DEF Submit
  <2> QED
    BY <1>2, <2>1, <2>2
<1>4. ASSUME NEW pc \in {"steps", "report", "answer"}, NEW n, NEW status, NEW saw,
             Reading(c, pc, n, status, saw)
      PROVE  IInv'
  <2> DEFINE record == [pc |-> pc, incident |-> Nobody, run |-> n, status |-> status, saw |-> saw]
  <2>1. record.pc \notin Owning
    BY DEF Owning
  <2>2. starter' = [starter EXCEPT ![c] = record] /\ UNCHANGED <<consumerVars, investigations>>
    BY <1>4 DEF Reading
  <2> HIDE DEF record
  <2> QED
    BY <1>2, <2>1, <2>2
<1>5. ASSUME NEW n \in Runs, GetInvestigation(c, n) PROVE IInv'
  BY <1>4, <1>5 DEF GetInvestigation
<1>6. CASE GetSteps(c)
  BY <1>4, <1>6 DEF GetSteps
<1>7. CASE GetReport(c)
  BY <1>4, <1>7 DEF GetReport
<1>8. CASE Answer(c)
  <2>1. Idle.pc \notin Owning
    BY DEF Idle, StarterAt, Owning
  <2>2. starter' = [starter EXCEPT ![c] = Idle] /\ UNCHANGED <<consumerVars, investigations>>
    BY <1>8 DEF Answer
  <2> QED
    BY <1>2, <2>1, <2>2
<1> QED
  BY <1>3, <1>5, <1>6, <1>7, <1>8 DEF Read

\* A failed call settles nothing, whether its write was applied or not.
LEMMA FailuresKeep ==
    ASSUME IInv, NEW s \in Starters, DatabaseFails(s) \/ AcknowledgementLost(s)
    PROVE  IInv'
<1>1. CASE DatabaseFails(s)
  <2>1. FailureOutcome(starter[s].pc) # "ok"
    BY DEF FailureOutcome
  <2>2. Written(s) /\ Outcome(s, FailureOutcome(starter[s].pc))
    BY <1>1 DEF DatabaseFails, Written
  <2> QED
    BY <2>1, <2>2, OutcomeKeeps
<1>2. CASE AcknowledgementLost(s)
  <2>1. Written(s) /\ Outcome(s, "retryable")
    BY <1>2 DEF AcknowledgementLost, Written
  <2> QED
    BY <2>1, OutcomeKeeps
<1> QED
  BY <1>1, <1>2

-----------------------------------------------------------------------------
(* The theorems.                                                           *)

\* Every step keeps the invariant.
LEMMA NextKeeps == IInv /\ [Next]_vars => IInv'
<1> SUFFICES ASSUME IInv, [Next]_vars PROVE IInv'
  OBVIOUS
<1>1. CASE ConsumerTask
  BY <1>1, ConsumerMoves, HandleEventKeeps DEF ConsumerTask
<1>2. CASE Crash \/ Shutdown
  BY <1>2, RestartKeeps
<1>3. ASSUME NEW c \in Callers, \E i \in Incidents : Submit(c, i) PROVE IInv'
  BY <1>3, CallerKeeps
<1>4. ASSUME NEW c \in Callers, \E n \in Runs : GetInvestigation(c, n) PROVE IInv'
  BY <1>4, CallerKeeps
<1>5. ASSUME NEW c \in Callers, Read(c) PROVE IInv'
  BY <1>5, CallerKeeps
<1>6. ASSUME NEW s \in Starters, RunStep(s) PROVE IInv'
  BY <1>6, RunStepKeeps
<1>7. ASSUME NEW s \in Starters, DatabaseFails(s) \/ AcknowledgementLost(s) PROVE IInv'
  BY <1>7, FailuresKeep
<1>8. CASE UNCHANGED vars
  BY <1>8 DEF vars, consumerVars, IInv, Tables, ConsumerSound, Settled, HandledHasRow, HasRow,
              RunsOwned, HandlerSound, EventRowOf, OneEventRunPerIncident
<1> QED
  BY <1>1, <1>2, <1>3, <1>4, <1>5, <1>6, <1>7, <1>8 DEF Next

\* The invariant holds in every reachable state.
THEOREM Inductive == Spec => []IInv
<1>1. QED
  BY InitEstablishes, NextKeeps, PTL DEF Spec

\* Committing an offset loses no record (kafka.py, _process_one and _commit;
\* consumer.py, handle): every committed offset was handled, dead-lettered or
\* its dead-letter write failed, and a handled announcement has a run.
THEOREM NoSilentLoss == Spec => []CommittedMeansSettled
<1>1. IInv => CommittedMeansSettled
  BY DEF IInv, ConsumerSound, HandledHasRow, HasRow, CommittedMeansSettled
<1> QED
  BY <1>1, Inductive, PTL

\* However often an announcement is delivered, its handler starts one run of the
\* incident (consumer.py, handle, and the check of existing investigations).
THEOREM OneRunPerAnnouncement == Spec => []OneEventRunPerIncident
<1>1. IInv => OneEventRunPerIncident
  BY DEF IInv
<1> QED
  BY <1>1, Inductive, PTL

\* A step leaves finished runs alone.
LEMMA FrozenStep ==
    IInv /\ [Next]_vars
      => [\A n \in Runs : investigations[n].status \in TerminalStatuses
                            => investigations'[n] = investigations[n]]_vars
<1> SUFFICES ASSUME IInv, Next
             PROVE  \A n \in Runs : investigations[n].status \in TerminalStatuses
                                      => investigations'[n] = investigations[n]
  OBVIOUS
<1>1. \/ UNCHANGED investigations
      \/ \E s \in Starters : Written(s)
  <2>1. CASE ConsumerTask \/ Crash \/ Shutdown
    BY <2>1 DEF ConsumerTask, HandleEvent, Crash, Shutdown
  <2>2. ASSUME NEW c \in Callers,
               \/ \E i \in Incidents : Submit(c, i)
               \/ \E n \in Runs : GetInvestigation(c, n)
               \/ Read(c)
        PROVE  UNCHANGED investigations
    BY <2>2 DEF Submit, GetInvestigation, Read, GetSteps, GetReport, Answer, Reading
  <2>3. ASSUME NEW s \in Starters, RunStep(s) PROVE Written(s)
    BY <2>3 DEF RunStep, CheckExisting, Begin, BeginLoses, LookupActive, RunEngine, Complete, Written
  <2>4. ASSUME NEW s \in Starters, DatabaseFails(s) \/ AcknowledgementLost(s) PROVE Written(s)
    BY <2>4 DEF DatabaseFails, AcknowledgementLost, Written
  <2> QED
    BY <2>1, <2>2, <2>3, <2>4 DEF Next
<1> QED
  BY <1>1, WritesOwnRow

\* complete_investigation overwrites whatever status it finds (repository.py),
\* and still no step changes a run that has ended.
THEOREM EndedRunsFrozen == Spec => FinishedRunsFrozen
<1>1. QED
  BY Inductive, FrozenStep, PTL DEF Spec, FinishedRunsFrozen

-----------------------------------------------------------------------------
(* Readers.                                                                *)

\* What a read between its queries may rely on: the status it read first is
\* final if it is terminal, and then what it read since is all there is.
ReaderSound(r) ==
    r.pc \in {"steps", "report", "answer"} =>
      /\ r.run \in Runs
      /\ r.status \in TerminalStatuses =>
           /\ investigations[r.run].status = r.status
           /\ r.pc # "steps" => "steps" \in r.saw
           /\ r.pc = "report" => "report" \notin r.saw
           /\ r.pc = "answer" => ("report" \in r.saw <=> investigations[r.run].report)

ReadersSound == \A s \in Starters : ReaderSound(starter[s])

\* A process becomes a reader, or gets further as one, in the steps of a read.
LEMMA ReaderOrigin ==
  ASSUME IInv, [Next]_vars, NEW s \in Starters
  PROVE  \/ starter'[s] = starter[s]
         \/ starter'[s].pc \notin {"steps", "report", "answer"}
         \/ \E n \in Runs : GetInvestigation(s, n)
         \/ GetSteps(s) \/ GetReport(s)
<1>. DEFINE Away(o) == /\ starter'[o].pc \notin {"steps", "report", "answer"}
                       /\ \A t \in Starters \ {o} : starter'[t] = starter[t]
<1>0. DOMAIN starter = Starters /\ Callers \subseteq Starters /\ Handler \in Starters
  BY DEF IInv, Tables, Starters
<1>1. ASSUME NEW o \in Starters, NEW X, starter' = [starter EXCEPT ![o] = X],
             X.pc \notin {"steps", "report", "answer"}
      PROVE  Away(o)
  BY <1>0, <1>1
<1>. HIDE DEF Away
<1>2. \A pc, i, n, status : StarterAt(pc, i, n, status).pc = pc
  BY DEF StarterAt
<1>3. ASSUME NEW o \in Starters, starter' = [starter EXCEPT ![o] = Idle] PROVE Away(o)
  BY <1>1, <1>2, <1>3 DEF Idle
<1>4. ASSUME NEW o \in Starters, NEW pc \in {"check", "begin", "lookup", "run", "complete"},
             NEW i, NEW n, NEW status, starter' = [starter EXCEPT ![o] = StarterAt(pc, i, n, status)]
      PROVE  Away(o)
  <2>. DEFINE X == StarterAt(pc, i, n, status)
  <2>1. starter' = [starter EXCEPT ![o] = X] /\ X.pc = pc
    BY <1>2, <1>4
  <2>. HIDE DEF X
  <2>. QED
    BY <1>1, <2>1
<1>5. ASSUME NEW o \in Starters, NEW outcome, Outcome(o, outcome) PROVE Away(o)
  BY <1>3, <1>5 DEF Outcome
<1>6. ASSUME NEW o \in Starters, NEW pc \in {"check", "begin", "lookup", "run", "complete"},
             NEW n, NEW status, Continue(o, pc, n, status)
      PROVE  Away(o)
  <2>1. starter' = [starter EXCEPT ![o] = StarterAt(pc, starter[o].incident, n, status)]
    BY <1>6 DEF Continue
  <2>. QED
    BY <1>4, <2>1
<1>7. ASSUME NEW o \in Starters, RunStep(o) PROVE Away(o)
  <2>1. CASE CheckExisting(o)
    BY <1>5, <1>6, <2>1 DEF CheckExisting, Finish
  <2>2. CASE Begin(o)
    BY <1>6, <2>2 DEF Begin
  <2>3. CASE BeginLoses(o)
    BY <1>6, <2>3 DEF BeginLoses
  <2>4. CASE LookupActive(o)
    BY <1>5, <2>4 DEF LookupActive, Finish
  <2>5. CASE \E status \in TerminalStatuses : RunEngine(o, status)
    BY <1>6, <2>5 DEF RunEngine
  <2>6. CASE \E report \in BOOLEAN : Complete(o, report)
    BY <1>5, <2>6 DEF Complete, Finish
  <2>. QED
    BY <1>7, <2>1, <2>2, <2>3, <2>4, <2>5, <2>6 DEF RunStep
<1>8. ASSUME NEW o \in Starters, DatabaseFails(o) \/ AcknowledgementLost(o) PROVE Away(o)
  BY <1>5, <1>8 DEF DatabaseFails, AcknowledgementLost
<1>9. ASSUME NEW c \in Callers, NEW i, Submit(c, i) PROVE Away(c)
  BY <1>0, <1>4, <1>9 DEF Submit
<1>10. ASSUME NEW c \in Callers, Answer(c) PROVE Away(c)
  BY <1>0, <1>3, <1>10 DEF Answer
<1>11. CASE HandleEvent
  <2>1. Away(Handler)
    <3>1. CASE \E outcome : Finish(Handler, outcome)
      BY <1>0, <1>5, <3>1 DEF Finish
    <3>2. CASE starter' = [starter EXCEPT ![Handler] =
                             StarterAt("check", Message[consumer.pos].incident, NoRun, "ABSENT")]
      BY <1>0, <1>4, <3>2
    <3>. QED
      BY <1>11, <3>1, <3>2 DEF HandleEvent
  <2>. QED
    BY <2>1 DEF Away
<1>12. CASE Crash \/ Shutdown
  BY <1>2, <1>12 DEF Crash, Shutdown, Idle
<1>13. CASE UNCHANGED starter
  BY <1>13
<1>14. ASSUME NEW c \in Callers, NEW n \in Runs, GetInvestigation(c, n) PROVE s = c \/ starter'[s] = starter[s]
  BY <1>0, <1>14 DEF GetInvestigation, Reading
<1>15. ASSUME NEW c \in Callers, GetSteps(c) \/ GetReport(c) PROVE s = c \/ starter'[s] = starter[s]
  BY <1>0, <1>15 DEF GetSteps, GetReport, Reading
<1>16. \A o \in Starters : Away(o) => \/ starter'[s] = starter[s]
                                      \/ starter'[s].pc \notin {"steps", "report", "answer"}
  BY DEF Away
<1>17. CASE ConsumerTask
  BY <1>11, <1>13, <1>17 DEF ConsumerTask
<1>18. ASSUME NEW c \in Callers, Read(c)
       PROVE  Away(c) \/ GetSteps(c) \/ GetReport(c)
  BY <1>10, <1>18 DEF Read
<1>19. CASE UNCHANGED vars
  BY <1>19 DEF vars
<1>. QED
  BY <1>0, <1>7, <1>8, <1>9, <1>12, <1>14, <1>15, <1>16, <1>17, <1>18, <1>19 DEF Next

\* Every step keeps what readers rely on, because a finished run is never
\* written again.
LEMMA NextReaders == IInv /\ ReadersSound /\ [Next]_vars => ReadersSound'
<1>. SUFFICES ASSUME IInv, ReadersSound, [Next]_vars, NEW s \in Starters
              PROVE  ReaderSound(starter[s])'
  BY DEF ReadersSound
<1>0. DOMAIN starter = Starters
  BY DEF IInv, Tables
<1>1. \A n \in Runs : investigations[n].status \in TerminalStatuses => investigations'[n] = investigations[n]
  BY FrozenStep DEF vars
<1>2. CASE starter'[s] = starter[s]
  <2>1. ReaderSound(starter[s])
    BY DEF ReadersSound
  <2>. QED
    BY <1>1, <1>2, <2>1 DEF ReaderSound
<1>3. CASE starter'[s].pc \notin {"steps", "report", "answer"}
  BY <1>3 DEF ReaderSound
<1>4. ASSUME NEW pc, NEW n \in Runs, NEW status, NEW saw, Reading(s, pc, n, status, saw)
      PROVE  /\ investigations' = investigations
             /\ starter'[s].pc = pc /\ starter'[s].run = n
             /\ starter'[s].status = status /\ starter'[s].saw = saw
  BY <1>0, <1>4 DEF Reading
<1>5. ASSUME NEW n \in Runs, GetInvestigation(s, n) PROVE ReaderSound(starter[s])'
  <2>1. /\ starter'[s].pc = "steps" /\ starter'[s].run = n
        /\ starter'[s].status = investigations[n].status /\ investigations' = investigations
    BY <1>4, <1>5 DEF GetInvestigation
  <2>. QED
    BY <2>1 DEF ReaderSound
<1>6. CASE GetSteps(s)
  <2>. DEFINE r == starter[s]
              saw == IF IsActive(r.run) THEN {} ELSE {"steps"}
  <2>1. r.pc = "steps" /\ r.run \in Runs
        /\ (r.status \in TerminalStatuses => investigations[r.run].status = r.status)
    BY <1>6 DEF GetSteps, ReadersSound, ReaderSound
  <2>2. /\ starter'[s].pc = "report" /\ starter'[s].run = r.run /\ starter'[s].status = r.status
        /\ starter'[s].saw = saw /\ investigations' = investigations
    BY <1>4, <1>6, <2>1 DEF GetSteps
  <2>3. r.status \in TerminalStatuses => saw = {"steps"}
    BY <2>1 DEF IsActive, ActiveStatuses, TerminalStatuses
  <2>. HIDE DEF saw
  <2>. QED
    BY <2>1, <2>2, <2>3 DEF ReaderSound
<1>7. CASE GetReport(s)
  <2>. DEFINE r == starter[s]
              saw == IF investigations[r.run].report THEN r.saw \cup {"report"} ELSE r.saw
  <2>1. /\ r.pc = "report" /\ r.run \in Runs
        /\ r.status \in TerminalStatuses =>
             investigations[r.run].status = r.status /\ "steps" \in r.saw /\ "report" \notin r.saw
    BY <1>7 DEF GetReport, ReadersSound, ReaderSound
  <2>2. /\ starter'[s].pc = "answer" /\ starter'[s].run = r.run /\ starter'[s].status = r.status
        /\ starter'[s].saw = saw /\ investigations' = investigations
    BY <1>4, <1>7, <2>1 DEF GetReport
  <2>3. r.status \in TerminalStatuses =>
          "steps" \in saw /\ ("report" \in saw <=> investigations[r.run].report)
    BY <2>1
  <2>. HIDE DEF saw
  <2>. QED
    BY <2>1, <2>2, <2>3 DEF ReaderSound
<1>. QED
  BY <1>2, <1>3, <1>5, <1>6, <1>7, ReaderOrigin

\* GET /investigations/{id} reads the row, the steps and the report in three
\* sessions (api.py, _detail), and still an answer that says the run has ended
\* shows all of it.
THEOREM WholeAnswers == Spec => []AnswersComplete
<1>1. Init => ReadersSound
  BY DEF Init, ReadersSound, ReaderSound, Idle, StarterAt
<1>2. ReadersSound => AnswersComplete
  BY DEF ReadersSound, ReaderSound, AnswersComplete, Starters
<1>. QED
  BY <1>1, <1>2, Inductive, NextReaders, PTL DEF Spec

-----------------------------------------------------------------------------
(* Types.                                                                  *)

\* The consumer, with a record in hand in every state that handles one.
ConsumerTyped ==
    /\ ConsumerTypeOK
    /\ consumer.pc \in {"handling", "committing", "deadlettering", "committingDlq"}
         => consumer.pos \in Offsets

StarterRecords ==
    [pc : {"idle", "steps", "report", "answer"} \cup Working,
     incident : Incidents \cup {Nobody}, run : Runs \cup {NoRun},
     status : TerminalStatuses \cup {"ABSENT", "PENDING"}, saw : SUBSET {"steps", "report"}]

\* A process that works for an incident has one, one that completes a run has
\* its result, and one that reads or works on a run has a run.
StarterTyped(r) ==
    /\ r \in StarterRecords
    /\ r.pc \in Working => r.incident \in Incidents
    /\ r.pc = "complete" => r.status \in TerminalStatuses
    /\ r.pc \in Owning \cup {"steps", "report"} => r.run \in Runs

TypeInv ==
    /\ ConsumerTyped
    /\ investigations \in [Runs -> Rows \cup {Absent}]
    /\ starter \in [Starters -> StarterRecords]
    /\ \A s \in Starters : StarterTyped(starter[s])

\* A task record has its type.
LEMMA TaskTyped ==
  ASSUME NEW pc \in ConsumerPCs, NEW pos \in 0 .. LogEnd, NEW attempt \in 0 .. MaxRetries
  PROVE  /\ Task(pc, pos, attempt) \in [pc : ConsumerPCs, pos : 0 .. LogEnd, attempt : 0 .. MaxRetries]
         /\ Task(pc, pos, attempt).pc = pc /\ Task(pc, pos, attempt).pos = pos
BY DEF Task

\* The consumer's own steps, and the end of its process.
LEMMA ConsumerKeepsTypes ==
  ASSUME ConsumerTyped,
         \/ StartConsumer \/ StartFails \/ ConsumerStep
         \/ /\ Fault /\ consumer' = Down /\ UNCHANGED <<committed, handled, dlq, unwritten>>
  PROVE  ConsumerTyped'
<1>1. /\ committed \in 0 .. LogEnd /\ faults \in 0 .. MaxFaults
      /\ consumer.pc \in ConsumerPCs /\ consumer.pos \in 0 .. LogEnd /\ consumer.attempt \in 0 .. MaxRetries
      /\ handled \subseteq Offsets /\ dlq \subseteq Offsets /\ unwritten \subseteq Offsets
      /\ LogEnd \in Nat /\ MaxRetries \in Nat \ {0} /\ MaxFaults \in Nat
  BY ConsumerAssumption DEF ConsumerTyped, ConsumerTypeOK
<1>2. ASSUME NEW pc \in ConsumerPCs, NEW pos \in 0 .. LogEnd, NEW attempt \in 0 .. MaxRetries,
             consumer' = Task(pc, pos, attempt),
             pc \in {"handling", "committing", "deadlettering", "committingDlq"} => pos \in Offsets,
             committed' \in 0 .. LogEnd, faults' \in 0 .. MaxFaults,
             handled' \subseteq Offsets, dlq' \subseteq Offsets, unwritten' \subseteq Offsets
      PROVE  ConsumerTyped'
  <2>1. /\ consumer' \in [pc : ConsumerPCs, pos : 0 .. LogEnd, attempt : 0 .. MaxRetries]
        /\ consumer'.pc = pc /\ consumer'.pos = pos
    BY <1>2, TaskTyped
  <2>. QED
    BY <1>2, <2>1 DEF ConsumerTyped, ConsumerTypeOK
<1>3. Fault => faults' \in 0 .. MaxFaults
  BY <1>1 DEF Fault
<1>4. 0 \in 0 .. LogEnd /\ 0 \in 0 .. MaxRetries /\ 1 \in 0 .. MaxRetries
  BY <1>1
<1>5. /\ "down" \in ConsumerPCs /\ "dead" \in ConsumerPCs /\ "polling" \in ConsumerPCs
      /\ "handling" \in ConsumerPCs /\ "deadlettering" \in ConsumerPCs
      /\ "committingDlq" \in ConsumerPCs
  BY DEF ConsumerPCs
<1>6. CASE StartConsumer
  BY <1>1, <1>2, <1>4, <1>5, <1>6 DEF StartConsumer
<1>7. CASE StartFails
  BY <1>1, <1>2, <1>3, <1>4, <1>5, <1>7 DEF StartFails
<1>8. CASE TakeRecord
  <2>1. consumer.pos \in Offsets
    BY <1>8 DEF TakeRecord
  <2>. QED
    BY <1>1, <1>2, <1>4, <1>5, <1>8, <2>1 DEF TakeRecord
<1>9. CASE Commit
  <2>1. consumer.pos + 1 \in 0 .. LogEnd
    BY <1>1, <1>9 DEF Commit, ConsumerTyped, Offsets
  <2>. QED
    BY <1>1, <1>2, <1>4, <1>5, <1>9, <2>1 DEF Commit
<1>10. ASSUME NEW applied \in BOOLEAN, CommitFails(applied) PROVE ConsumerTyped'
  <2>1. consumer.pos \in Offsets /\ consumer.pos + 1 \in 0 .. LogEnd
    BY <1>1, <1>10 DEF CommitFails, ConsumerAt, ConsumerTyped, Offsets
  <2>2. committed' \in 0 .. LogEnd
    BY <1>1, <1>10, <2>1 DEF CommitFails
  <2>. QED
    BY <1>1, <1>2, <1>3, <1>5, <1>10, <2>1, <2>2 DEF CommitFails, Goto
<1>11. ASSUME NEW written \in BOOLEAN, ToDlq(written) PROVE ConsumerTyped'
  <2>1. consumer.pos \in Offsets
    BY <1>11 DEF ToDlq, ConsumerAt, ConsumerTyped
  <2>2. faults' \in 0 .. MaxFaults
    BY <1>1, <1>3, <1>11 DEF ToDlq
  <2>. QED
    BY <1>1, <1>2, <1>5, <1>11, <2>1, <2>2 DEF ToDlq, Goto
<1>12. CASE Fault /\ consumer' = Down /\ UNCHANGED <<committed, handled, dlq, unwritten>>
  BY <1>1, <1>2, <1>3, <1>4, <1>5, <1>12 DEF Down
<1>. QED
  BY <1>6, <1>7, <1>8, <1>9, <1>10, <1>11, <1>12 DEF ConsumerStep

\* The handler's return.
LEMMA ReturnKeepsTypes ==
  ASSUME ConsumerTyped, NEW outcome, HandlerReturned(outcome), faults' \in 0 .. MaxFaults
  PROVE  ConsumerTyped'
<1>1. /\ committed \in 0 .. LogEnd /\ consumer.pos \in Offsets
      /\ consumer.pos \in 0 .. LogEnd /\ consumer.attempt \in 0 .. MaxRetries
      /\ handled \subseteq Offsets /\ dlq \subseteq Offsets /\ unwritten \subseteq Offsets
      /\ MaxRetries \in Nat \ {0}
  BY ConsumerAssumption DEF ConsumerTyped, ConsumerTypeOK, HandlerReturned, ConsumerAt
<1>2. \E pc \in {"committing", "deadlettering", "handling"}, attempt \in 0 .. MaxRetries :
         consumer' = Task(pc, consumer.pos, attempt)
  BY <1>1 DEF HandlerReturned, Goto
<1>3. handled' \subseteq Offsets /\ UNCHANGED <<committed, dlq, unwritten>>
  BY <1>1 DEF HandlerReturned
<1>4. {"committing", "deadlettering", "handling"} \subseteq ConsumerPCs
  BY DEF ConsumerPCs
<1>5. PICK pc \in {"committing", "deadlettering", "handling"}, attempt \in 0 .. MaxRetries :
        consumer' = Task(pc, consumer.pos, attempt)
  BY <1>2
<1>6. /\ consumer' \in [pc : ConsumerPCs, pos : 0 .. LogEnd, attempt : 0 .. MaxRetries]
      /\ consumer'.pos = consumer.pos
  <2>1. pc \in ConsumerPCs
    BY <1>4
  <2>2. Task(pc, consumer.pos, attempt).pos = consumer.pos
    BY DEF Task
  <2>3. Task(pc, consumer.pos, attempt)
          \in [pc : ConsumerPCs, pos : 0 .. LogEnd, attempt : 0 .. MaxRetries]
    BY <1>1, <2>1 DEF Task
  <2>. QED
    BY <1>5, <2>2, <2>3
<1>. QED
  BY <1>1, <1>3, <1>6 DEF ConsumerTyped, ConsumerTypeOK

\* A write of a process that works on it leaves a row of the table.
LEMMA WriteKeepsTypes ==
  ASSUME IInv, TypeInv, NEW s \in Starters, Written(s)
  PROVE  investigations' \in [Runs -> Rows \cup {Absent}]
<1>0. /\ investigations \in [Runs -> Rows \cup {Absent}] /\ StarterTyped(starter[s])
      /\ \A i \in Incidents, t \in {"EVENT", "MANUAL"}, v \in {"PENDING"} \cup TerminalStatuses,
            b \in BOOLEAN : Row(i, t, v, b) \in Rows
  BY DEF TypeInv, Row, Rows
<1>1. ASSUME NEW n \in NextRow, Reserve(s, n)
      PROVE  investigations' \in [Runs -> Rows \cup {Absent}]
  <2>1. n \in Runs /\ starter[s].incident \in Incidents
    BY <1>0, <1>1 DEF NextRow, Reserve, StarterTyped, Working
  <2>2. Row(starter[s].incident, Trigger(s), "PENDING", FALSE) \in Rows
    BY <1>0, <2>1 DEF Trigger
  <2>. QED
    BY <1>0, <1>1, <2>1, <2>2 DEF Reserve
<1>2. ASSUME NEW report \in BOOLEAN, Store(s, report)
      PROVE  investigations' \in [Runs -> Rows \cup {Absent}]
  <2>1. starter[s].pc = "complete" /\ starter[s].status \in TerminalStatuses /\ starter[s].run \in Runs
    BY <1>0, <1>2 DEF Store, StarterTyped, Owning
  <2>2. PICK row : row = investigations[starter[s].run]
    OBVIOUS
  <2>3. row.status = "PENDING"
    BY <2>1, <2>2 DEF IInv, RunsOwned, Owning
  <2>4. row \in Rows
    <3>1. row # Absent
      BY <2>3 DEF Absent, Row
    <3>. QED
      BY <1>0, <2>1, <2>2, <3>1
  <2>5. Row(row.incident, row.trigger, starter[s].status, report) \in Rows
    BY <1>0, <2>1, <2>4 DEF Rows
  <2>6. investigations' = [investigations EXCEPT ![starter[s].run] =
                             Row(row.incident, row.trigger, starter[s].status, report)]
    BY <1>0, <1>2, <2>1, <2>2 DEF Store
  <2>. QED
    BY <1>0, <2>5, <2>6
<1>. QED
  BY <1>0, <1>1, <1>2 DEF Written

\* A process moves to a typed record.
LEMMA MoveKeepsTypes ==
  ASSUME TypeInv, NEW s \in Starters, NEW r, StarterTyped(r), starter' = [starter EXCEPT ![s] = r]
  PROVE  /\ starter' \in [Starters -> StarterRecords]
         /\ \A t \in Starters : StarterTyped(starter'[t])
BY DEF TypeInv, StarterTyped

\* The records processes move to.
LEMMA RecordsTyped ==
  /\ StarterTyped(Idle)
  /\ \A pc \in {"check", "begin", "lookup"}, i \in Incidents : StarterTyped(StarterAt(pc, i, NoRun, "ABSENT"))
  /\ \A i \in Incidents, n \in Runs : StarterTyped(StarterAt("run", i, n, "ABSENT"))
  /\ \A i \in Incidents, n \in Runs, v \in TerminalStatuses : StarterTyped(StarterAt("complete", i, n, v))
  /\ \A pc \in {"steps", "report", "answer"}, n \in Runs, v \in TerminalStatuses \cup {"ABSENT", "PENDING"},
        saw \in SUBSET {"steps", "report"} :
       StarterTyped([pc |-> pc, incident |-> Nobody, run |-> n, status |-> v, saw |-> saw])
<1>1. StarterTyped(Idle)
  BY DEF Idle, StarterAt, StarterTyped, StarterRecords, Working, Owning
<1>2. ASSUME NEW pc \in {"check", "begin", "lookup"}, NEW i \in Incidents
      PROVE  StarterTyped(StarterAt(pc, i, NoRun, "ABSENT"))
  BY DEF StarterAt, StarterTyped, StarterRecords, Working, Owning
<1>3. ASSUME NEW i \in Incidents, NEW n \in Runs
      PROVE  StarterTyped(StarterAt("run", i, n, "ABSENT"))
  BY DEF StarterAt, StarterTyped, StarterRecords, Working, Owning
<1>4. ASSUME NEW i \in Incidents, NEW n \in Runs, NEW v \in TerminalStatuses
      PROVE  StarterTyped(StarterAt("complete", i, n, v))
  BY DEF StarterAt, StarterTyped, StarterRecords, Working, Owning
<1>5. ASSUME NEW pc \in {"steps", "report", "answer"}, NEW n \in Runs,
             NEW v \in TerminalStatuses \cup {"ABSENT", "PENDING"}, NEW saw \in SUBSET {"steps", "report"}
      PROVE  StarterTyped([pc |-> pc, incident |-> Nobody, run |-> n, status |-> v, saw |-> saw])
  BY DEF StarterTyped, StarterRecords, Working, Owning
<1>. QED
  BY <1>1, <1>2, <1>3, <1>4, <1>5

\* A process ends, with or without a last write.
LEMMA OutcomeKeepsTypes ==
  ASSUME IInv, TypeInv, NEW s \in Starters, NEW outcome, Outcome(s, outcome), Written(s),
         faults' \in 0 .. MaxFaults
  PROVE  TypeInv'
<1>1. starter' = [starter EXCEPT ![s] = Idle]
  BY DEF Outcome
<1>2. starter' \in [Starters -> StarterRecords] /\ \A t \in Starters : StarterTyped(starter'[t])
  BY <1>1, MoveKeepsTypes, RecordsTyped
<1>3. ConsumerTyped'
  <2>1. CASE s = Handler
    BY <2>1, ReturnKeepsTypes DEF Outcome, TypeInv
  <2>2. CASE s # Handler
    BY <2>2 DEF Outcome, TypeInv, ConsumerTyped, ConsumerTypeOK
  <2>. QED
    BY <2>1, <2>2
<1>. QED
  BY <1>2, <1>3, WriteKeepsTypes DEF TypeInv, StarterTyped

\* A process goes on, with or without a write; the consumer has no part in it.
LEMMA MoveKeepsAll ==
  ASSUME IInv, TypeInv, NEW s \in Starters, NEW r, StarterTyped(r), starter' = [starter EXCEPT ![s] = r],
         Written(s), UNCHANGED consumerVars
  PROVE  TypeInv'
<1>1. starter' \in [Starters -> StarterRecords] /\ \A t \in Starters : StarterTyped(starter'[t])
  BY MoveKeepsTypes
<1>2. ConsumerTyped'
  BY DEF consumerVars, TypeInv, ConsumerTyped, ConsumerTypeOK
<1>. QED
  BY <1>1, <1>2, WriteKeepsTypes DEF TypeInv, StarterTyped

\* The steps of a run.
LEMMA RunKeepsTypes ==
  ASSUME IInv, TypeInv, NEW s \in Starters,
         RunStep(s) \/ DatabaseFails(s) \/ AcknowledgementLost(s)
  PROVE  TypeInv'
<1>0. /\ StarterTyped(starter[s]) /\ faults \in 0 .. MaxFaults /\ (Fault => faults' \in 0 .. MaxFaults)
      /\ starter[s].pc \in Working => starter[s].incident \in Incidents
  BY ConsumerAssumption DEF TypeInv, StarterTyped, ConsumerTyped, ConsumerTypeOK, Fault
<1>1. ASSUME NEW outcome, Finish(s, outcome), Written(s) PROVE TypeInv'
  BY <1>0, <1>1, OutcomeKeepsTypes DEF Finish
<1>2. ASSUME NEW pc, NEW n, NEW status, starter[s].pc \in Working,
             StarterTyped(StarterAt(pc, starter[s].incident, n, status)),
             Continue(s, pc, n, status), Written(s)
      PROVE  TypeInv'
  <2>1. starter' = [starter EXCEPT ![s] = StarterAt(pc, starter[s].incident, n, status)]
    BY <1>2 DEF Continue, TypeInv
  <2>. QED
    BY <1>2, <2>1, MoveKeepsAll DEF Continue
<1>3. CASE CheckExisting(s)
  <2>1. starter[s].pc = "check" /\ Written(s)
    BY <1>3 DEF CheckExisting, Written
  <2>2. starter[s].pc \in Working
    BY <2>1 DEF Working
  <2>3. StarterTyped(StarterAt("begin", starter[s].incident, NoRun, "ABSENT"))
    BY <1>0, <2>2, RecordsTyped
  <2>. QED
    BY <1>1, <1>2, <1>3, <2>1, <2>2, <2>3 DEF CheckExisting
<1>4. CASE Begin(s)
  <2>1. PICK n \in NextRow : Reserve(s, n) /\ Continue(s, "run", n, "ABSENT")
    BY <1>4 DEF Begin
  <2>2. starter[s].pc \in Working /\ Written(s) /\ n \in Runs
    BY <2>1 DEF Reserve, Working, Written, NextRow
  <2>3. StarterTyped(StarterAt("run", starter[s].incident, n, "ABSENT"))
    BY <1>0, <2>2, RecordsTyped
  <2>. QED
    BY <1>2, <2>1, <2>2, <2>3
<1>5. CASE BeginLoses(s)
  <2>1. starter[s].pc = "begin" /\ Written(s) /\ Continue(s, "lookup", NoRun, "ABSENT")
    BY <1>5 DEF BeginLoses, Written
  <2>2. starter[s].pc \in Working
    BY <2>1 DEF Working
  <2>3. StarterTyped(StarterAt("lookup", starter[s].incident, NoRun, "ABSENT"))
    BY <1>0, <2>2, RecordsTyped
  <2>. QED
    BY <1>2, <2>1, <2>2, <2>3
<1>6. CASE LookupActive(s)
  BY <1>1, <1>6 DEF LookupActive, Written
<1>7. ASSUME NEW status \in TerminalStatuses, RunEngine(s, status) PROVE TypeInv'
  <2>1. starter[s].pc = "run" /\ Written(s) /\ Continue(s, "complete", starter[s].run, status)
    BY <1>7 DEF RunEngine, Written
  <2>2. starter[s].pc \in Working /\ starter[s].run \in Runs
    BY <1>0, <2>1 DEF Working, Owning, StarterTyped
  <2>3. StarterTyped(StarterAt("complete", starter[s].incident, starter[s].run, status))
    BY <1>0, <2>2, RecordsTyped
  <2>. QED
    BY <1>2, <2>1, <2>2, <2>3
<1>8. ASSUME NEW report \in BOOLEAN, Complete(s, report) PROVE TypeInv'
  BY <1>1, <1>8 DEF Complete, Written
<1>9. CASE DatabaseFails(s)
  BY <1>0, <1>9, OutcomeKeepsTypes DEF DatabaseFails, Written
<1>10. CASE AcknowledgementLost(s)
  BY <1>0, <1>10, OutcomeKeepsTypes DEF AcknowledgementLost, Written
<1>. QED
  BY <1>3, <1>4, <1>5, <1>6, <1>7, <1>8, <1>9, <1>10 DEF RunStep

\* The steps of the API.
LEMMA CallerKeepsTypes ==
  ASSUME IInv, TypeInv, NEW c \in Callers,
         (\E i \in Incidents : Submit(c, i)) \/ (\E n \in Runs : GetInvestigation(c, n)) \/ Read(c)
  PROVE  TypeInv'
<1>0. /\ c \in Starters /\ StarterTyped(starter[c])
      /\ investigations \in [Runs -> Rows \cup {Absent}]
  BY DEF Starters, TypeInv
<1>1. ASSUME NEW r, StarterTyped(r), starter' = [starter EXCEPT ![c] = r],
             UNCHANGED <<consumerVars, investigations>>
      PROVE  TypeInv'
  BY <1>0, <1>1, MoveKeepsAll DEF Written
<1>2. ASSUME NEW i \in Incidents, Submit(c, i) PROVE TypeInv'
  BY <1>1, <1>2, RecordsTyped DEF Submit
<1>3. ASSUME NEW pc \in {"steps", "report", "answer"}, NEW n \in Runs,
             NEW v \in TerminalStatuses \cup {"ABSENT", "PENDING"}, NEW saw \in SUBSET {"steps", "report"},
             Reading(c, pc, n, v, saw)
      PROVE  TypeInv'
  <2>. DEFINE r == [pc |-> pc, incident |-> Nobody, run |-> n, status |-> v, saw |-> saw]
  <2>1. StarterTyped(r)
    BY RecordsTyped
  <2>2. starter' = [starter EXCEPT ![c] = r] /\ UNCHANGED <<consumerVars, investigations>>
    BY <1>3 DEF Reading
  <2>. HIDE DEF r
  <2>. QED
    BY <1>1, <2>1, <2>2
<1>4. ASSUME NEW n \in Runs, GetInvestigation(c, n) PROVE TypeInv'
  <2>1. investigations[n].status \in TerminalStatuses \cup {"ABSENT", "PENDING"}
    BY <1>0 DEF Rows, Absent, Row
  <2>2. Reading(c, "steps", n, investigations[n].status, {})
    BY <1>4 DEF GetInvestigation
  <2>. QED
    BY <1>3, <2>1, <2>2
<1>5. CASE GetSteps(c)
  <2>1. /\ starter[c].pc = "steps"
        /\ Reading(c, "report", starter[c].run, starter[c].status,
                   IF IsActive(starter[c].run) THEN {} ELSE {"steps"})
    BY <1>5 DEF GetSteps
  <2>2. starter[c].run \in Runs /\ starter[c].status \in TerminalStatuses \cup {"ABSENT", "PENDING"}
    BY <1>0, <2>1 DEF StarterTyped, StarterRecords
  <2>. QED
    BY <1>3, <2>1, <2>2
<1>6. CASE GetReport(c)
  <2>1. /\ starter[c].pc = "report"
        /\ Reading(c, "answer", starter[c].run, starter[c].status,
                   IF investigations[starter[c].run].report THEN starter[c].saw \cup {"report"}
                                                            ELSE starter[c].saw)
    BY <1>6 DEF GetReport
  <2>2. /\ starter[c].run \in Runs /\ starter[c].status \in TerminalStatuses \cup {"ABSENT", "PENDING"}
        /\ starter[c].saw \in SUBSET {"steps", "report"}
    BY <1>0, <2>1 DEF StarterTyped, StarterRecords
  <2>3. PICK saw \in SUBSET {"steps", "report"} :
          saw = IF investigations[starter[c].run].report THEN starter[c].saw \cup {"report"}
                                                         ELSE starter[c].saw
    BY <2>2
  <2>4. Reading(c, "answer", starter[c].run, starter[c].status, saw)
    BY <2>1, <2>3, Zenon
  <2>. QED
    BY <1>3, <2>2, <2>4
<1>7. CASE Answer(c)
  BY <1>1, <1>7, RecordsTyped DEF Answer
<1>. QED
  BY <1>2, <1>4, <1>5, <1>6, <1>7 DEF Read

\* The announcement the handler takes up names an incident.
LEMMA HandleEventKeepsTypes ==
  ASSUME IInv, TypeInv, HandleEvent
  PROVE  TypeInv'
<1>1. Handler \in Starters /\ consumer.pos \in Offsets /\ faults \in 0 .. MaxFaults
  BY DEF HandleEvent, ConsumerAt, TypeInv, ConsumerTyped, ConsumerTypeOK, Starters
<1>2. Message[consumer.pos].incident \in Incidents
  BY <1>1, InvestigationAssumption
<1>3. CASE \E outcome : Finish(Handler, outcome)
  BY <1>1, <1>3, OutcomeKeepsTypes DEF HandleEvent, Finish, Written
<1>4. CASE /\ starter' = [starter EXCEPT ![Handler] =
                            StarterAt("check", Message[consumer.pos].incident, NoRun, "ABSENT")]
           /\ UNCHANGED consumerVars
  <2>1. StarterTyped(StarterAt("check", Message[consumer.pos].incident, NoRun, "ABSENT"))
    BY <1>2, RecordsTyped
  <2>. QED
    BY <1>1, <1>4, <2>1, MoveKeepsAll DEF HandleEvent, Written
<1>. QED
  BY <1>3, <1>4 DEF HandleEvent

\* Every step keeps the types.
LEMMA TypesStep == IInv /\ TypeInv /\ [Next]_vars => TypeInv'
<1>. SUFFICES ASSUME IInv, TypeInv, [Next]_vars PROVE TypeInv'
  OBVIOUS
<1>1. CASE (StartConsumer \/ StartFails \/ ConsumerStep) /\ UNCHANGED <<investigations, starter>>
  <2>1. ConsumerTyped'
    BY <1>1, ConsumerKeepsTypes DEF TypeInv
  <2>. QED
    BY <1>1, <2>1 DEF TypeInv, StarterTyped
<1>2. CASE Crash \/ Shutdown
  <2>1. /\ Fault /\ consumer' = Down /\ starter' = [s \in Starters |-> Idle]
        /\ UNCHANGED <<committed, handled, dlq, unwritten, investigations>>
    BY <1>2 DEF Crash, Shutdown, StopConsumer
  <2>2. ConsumerTyped'
    BY <2>1, ConsumerKeepsTypes DEF TypeInv
  <2>3. StarterTyped(Idle)
    BY RecordsTyped
  <2>. QED
    BY <2>1, <2>2, <2>3 DEF TypeInv, StarterTyped
<1>3. CASE UNCHANGED vars
  BY <1>3 DEF vars, consumerVars, TypeInv, StarterTyped, ConsumerTyped, ConsumerTypeOK
<1>. QED
  BY <1>1, <1>2, <1>3, HandleEventKeepsTypes, CallerKeepsTypes, RunKeepsTypes DEF Next, ConsumerTask

\* The consumer, the table and the processes keep their types: the committed
\* offset stays within the log, a record is retried at most max_retries times
\* (kafka.py), and every row of the table is one run of one incident, PENDING or
\* finished.
THEOREM TypeCorrectness == Spec => []TypeOK
<1>1. Init => TypeInv
  <2>. SUFFICES ASSUME Init PROVE TypeInv
    OBVIOUS
  <2>1. ConsumerTyped
    BY ConsumerAssumption
       DEF Init, ConsumerInit, ConsumerTyped, ConsumerTypeOK, Down, Task, ConsumerPCs
  <2>. QED
    BY <2>1, RecordsTyped DEF Init, TypeInv, StarterTyped
<1>2. TypeInv => TypeOK
  BY DEF TypeInv, TypeOK, ConsumerTyped, StarterRecords, Working, Owning
<1>. QED
  BY <1>1, <1>2, TypesStep, Inductive, PTL DEF Spec
=============================================================================
