-------------------------- MODULE IdempotentConsumer --------------------------
(***************************************************************************)
(* The at-least-once consumer of sentinelops_common/kafka.py: one          *)
(* partition, one handler.  An offset is committed by hand, after its      *)
(* record was handled or was written to the dead-letter topic.  What the   *)
(* handler does until it returns belongs to the service that uses the      *)
(* consumer (module Investigation).                                        *)
(***************************************************************************)
EXTENDS Naturals

CONSTANTS
    LogEnd,       \* the partition holds the offsets 0 .. LogEnd - 1
    Undecodable,  \* the offsets parse_envelope raises on
    MaxRetries,   \* max_retries
    MaxFaults     \* bounds the faults of a behaviour: failed calls, restarts

Offsets == 0 .. LogEnd - 1

ASSUME ConsumerAssumption ==
    /\ LogEnd \in Nat
    /\ Undecodable \subseteq Offsets
    /\ MaxRetries \in Nat \ {0}
    /\ MaxFaults \in Nat

VARIABLES
    committed,    \* the group's committed offset, on the broker
    consumer,     \* the task's local state, gone when the process dies
    handled,      \* offsets whose handler returned
    dlq,          \* offsets written to the dead-letter topic
    unwritten,    \* offsets whose write to the dead-letter topic failed
    faults        \* faults so far

consumerVars == <<committed, consumer, handled, dlq, unwritten, faults>>

\* down: no process.  dead: the process runs but _run has ended, or never began.
ConsumerPCs == {"down", "dead", "polling", "handling", "committing",
                "deadlettering", "committingDlq"}

Task(pc, pos, attempt) == [pc |-> pc, pos |-> pos, attempt |-> attempt]

Down == Task("down", 0, 0)

ConsumerInit ==
    /\ committed = 0
    /\ consumer = Down
    /\ handled = {}
    /\ dlq = {}
    /\ unwritten = {}
    /\ faults = 0

Fault == faults < MaxFaults /\ faults' = faults + 1

ConsumerAt(pc) == consumer.pc = pc

Goto(pc) == consumer' = Task(pc, consumer.pos, consumer.attempt)

\* healthy, as /ready reports it.
Healthy == consumer.pc \notin {"down", "dead"}

-----------------------------------------------------------------------------
(* start, stop, _run.                                                      *)

\* auto_offset_reset = earliest: the task begins at the committed offset.
StartConsumer ==
    /\ ConsumerAt("down")
    /\ consumer' = Task("polling", committed, 0)
    /\ UNCHANGED <<committed, handled, dlq, unwritten, faults>>

\* KafkaJsonProducer.start or AIOKafkaConsumer.start raises: lifespan logs it
\* and serves the API all the same.
StartFails ==
    /\ Fault
    /\ ConsumerAt("down")
    /\ consumer' = Task("dead", 0, 0)
    /\ UNCHANGED <<committed, handled, dlq, unwritten>>

\* The next record of a batch: parse_envelope, then the handler.
TakeRecord ==
    /\ ConsumerAt("polling")
    /\ consumer.pos \in Offsets
    /\ consumer' = Task(IF consumer.pos \in Undecodable THEN "deadlettering"
                                                        ELSE "handling",
                        consumer.pos, 1)
    /\ UNCHANGED <<committed, handled, dlq, unwritten, faults>>

\* stop() is looked at between two records only.  A restart uses up a fault, so
\* that a behaviour is not restarted for ever.
StopConsumer ==
    /\ Fault
    /\ consumer.pc \in {"polling", "dead"}
    /\ consumer' = Down
    /\ UNCHANGED <<committed, handled, dlq, unwritten>>

-----------------------------------------------------------------------------
(* _process_one, from the moment its handler returns or raises.            *)

\* Mutant of HandlerReturned: the last failed attempt is taken for a success.
MutantHandlerReturnedGivesUp(outcome) ==
    /\ ConsumerAt("handling")
    /\ \/ outcome = "ok" /\ Goto("committing")
       \/ outcome \in {"rejected", "unexpected"} /\ Goto("deadlettering")
       \/ outcome = "retryable" /\ consumer.attempt = MaxRetries /\ Goto("committing")
       \/ outcome = "retryable" /\ consumer.attempt < MaxRetries
          /\ consumer' = Task("handling", consumer.pos, consumer.attempt + 1)
    /\ handled' = IF outcome = "ok" THEN handled \cup {consumer.pos} ELSE handled
    /\ UNCHANGED <<committed, dlq, unwritten>>

\* MessageRejected and unexpected errors go to the dead-letter topic at once, a
\* RetryableError after the last attempt; before that the backoff, and again.
HandlerReturned(outcome) ==
    /\ ConsumerAt("handling")
    /\ \/ outcome = "ok" /\ Goto("committing")
       \/ outcome \in {"rejected", "unexpected"} /\ Goto("deadlettering")
       \/ outcome = "retryable" /\ consumer.attempt = MaxRetries /\ Goto("deadlettering")
       \/ outcome = "retryable" /\ consumer.attempt < MaxRetries
          /\ consumer' = Task("handling", consumer.pos, consumer.attempt + 1)
    /\ handled' = IF outcome = "ok" THEN handled \cup {consumer.pos} ELSE handled
    /\ UNCHANGED <<committed, dlq, unwritten>>

\* Mutant of Commit: commits the record's own offset.
MutantCommitOwnOffset ==
    /\ consumer.pc \in {"committing", "committingDlq"}
    /\ committed' = consumer.pos
    /\ consumer' = Task("polling", consumer.pos + 1, 0)
    /\ UNCHANGED <<handled, dlq, unwritten, faults>>

\* _commit.
Commit ==
    /\ consumer.pc \in {"committing", "committingDlq"}
    /\ committed' = consumer.pos + 1
    /\ consumer' = Task("polling", consumer.pos + 1, 0)
    /\ UNCHANGED <<handled, dlq, unwritten, faults>>

\* _commit raises, before or after the broker has applied it.  After a handled
\* record the generic except clause dead-letters it as well; after a
\* dead-lettered one nothing catches the error and the task ends.
CommitFails(applied) ==
    /\ Fault
    /\ \/ ConsumerAt("committing") /\ Goto("deadlettering")
       \/ ConsumerAt("committingDlq") /\ Goto("dead")
    /\ committed' = IF applied THEN consumer.pos + 1 ELSE committed
    /\ UNCHANGED <<handled, dlq, unwritten>>

\* _to_dlq: a failed write is logged, and the offset is committed next.
ToDlq(written) ==
    /\ ConsumerAt("deadlettering")
    /\ IF written THEN UNCHANGED faults ELSE Fault
    /\ dlq' = IF written THEN dlq \cup {consumer.pos} ELSE dlq
    /\ unwritten' = IF written THEN unwritten ELSE unwritten \cup {consumer.pos}
    /\ Goto("committingDlq")
    /\ UNCHANGED <<committed, handled>>

\* The steps of the task that need nothing from the handler.
ConsumerStep ==
    \/ TakeRecord
    \/ Commit
    \/ \E applied \in BOOLEAN : CommitFails(applied)
    \/ \E written \in BOOLEAN : ToDlq(written)
=============================================================================
