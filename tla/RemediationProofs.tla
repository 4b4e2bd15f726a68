--------------------------- MODULE RemediationProofs ---------------------------
(***************************************************************************)
(* Proofs about Remediation for every number of requests, remediations and *)
(* recommendations, every TTL, cooldown and clock bound.                   *)
(*                                                                         *)
(* The inductive invariant IInv has four parts: the types; RowsConsistent, *)
(* which ties the columns of one row together; RequestsSound, which says   *)
(* what a request in flight may still rely on although it read the row     *)
(* without a lock; and Ownership, which says that a minted id, a claimed   *)
(* execution and a started verification each belong to one request.        *)
(*                                                                         *)
(* On top of it: every step is silent, publishes one event or commits one  *)
(* transaction (StepKinds), which carries the audit trail and the          *)
(* published events; and what a history snapshot still says of its key     *)
(* when the row is created (SnapshotsHold), which holds as long as         *)
(* proposals do not overlap and carries the duplicate and cooldown rules.  *)
(*                                                                         *)
(* Last, the controller implements the abstract lifecycle: a transaction   *)
(* that moves a row is the lifecycle step of that move, a run of the       *)
(* executor that succeeds is LApply, and everything else stutters.  IInv   *)
(* supplies what the transactions do not check themselves: that a decision *)
(* finds the row PENDING_APPROVAL, that the executor runs once per claim,  *)
(* and that the result it reports is what it did.                          *)
(***************************************************************************)
EXTENDS Remediation, DataLemmas

\* An audit event is looked into wherever it is written.
USE DEF ProposalCreatedEvent, PolicyEvaluatedEvent, RemediationBlockedEvent, DecisionEvent,
        ExecutionRequestedEvent, ExecutionStartedEvent, ExecutionFinishedEvent,
        VerificationStartedEvent, VerificationFinishedEvent

Minting   == {"mapped", "snapshotted"}
Executing == {"claimed", "finishing"}
Verifying == {"observing", "concluding"}

\* The fields a request needs at its program counter are set.
Typed(q) ==
    /\ q \in Requests
    /\ q.pc \notin {"idle", "done"} => q.rem \in Rems
    /\ q.next <= q.upto => q.rem \in Rems
    /\ q.pc \in Minting => q.rec \in Recommendations /\ IsMappable(q.rec)
    /\ q.pc \in {"decide", "deciding"} => q.decision \in Decisions /\ q.role \in RouteRoles
    /\ q.pc = "finishing" => q.result \in {"SUCCEEDED", "FAILED"}
    /\ q.pc = "concluding" => q.result \in {"RECOVERED", "RECOVERY_FAILED"}

RowConsistent(r) ==
    /\ status[r] \in {Absent, "PENDING_APPROVAL", "BLOCKED", "REJECTED"} \cup ApprovedStatuses
    /\ status[r] # Absent => proposal[r] \in Proposals
    /\ status[r] \in {Absent, "PENDING_APPROVAL", "BLOCKED"} => approval[r] = NoApproval
    /\ status[r] = "REJECTED" => approval[r].decision = "REJECT"
    /\ status[r] \notin {Absent, "BLOCKED"} => policy[r] = "ALLOW"
    /\ status[r] \in ApprovedStatuses =>
         /\ approval[r].decision = "APPROVE"
         /\ CanApprove(approval[r].role, proposal[r].action)
         /\ approval[r].at < proposal[r].expires
    /\ status[r] \in {"EXECUTED", "VERIFYING", "RECOVERED", "RECOVERY_FAILED"} =>
         applied[r] = 1 /\ execution[r] = "SUCCEEDED"
    /\ status[r] \notin {"EXECUTING", "EXECUTED", "VERIFYING", "RECOVERED",
                         "RECOVERY_FAILED"} => applied[r] = 0
    /\ applied[r] \in {0, 1}

\* What a request that read its row without a lock may still count on.
Sound(q) ==
    /\ q.pc \in Minting => status[q.rem] = Absent
    /\ q.pc = "deciding" =>
         /\ status[q.rem] \notin {Absent, "BLOCKED"}
         /\ q.ts < proposal[q.rem].expires
         /\ q.decision = "APPROVE" => CanApprove(q.role, proposal[q.rem].action)
    /\ q.pc \in Executing => status[q.rem] = "EXECUTING"
    /\ q.pc = "claimed" => applied[q.rem] = 0
    /\ q.pc = "finishing" =>
         applied[q.rem] = IF q.result = "SUCCEEDED" THEN 1 ELSE 0
    /\ q.pc \in Verifying => status[q.rem] = "VERIFYING"

\* No two requests hold the same id, execution or verification.
Apart(a, b) ==
    a.rem = b.rem =>
      /\ ~ (a.pc \in Minting /\ b.pc \in Minting)
      /\ ~ (a.pc \in Executing /\ b.pc \in Executing)
      /\ ~ (a.pc \in Verifying /\ b.pc \in Verifying)

RequestsTyped  == \A p \in Procs : Typed(req[p])
RowsConsistent == \A r \in Rems : RowConsistent(r)
RequestsSound  == \A p \in Procs : Sound(req[p])
Ownership      == \A p, q \in Procs : p # q => Apart(req[p], req[q])

IInv == TypeOK /\ RequestsTyped /\ RowsConsistent /\ RequestsSound /\ Ownership

-----------------------------------------------------------------------------
(* The initial state.                                                      *)

\* A blank request is well formed and owns nothing.
LEMMA IdleFacts == Typed(Idle) /\ Sound(Idle) /\ Idle.pc = "idle"
  BY RemediationAssumption
  DEF Idle, Request, Typed, Sound, Requests, Replies, PCs, NoHistory, Minting,
      Executing, Verifying

\* The invariant holds when the service starts on an empty database.
LEMMA InitIInv == Init => IInv
<1>. SUFFICES ASSUME Init PROVE IInv
  OBVIOUS
<1>1. TypeOK
  BY IdleFacts, RemediationAssumption DEF Init, TypeOK, Typed
<1>2. RequestsTyped /\ RequestsSound
  BY IdleFacts DEF Init, RequestsTyped, RequestsSound
<1>3. RowsConsistent
  BY DEF Init, RowsConsistent, RowConsistent, Absent, ApprovedStatuses
<1>4. Ownership
  BY IdleFacts DEF Init, Ownership, Apart, Minting, Executing, Verifying
<1>. QED
  BY <1>1, <1>2, <1>3, <1>4 DEF IInv

-----------------------------------------------------------------------------
(* Steps that change only the request that takes them.                     *)

\* A request may move to any well-formed, sound state that takes nothing away
\* from another request.
LEMMA RequestStep ==
  ASSUME IInv, NEW p \in Procs, NEW X,
         req' = [req EXCEPT ![p] = X],
         UNCHANGED <<rowVars, audit, applied>>,
         now' \in Nat, topic' \in [Rems -> Seq(Nat)],
         Typed(X), Sound(X),
         \A q \in Procs \ {p} : Apart(X, req[q]) /\ Apart(req[q], X)
  PROVE  IInv'
<1>1. /\ req'[p] = X
      /\ \A q \in Procs \ {p} : req'[q] = req[q]
  BY DEF IInv, TypeOK
<1>2. TypeOK'
  BY DEF IInv, TypeOK, Typed, rowVars
<1>3. RequestsTyped'
  BY <1>1 DEF IInv, RequestsTyped, Typed
<1>4. RowsConsistent'
  BY DEF IInv, RowsConsistent, RowConsistent, rowVars
<1>5. RequestsSound'
  BY <1>1 DEF IInv, RequestsSound, Sound, rowVars
<1>6. Ownership'
  BY <1>1 DEF IInv, Ownership, Apart
<1>. QED
  BY <1>2, <1>3, <1>4, <1>5, <1>6 DEF IInv

Frame == UNCHANGED <<now, rowVars, audit, applied, topic>>

\* An answer without a commit.
LEMMA ReplyStep ==
  ASSUME IInv, NEW p \in Procs, NEW code \in Replies,
         Reply(p, code), Frame
  PROVE  IInv'
<1>. DEFINE X == Further(Idle, "done", NoHistory, Nothing, 1, 0, code)
<1>1. Typed(X) /\ Sound(X)
  BY RemediationAssumption
  DEF Idle, Request, Further, Typed, Sound, Requests, Replies, PCs, NoHistory, Minting,
      Executing, Verifying
<1>2. \A q \in Procs \ {p} : Apart(X, req[q]) /\ Apart(req[q], X)
  BY DEF Further, Apart, Minting, Executing, Verifying
<1>3. req' = [req EXCEPT ![p] = X]
  BY DEF Reply
<1>4. now' \in Nat /\ topic' \in [Rems -> Seq(Nat)]
  BY DEF Frame, IInv, TypeOK
<1>5. UNCHANGED <<rowVars, audit, applied>>
  BY DEF Frame
<1>. HIDE DEF X
<1>. QED
  BY <1>1, <1>2, <1>3, <1>4, <1>5, RequestStep

\* The end of a request, normal or not.
LEMMA IdleStep ==
  ASSUME IInv, NEW p \in Procs, req' = [req EXCEPT ![p] = Idle], Frame
  PROVE  IInv'
<1>1. \A q \in Procs \ {p} : Apart(Idle, req[q]) /\ Apart(req[q], Idle)
  BY IdleFacts DEF Apart, Minting, Executing, Verifying
<1>2. now' \in Nat /\ topic' \in [Rems -> Seq(Nat)]
  BY DEF Frame, IInv, TypeOK
<1>. QED
  BY <1>1, <1>2, IdleFacts, RequestStep DEF Frame

\* The arrival of a request.
LEMMA ArriveStep ==
  ASSUME IInv, NEW p \in Procs, Arrive(p)
  PROVE  IInv'
<1>1. ASSUME NEW rec \in Recommendations, ProposeUnmappable(p, rec)
      PROVE  IInv'
  BY <1>1, ReplyStep DEF ProposeUnmappable, Frame, Replies
<1>2. ASSUME NEW rec \in Recommendations, NEW r \in Rems, ProposeMapped(p, rec, r)
      PROVE  IInv'
  <2>. DEFINE X == Request("mapped", r, now, rec, Nothing, Nothing)
  <2>1. Typed(X) /\ Sound(X)
    BY <1>2 DEF ProposeMapped, Request, Typed, Sound, Requests, Replies, PCs, NoHistory,
                Minting, Executing, Verifying, IInv, TypeOK
  <2>2. \A q \in Procs \ {p} : Apart(X, req[q]) /\ Apart(req[q], X)
    BY <1>2 DEF ProposeMapped, Apart, Request
  <2>3. req' = [req EXCEPT ![p] = X] /\ Frame
    BY <1>2 DEF ProposeMapped, Frame
  <2>4. now' \in Nat /\ topic' \in [Rems -> Seq(Nat)]
    BY <2>3 DEF Frame, IInv, TypeOK
  <2>. HIDE DEF X
  <2>. QED
    BY <2>1, <2>2, <2>3, <2>4, RequestStep DEF Frame
<1>3. ASSUME NEW r \in Rems, NEW pc \in {"decide", "execute", "verify"},
             NEW d \in Decisions \cup {Nothing}, NEW role \in RouteRoles \cup {Nothing},
             pc = "decide" => d \in Decisions /\ role \in RouteRoles,
             req' = [req EXCEPT ![p] = Request(pc, r, now, NoRecommendation, d, role)],
             Frame
      PROVE  IInv'
  <2>. DEFINE X == Request(pc, r, now, NoRecommendation, d, role)
  <2>1. Typed(X) /\ Sound(X)
    BY <1>3 DEF Request, Typed, Sound, Requests, Replies, PCs, NoHistory, Minting,
                Executing, Verifying, IInv, TypeOK
  <2>2. \A q \in Procs \ {p} : Apart(X, req[q]) /\ Apart(req[q], X)
    BY <1>3 DEF Apart, Request, Minting, Executing, Verifying
  <2>3. now' \in Nat /\ topic' \in [Rems -> Seq(Nat)]
    BY <1>3 DEF Frame, IInv, TypeOK
  <2>4. req' = [req EXCEPT ![p] = X]
    BY <1>3
  <2>. HIDE DEF X
  <2>. QED
    BY <1>3, <2>1, <2>2, <2>3, <2>4, RequestStep DEF Frame
<1>4. ASSUME NEW r \in Rems, NEW d \in Decisions, NEW role \in RouteRoles,
             DecideRequest(p, r, d, role)
      PROVE  IInv'
  BY <1>4, <1>3 DEF DecideRequest, Frame
<1>5. ASSUME NEW r \in Rems, ExecuteRequest(p, r) \/ VerifyRequest(p, r)
      PROVE  IInv'
  BY <1>5, <1>3 DEF ExecuteRequest, VerifyRequest, Frame
<1>. QED
  BY <1>1, <1>2, <1>4, <1>5 DEF Arrive

\* A read, or a computation, between two transactions.
LEMMA ReadStep ==
  ASSUME IInv, NEW p \in Procs,
         \/ HistorySnapshot(p) \/ DecideGet(p) \/ ExecuteGet(p) \/ VerifyGet(p)
         \/ \E verdict \in {"RECOVERED", "RECOVERY_FAILED"} : Observe(p, verdict)
  PROVE  IInv'
<1>. USE DEF IInv
<1>0. Typed(req[p]) /\ Sound(req[p]) /\ req[p] \in Requests
  BY DEF RequestsTyped, RequestsSound, Typed
<1>f. ASSUME Frame PROVE now' \in Nat /\ topic' \in [Rems -> Seq(Nat)]
  BY <1>f DEF Frame, TypeOK
<1>own. ASSUME NEW X, X.rem = req[p].rem,
               X.pc \in Minting => req[p].pc \in Minting,
               X.pc \notin Executing,
               X.pc \in Verifying => req[p].pc \in Verifying
        PROVE  \A q \in Procs \ {p} : Apart(X, req[q]) /\ Apart(req[q], X)
  BY <1>own DEF Ownership, Apart
<1>1. CASE HistorySnapshot(p)
  <2>. DEFINE mine  == {q \in Rems : SameKey(proposal[q], req[p].rec)}
              times == {approval[q].at : q \in {q \in mine : status[q] \in CooldownAnchors}}
              seen  == [active |-> \E q \in mine : status[q] \in ActiveSql,
                        lastCompleted |-> {t \in times : \A u \in times : u <= t}]
              X     == Further(req[p], "snapshotted", seen, Nothing, 1, 0, 0)
  <2>1. /\ req' = [req EXCEPT ![p] = X]
        /\ Frame
        /\ req[p].pc = "mapped"
    BY <1>1 DEF HistorySnapshot, Frame, At
  <2>2. times \subseteq Nat
    BY DEF TypeOK, Approvals, NoApproval
  <2>3. seen \in [active : BOOLEAN, lastCompleted : SUBSET Nat]
    <3>. HIDE DEF mine, times
    <3>. QED BY <2>2
  <2>. HIDE DEF seen
  <2>4. Typed(X) /\ Sound(X) /\ X.rem = req[p].rem /\ X.pc = "snapshotted"
    BY <1>0, <2>1, <2>3 DEF Further, Typed, Sound, Requests, Replies, PCs,
                            Minting, Executing, Verifying
  <2>. HIDE DEF X
  <2>5. \A q \in Procs \ {p} : Apart(X, req[q]) /\ Apart(req[q], X)
    BY <1>own, <2>1, <2>4 DEF Minting, Executing, Verifying
  <2>. QED
    BY <1>f, <2>1, <2>4, <2>5, RequestStep DEF Frame
<1>goto. ASSUME NEW pc \in {"deciding", "claiming", "checking"},
                req[p].pc \in {"decide", "execute", "verify"},
                pc = "deciding" => req[p].pc = "decide",
                pc = "deciding" => Sound(Goto(req[p], "deciding")),
                req' = [req EXCEPT ![p] = Goto(req[p], pc)], Frame
         PROVE  IInv'
  <2>. DEFINE X == Goto(req[p], pc)
  <2>1. Typed(X) /\ X.rem = req[p].rem /\ X.pc = pc
    BY <1>0, <1>goto DEF Goto, Further, Typed, Requests, Replies, PCs, Minting
  <2>2. Sound(X)
    BY <1>goto DEF Goto, Further, Sound, Minting, Executing, Verifying
  <2>3. req' = [req EXCEPT ![p] = X]
    BY <1>goto
  <2>. HIDE DEF X
  <2>4. \A q \in Procs \ {p} : Apart(X, req[q]) /\ Apart(req[q], X)
    BY <1>own, <1>goto, <2>1 DEF Minting, Executing, Verifying
  <2>. QED
    BY <1>f, <1>goto, <2>1, <2>2, <2>3, <2>4, RequestStep DEF Frame
<1>2. CASE DecideGet(p)
  <2>. DEFINE q == req[p]
              error == DecideError(q.rem, q.decision, q.role, q.ts)
  <2>1. Frame /\ q.pc = "decide" /\ q.rem \in Rems
    BY <1>0, <1>2 DEF DecideGet, Frame, At, Typed
  <2>2. CASE error # 0
    <3>1. error \in Replies /\ Reply(p, error)
      BY <1>2, <2>2 DEF DecideGet, DecideError, Replies
    <3>. HIDE DEF error
    <3>. QED
      BY <2>1, <3>1, ReplyStep
  <2>3. CASE error = 0
    <3>1. req' = [req EXCEPT ![p] = Goto(req[p], "deciding")]
      BY <1>2, <2>3 DEF DecideGet
    <3>2. proposal[q.rem].expires \in Nat /\ q.ts \in Nat
      BY <1>0, <2>1 DEF TypeOK, Proposals, NoProposal, Requests
    <3>3. /\ status[q.rem] = "PENDING_APPROVAL"
          /\ ~ (q.ts >= proposal[q.rem].expires)
          /\ q.decision = "APPROVE" => CanApprove(q.role, proposal[q.rem].action)
      BY <2>3 DEF DecideError
    <3>4. Sound(Goto(req[p], "deciding"))
      BY <3>2, <3>3 DEF Sound, Goto, Further, Absent, Minting, Executing, Verifying
    <3>. QED
      BY <1>goto, <2>1, <3>1, <3>4
  <2>. QED
    BY <2>2, <2>3
<1>3. CASE ExecuteGet(p)
  <2>. DEFINE error == ExecuteError(req[p].rem, req[p].ts)
  <2>1. Frame /\ req[p].pc = "execute"
    BY <1>3 DEF ExecuteGet, Frame, At
  <2>2. CASE error # 0
    <3>1. error \in Replies /\ Reply(p, error)
      BY <1>3, <2>2 DEF ExecuteGet, ExecuteError, Replies
    <3>. HIDE DEF error
    <3>. QED
      BY <2>1, <3>1, ReplyStep
  <2>3. CASE error = 0
    BY <1>goto, <1>3, <2>1, <2>3 DEF ExecuteGet
  <2>. QED
    BY <2>2, <2>3
<1>4. CASE VerifyGet(p)
  <2>. DEFINE answer == VerifyAnswer(req[p].rem)
  <2>1. Frame /\ req[p].pc = "verify"
    BY <1>4 DEF VerifyGet, Frame, At
  <2>2. CASE answer # 0
    <3>1. answer \in Replies /\ Reply(p, answer)
      BY <1>4, <2>2 DEF VerifyGet, VerifyAnswer, Replies
    <3>. HIDE DEF answer
    <3>. QED
      BY <2>1, <3>1, ReplyStep
  <2>3. CASE answer = 0
    BY <1>goto, <1>4, <2>1, <2>3 DEF VerifyGet
  <2>. QED
    BY <2>2, <2>3
<1>5. ASSUME NEW verdict \in {"RECOVERED", "RECOVERY_FAILED"}, Observe(p, verdict)
      PROVE  IInv'
  <2>. DEFINE X == Further(req[p], "concluding", NoHistory, verdict, 1, 0, 0)
  <2>1. req' = [req EXCEPT ![p] = X] /\ Frame /\ req[p].pc = "observing"
    BY <1>5 DEF Observe, Frame, At
  <2>2. Typed(X) /\ Sound(X) /\ X.rem = req[p].rem /\ X.pc = "concluding"
    BY <1>0, <2>1 DEF Further, Typed, Sound, Requests, Replies, PCs, NoHistory,
                      Minting, Executing, Verifying
  <2>. HIDE DEF X
  <2>3. \A q \in Procs \ {p} : Apart(X, req[q]) /\ Apart(req[q], X)
    BY <1>own, <2>1, <2>2 DEF Minting, Executing, Verifying
  <2>. QED
    BY <1>f, <2>1, <2>2, <2>3, RequestStep DEF Frame
<1>. QED
  BY <1>1, <1>2, <1>3, <1>4, <1>5

\* Requests that are turned down, or that only looked.
LEMMA RefusalStep ==
  ASSUME IInv, NEW p \in Procs,
         \/ DecisionRaceLost(p)
         \/ \E result \in {"SUCCEEDED", "FAILED"} : DryRun(p, result)
         \/ ExecutionConflict(p) \/ VerificationConflict(p)
  PROVE  IInv'
  BY ReplyStep
  DEF DecisionRaceLost, DryRun, ExecutionConflict, VerificationConflict, Frame, Replies

\* One turn of the publication loop.
LEMMA PublishStep ==
  ASSUME IInv, NEW p \in Procs, NEW sent \in BOOLEAN, Publish(p, sent)
  PROVE  IInv'
<1>. DEFINE r == req[p].rem
            i == req[p].next
            X == Published(req[p], i + 1)
<1>1. Typed(req[p]) /\ Sound(req[p]) /\ r \in Rems /\ i \in Nat
  BY DEF IInv, RequestsTyped, RequestsSound, Typed, Publish, Requests
<1>2. Typed(X) /\ Sound(X) /\ X.pc = req[p].pc /\ X.rem = req[p].rem
  BY <1>1 DEF Published, Further, Typed, Sound, Requests, Publish
<1>3. req' = [req EXCEPT ![p] = X]
  BY DEF Publish, IInv, TypeOK
<1>4. topic' \in [Rems -> Seq(Nat)] /\ now' \in Nat
  BY <1>1 DEF Publish, IInv, TypeOK
<1>. HIDE DEF X
<1>5. \A q \in Procs \ {p} : Apart(X, req[q]) /\ Apart(req[q], X)
  BY <1>2 DEF IInv, Ownership, Apart
<1>. QED
  BY <1>2, <1>3, <1>4, <1>5, RequestStep DEF Publish

\* The clock.
LEMMA TickStep == IInv /\ Tick => IInv'
  BY DEF IInv, TypeOK, RequestsTyped, RowsConsistent, RequestsSound, Ownership,
         Tick, rowVars, RowConsistent, Sound

-----------------------------------------------------------------------------
(* Steps that commit a transaction, or run the executor: they change one   *)
(* row and the request that takes them.                                    *)

ColumnsTyped ==
    /\ now \in Nat
    /\ status \in [Rems -> Statuses \cup {Absent}]
    /\ proposal \in [Rems -> Proposals \cup {NoProposal}]
    /\ policy \in [Rems -> {"ALLOW", "DENY", Nothing}]
    /\ approval \in [Rems -> Approvals \cup {NoApproval}]
    /\ execution \in [Rems -> {"STARTED", "SUCCEEDED", "FAILED", Nothing}]
    /\ verification \in [Rems -> {"STARTED", "RECOVERED", "RECOVERY_FAILED", Nothing}]
    /\ audit \in [Rems -> Seq(AuditEvents)]
    /\ applied \in [Rems -> Nat]
    /\ topic \in [Rems -> Seq(Nat)]

SameRow(s) ==
    /\ status'[s] = status[s] /\ proposal'[s] = proposal[s]
    /\ policy'[s] = policy[s] /\ approval'[s] = approval[s]
    /\ execution'[s] = execution[s] /\ applied'[s] = applied[s]

\* A request may change the one row it works on if the row stays consistent
\* and no other request on that row relied on what changed.
LEMMA RowStep ==
  ASSUME IInv, NEW p \in Procs, NEW r \in Rems, NEW X,
         req' = [req EXCEPT ![p] = X],
         ColumnsTyped',
         \A s \in Rems \ {r} : SameRow(s),
         RowConsistent(r)',
         Typed(X), X.rem = r, Sound(X)',
         \A q \in Procs \ {p} : req[q].rem = r => Sound(req[q])',
         \A q \in Procs \ {p} : Apart(X, req[q]) /\ Apart(req[q], X)
  PROVE  IInv'
<1>1. /\ req'[p] = X
      /\ \A q \in Procs \ {p} : req'[q] = req[q]
  BY DEF IInv, TypeOK
<1>2. TypeOK'
  BY DEF IInv, TypeOK, ColumnsTyped, Typed
<1>3. RequestsTyped'
  BY <1>1 DEF IInv, RequestsTyped, Typed
<1>4. RowsConsistent'
  <2>1. ASSUME NEW s \in Rems \ {r} PROVE RowConsistent(s)'
    BY <2>1 DEF IInv, RowsConsistent, RowConsistent, SameRow
  <2>. QED
    BY <2>1 DEF RowsConsistent
<1>5. ASSUME NEW q \in Procs \ {p}, req[q].rem # r
      PROVE  Sound(req[q])'
  <2>1. Sound(req[q]) /\ Typed(req[q]) /\ req'[q] = req[q]
    BY <1>1, <1>5 DEF IInv, RequestsSound, RequestsTyped
  <2>2. CASE req[q].rem \in Rems
    BY <1>5, <2>1, <2>2 DEF Sound, SameRow
  <2>3. CASE req[q].rem \notin Rems
    BY <2>1, <2>3 DEF Sound, Typed, Minting, Executing, Verifying
  <2>. QED
    BY <2>2, <2>3
<1>6. RequestsSound'
  BY <1>1, <1>5 DEF RequestsSound
<1>7. Ownership'
  BY <1>1 DEF IInv, Ownership
<1>. QED
  BY <1>2, <1>3, <1>4, <1>6, <1>7 DEF IInv

Committed(p, r, pc) ==
    /\ audit' \in [Rems -> Seq(AuditEvents)]
    /\ \E X : /\ req' = [req EXCEPT ![p] = X]
              /\ Typed(X) /\ X.pc = pc /\ X.rem = r

\* What a commit does to the trail and to the request.
LEMMA CommitFacts ==
  ASSUME IInv, NEW p \in Procs, NEW r \in Rems, r = req[p].rem,
         NEW events \in Seq(AuditEvents), NEW code \in Replies,
         NEW pc \in {"claimed", "observing", "done"},
         CommitWithAudit(p, r, events, pc, code)
  PROVE  Committed(p, r, pc)
<1>1. Typed(req[p]) /\ audit[r] \in Seq(AuditEvents) /\ Len(audit[r]) \in Nat
      /\ Len(events) \in Nat
  BY DEF IInv, RequestsTyped, TypeOK
<1>2. audit' \in [Rems -> Seq(AuditEvents)]
  <2>1. audit[r] \o events \in Seq(AuditEvents)
    BY <1>1
  <2>. QED
    BY <2>1 DEF CommitWithAudit, IInv, TypeOK
<1>. DEFINE next == IF KafkaEnabled THEN Len(audit[r]) + 1 ELSE 1
            upto == IF KafkaEnabled THEN Len(audit[r]) + Len(events) ELSE 0
            X == Further(req[p], pc, NoHistory, Nothing, next, upto, code)
<1>3. next \in Nat /\ upto \in Nat
  BY <1>1, RemediationAssumption
<1>4. req' = [req EXCEPT ![p] = X]
  BY DEF CommitWithAudit
<1>. HIDE DEF next, upto
<1>5. Typed(X) /\ X.pc = pc /\ X.rem = r
  BY <1>1, <1>3 DEF Further, Typed, Requests, PCs, NoHistory, Minting
<1>. HIDE DEF X
<1>. QED
  BY <1>2, <1>4, <1>5 DEF Committed

\* create: the row of a fresh id.
LEMMA CreateStep ==
  ASSUME IInv, NEW p \in Procs, Create(p)
  PROVE  IInv'
<1>. PICK r : r = req[p].rem
  OBVIOUS
<1>. DEFINE rec     == req[p].rec
            expires == req[p].ts + TTL
            outcome == PolicyOutcome(rec, req[p].seen, req[p].ts, expires, req[p].ts)
            final   == IF outcome = "ALLOW" THEN "PENDING_APPROVAL" ELSE "BLOCKED"
            created == <<Event("PROPOSAL_CREATED", Nothing, "PROPOSED"),
                         Event("POLICY_EVALUATED", "POLICY_EVALUATION", final)>>
            blocked == <<Event("REMEDIATION_BLOCKED", "POLICY_EVALUATION", "BLOCKED")>>
            events  == IF outcome = "ALLOW" THEN created ELSE created \o blocked
            row     == [incident |-> rec.incident, action |-> rec.action,
                        service |-> rec.service, environment |-> rec.environment,
                        created |-> req[p].ts, expires |-> expires]
<1>1. /\ req[p].pc = "snapshotted"
      /\ status' = [status EXCEPT ![r] = final]
      /\ policy' = [policy EXCEPT ![r] = outcome]
      /\ proposal' = [proposal EXCEPT ![r] = row]
      /\ CommitWithAudit(p, r, events, "done", 201)
      /\ UNCHANGED <<now, approval, execution, verification, applied, topic>>
  BY DEF Create, At
<1>2. /\ Typed(req[p]) /\ req[p] \in Requests /\ r \in Rems
      /\ rec \in Recommendations /\ IsMappable(rec) /\ status[r] = Absent
  BY <1>1 DEF IInv, RequestsTyped, RequestsSound, Typed, Sound, Minting
<1>3. row \in Proposals
  <2>1. req[p].ts \in Nat /\ expires \in Nat
    BY <1>2, RemediationAssumption DEF Requests
  <2>2. /\ rec.incident \in Incidents /\ rec.action \in ActionTypes
        /\ rec.service \in AllowedTargetServices
        /\ rec.environment \in TargetEnvironments
    BY <1>2 DEF Incidents, IsMappable, RcaActionMap, ActionTypes
  <2>. HIDE DEF rec, expires
  <2>. QED
    BY <2>1, <2>2 DEF Proposals
<1>4. outcome \in {"ALLOW", "DENY"} /\ (outcome = "ALLOW" <=> final = "PENDING_APPROVAL")
      /\ final \in {"PENDING_APPROVAL", "BLOCKED"}
  BY DEF PolicyOutcome
<1>. HIDE DEF outcome, final, row
<1>5. events \in Seq(AuditEvents)
  <2>1. /\ Event("PROPOSAL_CREATED", Nothing, "PROPOSED") \in AuditEvents
        /\ Event("POLICY_EVALUATED", "POLICY_EVALUATION", final) \in AuditEvents
        /\ Event("REMEDIATION_BLOCKED", "POLICY_EVALUATION", "BLOCKED") \in AuditEvents
    BY <1>4 DEF AuditEvents, Event, AuditTypes, Statuses, Nothing
  <2>2. created \in Seq(AuditEvents) /\ blocked \in Seq(AuditEvents)
    BY <2>1
  <2>. HIDE DEF created, blocked
  <2>. QED
    BY <2>2
<1>. HIDE DEF events
<1>c. Committed(p, r, "done")
  BY <1>1, <1>2, <1>5, CommitFacts DEF Replies
<1>6. PICK X : /\ req' = [req EXCEPT ![p] = X]
               /\ Typed(X) /\ X.pc = "done" /\ X.rem = r
  BY <1>c DEF Committed
<1>7. ColumnsTyped'
  <2>1. audit' \in [Rems -> Seq(AuditEvents)]
    BY <1>c DEF Committed
  <2>. QED
    BY <1>1, <1>2, <1>3, <1>4, <2>1 DEF IInv, TypeOK, ColumnsTyped, Statuses
<1>8. \A s \in Rems \ {r} : SameRow(s)
  BY <1>1 DEF IInv, TypeOK, SameRow
<1>9. RowConsistent(r)'
  <2>1. /\ status'[r] = final /\ policy'[r] = outcome /\ proposal'[r] = row
        /\ approval'[r] = approval[r] /\ applied'[r] = applied[r]
    BY <1>1, <1>2 DEF IInv, TypeOK
  <2>2. approval[r] = NoApproval /\ applied[r] = 0
    BY <1>2 DEF IInv, RowsConsistent, RowConsistent, Absent
  <2>. QED
    BY <1>3, <1>4, <2>1, <2>2 DEF RowConsistent, Absent, ApprovedStatuses
<1>10. Sound(X)'
  BY <1>6 DEF Sound, Minting, Executing, Verifying
<1>11. ASSUME NEW q \in Procs \ {p}, req[q].rem = r PROVE Sound(req[q])'
  <2>1. req'[q] = req[q] /\ Sound(req[q]) /\ Apart(req[p], req[q])
    BY <1>6, <1>11 DEF IInv, TypeOK, RequestsSound, Ownership
  <2>2. req[q].pc \notin Minting \cup Executing \cup Verifying \cup {"deciding"}
    BY <1>1, <1>2, <1>11, <2>1 DEF Sound, Apart, Minting, Absent
  <2>. QED
    BY <2>1, <2>2 DEF Sound, Executing
<1>12. \A q \in Procs \ {p} : Apart(X, req[q]) /\ Apart(req[q], X)
  BY <1>6 DEF Apart, Minting, Executing, Verifying
<1>. QED
  BY <1>2, <1>6, <1>7, <1>8, <1>9, <1>10, <1>11, <1>12, RowStep

\* An existing row moves on: nobody else is executing or verifying it, and a
\* decision that is being made elsewhere still finds what it needs.
LEMMA ProgressStep ==
  ASSUME IInv, NEW p \in Procs, NEW r \in Rems, r = req[p].rem, NEW X,
         req' = [req EXCEPT ![p] = X],
         Typed(X), X.rem = r, X.pc \notin Minting, Sound(X)',
         ColumnsTyped',
         \A s \in Rems \ {r} : SameRow(s),
         RowConsistent(r)',
         proposal'[r] = proposal[r],
         status[r] \notin {Absent, "BLOCKED"}, status'[r] \notin {Absent, "BLOCKED"},
         status[r] = "EXECUTING" => req[p].pc \in Executing,
         status[r] = "VERIFYING" => req[p].pc \in Verifying
  PROVE  IInv'
<1>1. ASSUME NEW q \in Procs \ {p}, req[q].rem = r
      PROVE  req[q].pc \notin Minting \cup Executing \cup Verifying
  <2>1. Sound(req[q]) /\ Apart(req[p], req[q])
    BY <1>1 DEF IInv, RequestsSound, Ownership
  <2>. QED
    BY <1>1, <2>1 DEF Sound, Apart
<1>2. ASSUME NEW q \in Procs \ {p}, req[q].rem = r
      PROVE  Sound(req[q])'
  <2>1. req'[q] = req[q] /\ Sound(req[q])
    BY <1>2 DEF IInv, TypeOK, RequestsSound
  <2>. QED
    BY <1>1, <1>2, <2>1 DEF Sound, Executing
<1>3. \A q \in Procs \ {p} : Apart(X, req[q]) /\ Apart(req[q], X)
  BY <1>1 DEF Apart
<1>. QED
  BY <1>2, <1>3, RowStep

\* record_decision: the first decision, taken by a role that may take it.
LEMMA RecordDecisionStep ==
  ASSUME IInv, NEW p \in Procs, RecordDecision(p)
  PROVE  IInv'
<1>. PICK r : r = req[p].rem
  OBVIOUS
<1>. DEFINE q == req[p]
            final == IF q.decision = "APPROVE" THEN "APPROVED" ELSE "REJECTED"
            decided == [decision |-> q.decision, role |-> q.role, at |-> q.ts]
            events == <<Event(final, "PENDING_APPROVAL", final)>>
<1>1. /\ q.pc = "deciding" /\ approval[r] = NoApproval
      /\ status' = [status EXCEPT ![r] = final]
      /\ approval' = [approval EXCEPT ![r] = decided]
      /\ CommitWithAudit(p, r, events, "done", 200)
      /\ UNCHANGED <<now, proposal, policy, execution, verification, applied, topic>>
  BY DEF RecordDecision, At, StillUndecided
<1>2. /\ r \in Rems /\ q.decision \in Decisions /\ q.role \in RouteRoles
      /\ q.ts \in Nat /\ Sound(q) /\ RowConsistent(r)
  BY <1>1 DEF IInv, RequestsTyped, RequestsSound, RowsConsistent, Typed, Requests
<1>3. status[r] = "PENDING_APPROVAL" /\ policy[r] = "ALLOW" /\ applied[r] = 0
      /\ proposal[r] \in Proposals
  BY <1>1, <1>2 DEF Sound, RowConsistent, NoApproval, Nothing, Absent
<1>4. events \in Seq(AuditEvents) /\ final \in {"APPROVED", "REJECTED"}
      /\ decided \in Approvals
  BY <1>2 DEF AuditEvents, Event, AuditTypes, Statuses, Approvals
<1>. HIDE DEF events
<1>0. 200 \in Replies
  BY DEF Replies
<1>c. Committed(p, r, "done")
  BY <1>1, <1>2, <1>4, <1>0, CommitFacts
<1>5. PICK X : /\ req' = [req EXCEPT ![p] = X]
               /\ Typed(X) /\ X.pc = "done" /\ X.rem = r
  BY <1>c DEF Committed
<1>6. ColumnsTyped'
  <2>1. audit' \in [Rems -> Seq(AuditEvents)]
    BY <1>c DEF Committed
  <2>. HIDE DEF decided, final
  <2>. QED
    BY <1>1, <1>2, <1>4, <2>1 DEF IInv, TypeOK, ColumnsTyped, Statuses
<1>7. \A s \in Rems \ {r} : SameRow(s)
  BY <1>1 DEF IInv, TypeOK, SameRow
<1>8. RowConsistent(r)'
  <2>1. /\ status'[r] = final /\ approval'[r] = decided /\ policy'[r] = policy[r]
        /\ proposal'[r] = proposal[r] /\ applied'[r] = applied[r]
    BY <1>1, <1>2 DEF IInv, TypeOK
  <2>2. /\ q.ts < proposal[r].expires
        /\ q.decision = "APPROVE" => CanApprove(q.role, proposal[r].action)
    BY <1>1, <1>2 DEF Sound
  <2>. QED
    BY <1>2, <1>3, <2>1, <2>2 DEF RowConsistent, Absent, ApprovedStatuses, Decisions
<1>9. Sound(X)' /\ X.pc \notin Minting
  BY <1>5 DEF Sound, Minting, Executing, Verifying
<1>10. proposal'[r] = proposal[r] /\ status'[r] = final
  BY <1>1, <1>2 DEF IInv, TypeOK
<1>. QED
  BY <1>2, <1>3, <1>5, <1>6, <1>7, <1>8, <1>9, <1>10, ProgressStep DEF Absent

\* begin_execution: the claim.
LEMMA BeginExecutionStep ==
  ASSUME IInv, NEW p \in Procs, BeginExecution(p)
  PROVE  IInv'
<1>. PICK r : r = req[p].rem
  OBVIOUS
<1>. DEFINE events == <<Event("EXECUTION_REQUESTED", "APPROVED", "APPROVED"),
                        Event("EXECUTION_STARTED", "APPROVED", "EXECUTING")>>
<1>1. /\ req[p].pc = "claiming" /\ status[r] = "APPROVED"
      /\ status' = [status EXCEPT ![r] = "EXECUTING"]
      /\ execution' = [execution EXCEPT ![r] = "STARTED"]
      /\ CommitWithAudit(p, r, events, "claimed", 0)
      /\ UNCHANGED <<now, proposal, policy, approval, verification, applied, topic>>
  BY DEF BeginExecution, At, Claimable
<1>2. r \in Rems /\ RowConsistent(r)
  BY <1>1 DEF IInv, RequestsTyped, RowsConsistent, Typed
<1>3. events \in Seq(AuditEvents)
  BY DEF AuditEvents, Event, AuditTypes, Statuses
<1>. HIDE DEF events
<1>0. 0 \in Replies
  BY DEF Replies
<1>c. Committed(p, r, "claimed")
  BY <1>1, <1>2, <1>3, <1>0, CommitFacts
<1>4. PICK X : /\ req' = [req EXCEPT ![p] = X]
               /\ Typed(X) /\ X.pc = "claimed" /\ X.rem = r
  BY <1>c DEF Committed
<1>5. ColumnsTyped'
  <2>1. audit' \in [Rems -> Seq(AuditEvents)]
    BY <1>c DEF Committed
  <2>. QED
    BY <1>1, <1>2, <2>1 DEF IInv, TypeOK, ColumnsTyped, Statuses
<1>6. \A s \in Rems \ {r} : SameRow(s)
  BY <1>1 DEF IInv, TypeOK, SameRow
<1>7. /\ status'[r] = "EXECUTING" /\ approval'[r] = approval[r] /\ policy'[r] = policy[r]
      /\ proposal'[r] = proposal[r] /\ applied'[r] = applied[r] /\ applied[r] = 0
  BY <1>1, <1>2 DEF IInv, TypeOK, RowConsistent
<1>8. RowConsistent(r)'
  BY <1>1, <1>2, <1>7 DEF RowConsistent, Absent, ApprovedStatuses
<1>9. Sound(X)' /\ X.pc \notin Minting
  BY <1>4, <1>7 DEF Sound, Minting, Executing, Verifying
<1>. QED
  BY <1>1, <1>2, <1>4, <1>5, <1>6, <1>7, <1>8, <1>9, ProgressStep DEF Absent

\* executor.execute: the one effect of the one claim.
LEMMA RunExecutorStep ==
  ASSUME IInv, NEW p \in Procs, NEW result \in {"SUCCEEDED", "FAILED"},
         RunExecutor(p, result)
  PROVE  IInv'
<1>. PICK r : r = req[p].rem
  OBVIOUS
<1>. PICK X : X = Further(req[p], "finishing", NoHistory, result, 1, 0, 0)
  OBVIOUS
<1>1. /\ req[p].pc = "claimed"
      /\ applied' = [applied EXCEPT ![r] = IF result = "SUCCEEDED" THEN @ + 1 ELSE @]
      /\ req' = [req EXCEPT ![p] = X]
      /\ UNCHANGED <<now, rowVars, audit, topic>>
  BY DEF RunExecutor, At
<1>2. /\ r \in Rems /\ RowConsistent(r) /\ Typed(req[p])
      /\ status[r] = "EXECUTING" /\ applied[r] = 0
  BY <1>1 DEF IInv, RequestsTyped, RequestsSound, RowsConsistent, Typed, Sound, Executing
<1>3. Typed(X) /\ X.rem = r /\ X.pc = "finishing" /\ X.result = result
  BY <1>1, <1>2 DEF Further, Typed, Requests, Replies, PCs, NoHistory, Minting
<1>4. ColumnsTyped'
  BY <1>1, <1>2 DEF IInv, TypeOK, ColumnsTyped, rowVars
<1>5. \A s \in Rems \ {r} : SameRow(s)
  BY <1>1 DEF IInv, TypeOK, SameRow, rowVars
<1>6. /\ status'[r] = status[r] /\ proposal'[r] = proposal[r]
      /\ approval'[r] = approval[r] /\ policy'[r] = policy[r]
      /\ applied'[r] = IF result = "SUCCEEDED" THEN 1 ELSE 0
  BY <1>1, <1>2 DEF IInv, TypeOK, rowVars
<1>7. RowConsistent(r)'
  BY <1>2, <1>6 DEF RowConsistent, Absent, ApprovedStatuses
<1>8. Sound(X)' /\ X.pc \notin Minting
  BY <1>2, <1>3, <1>6 DEF Sound, Minting, Executing, Verifying
<1>. QED
  BY <1>1, <1>2, <1>3, <1>4, <1>5, <1>6, <1>7, <1>8, ProgressStep DEF Absent, Executing

\* finish_execution: the row tells what the executor did.
LEMMA FinishExecutionStep ==
  ASSUME IInv, NEW p \in Procs, FinishExecution(p)
  PROVE  IInv'
<1>. PICK r : r = req[p].rem
  OBVIOUS
<1>. DEFINE result == req[p].result
            final  == IF result = "SUCCEEDED" THEN "EXECUTED" ELSE "EXECUTION_FAILED"
            type   == IF result = "SUCCEEDED" THEN "EXECUTION_SUCCEEDED"
                                              ELSE "EXECUTION_FAILED"
            events == <<Event(type, "EXECUTING", final)>>
<1>0. 200 \in Replies
  BY DEF Replies
<1>1. /\ req[p].pc = "finishing" /\ status[r] = "EXECUTING"
      /\ status' = [status EXCEPT ![r] = final]
      /\ execution' = [execution EXCEPT ![r] = result]
      /\ CommitWithAudit(p, r, events, "done", 200)
      /\ UNCHANGED <<now, proposal, policy, approval, verification, applied, topic>>
  BY DEF FinishExecution, At
<1>2. /\ r \in Rems /\ RowConsistent(r) /\ result \in {"SUCCEEDED", "FAILED"}
      /\ applied[r] = IF result = "SUCCEEDED" THEN 1 ELSE 0
  BY <1>1 DEF IInv, RequestsTyped, RequestsSound, RowsConsistent, Typed, Sound
<1>3. events \in Seq(AuditEvents)
  BY DEF AuditEvents, Event, AuditTypes, Statuses
<1>4. /\ status'[r] = final /\ proposal'[r] = proposal[r] /\ execution'[r] = result
      /\ approval'[r] = approval[r] /\ policy'[r] = policy[r] /\ applied'[r] = applied[r]
  BY <1>1, <1>2 DEF IInv, TypeOK
<1>5. RowConsistent(r)' /\ final \in {"EXECUTED", "EXECUTION_FAILED"}
  BY <1>1, <1>2, <1>4 DEF RowConsistent, Absent, ApprovedStatuses
<1>. HIDE DEF events, final, result
<1>c. Committed(p, r, "done")
  BY <1>0, <1>1, <1>2, <1>3, CommitFacts
<1>6. PICK X : /\ req' = [req EXCEPT ![p] = X]
               /\ Typed(X) /\ X.pc = "done" /\ X.rem = r
  BY <1>c DEF Committed
<1>7. ColumnsTyped'
  <2>1. audit' \in [Rems -> Seq(AuditEvents)]
    BY <1>c DEF Committed
  <2>. QED
    BY <1>1, <1>2, <1>5, <2>1 DEF IInv, TypeOK, ColumnsTyped, Statuses
<1>8. \A s \in Rems \ {r} : SameRow(s)
  BY <1>1 DEF IInv, TypeOK, SameRow
<1>9. Sound(X)' /\ X.pc \notin Minting
  BY <1>6 DEF Sound, Minting, Executing, Verifying
<1>. QED
  BY <1>1, <1>2, <1>4, <1>5, <1>6, <1>7, <1>8, <1>9, ProgressStep DEF Absent, Executing

\* begin_verification: only what was executed is verified.
LEMMA BeginVerificationStep ==
  ASSUME IInv, NEW p \in Procs, BeginVerification(p)
  PROVE  IInv'
<1>. PICK r : r = req[p].rem
  OBVIOUS
<1>. DEFINE events == <<Event("VERIFICATION_STARTED", "EXECUTED", "VERIFYING")>>
<1>0. 0 \in Replies
  BY DEF Replies
<1>1. /\ req[p].pc = "checking" /\ status[r] = "EXECUTED"
      /\ status' = [status EXCEPT ![r] = "VERIFYING"]
      /\ verification' = [verification EXCEPT ![r] = "STARTED"]
      /\ CommitWithAudit(p, r, events, "observing", 0)
      /\ UNCHANGED <<now, proposal, policy, approval, execution, applied, topic>>
  BY DEF BeginVerification, At, Verifiable
<1>2. r \in Rems /\ RowConsistent(r)
  BY <1>1 DEF IInv, RequestsTyped, RowsConsistent, Typed
<1>3. events \in Seq(AuditEvents)
  BY DEF AuditEvents, Event, AuditTypes, Statuses
<1>. HIDE DEF events
<1>c. Committed(p, r, "observing")
  BY <1>0, <1>1, <1>2, <1>3, CommitFacts
<1>4. PICK X : /\ req' = [req EXCEPT ![p] = X]
               /\ Typed(X) /\ X.pc = "observing" /\ X.rem = r
  BY <1>c DEF Committed
<1>5. ColumnsTyped'
  <2>1. audit' \in [Rems -> Seq(AuditEvents)]
    BY <1>c DEF Committed
  <2>. QED
    BY <1>1, <1>2, <2>1 DEF IInv, TypeOK, ColumnsTyped, Statuses
<1>6. \A s \in Rems \ {r} : SameRow(s)
  BY <1>1 DEF IInv, TypeOK, SameRow
<1>7. /\ status'[r] = "VERIFYING" /\ proposal'[r] = proposal[r]
      /\ execution'[r] = execution[r] /\ approval'[r] = approval[r]
      /\ policy'[r] = policy[r] /\ applied'[r] = applied[r]
  BY <1>1, <1>2 DEF IInv, TypeOK
<1>8. RowConsistent(r)'
  BY <1>1, <1>2, <1>7 DEF RowConsistent, Absent, ApprovedStatuses
<1>9. Sound(X)' /\ X.pc \notin Minting
  BY <1>4, <1>7 DEF Sound, Minting, Executing, Verifying
<1>. QED
  BY <1>1, <1>2, <1>4, <1>5, <1>6, <1>7, <1>8, <1>9, ProgressStep DEF Absent

\* finish_verification: the verdict.
LEMMA FinishVerificationStep ==
  ASSUME IInv, NEW p \in Procs, FinishVerification(p)
  PROVE  IInv'
<1>. PICK r : r = req[p].rem
  OBVIOUS
<1>. DEFINE final  == req[p].result
            type   == IF final = "RECOVERED" THEN "VERIFICATION_SUCCEEDED"
                                             ELSE "VERIFICATION_FAILED"
            events == <<Event(type, "VERIFYING", final)>>
<1>0. 200 \in Replies
  BY DEF Replies
<1>1. /\ req[p].pc = "concluding" /\ status[r] = "VERIFYING"
      /\ status' = [status EXCEPT ![r] = final]
      /\ verification' = [verification EXCEPT ![r] = final]
      /\ CommitWithAudit(p, r, events, "done", 200)
      /\ UNCHANGED <<now, proposal, policy, approval, execution, applied, topic>>
  BY DEF FinishVerification, At
<1>2. r \in Rems /\ RowConsistent(r) /\ final \in {"RECOVERED", "RECOVERY_FAILED"}
  BY <1>1 DEF IInv, RequestsTyped, RowsConsistent, Typed
<1>3. events \in Seq(AuditEvents)
  BY <1>2 DEF AuditEvents, Event, AuditTypes, Statuses
<1>. HIDE DEF events, final
<1>c. Committed(p, r, "done")
  BY <1>0, <1>1, <1>2, <1>3, CommitFacts
<1>4. PICK X : /\ req' = [req EXCEPT ![p] = X]
               /\ Typed(X) /\ X.pc = "done" /\ X.rem = r
  BY <1>c DEF Committed
<1>5. ColumnsTyped'
  <2>1. audit' \in [Rems -> Seq(AuditEvents)]
    BY <1>c DEF Committed
  <2>. QED
    BY <1>1, <1>2, <2>1 DEF IInv, TypeOK, ColumnsTyped, Statuses
<1>6. \A s \in Rems \ {r} : SameRow(s)
  BY <1>1 DEF IInv, TypeOK, SameRow
<1>7. /\ status'[r] = final /\ proposal'[r] = proposal[r]
      /\ execution'[r] = execution[r] /\ approval'[r] = approval[r]
      /\ policy'[r] = policy[r] /\ applied'[r] = applied[r]
  BY <1>1, <1>2 DEF IInv, TypeOK
<1>8. RowConsistent(r)'
  BY <1>1, <1>2, <1>7 DEF RowConsistent, Absent, ApprovedStatuses
<1>9. Sound(X)' /\ X.pc \notin Minting
  BY <1>4 DEF Sound, Minting, Executing, Verifying
<1>. QED
  BY <1>1, <1>2, <1>4, <1>5, <1>6, <1>7, <1>8, <1>9, ProgressStep DEF Absent, Verifying

-----------------------------------------------------------------------------
(* The theorems.                                                           *)

\* Every step of the controller preserves the invariant.
LEMMA NextIInv == IInv /\ [Next]_vars => IInv'
<1>. SUFFICES ASSUME IInv, [Next]_vars PROVE IInv'
  OBVIOUS
<1>1. CASE UNCHANGED vars
  BY <1>1 DEF vars, rowVars, IInv, TypeOK, RequestsTyped, RowsConsistent, RowConsistent,
              RequestsSound, Sound, Ownership
<1>2. CASE Tick
  BY <1>2, TickStep
<1>3. ASSUME NEW p \in Procs, Arrive(p) PROVE IInv'
  BY <1>3, ArriveStep
<1>4. ASSUME NEW p \in Procs, Abort(p) \/ Respond(p) PROVE IInv'
  BY <1>4, IdleStep DEF Abort, Respond, Frame
<1>5. ASSUME NEW p \in Procs, Advance(p) PROVE IInv'
  BY <1>4, <1>5, ReadStep, RefusalStep, PublishStep, CreateStep, RecordDecisionStep,
     BeginExecutionStep, RunExecutorStep, FinishExecutionStep, BeginVerificationStep,
     FinishVerificationStep
  DEF Advance
<1>. QED
  BY <1>1, <1>2, <1>3, <1>4, <1>5 DEF Next

\* The inductive invariant holds of the controller: with any number of
\* requests in flight, a claimed execution, a started verification and a
\* minted id belong to one request only.
THEOREM Inductive == Spec => []IInv
  BY InitIInv, NextIInv, PTL DEF Spec

\* Every column and every local variable keeps its type.
THEOREM TypeCorrectness == Spec => []TypeOK
<1>1. IInv => TypeOK
  BY DEF IInv
<1>. QED
  BY <1>1, Inductive, PTL

\* However requests interleave and wherever they die, the executor has its
\* effect at most once and only behind policy, role and expiry.
THEOREM Authorisation == Spec => []EffectAuthorised
<1>1. IInv => EffectAuthorised
  <2>. SUFFICES ASSUME RowsConsistent, NEW r \in Rems
                PROVE  /\ applied[r] <= 1
                       /\ applied[r] = 1 =>
                            /\ policy[r] = "ALLOW"
                            /\ approval[r].decision = "APPROVE"
                            /\ CanApprove(approval[r].role, proposal[r].action)
                            /\ approval[r].at < proposal[r].expires
    BY DEF IInv, EffectAuthorised
  <2>. QED
    BY DEF RowsConsistent, RowConsistent, ApprovedStatuses, Absent
<1>. QED
  BY <1>1, Inductive, PTL

\* However requests interleave and wherever they die, the recorded status
\* never misreports what the executor did.
THEOREM Truthfulness == Spec => []OutcomeTruthful
<1>1. IInv => OutcomeTruthful
  BY DEF IInv, RowsConsistent, RowConsistent, OutcomeTruthful
<1>. QED
  BY <1>1, Inductive, PTL

-----------------------------------------------------------------------------
(* The audit trail.                                                        *)

\* Events that lead from one status to another, each from where the one before
\* it ended.
Chained(events, from, to) ==
    /\ events \in Seq(AuditEvents) /\ events # <<>>
    /\ events[Len(events)].new = to
    /\ events[1].prev = from
    /\ \A i \in 2 .. Len(events) : events[i].prev = events[i - 1].new

\* The events of a creation, which ends in the given status.
Opening(events, to) ==
    /\ events \in Seq(AuditEvents)
    /\ Len(events) \in {2, 3}
    /\ events[Len(events)].new = to
    /\ Len(events) = 3 => events[3].type = "REMEDIATION_BLOCKED"

\* Request p has committed a transaction that takes row r to status final and
\* logs the given events, which it has yet to publish.
Transacts(p, r, events, final) ==
    /\ r = req[p].rem /\ r \in Rems
    /\ req[p].next > req[p].upto
    /\ final \in Statuses
    /\ status' = [status EXCEPT ![r] = final]
    /\ audit' = [audit EXCEPT ![r] = audit[r] \o events]
    /\ \/ status[r] = Absent /\ Opening(events, final)
       \/ status[r] \notin TerminalStatuses \cup {Absent} /\ Chained(events, status[r], final)
    /\ \A s \in Rems : approval[s] # NoApproval => approval'[s] = approval[s]
    /\ req'[p].rem = r
    /\ KafkaEnabled => /\ req'[p].next = Len(audit[r]) + 1
                       /\ req'[p].upto = Len(audit[r]) + Len(events)
    /\ ~ KafkaEnabled => req'[p].next = 1 /\ req'[p].upto = 0
    /\ \A q \in Procs \ {p} : req'[q] = req[q]
    /\ UNCHANGED topic

\* Request p has sent, or failed to send, the event at its position.
Publishes(p) ==
    LET r == req[p].rem
        i == req[p].next
    IN  /\ i <= req[p].upto
        /\ \/ topic' = topic
           \/ /\ Publishable(audit[r][i])
              /\ topic' = [topic EXCEPT ![r] = Append(topic[r], i)]
        /\ req'[p].rem = r /\ req'[p].next = i + 1 /\ req'[p].upto = req[p].upto
        /\ \A q \in Procs \ {p} : req'[q] = req[q]
        /\ UNCHANGED <<status, approval, audit>>

\* No row is decided, moved or logged, nothing is published, and no request has
\* more to publish than before.
Silent ==
    /\ UNCHANGED <<status, approval, audit, topic>>
    /\ \A p \in Procs : \/ req'[p] = req[p]
                        \/ req'[p].next = 1 /\ req'[p].upto = 0

\* What CommitWithAudit does to the trail and the positions to publish.
LEMMA CommitWithAuditFacts ==
  ASSUME IInv, NEW p \in Procs, NEW r \in Rems, r = req[p].rem, NEW events, NEW pc, NEW code,
         CommitWithAudit(p, r, events, pc, code)
  PROVE  /\ audit' = [audit EXCEPT ![r] = audit[r] \o events]
         /\ req'[p].rem = r
         /\ KafkaEnabled => /\ req'[p].next = Len(audit[r]) + 1
                            /\ req'[p].upto = Len(audit[r]) + Len(events)
         /\ ~ KafkaEnabled => req'[p].next = 1 /\ req'[p].upto = 0
         /\ \A q \in Procs \ {p} : req'[q] = req[q]
<1>. DEFINE next == IF KafkaEnabled THEN Len(audit[r]) + 1 ELSE 1
            upto == IF KafkaEnabled THEN Len(audit[r]) + Len(events) ELSE 0
            X == Further(req[p], pc, NoHistory, Nothing, next, upto, code)
<1>1. audit' = [audit EXCEPT ![r] = audit[r] \o events] /\ req' = [req EXCEPT ![p] = X]
  BY DEF CommitWithAudit
<1>2. X.rem = r /\ X.next = next /\ X.upto = upto
  <2>. HIDE DEF next, upto
  <2>. QED
    BY DEF Further
<1>. HIDE DEF X
<1>3. req'[p] = X /\ \A q \in Procs \ {p} : req'[q] = req[q]
  BY <1>1 DEF IInv, TypeOK
<1>. QED
  BY <1>1, <1>2, <1>3

\* One event, or two that follow one another, make a chain.
LEMMA ChainOfOne ==
  ASSUME NEW type \in AuditTypes, NEW from \in Statuses, NEW to \in Statuses
  PROVE  Chained(<<Event(type, from, to)>>, from, to)
<1>1. PICK e : e = Event(type, from, to) /\ e \in AuditEvents /\ e.prev = from /\ e.new = to
  <2>1. /\ Event(type, from, to) \in AuditEvents
        /\ Event(type, from, to).prev = from /\ Event(type, from, to).new = to
    BY DEF Event, AuditEvents
  <2>. QED
    BY <2>1
<1>2. Chained(<<e>>, from, to)
  BY <1>1 DEF Chained
<1>. QED
  BY <1>1, <1>2

\* The two events of a claim.
LEMMA ChainOfTwo ==
  ASSUME NEW type1 \in AuditTypes, NEW type2 \in AuditTypes,
         NEW from \in Statuses, NEW via \in Statuses, NEW to \in Statuses
  PROVE  Chained(<<Event(type1, from, via), Event(type2, via, to)>>, from, to)
<1>1. PICK d : d = Event(type1, from, via) /\ d \in AuditEvents /\ d.prev = from /\ d.new = via
  <2>1. /\ Event(type1, from, via) \in AuditEvents
        /\ Event(type1, from, via).prev = from /\ Event(type1, from, via).new = via
    BY DEF Event, AuditEvents
  <2>. QED
    BY <2>1
<1>2. PICK e : e = Event(type2, via, to) /\ e \in AuditEvents /\ e.prev = via /\ e.new = to
  <2>1. /\ Event(type2, via, to) \in AuditEvents
        /\ Event(type2, via, to).prev = via /\ Event(type2, via, to).new = to
    BY DEF Event, AuditEvents
  <2>. QED
    BY <2>1
<1>3. Chained(<<d, e>>, from, to)
  BY <1>1, <1>2 DEF Chained
<1>. QED
  BY <1>1, <1>2, <1>3

\* The events of a creation open a trail.
LEMMA OpeningOfTwo ==
  ASSUME NEW to \in Statuses
  PROVE  /\ Opening(<<ProposalCreatedEvent, PolicyEvaluatedEvent(to)>>, to)
         /\ Opening(<<ProposalCreatedEvent, PolicyEvaluatedEvent(to)>> \o <<RemediationBlockedEvent>>,
                    "BLOCKED")
<1>1. PICK a : a = ProposalCreatedEvent /\ a \in AuditEvents
  <2>1. ProposalCreatedEvent \in AuditEvents
    BY DEF Event, AuditEvents, AuditTypes, Statuses
  <2>. QED
    BY <2>1
<1>2. PICK b : b = PolicyEvaluatedEvent(to) /\ b \in AuditEvents /\ b.new = to
  <2>1. PolicyEvaluatedEvent(to) \in AuditEvents /\ PolicyEvaluatedEvent(to).new = to
    BY DEF Event, AuditEvents, AuditTypes, Statuses
  <2>. QED
    BY <2>1
<1>3. PICK c : /\ c = RemediationBlockedEvent /\ c \in AuditEvents /\ c.new = "BLOCKED"
               /\ c.type = "REMEDIATION_BLOCKED"
  <2>1. /\ RemediationBlockedEvent \in AuditEvents /\ RemediationBlockedEvent.new = "BLOCKED"
        /\ RemediationBlockedEvent.type = "REMEDIATION_BLOCKED"
    BY DEF Event, AuditEvents, AuditTypes, Statuses
  <2>. QED
    BY <2>1
<1>4. Opening(<<a, b>>, to)
  BY <1>1, <1>2 DEF Opening
<1>. DEFINE s == <<a, b>>
            t == <<c>>
<1>5. /\ s \in Seq(AuditEvents) /\ t \in Seq(AuditEvents)
      /\ Len(s) = 2 /\ Len(t) = 1 /\ t[1] = c
  BY <1>1, <1>2, <1>3
<1>. HIDE DEF s, t
<1>6. s \o t \in Seq(AuditEvents) /\ Len(s \o t) = 3 /\ (s \o t)[3] = c
  BY <1>5, ConcatProperties
<1>7. Opening(s \o t, "BLOCKED")
  BY <1>3, <1>6 DEF Opening
<1>. QED
  BY <1>1, <1>2, <1>3, <1>4, <1>7 DEF s, t

\* The six transactions.
LEMMA TransactionFacts ==
  ASSUME IInv, NEW p \in Procs,
         \/ Create(p) \/ RecordDecision(p) \/ BeginExecution(p) \/ FinishExecution(p)
         \/ BeginVerification(p) \/ FinishVerification(p)
  PROVE  \E r, events, final : Transacts(p, r, events, final)
<1>. PICK r : r = req[p].rem
  OBVIOUS
<1>0. Typed(req[p]) /\ Sound(req[p]) /\ (req[p].pc \notin {"idle", "done"} => r \in Rems)
  BY DEF IInv, RequestsTyped, RequestsSound, Typed
<1>r. r \in Rems => RowConsistent(r)
  BY DEF IInv, RowsConsistent
<1>tx. ASSUME NEW events, NEW pc, NEW code, NEW final \in Statuses,
              req[p].pc \notin {"idle", "done"}, req[p].next > req[p].upto,
              CommitWithAudit(p, r, events, pc, code),
              status' = [status EXCEPT ![r] = final],
              \/ status[r] = Absent /\ Opening(events, final)
              \/ status[r] \notin TerminalStatuses \cup {Absent} /\ Chained(events, status[r], final),
              \A s \in Rems : approval[s] # NoApproval => approval'[s] = approval[s],
              UNCHANGED topic
       PROVE  Transacts(p, r, events, final)
  <2>1. r \in Rems
    BY <1>0, <1>tx
  <2>2. /\ audit' = [audit EXCEPT ![r] = audit[r] \o events]
        /\ req'[p].rem = r
        /\ KafkaEnabled => /\ req'[p].next = Len(audit[r]) + 1
                           /\ req'[p].upto = Len(audit[r]) + Len(events)
        /\ ~ KafkaEnabled => req'[p].next = 1 /\ req'[p].upto = 0
        /\ \A q \in Procs \ {p} : req'[q] = req[q]
    <3>1. CommitWithAudit(p, r, events, pc, code)
      BY <1>tx
    <3>. QED
      BY <2>1, <3>1, CommitWithAuditFacts, Zenon
  <2>. QED
    BY <1>tx, <2>1, <2>2 DEF Transacts
<1>1. CASE Create(p)
  <2>. DEFINE outcome == PolicyOutcome(req[p].rec, req[p].seen, req[p].ts, req[p].ts + TTL, req[p].ts)
              final   == IF outcome = "ALLOW" THEN "PENDING_APPROVAL" ELSE "BLOCKED"
              created == <<ProposalCreatedEvent, PolicyEvaluatedEvent(final)>>
              events  == IF outcome = "ALLOW" THEN created ELSE created \o <<RemediationBlockedEvent>>
  <2>1. /\ req[p].pc = "snapshotted" /\ req[p].next > req[p].upto
        /\ status' = [status EXCEPT ![r] = final]
        /\ CommitWithAudit(p, r, events, "done", 201)
        /\ UNCHANGED <<approval, topic>>
    BY <1>1 DEF Create, At
  <2>2. status[r] = Absent
    BY <1>0, <2>1 DEF Sound, Minting
  <2>3. final \in Statuses /\ (outcome # "ALLOW" => final = "BLOCKED")
    BY DEF Statuses
  <2>. HIDE DEF outcome, final
  <2>4. Opening(events, final)
    BY <2>3, OpeningOfTwo
  <2>. HIDE DEF events
  <2>5. Transacts(p, r, events, final)
    BY <1>tx, <2>1, <2>2, <2>3, <2>4
  <2>. QED
    BY <2>5
<1>2. CASE RecordDecision(p)
  <2>. DEFINE final == IF req[p].decision = "APPROVE" THEN "APPROVED" ELSE "REJECTED"
              events == <<DecisionEvent(final)>>
  <2>1. /\ req[p].pc = "deciding" /\ req[p].next > req[p].upto /\ approval[r] = NoApproval
        /\ status' = [status EXCEPT ![r] = final]
        /\ CommitWithAudit(p, r, events, "done", 200)
        /\ UNCHANGED topic
    BY <1>2 DEF RecordDecision, At, StillUndecided
  <2>2. status[r] = "PENDING_APPROVAL" /\ r \in Rems
    BY <1>0, <1>r, <2>1 DEF Sound, RowConsistent, NoApproval, Nothing, Absent
  <2>3. \A s \in Rems : approval[s] # NoApproval => approval'[s] = approval[s]
    BY <1>2, <2>1 DEF RecordDecision, IInv, TypeOK
  <2>4. final \in {"APPROVED", "REJECTED"}
    OBVIOUS
  <2>. HIDE DEF final
  <2>5. Chained(events, "PENDING_APPROVAL", final) /\ final \in Statuses
    BY <2>4, ChainOfOne DEF AuditTypes, Statuses
  <2>. HIDE DEF events
  <2>6. Transacts(p, r, events, final)
    BY <1>tx, <2>1, <2>2, <2>3, <2>5 DEF TerminalStatuses, Absent
  <2>. QED
    BY <2>6
<1>3. CASE BeginExecution(p)
  <2>. DEFINE events == <<ExecutionRequestedEvent, ExecutionStartedEvent>>
  <2>1. /\ req[p].pc = "claiming" /\ req[p].next > req[p].upto /\ status[r] = "APPROVED"
        /\ status' = [status EXCEPT ![r] = "EXECUTING"]
        /\ CommitWithAudit(p, r, events, "claimed", 0)
        /\ UNCHANGED <<approval, topic>>
    BY <1>3 DEF BeginExecution, At, Claimable
  <2>2. Chained(events, "APPROVED", "EXECUTING") /\ "EXECUTING" \in Statuses
    <3>1. /\ "EXECUTION_REQUESTED" \in AuditTypes /\ "EXECUTION_STARTED" \in AuditTypes
          /\ "APPROVED" \in Statuses /\ "EXECUTING" \in Statuses
      BY DEF AuditTypes, Statuses
    <3>. QED
      BY <3>1, ChainOfTwo
  <2>. HIDE DEF events
  <2>3. Transacts(p, r, events, "EXECUTING")
    BY <1>tx, <2>1, <2>2 DEF TerminalStatuses, Absent
  <2>. QED
    BY <2>3
<1>4. CASE FinishExecution(p)
  <2>. DEFINE ok    == req[p].result = "SUCCEEDED"
              final == IF ok THEN "EXECUTED" ELSE "EXECUTION_FAILED"
              events == <<ExecutionFinishedEvent(ok, final)>>
  <2>1. /\ req[p].pc = "finishing" /\ req[p].next > req[p].upto /\ status[r] = "EXECUTING"
        /\ status' = [status EXCEPT ![r] = final]
        /\ CommitWithAudit(p, r, events, "done", 200)
        /\ UNCHANGED <<approval, topic>>
    BY <1>4 DEF FinishExecution, At
  <2>2. final \in Statuses
    BY DEF Statuses
  <2>. HIDE DEF final
  <2>3. Chained(events, "EXECUTING", final)
    BY <2>2, ChainOfOne DEF AuditTypes, Statuses
  <2>. HIDE DEF events
  <2>4. Transacts(p, r, events, final)
    BY <1>tx, <2>1, <2>2, <2>3 DEF TerminalStatuses, Absent
  <2>. QED
    BY <2>4
<1>5. CASE BeginVerification(p)
  <2>. DEFINE events == <<VerificationStartedEvent>>
  <2>1. /\ req[p].pc = "checking" /\ req[p].next > req[p].upto /\ status[r] = "EXECUTED"
        /\ status' = [status EXCEPT ![r] = "VERIFYING"]
        /\ CommitWithAudit(p, r, events, "observing", 0)
        /\ UNCHANGED <<approval, topic>>
    BY <1>5 DEF BeginVerification, At, Verifiable
  <2>2. Chained(events, "EXECUTED", "VERIFYING") /\ "VERIFYING" \in Statuses
    BY ChainOfOne DEF AuditTypes, Statuses
  <2>. HIDE DEF events
  <2>3. Transacts(p, r, events, "VERIFYING")
    BY <1>tx, <2>1, <2>2 DEF TerminalStatuses, Absent
  <2>. QED
    BY <2>3
<1>6. CASE FinishVerification(p)
  <2>. DEFINE final == req[p].result
              events == <<VerificationFinishedEvent(final)>>
  <2>1. /\ req[p].pc = "concluding" /\ req[p].next > req[p].upto /\ status[r] = "VERIFYING"
        /\ status' = [status EXCEPT ![r] = final]
        /\ CommitWithAudit(p, r, events, "done", 200)
        /\ UNCHANGED <<approval, topic>>
    BY <1>6 DEF FinishVerification, At
  <2>2. final \in Statuses
    BY <1>0, <2>1 DEF Typed, Statuses
  <2>. HIDE DEF final
  <2>3. Chained(events, "VERIFYING", final)
    BY <2>2, ChainOfOne DEF AuditTypes, Statuses
  <2>. HIDE DEF events
  <2>4. Transacts(p, r, events, final)
    BY <1>tx, <2>1, <2>2, <2>3 DEF TerminalStatuses, Absent
  <2>. QED
    BY <2>4
<1>. QED
  BY <1>1, <1>2, <1>3, <1>4, <1>5, <1>6

\* Every step is silent, publishes one event or commits one transaction.
LEMMA StepKinds ==
  ASSUME IInv, [Next]_vars
  PROVE  \/ Silent
         \/ \E p \in Procs : Publishes(p)
         \/ \E p \in Procs : \E r, events, final : Transacts(p, r, events, final)
<1>1. \A pc, r, ts, rec, d, role : /\ Request(pc, r, ts, rec, d, role).next = 1
                                   /\ Request(pc, r, ts, rec, d, role).upto = 0
  BY DEF Request
<1>2. \A q, pc, seen, result, n, u, reply : /\ Further(q, pc, seen, result, n, u, reply).next = n
                                            /\ Further(q, pc, seen, result, n, u, reply).upto = u
                                            /\ Further(q, pc, seen, result, n, u, reply).rem = q.rem
  BY DEF Further
<1>3. ASSUME NEW p \in Procs, NEW X, req' = [req EXCEPT ![p] = X], X.next = 1, X.upto = 0,
             UNCHANGED <<status, approval, audit, topic>>
      PROVE  Silent
  BY <1>3 DEF Silent, IInv, TypeOK
<1>4. ASSUME NEW p \in Procs, Arrive(p) PROVE Silent
  <2>1. UNCHANGED <<status, approval, audit, topic>>
    BY <1>4 DEF Arrive, ProposeUnmappable, ProposeMapped, DecideRequest, ExecuteRequest,
                VerifyRequest, rowVars
  <2>2. \E X : X.next = 1 /\ X.upto = 0 /\ req' = [req EXCEPT ![p] = X]
    <3>1. CASE \E rec \in Recommendations : ProposeUnmappable(p, rec)
      <4>1. PICK X : X = Further(Idle, "done", NoHistory, Nothing, 1, 0, 422)
        OBVIOUS
      <4>. QED
        <5>1. X.next = 1 /\ X.upto = 0
          BY <1>2, <4>1
        <5>2. req' = [req EXCEPT ![p] = X]
          BY <3>1, <4>1 DEF ProposeUnmappable, Reply
        <5>. QED
          BY <5>1, <5>2
    <3>2. CASE \E pc, r, ts, rec, d, role : req' = [req EXCEPT ![p] = Request(pc, r, ts, rec, d, role)]
      <4>1. PICK pc, r, ts, rec, d, role : req' = [req EXCEPT ![p] = Request(pc, r, ts, rec, d, role)]
        BY <3>2
      <4>2. PICK X : X = Request(pc, r, ts, rec, d, role)
        OBVIOUS
      <4>. QED
        BY <1>1, <4>1, <4>2
    <3>3. \A rec, r : ProposeMapped(p, rec, r) =>
            \E pc, k, ts, re, d, role : req' = [req EXCEPT ![p] = Request(pc, k, ts, re, d, role)]
      BY DEF ProposeMapped
    <3>4. \A r, d, role : DecideRequest(p, r, d, role) \/ ExecuteRequest(p, r) \/ VerifyRequest(p, r) =>
            \E pc, k, ts, re, e, ro : req' = [req EXCEPT ![p] = Request(pc, k, ts, re, e, ro)]
      BY DEF DecideRequest, ExecuteRequest, VerifyRequest
    <3>. QED
      BY <1>4, <3>1, <3>2, <3>3, <3>4 DEF Arrive
  <2>. QED
    BY <1>3, <2>1, <2>2
<1>5. ASSUME NEW p \in Procs,
             \/ HistorySnapshot(p) \/ DecideGet(p) \/ ExecuteGet(p) \/ VerifyGet(p)
             \/ DecisionRaceLost(p) \/ ExecutionConflict(p) \/ VerificationConflict(p)
             \/ \E result \in {"SUCCEEDED", "FAILED"} : DryRun(p, result) \/ RunExecutor(p, result)
             \/ \E verdict \in {"RECOVERED", "RECOVERY_FAILED"} : Observe(p, verdict)
             \/ Respond(p) \/ Abort(p)
      PROVE  Silent
  <2>1. UNCHANGED <<status, approval, audit, topic>>
    BY <1>5 DEF HistorySnapshot, DecideGet, ExecuteGet, VerifyGet, DecisionRaceLost,
                ExecutionConflict, VerificationConflict, DryRun, RunExecutor, Observe, Respond,
                Abort, rowVars
  <2>2. \E q, pc, seen, result, reply :
          req' = [req EXCEPT ![p] = Further(q, pc, seen, result, 1, 0, reply)]
          \/ req' = [req EXCEPT ![p] = Idle]
    <3>1. CASE HistorySnapshot(p)
      BY <3>1 DEF HistorySnapshot
    <3>2. CASE DecideGet(p) \/ ExecuteGet(p) \/ VerifyGet(p)
      BY <3>2 DEF DecideGet, ExecuteGet, VerifyGet, Reply, Goto
    <3>3. CASE DecisionRaceLost(p) \/ ExecutionConflict(p) \/ VerificationConflict(p)
      BY <3>3 DEF DecisionRaceLost, ExecutionConflict, VerificationConflict, Reply
    <3>4. CASE \E result \in {"SUCCEEDED", "FAILED"} : DryRun(p, result) \/ RunExecutor(p, result)
      BY <3>4 DEF DryRun, RunExecutor, Reply
    <3>5. CASE \E verdict \in {"RECOVERED", "RECOVERY_FAILED"} : Observe(p, verdict)
      BY <3>5 DEF Observe
    <3>6. CASE Respond(p) \/ Abort(p)
      BY <3>6 DEF Respond, Abort
    <3>. QED
      BY <1>5, <3>1, <3>2, <3>3, <3>4, <3>5, <3>6
  <2>3. Idle.next = 1 /\ Idle.upto = 0
    BY <1>1 DEF Idle
  <2>4. \E X : X.next = 1 /\ X.upto = 0 /\ req' = [req EXCEPT ![p] = X]
    BY <1>2, <2>2, <2>3
  <2>. QED
    BY <1>3, <2>1, <2>4
<1>6. ASSUME NEW p \in Procs, NEW sent \in BOOLEAN, Publish(p, sent) PROVE Publishes(p)
  <2>. DEFINE r == req[p].rem
              i == req[p].next
  <2>1. /\ i <= req[p].upto
        /\ topic' = [topic EXCEPT ![r] = IF sent /\ Publishable(audit[r][i])
                                           THEN Append(@, i) ELSE @]
        /\ req' = [req EXCEPT ![p] = Published(@, i + 1)]
        /\ UNCHANGED <<status, approval, audit>>
    BY <1>6 DEF Publish, rowVars
  <2>2. req'[p] = Published(req[p], i + 1) /\ \A q \in Procs \ {p} : req'[q] = req[q]
    BY <2>1 DEF IInv, TypeOK
  <2>3. req'[p].rem = r /\ req'[p].next = i + 1 /\ req'[p].upto = req[p].upto
    BY <1>2, <2>2 DEF Published
  <2>4. \/ topic' = topic
        \/ /\ Publishable(audit[r][i])
           /\ topic' = [topic EXCEPT ![r] = Append(topic[r], i)]
    BY <2>1 DEF IInv, TypeOK
  <2>. QED
    BY <2>1, <2>2, <2>3, <2>4 DEF Publishes
<1>7. CASE Tick \/ UNCHANGED vars
  BY <1>7 DEF Tick, vars, rowVars, Silent
<1>8. ASSUME NEW p \in Procs, Advance(p)
      PROVE  \/ Silent \/ Publishes(p)
             \/ \E r, events, final : Transacts(p, r, events, final)
  BY <1>5, <1>6, <1>8, TransactionFacts DEF Advance
<1>. QED
  BY <1>4, <1>5, <1>7, <1>8 DEF Next

\* A trail that replays to a status.
Trail(trail, st) ==
    /\ trail = <<>> <=> st = Absent
    /\ trail # <<>> => trail[Len(trail)].new = st
    /\ \A i \in 3 .. Len(trail) :
         trail[i].type # "REMEDIATION_BLOCKED" => trail[i].prev = trail[i - 1].new

\* What a transaction appends keeps the trail.
LEMMA TrailGrows ==
  ASSUME NEW trail \in Seq(AuditEvents), NEW old, NEW new \in Statuses, NEW events,
         Trail(trail, old),
         \/ old = Absent /\ Opening(events, new)
         \/ old # Absent /\ Chained(events, old, new)
  PROVE  Trail(trail \o events, new)
<1>0. new # Absent
  BY DEF Statuses, Absent
<1>1. CASE old = Absent /\ Opening(events, new)
  <2>1. /\ trail = <<>> /\ events \in Seq(AuditEvents) /\ Len(events) \in {2, 3}
        /\ events[Len(events)].new = new
        /\ Len(events) = 3 => events[3].type = "REMEDIATION_BLOCKED"
    BY <1>1 DEF Trail, Opening
  <2>2. trail \o events = events /\ events # <<>>
    BY <2>1, ConcatEmptySeq
  <2>3. ASSUME NEW i \in 3 .. Len(events) PROVE i = 3 /\ Len(events) = 3
    BY <2>1
  <2>4. Trail(events, new)
    BY <1>0, <2>1, <2>2, <2>3 DEF Trail
  <2>. QED
    BY <2>2, <2>4
<1>2. CASE old # Absent /\ Chained(events, old, new)
  <2>. DEFINE longer == trail \o events
              m == Len(trail)
              n == Len(events)
  <2>1. /\ events \in Seq(AuditEvents) /\ events # <<>> /\ events[n].new = new
        /\ events[1].prev = old
        /\ \A i \in 2 .. n : events[i].prev = events[i - 1].new
    BY <1>2 DEF Chained
  <2>2. /\ m \in Nat \ {0} /\ n \in Nat \ {0}
    BY <1>2, <2>1, EmptySeq DEF Trail
  <2>3. /\ longer \in Seq(AuditEvents) /\ Len(longer) = m + n
        /\ \A i \in 1 .. m + n : longer[i] = IF i <= m THEN trail[i] ELSE events[i - m]
    BY <2>1, ConcatProperties
  <2>. HIDE DEF longer, m, n
  <2>4. longer # <<>> /\ longer[Len(longer)].new = new
    <3>1. Len(longer) \in 1 .. m + n /\ ~ (Len(longer) <= m) /\ Len(longer) - m = n
      BY <2>2, <2>3
    <3>2. longer[Len(longer)] = events[n]
      BY <2>3, <3>1
    <3>. QED
      BY <2>1, <2>2, <2>3, <3>2
  <2>5. ASSUME NEW i \in 3 .. Len(longer), longer[i].type # "REMEDIATION_BLOCKED"
        PROVE  longer[i].prev = longer[i - 1].new
    <3>1. i \in 1 .. m + n /\ i - 1 \in 1 .. m + n
      BY <2>2, <2>3
    <3>2. CASE i <= m
      <4>1. longer[i] = trail[i] /\ longer[i - 1] = trail[i - 1] /\ i \in 3 .. m
        BY <2>2, <2>3, <3>1, <3>2
      <4>. QED
        BY <2>5, <4>1 DEF Trail, m
    <3>3. CASE i = m + 1
      <4>1. longer[i] = events[1] /\ longer[i - 1] = trail[m]
        BY <2>2, <2>3, <3>1, <3>3
      <4>2. trail[m].new = old
        BY <1>2 DEF Trail, m
      <4>. QED
        BY <2>1, <4>1, <4>2
    <3>4. CASE i > m + 1
      <4>1. longer[i] = events[i - m] /\ longer[i - 1] = events[(i - 1) - m]
        BY <2>2, <2>3, <3>1, <3>4
      <4>2. i - m \in 2 .. n /\ (i - 1) - m = (i - m) - 1
        BY <2>2, <3>1, <3>4
      <4>. QED
        BY <2>1, <4>1, <4>2
    <3>. QED
      BY <2>2, <3>1, <3>2, <3>3, <3>4
  <2>6. Trail(longer, new)
    BY <1>0, <2>4, <2>5 DEF Trail
  <2>. QED
    BY <2>6 DEF longer
<1>. QED
  BY <1>1, <1>2

\* Every step keeps the trails.
LEMMA NextTrail == IInv /\ TrailMatchesRow /\ [Next]_vars => TrailMatchesRow'
<1>. SUFFICES ASSUME IInv, TrailMatchesRow, [Next]_vars, NEW s \in Rems
              PROVE  Trail(audit'[s], status'[s])
  BY DEF TrailMatchesRow, Trail
<1>0. Trail(audit[s], status[s]) /\ audit[s] \in Seq(AuditEvents)
  BY DEF TrailMatchesRow, Trail, IInv, TypeOK
<1>1. CASE Silent \/ \E p \in Procs : Publishes(p)
  BY <1>0, <1>1 DEF Silent, Publishes
<1>2. ASSUME NEW p \in Procs, NEW r, NEW events, NEW final, Transacts(p, r, events, final)
      PROVE  Trail(audit'[s], status'[s])
  <2>1. CASE s # r
    BY <1>0, <1>2, <2>1 DEF Transacts, IInv, TypeOK
  <2>2. CASE s = r
    <3>1. /\ audit'[s] = audit[s] \o events /\ status'[s] = final /\ final \in Statuses
          /\ \/ status[s] = Absent /\ Opening(events, final)
             \/ status[s] # Absent /\ Chained(events, status[s], final)
      BY <1>2, <2>2 DEF Transacts, IInv, TypeOK
    <3>. QED
      BY <1>0, <3>1, TrailGrows
  <2>. QED
    BY <2>1, <2>2
<1>. QED
  BY <1>1, <1>2, StepKinds

\* The audit trail of every remediation replays to its row, however requests race
\* and wherever they die: an audit row and the change it records commit together.
THEOREM TrailReplays == Spec => []TrailMatchesRow
<1>1. Init => TrailMatchesRow
  BY DEF Init, TrailMatchesRow
<1>. QED
  BY <1>1, NextTrail, Inductive, PTL DEF Spec

\* The step form of HistoryImmutable.
ImmutableStep ==
    \A r \in Rems :
      /\ approval[r] # NoApproval => approval'[r] = approval[r]
      /\ status[r] \in TerminalStatuses => status'[r] = status[r]
      /\ SubSeq(audit'[r], 1, Len(audit[r])) = audit[r]

\* A sequence is a prefix of every sequence that continues it.
LEMMA PrefixOfConcat ==
  ASSUME NEW S, NEW s \in Seq(S), NEW t \in Seq(S)
  PROVE  SubSeq(s \o t, 1, Len(s)) = s
<1>1. Len(s) \in Nat /\ SubSeq(s, 1, Len(s)) = s
  BY SubSeqFull
<1>2. CASE Len(s) = 0
  <2>1. s = <<>>
    BY <1>2, EmptySeq
  <2>2. SubSeq(s \o t, 1, Len(s)) = <<>>
    BY <1>2, SubSeqEmpty
  <2>. QED
    BY <2>1, <2>2
<1>3. CASE Len(s) # 0
  <2>1. 1 \in 1 .. Len(s) /\ Len(s) \in 1 .. Len(s)
    BY <1>1, <1>3
  <2>2. SubSeq(s \o t, 1, Len(s)) = SubSeq(s, 1, Len(s))
    BY <2>1, SubSeqOfConcat1
  <2>. QED
    BY <1>1, <2>2
<1>. QED
  BY <1>2, <1>3

\* No step rewrites history.
LEMMA NextImmutable == IInv /\ [Next]_vars => ImmutableStep
<1>. SUFFICES ASSUME IInv, [Next]_vars, NEW s \in Rems
              PROVE  /\ approval[s] # NoApproval => approval'[s] = approval[s]
                     /\ status[s] \in TerminalStatuses => status'[s] = status[s]
                     /\ SubSeq(audit'[s], 1, Len(audit[s])) = audit[s]
  BY DEF ImmutableStep
<1>0. audit[s] \in Seq(AuditEvents) /\ SubSeq(audit[s], 1, Len(audit[s])) = audit[s]
  BY SubSeqFull DEF IInv, TypeOK
<1>1. CASE Silent \/ \E p \in Procs : Publishes(p)
  BY <1>0, <1>1 DEF Silent, Publishes
<1>2. ASSUME NEW p \in Procs, NEW r, NEW events, NEW final, Transacts(p, r, events, final)
      PROVE  /\ approval[s] # NoApproval => approval'[s] = approval[s]
             /\ status[s] \in TerminalStatuses => status'[s] = status[s]
             /\ SubSeq(audit'[s], 1, Len(audit[s])) = audit[s]
  <2>1. approval[s] # NoApproval => approval'[s] = approval[s]
    BY <1>2 DEF Transacts
  <2>2. CASE s # r
    BY <1>0, <1>2, <2>1, <2>2 DEF Transacts, IInv, TypeOK
  <2>3. CASE s = r
    <3>1. status[s] \notin TerminalStatuses
      BY <1>2, <2>3 DEF Transacts, TerminalStatuses, Absent
    <3>2. audit'[s] = audit[s] \o events /\ events \in Seq(AuditEvents)
      BY <1>2, <2>3 DEF Transacts, Opening, Chained, IInv, TypeOK
    <3>. QED
      BY <1>0, <2>1, <3>1, <3>2, PrefixOfConcat
  <2>. QED
    BY <2>2, <2>3
<1>. QED
  BY <1>1, <1>2, StepKinds

\* A decision is never overwritten, a terminal status never left, and an audit row
\* never changed or removed, by any interleaving of requests.
THEOREM ImmutableHistory == Spec => HistoryImmutable
<1>1. IInv /\ [Next]_vars => [ImmutableStep]_vars
  BY NextImmutable
<1>. QED
  BY <1>1, Inductive, PTL DEF Spec, HistoryImmutable, ImmutableStep

-----------------------------------------------------------------------------
(* Publication.                                                            *)

\* The position i of the trail of r is still to be published by request q.
Pending(q, r, i) == q.rem = r /\ q.next <= i /\ i <= q.upto

\* What is to be published is in the trail, belongs to one request, and has not
\* been published.
PendingSound ==
    /\ \A p \in Procs : req[p].next >= 1
    /\ \A p \in Procs, r \in Rems, i \in Nat :
         Pending(req[p], r, i) =>
           /\ i <= Len(audit[r])
           /\ \A q \in Procs \ {p} : ~ Pending(req[q], r, i)
           /\ \A n \in 1 .. Len(topic[r]) : topic[r][n] # i
    /\ \A r \in Rems : \A n \in 1 .. Len(topic[r]) : topic[r][n] >= 1

PublicationSound == PendingSound /\ EventsMirrorTrail

\* A silent step leaves less to publish.
LEMMA SilentPublication ==
  ASSUME IInv, PublicationSound, Silent
  PROVE  PublicationSound'
<1>1. \A p \in Procs, r \in Rems, i \in Nat : Pending(req'[p], r, i) => Pending(req[p], r, i)
  BY DEF Silent, Pending
<1>2. PendingSound'
  BY <1>1 DEF Silent, PublicationSound, PendingSound
<1>3. EventsMirrorTrail'
  BY DEF Silent, PublicationSound, EventsMirrorTrail
<1>. QED
  BY <1>2, <1>3 DEF PublicationSound

\* A transaction has what it logged to publish, beyond all that was there before.
LEMMA TransactionPublication ==
  ASSUME IInv, PublicationSound, NEW p \in Procs, NEW r, NEW events, NEW final,
         Transacts(p, r, events, final)
  PROVE  PublicationSound'
<1>1. /\ r \in Rems /\ audit[r] \in Seq(AuditEvents) /\ events \in Seq(AuditEvents)
      /\ audit'[r] = audit[r] \o events /\ topic' = topic
      /\ \A s \in Rems \ {r} : audit'[s] = audit[s]
      /\ \A q \in Procs \ {p} : req'[q] = req[q]
  BY DEF Transacts, Opening, Chained, IInv, TypeOK
<1>2. /\ Len(audit[r]) \in Nat /\ Len(events) \in Nat
      /\ Len(audit'[r]) = Len(audit[r]) + Len(events)
      /\ \A i \in 1 .. Len(audit[r]) : audit'[r][i] = audit[r][i]
  BY <1>1, ConcatProperties
<1>3. ASSUME NEW s \in Rems PROVE Len(audit[s]) \in Nat /\ Len(audit[s]) <= Len(audit'[s])
  <2>1. audit[s] \in Seq(AuditEvents)
    BY DEF IInv, TypeOK
  <2>2. Len(audit[s]) \in Nat
    BY <2>1
  <2>. QED
    BY <1>1, <1>2, <2>2
<1>4. \A s \in Rems, i \in Nat : Pending(req'[p], s, i) =>
        s = r /\ Len(audit[r]) < i /\ i <= Len(audit'[r])
  BY <1>2, RemediationAssumption DEF Transacts, Pending
<1>5. req'[p].next >= 1
  BY <1>2, RemediationAssumption DEF Transacts
<1>6. \A s \in Rems : \A n \in 1 .. Len(topic[s]) :
        topic[s][n] \in Nat /\ topic[s][n] >= 1 /\ topic[s][n] <= Len(audit[s])
  BY DEF PublicationSound, PendingSound, EventsMirrorTrail, IInv, TypeOK
<1>7. PendingSound'
  <2>1. \A q \in Procs : req'[q].next >= 1
    BY <1>1, <1>5 DEF PublicationSound, PendingSound
  <2>2. ASSUME NEW q \in Procs, NEW s \in Rems, NEW i \in Nat, Pending(req'[q], s, i)
        PROVE  /\ i <= Len(audit'[s])
               /\ \A v \in Procs \ {q} : ~ Pending(req'[v], s, i)
               /\ \A n \in 1 .. Len(topic'[s]) : topic'[s][n] # i
    <3>1. CASE q = p
      <4>1. s = r /\ Len(audit[r]) < i /\ i <= Len(audit'[r])
        BY <1>4, <2>2, <3>1
      <4>2. ASSUME NEW v \in Procs \ {q}, Pending(req'[v], s, i) PROVE FALSE
        <5>1. Pending(req[v], r, i)
          BY <1>1, <3>1, <4>1, <4>2
        <5>. QED
          BY <1>2, <4>1, <5>1 DEF PublicationSound, PendingSound
      <4>3. ASSUME NEW n \in 1 .. Len(topic[s]) PROVE topic[s][n] # i
        BY <1>2, <1>6, <4>1, <4>3
      <4>. QED
        BY <1>1, <4>1, <4>2, <4>3
    <3>2. CASE q # p
      <4>1. Pending(req[q], s, i)
        BY <1>1, <2>2, <3>2
      <4>2. /\ i <= Len(audit[s])
            /\ \A v \in Procs \ {q} : ~ Pending(req[v], s, i)
            /\ \A n \in 1 .. Len(topic[s]) : topic[s][n] # i
        BY <4>1 DEF PublicationSound, PendingSound
      <4>3. ~ Pending(req'[p], s, i)
        BY <1>2, <1>4, <4>2
      <4>. QED
        BY <1>1, <1>3, <4>2, <4>3
    <3>. QED
      BY <3>1, <3>2
  <2>3. \A s \in Rems : \A n \in 1 .. Len(topic'[s]) : topic'[s][n] >= 1
    BY <1>1, <1>6
  <2>. QED
    BY <2>1, <2>2, <2>3 DEF PendingSound
<1>8. EventsMirrorTrail'
  <2>1. ASSUME NEW s \in Rems, NEW n \in 1 .. Len(topic[s])
        PROVE  topic[s][n] <= Len(audit'[s]) /\ Publishable(audit'[s][topic[s][n]])
    <3>1. audit'[s][topic[s][n]] = audit[s][topic[s][n]]
      BY <1>1, <1>2, <1>6, <2>1
    <3>2. Publishable(audit[s][topic[s][n]])
      BY <2>1 DEF PublicationSound, EventsMirrorTrail
    <3>. QED
      BY <1>3, <1>6, <2>1, <3>1, <3>2
  <2>. QED
    BY <1>1, <2>1 DEF PublicationSound, EventsMirrorTrail
<1>. QED
  BY <1>7, <1>8 DEF PublicationSound

\* A turn of the loop publishes at most the first position it had to.
LEMMA PublishPublication ==
  ASSUME IInv, PublicationSound, NEW p \in Procs, Publishes(p)
  PROVE  PublicationSound'
<1>. PICK r, i : r = req[p].rem /\ i = req[p].next
  OBVIOUS
<1>1. /\ r \in Rems /\ i \in Nat /\ i >= 1 /\ req[p].upto \in Nat /\ i <= req[p].upto
  BY DEF Publishes, IInv, RequestsTyped, Typed, Requests, PublicationSound, PendingSound
<1>2. /\ req'[p].rem = r /\ req'[p].next = i + 1 /\ req'[p].upto = req[p].upto
      /\ \A q \in Procs \ {p} : req'[q] = req[q]
      /\ audit' = audit
      /\ \/ topic' = topic
         \/ Publishable(audit[r][i]) /\ topic' = [topic EXCEPT ![r] = Append(topic[r], i)]
  BY DEF Publishes
<1>3. Pending(req[p], r, i)
  BY <1>1 DEF Pending
<1>4. /\ i <= Len(audit[r])
      /\ \A q \in Procs \ {p} : ~ Pending(req[q], r, i)
      /\ \A n \in 1 .. Len(topic[r]) : topic[r][n] # i
  BY <1>1, <1>3 DEF PublicationSound, PendingSound
<1>5. /\ \A q \in Procs, s \in Rems, k \in Nat : Pending(req'[q], s, k) => Pending(req[q], s, k)
      /\ ~ Pending(req'[p], r, i)
  BY <1>1, <1>2 DEF Pending
<1>6. \A q \in Procs : req'[q].next >= 1
  BY <1>1, <1>2 DEF PublicationSound, PendingSound
<1>7. CASE topic' = topic
  <2>1. PendingSound'
    BY <1>2, <1>5, <1>6, <1>7 DEF PublicationSound, PendingSound
  <2>. QED
    BY <1>2, <1>7, <2>1 DEF PublicationSound, EventsMirrorTrail
<1>8. CASE Publishable(audit[r][i]) /\ topic' = [topic EXCEPT ![r] = Append(topic[r], i)]
  <2>1. topic[r] \in Seq(Nat) /\ Len(topic[r]) \in Nat
    BY <1>1 DEF IInv, TypeOK
  <2>2. /\ Len(topic'[r]) = Len(topic[r]) + 1
        /\ topic'[r][Len(topic[r]) + 1] = i
        /\ \A n \in 1 .. Len(topic[r]) : topic'[r][n] = topic[r][n]
        /\ \A s \in Rems \ {r} : topic'[s] = topic[s]
    <3>1. topic'[r] = Append(topic[r], i) /\ \A s \in Rems \ {r} : topic'[s] = topic[s]
      BY <1>1, <1>8 DEF IInv, TypeOK
    <3>. QED
      BY <1>1, <2>1, <3>1
  <2>3. \A n \in 1 .. Len(topic'[r]) :
          n = Len(topic[r]) + 1 \/ n \in 1 .. Len(topic[r])
    BY <2>1, <2>2
  <2>4. PendingSound'
    <3>1. ASSUME NEW q \in Procs, NEW s \in Rems, NEW k \in Nat, Pending(req'[q], s, k)
          PROVE  /\ k <= Len(audit'[s])
                 /\ \A v \in Procs \ {q} : ~ Pending(req'[v], s, k)
                 /\ \A n \in 1 .. Len(topic'[s]) : topic'[s][n] # k
      <4>1. /\ Pending(req[q], s, k) /\ k <= Len(audit[s])
            /\ \A v \in Procs \ {q} : ~ Pending(req[v], s, k)
            /\ \A n \in 1 .. Len(topic[s]) : topic[s][n] # k
        BY <1>5, <3>1 DEF PublicationSound, PendingSound
      <4>2. s = r => k # i
        BY <1>2, <1>4, <1>5, <3>1
      <4>. QED
        BY <1>2, <1>5, <2>2, <2>3, <4>1, <4>2
    <3>2. \A s \in Rems : \A n \in 1 .. Len(topic'[s]) : topic'[s][n] >= 1
      BY <1>1, <2>2, <2>3 DEF PublicationSound, PendingSound
    <3>. QED
      BY <1>6, <3>1, <3>2 DEF PendingSound
  <2>5. EventsMirrorTrail'
    <3>1. ASSUME NEW s \in Rems, NEW n \in 1 .. Len(topic'[s])
          PROVE  topic'[s][n] <= Len(audit'[s]) /\ Publishable(audit'[s][topic'[s][n]])
      BY <1>2, <1>4, <1>8, <2>2, <2>3, <3>1 DEF PublicationSound, EventsMirrorTrail
    <3>2. ASSUME NEW s \in Rems, NEW m \in 1 .. Len(topic'[s]), NEW n \in 1 .. Len(topic'[s]),
                 m # n
          PROVE  topic'[s][m] # topic'[s][n]
      BY <1>4, <2>2, <2>3, <3>2 DEF PublicationSound, EventsMirrorTrail
    <3>. QED
      BY <3>1, <3>2 DEF EventsMirrorTrail
  <2>. QED
    BY <2>4, <2>5 DEF PublicationSound
<1>. QED
  BY <1>2, <1>7, <1>8

\* Whatever fails between a commit and a send, the topic mirrors committed audit
\* events that have a lifecycle type, and none is sent twice.
THEOREM FaithfulEvents == Spec => []EventsMirrorTrail
<1>1. Init => PublicationSound
  <2>1. Idle.next = 1 /\ Idle.upto = 0
    BY DEF Idle, Request
  <2>2. Init => \A r \in Rems : Len(topic[r]) = 0
    BY DEF Init
  <2>3. Init => \A p \in Procs : req[p].next = 1 /\ req[p].upto = 0
    BY <2>1 DEF Init
  <2>4. Init => \A p \in Procs, r \in Rems, i \in Nat : ~ Pending(req[p], r, i)
    BY <2>3 DEF Pending
  <2>. QED
    BY <2>2, <2>3, <2>4 DEF PublicationSound, PendingSound, EventsMirrorTrail
<1>2. IInv /\ PublicationSound /\ [Next]_vars => PublicationSound'
  BY StepKinds, SilentPublication, TransactionPublication, PublishPublication
<1>3. PublicationSound => EventsMirrorTrail
  BY DEF PublicationSound
<1>. QED
  BY <1>1, <1>2, <1>3, Inductive, PTL DEF Spec

-----------------------------------------------------------------------------
(* Proposals one at a time.                                                *)

\* At most one proposal is between the minting of its id and its creation.
OneProposer ==
    \A p, q \in Procs : req[p].pc \in Minting /\ req[q].pc \in Minting => p = q

\* The clock bounds every time stamp taken from it.
StampsBounded ==
    /\ now <= MaxTime
    /\ \A p \in Procs : req[p].ts <= now
    /\ \A r \in Rems : approval[r].at <= now

\* The snapshot of a request that is about to create its row is still true of
\* every row of its key, as far as the policy relies on it.
SnapshotHolds(q) ==
    \A r \in Rems :
      SameKey(proposal[r], q.rec) /\ ~ q.seen.active =>
        /\ status[r] \notin ActiveStatuses
        /\ status[r] = "EXECUTION_FAILED" =>
             \E t \in q.seen.lastCompleted : approval[r].at <= t

SnapshotsHold == \A p \in Procs : req[p].pc = "snapshotted" => SnapshotHolds(req[p])

\* Only a creation fills in a proposal or an absent row.
LEMMA OnlyCreateCreates ==
  ASSUME IInv, [Next]_vars, \A p \in Procs : ~ Create(p)
  PROVE  /\ proposal' = proposal
         /\ \A r \in Rems : status[r] \in TerminalStatuses \cup {Absent} => status'[r] = status[r]
<1>0. \A p \in Procs : Typed(req[p]) /\ Sound(req[p])
  BY DEF IInv, RequestsTyped, RequestsSound
<1>1. ASSUME NEW p \in Procs, RecordDecision(p)
      PROVE  /\ proposal' = proposal
             /\ \E x : status' = [status EXCEPT ![req[p].rem] = x]
             /\ status[req[p].rem] = "PENDING_APPROVAL"
  <2>1. req[p].rem \in Rems /\ status[req[p].rem] \notin {Absent, "BLOCKED"}
        /\ approval[req[p].rem] = NoApproval
    BY <1>0, <1>1 DEF RecordDecision, At, Typed, Sound, StillUndecided
  <2>2. status[req[p].rem] = "PENDING_APPROVAL"
    <3>1. RowConsistent(req[p].rem)
      BY <2>1 DEF IInv, RowsConsistent
    <3>2. NoApproval.decision = Nothing
      BY DEF NoApproval
    <3>. QED
      BY <2>1, <3>1, <3>2 DEF RowConsistent, Nothing
  <2>. QED
    BY <1>1, <2>2 DEF RecordDecision
<1>2. ASSUME NEW p \in Procs,
             BeginExecution(p) \/ FinishExecution(p) \/ BeginVerification(p) \/ FinishVerification(p)
      PROVE  /\ proposal' = proposal
             /\ \E x : status' = [status EXCEPT ![req[p].rem] = x]
             /\ status[req[p].rem] \notin TerminalStatuses \cup {Absent}
  BY <1>2 DEF BeginExecution, FinishExecution, BeginVerification, FinishVerification, Claimable,
              Verifiable, TerminalStatuses, Absent
<1>3. ASSUME NEW p \in Procs, Arrive(p) \/ Advance(p) \/ Abort(p),
             ~ RecordDecision(p), ~ BeginExecution(p), ~ FinishExecution(p),
             ~ BeginVerification(p), ~ FinishVerification(p)
      PROVE  UNCHANGED <<proposal, status>>
  <2>1. ASSUME Arrive(p) PROVE UNCHANGED <<proposal, status>>
    BY <2>1 DEF Arrive, ProposeUnmappable, ProposeMapped, DecideRequest, ExecuteRequest,
                VerifyRequest, rowVars
  <2>2. ASSUME Advance(p) PROVE UNCHANGED <<proposal, status>>
    BY <1>3, <2>2 DEF Advance, HistorySnapshot, DecideGet, ExecuteGet, VerifyGet, DecisionRaceLost,
                ExecutionConflict, VerificationConflict, DryRun, RunExecutor, Observe, Respond,
                Publish, rowVars
  <2>3. ASSUME Abort(p) PROVE UNCHANGED <<proposal, status>>
    BY <2>3 DEF Abort, rowVars
  <2>. QED
    BY <1>3, <2>1, <2>2, <2>3
<1>4. CASE Tick \/ UNCHANGED vars
  BY <1>4 DEF Tick, vars, rowVars
<1>5. ASSUME NEW p \in Procs, Arrive(p) \/ Advance(p) \/ Abort(p)
      PROVE  /\ proposal' = proposal
             /\ \A r \in Rems : status[r] \in TerminalStatuses \cup {Absent} => status'[r] = status[r]
  <2>1. status \in [Rems -> Statuses \cup {Absent}] /\ "PENDING_APPROVAL" \notin TerminalStatuses \cup {Absent}
    BY DEF IInv, TypeOK, TerminalStatuses, Absent
  <2>2. ASSUME NEW x, status' = [status EXCEPT ![req[p].rem] = x],
               status[req[p].rem] \notin TerminalStatuses \cup {Absent}
        PROVE  \A r \in Rems : status[r] \in TerminalStatuses \cup {Absent} => status'[r] = status[r]
    BY <2>1, <2>2
  <2>3. CASE RecordDecision(p)
    BY <1>1, <2>1, <2>2, <2>3
  <2>4. CASE BeginExecution(p) \/ FinishExecution(p) \/ BeginVerification(p) \/ FinishVerification(p)
    BY <1>2, <2>2, <2>4
  <2>. QED
    BY <1>3, <1>5, <2>3, <2>4
<1>. QED
  BY <1>4, <1>5 DEF Next

\* Where a request goes once its transaction has committed.
LEMMA CommitPc ==
  ASSUME IInv, NEW p \in Procs, NEW r, NEW events, NEW pc, NEW code,
         CommitWithAudit(p, r, events, pc, code)
  PROVE  req'[p].pc = pc
<1>. DEFINE n == IF KafkaEnabled THEN Len(audit[r]) + 1 ELSE 1
            u == IF KafkaEnabled THEN Len(audit[r]) + Len(events) ELSE 0
            X == Further(req[p], pc, NoHistory, Nothing, n, u, code)
<1>1. req' = [req EXCEPT ![p] = X]
  BY DEF CommitWithAudit
<1>2. X.pc = pc
  <2>. HIDE DEF n, u
  <2>. QED
    BY DEF Further
<1>. HIDE DEF X
<1>. QED
  BY <1>1, <1>2 DEF IInv, TypeOK

\* A request is at "snapshotted" because it has just read the history, or was
\* there before with the same recommendation and the same snapshot.
LEMMA SnapshotOrigin ==
  ASSUME IInv, [Next]_vars, NEW p \in Procs, req'[p].pc = "snapshotted"
  PROVE  \/ HistorySnapshot(p)
         \/ req[p].pc = "snapshotted" /\ req'[p].rec = req[p].rec /\ req'[p].seen = req[p].seen
<1>0. req \in [Procs -> Requests]
  BY DEF IInv, TypeOK
<1>1. \A pc, r, ts, rec, d, role : Request(pc, r, ts, rec, d, role).pc = pc
  BY DEF Request
<1>2. \A q, pc, seen, result, n, u, reply : /\ Further(q, pc, seen, result, n, u, reply).pc = pc
                                            /\ Further(q, pc, seen, result, n, u, reply).rec = q.rec
                                            /\ Further(q, pc, seen, result, n, u, reply).seen = seen
  BY DEF Further
<1>3. Idle.pc = "idle"
  BY <1>1 DEF Idle
<1>. DEFINE Leaves(o) == req'[o].pc # "snapshotted" /\ \A q \in Procs \ {o} : req'[q] = req[q]
<1>4. ASSUME NEW o \in Procs, Leaves(o)
      PROVE  req[p].pc = "snapshotted" /\ req'[p].rec = req[p].rec /\ req'[p].seen = req[p].seen
  BY <1>4
<1>4a. ASSUME NEW o \in Procs, NEW X, req' = [req EXCEPT ![o] = X], X.pc # "snapshotted"
       PROVE  Leaves(o)
  BY <1>0, <1>4a
<1>. HIDE DEF Leaves
<1>4b. ASSUME NEW o \in Procs, NEW code, Reply(o, code) PROVE Leaves(o)
  <2>. DEFINE X == Further(Idle, "done", NoHistory, Nothing, 1, 0, code)
  <2>1. req' = [req EXCEPT ![o] = X] /\ X.pc # "snapshotted"
    BY <1>2, <1>4b DEF Reply
  <2>. HIDE DEF X
  <2>. QED
    BY <1>4a, <2>1
<1>4c. ASSUME NEW o \in Procs, NEW r, NEW events, NEW pc, NEW code,
              CommitWithAudit(o, r, events, pc, code), pc # "snapshotted"
       PROVE  Leaves(o)
  BY <1>0, <1>4c, CommitPc DEF Leaves, CommitWithAudit
<1>5. ASSUME NEW o \in Procs, Arrive(o) PROVE Leaves(o)
  <2>1. CASE \E rec \in Recommendations : ProposeUnmappable(o, rec)
    BY <1>4b, <2>1 DEF ProposeUnmappable
  <2>2. ASSUME NEW rec, NEW r, ProposeMapped(o, rec, r) PROVE Leaves(o)
    <3>. DEFINE X == Request("mapped", r, now, rec, Nothing, Nothing)
    <3>1. req' = [req EXCEPT ![o] = X] /\ X.pc # "snapshotted"
      BY <1>1, <2>2 DEF ProposeMapped
    <3>. HIDE DEF X
    <3>. QED
      BY <1>4a, <3>1
  <2>3. ASSUME NEW r, NEW d, NEW role, DecideRequest(o, r, d, role) PROVE Leaves(o)
    <3>. DEFINE X == Request("decide", r, now, NoRecommendation, d, role)
    <3>1. req' = [req EXCEPT ![o] = X] /\ X.pc # "snapshotted"
      BY <1>1, <2>3 DEF DecideRequest
    <3>. HIDE DEF X
    <3>. QED
      BY <1>4a, <3>1
  <2>4. ASSUME NEW r, NEW pc \in {"execute", "verify"},
               req' = [req EXCEPT ![o] = Request(pc, r, now, NoRecommendation, Nothing, Nothing)]
        PROVE  Leaves(o)
    <3>. DEFINE X == Request(pc, r, now, NoRecommendation, Nothing, Nothing)
    <3>1. req' = [req EXCEPT ![o] = X] /\ X.pc # "snapshotted"
      BY <1>1, <2>4
    <3>. HIDE DEF X
    <3>. QED
      BY <1>4a, <3>1
  <2>5. ASSUME NEW r, ExecuteRequest(o, r) \/ VerifyRequest(o, r) PROVE Leaves(o)
    BY <2>4, <2>5 DEF ExecuteRequest, VerifyRequest
  <2>. QED
    BY <1>5, <2>1, <2>2, <2>3, <2>5 DEF Arrive
<1>6. ASSUME NEW o \in Procs, Advance(o) \/ Abort(o), ~ HistorySnapshot(o),
             \A sent \in BOOLEAN : ~ Publish(o, sent)
      PROVE  Leaves(o)
  <2>1. ASSUME NEW pc \in {"deciding", "claiming", "checking", "finishing", "concluding"},
               NEW seen, NEW result,
               req' = [req EXCEPT ![o] = Further(req[o], pc, seen, result, 1, 0, 0)]
        PROVE  Leaves(o)
    <3>. DEFINE X == Further(req[o], pc, seen, result, 1, 0, 0)
    <3>1. req' = [req EXCEPT ![o] = X] /\ X.pc # "snapshotted"
      BY <1>2, <2>1
    <3>. HIDE DEF X
    <3>. QED
      BY <1>4a, <3>1
  <2>2. CASE DecisionRaceLost(o) \/ ExecutionConflict(o) \/ VerificationConflict(o)
             \/ \E result \in {"SUCCEEDED", "FAILED"} : DryRun(o, result)
    BY <1>4b, <2>2 DEF DecisionRaceLost, ExecutionConflict, VerificationConflict, DryRun
  <2>3. CASE Create(o)
    BY <1>4c, <2>3 DEF Create
  <2>4. CASE RecordDecision(o)
    BY <1>4c, <2>4 DEF RecordDecision
  <2>5. CASE FinishExecution(o)
    BY <1>4c, <2>5 DEF FinishExecution
  <2>6. CASE FinishVerification(o)
    BY <1>4c, <2>6 DEF FinishVerification
  <2>7. CASE BeginExecution(o)
    BY <1>4c, <2>7 DEF BeginExecution
  <2>8. CASE BeginVerification(o)
    BY <1>4c, <2>8 DEF BeginVerification
  <2>9. CASE DecideGet(o) \/ ExecuteGet(o) \/ VerifyGet(o)
    BY <1>4b, <2>1, <2>9 DEF DecideGet, ExecuteGet, VerifyGet, Goto
  <2>10. CASE \/ \E result \in {"SUCCEEDED", "FAILED"} : RunExecutor(o, result)
              \/ \E verdict \in {"RECOVERED", "RECOVERY_FAILED"} : Observe(o, verdict)
    BY <2>1, <2>10 DEF RunExecutor, Observe
  <2>11. CASE Respond(o) \/ Abort(o)
    BY <1>3, <1>4a, <2>11 DEF Respond, Abort
  <2>. QED
    BY <1>6, <2>2, <2>3, <2>4, <2>5, <2>6, <2>7, <2>8, <2>9, <2>10, <2>11 DEF Advance
<1>7. ASSUME NEW o \in Procs, NEW sent \in BOOLEAN, Publish(o, sent)
      PROVE  req[p].pc = "snapshotted" /\ req'[p].rec = req[p].rec /\ req'[p].seen = req[p].seen
  <2>1. PICK X : X = Published(req[o], req[o].next + 1)
    OBVIOUS
  <2>2. X.pc = req[o].pc /\ X.rec = req[o].rec /\ X.seen = req[o].seen
    BY <1>2, <2>1 DEF Published
  <2>3. req' = [req EXCEPT ![o] = X]
    BY <1>7, <2>1 DEF Publish
  <2>. QED
    BY <1>0, <2>2, <2>3
<1>8. CASE Tick \/ UNCHANGED vars
  BY <1>8 DEF Tick, vars
<1>9. ASSUME NEW o \in Procs, o # p, HistorySnapshot(o)
      PROVE  req[p].pc = "snapshotted" /\ req'[p].rec = req[p].rec /\ req'[p].seen = req[p].seen
  BY <1>0, <1>9 DEF HistorySnapshot
<1>. QED
  BY <1>4, <1>5, <1>6, <1>7, <1>8, <1>9 DEF Next, Advance

\* What a step does to the time stamps of requests and decisions.
LEMMA StampOrigin ==
  ASSUME IInv, StampsBounded, [Next]_vars
  PROVE  StampsBounded'
<1>0. /\ req \in [Procs -> Requests] /\ approval \in [Rems -> Approvals \cup {NoApproval}]
      /\ now \in Nat /\ \A p \in Procs : req[p].ts \in Nat
  BY DEF IInv, TypeOK, Requests
<1>1. \A pc, r, ts, rec, d, role : Request(pc, r, ts, rec, d, role).ts = ts
  BY DEF Request
<1>2. \A q, pc, seen, result, n, u, reply : Further(q, pc, seen, result, n, u, reply).ts = q.ts
  BY DEF Further
<1>3. Idle.ts = 0
  BY <1>1 DEF Idle
<1>. DEFINE Stamps(o) == \A q \in Procs : req'[q].ts <= now
<1>4. ASSUME NEW o \in Procs, NEW X, req' = [req EXCEPT ![o] = X], X.ts \in {0, now, req[o].ts}
      PROVE  Stamps(o)
  BY <1>0, <1>4 DEF StampsBounded
<1>. HIDE DEF Stamps
<1>5. ASSUME NEW o \in Procs, NEW code, Reply(o, code) PROVE Stamps(o)
  <2>. DEFINE X == Further(Idle, "done", NoHistory, Nothing, 1, 0, code)
  <2>1. req' = [req EXCEPT ![o] = X] /\ X.ts = 0
    BY <1>2, <1>3, <1>5 DEF Reply
  <2>. HIDE DEF X
  <2>. QED
    BY <1>4, <2>1
<1>6. ASSUME NEW o \in Procs, NEW pc, NEW seen, NEW result, NEW n, NEW u, NEW reply,
             req' = [req EXCEPT ![o] = Further(req[o], pc, seen, result, n, u, reply)]
      PROVE  Stamps(o)
  <2>. DEFINE X == Further(req[o], pc, seen, result, n, u, reply)
  <2>1. req' = [req EXCEPT ![o] = X] /\ X.ts = req[o].ts
    BY <1>2, <1>6
  <2>. HIDE DEF X
  <2>. QED
    BY <1>4, <2>1
<1>7. ASSUME NEW o \in Procs, NEW pc, NEW r, NEW rec, NEW d, NEW role,
             req' = [req EXCEPT ![o] = Request(pc, r, now, rec, d, role)]
      PROVE  Stamps(o)
  <2>. DEFINE X == Request(pc, r, now, rec, d, role)
  <2>1. req' = [req EXCEPT ![o] = X] /\ X.ts = now
    BY <1>1, <1>7
  <2>. HIDE DEF X
  <2>. QED
    BY <1>4, <2>1
<1>8. ASSUME NEW o \in Procs, NEW r, NEW events, NEW pc, NEW code,
             CommitWithAudit(o, r, events, pc, code)
      PROVE  Stamps(o)
  BY <1>6, <1>8 DEF CommitWithAudit
<1>9. ASSUME NEW o \in Procs, Arrive(o) PROVE Stamps(o)
  BY <1>5, <1>7, <1>9 DEF Arrive, ProposeUnmappable, ProposeMapped, DecideRequest, ExecuteRequest,
                          VerifyRequest
<1>10. ASSUME NEW o \in Procs, Advance(o) \/ Abort(o) PROVE Stamps(o)
  <2>1. CASE DecisionRaceLost(o) \/ ExecutionConflict(o) \/ VerificationConflict(o)
             \/ \E result \in {"SUCCEEDED", "FAILED"} : DryRun(o, result)
    BY <1>5, <2>1 DEF DecisionRaceLost, ExecutionConflict, VerificationConflict, DryRun
  <2>2. CASE Create(o)
    BY <1>8, <2>2 DEF Create
  <2>3. CASE RecordDecision(o) \/ FinishExecution(o) \/ FinishVerification(o)
             \/ BeginExecution(o) \/ BeginVerification(o)
    BY <1>8, <2>3 DEF RecordDecision, FinishExecution, FinishVerification, BeginExecution,
                      BeginVerification
  <2>4. CASE DecideGet(o) \/ ExecuteGet(o) \/ VerifyGet(o)
    BY <1>5, <1>6, <2>4 DEF DecideGet, ExecuteGet, VerifyGet, Goto
  <2>5. CASE \/ \E result \in {"SUCCEEDED", "FAILED"} : RunExecutor(o, result)
             \/ \E verdict \in {"RECOVERED", "RECOVERY_FAILED"} : Observe(o, verdict)
    <3>1. PICK pc, result : req' = [req EXCEPT ![o] = Further(req[o], pc, NoHistory, result, 1, 0, 0)]
      BY <2>5 DEF RunExecutor, Observe
    <3>. QED
      BY <1>6, <3>1
  <2>5a. CASE HistorySnapshot(o)
    <3>1. PICK seen : req' = [req EXCEPT ![o] = Further(req[o], "snapshotted", seen, Nothing, 1, 0, 0)]
      BY <2>5a DEF HistorySnapshot
    <3>. QED
      BY <1>6, <3>1
  <2>6. CASE \E sent \in BOOLEAN : Publish(o, sent)
    <3>1. req' = [req EXCEPT ![o] = Published(req[o], req[o].next + 1)]
      BY <2>6 DEF Publish
    <3>. QED
      BY <1>6, <3>1 DEF Published
  <2>7. CASE Respond(o) \/ Abort(o)
    BY <1>3, <1>4, <2>7 DEF Respond, Abort
  <2>. QED
    BY <1>10, <2>1, <2>2, <2>3, <2>4, <2>5, <2>5a, <2>6, <2>7 DEF Advance
<1>11. CASE Tick \/ UNCHANGED vars
  <2>1. /\ now' \in Nat /\ now <= now' /\ now' <= MaxTime
        /\ req' = req /\ approval' = approval
    BY <1>0, <1>11, RemediationAssumption DEF Tick, vars, rowVars, StampsBounded
  <2>2. \A r \in Rems : approval[r].at \in Nat
    BY <1>0 DEF Approvals, NoApproval
  <2>. QED
    BY <1>0, <2>1, <2>2 DEF StampsBounded
<1>12. ASSUME NEW o \in Procs, Arrive(o) \/ Advance(o) \/ Abort(o)
       PROVE  now' = now /\ \/ approval' = approval
                            \/ RecordDecision(o)
  <2>1. CASE Arrive(o)
    BY <2>1 DEF Arrive, ProposeUnmappable, ProposeMapped, DecideRequest, ExecuteRequest,
                VerifyRequest, rowVars
  <2>2. CASE Advance(o)
    BY <2>2 DEF Advance, HistorySnapshot, DecideGet, ExecuteGet, VerifyGet, DecisionRaceLost,
                ExecutionConflict, VerificationConflict, DryRun, RunExecutor, Observe, Respond,
                Publish, Create, RecordDecision, BeginExecution, FinishExecution,
                BeginVerification, FinishVerification, rowVars
  <2>3. CASE Abort(o)
    BY <2>3 DEF Abort, rowVars
  <2>. QED
    BY <1>12, <2>1, <2>2, <2>3
<1>13. ASSUME NEW o \in Procs, RecordDecision(o)
       PROVE  \A r \in Rems : approval'[r].at <= now
  <2>1. PICK a : a = [decision |-> req[o].decision, role |-> req[o].role, at |-> req[o].ts]
    OBVIOUS
  <2>2. approval' = [approval EXCEPT ![req[o].rem] = a] /\ a.at = req[o].ts
    BY <1>13, <2>1 DEF RecordDecision
  <2>. QED
    BY <1>0, <2>2 DEF StampsBounded
<1>14. ASSUME NEW o \in Procs, Arrive(o) \/ Advance(o) \/ Abort(o) PROVE StampsBounded'
  <2>1. Stamps(o)
    BY <1>9, <1>10, <1>14
  <2>2. \A r \in Rems : approval'[r].at <= now
    BY <1>12, <1>13, <1>14 DEF StampsBounded
  <2>. QED
    BY <1>12, <1>14, <2>1, <2>2 DEF StampsBounded, Stamps
<1>. QED
  BY <1>11, <1>14 DEF Next

\* The history a request reads is the history of its key.
LEMMA SnapshotIsTrue ==
  ASSUME IInv, StampsBounded, NEW p \in Procs, HistorySnapshot(p)
  PROVE  SnapshotHolds(req[p])'
<1>. DEFINE mine  == {q \in Rems : SameKey(proposal[q], req[p].rec)}
            times == {approval[q].at : q \in {q \in mine : status[q] \in CooldownAnchors}}
            last  == {t \in times : \A u \in times : u <= t}
            seen  == [active |-> \E q \in mine : status[q] \in ActiveSql, lastCompleted |-> last]
            X     == Further(req[p], "snapshotted", seen, Nothing, 1, 0, 0)
<1>1. req' = [req EXCEPT ![p] = X] /\ UNCHANGED rowVars
  BY DEF HistorySnapshot
<1>2. X.seen = seen /\ X.rec = req[p].rec
  <2>. HIDE DEF seen
  <2>. QED
    BY DEF Further
<1>3. times \in SUBSET Nat /\ \A t \in times : t <= MaxTime
  <2>1. \A q \in Rems : approval[q].at \in Nat /\ approval[q].at <= MaxTime
    BY RemediationAssumption DEF IInv, TypeOK, Approvals, NoApproval, StampsBounded
  <2>. QED
    BY <2>1
<1>4. ASSUME NEW t \in times PROVE \E m \in last : t <= m
  <2>. HIDE DEF times
  <2>1. PICK m \in times : \A u \in times : u <= m
    BY <1>3, <1>4, GreatestMember, RemediationAssumption
  <2>. QED
    BY <2>1
<1>5. seen.active = (\E q \in mine : status[q] \in ActiveSql) /\ seen.lastCompleted = last
  OBVIOUS
<1>6. ASSUME NEW r \in Rems, SameKey(proposal[r], req[p].rec), ~ seen.active
      PROVE  /\ status[r] \notin ActiveStatuses
             /\ status[r] = "EXECUTION_FAILED" => \E t \in seen.lastCompleted : approval[r].at <= t
  <2>1. r \in mine /\ status[r] \notin ActiveSql
    BY <1>5, <1>6
  <2>2. status[r] \notin ActiveStatuses
    BY <2>1 DEF ActiveSql, ActiveStatuses, Statuses, TerminalStatuses
  <2>3. ASSUME status[r] = "EXECUTION_FAILED" PROVE \E t \in last : approval[r].at <= t
    <3>1. approval[r].at \in times
      BY <2>1, <2>3 DEF CooldownAnchors
    <3>. QED
      BY <1>4, <3>1
  <2>. QED
    BY <1>5, <2>2, <2>3
<1>7. req'[p].seen = seen /\ req'[p].rec = req[p].rec
  <2>. HIDE DEF X
  <2>. QED
    BY <1>1, <1>2 DEF IInv, TypeOK
<1>. HIDE DEF seen
<1>8. \A r \in Rems : SameKey(proposal[r], req'[p].rec) /\ ~ req'[p].seen.active =>
        /\ status[r] \notin ActiveStatuses
        /\ status[r] = "EXECUTION_FAILED" => \E t \in req'[p].seen.lastCompleted : approval[r].at <= t
  BY <1>6, <1>7
<1>. QED
  BY <1>1, <1>8 DEF SnapshotHolds, rowVars

\* What a creation does to the rows, as far as duplicates are concerned: the row
\* it adds is blocked, or its key had no row in flight and is not cooling down.
LEMMA CreationFacts ==
  ASSUME IInv, NEW p \in Procs, Create(p), NEW r, r = req[p].rem
  PROVE  /\ r \in Rems /\ req[p].pc = "snapshotted" /\ status[r] = Absent
         /\ status'[r] \in {"PENDING_APPROVAL", "BLOCKED"}
         /\ \A s \in Rems \ {r} : status'[s] = status[s] /\ proposal'[s] = proposal[s]
         /\ \A s : SameKey(s, proposal'[r]) <=> SameKey(s, req[p].rec)
         /\ proposal'[r].action = req[p].rec.action
         /\ proposal'[r].created = req[p].ts
         /\ approval' = approval
         /\ status'[r] = "PENDING_APPROVAL" =>
              /\ ~ req[p].seen.active
              /\ \A t \in req[p].seen.lastCompleted : ~ (req[p].ts - t < Cooldown[req[p].rec.action])
<1>. DEFINE rec     == req[p].rec
            expires == req[p].ts + TTL
            outcome == PolicyOutcome(rec, req[p].seen, req[p].ts, expires, req[p].ts)
            final   == IF outcome = "ALLOW" THEN "PENDING_APPROVAL" ELSE "BLOCKED"
            new     == [incident |-> rec.incident, action |-> rec.action,
                        service |-> rec.service, environment |-> rec.environment,
                        created |-> req[p].ts, expires |-> expires]
<1>1. /\ req[p].pc = "snapshotted" /\ approval' = approval
      /\ status' = [status EXCEPT ![r] = final]
      /\ proposal' = [proposal EXCEPT ![r] = new]
  BY DEF Create, At
<1>2. r \in Rems /\ status[r] = Absent
  BY <1>1 DEF IInv, RequestsTyped, RequestsSound, Typed, Sound, Minting
<1>3. /\ new.incident = rec.incident /\ new.action = rec.action /\ new.service = rec.service
      /\ new.environment = rec.environment /\ new.created = req[p].ts
  OBVIOUS
<1>4. outcome = "ALLOW" =>
        /\ ~ req[p].seen.active
        /\ \A t \in req[p].seen.lastCompleted : ~ (req[p].ts - t < Cooldown[req[p].rec.action])
  <2>1. outcome = "ALLOW" => CooldownRule(rec, req[p].seen, req[p].ts) = {}
    BY DEF PolicyOutcome, Violations
  <2>. QED
    BY <2>1 DEF CooldownRule
<1>. HIDE DEF new, outcome
<1>5. status'[r] = final /\ \A s \in Rems \ {r} : status'[s] = status[s]
  BY <1>1, <1>2 DEF IInv, TypeOK
<1>6. proposal'[r] = new /\ \A s \in Rems \ {r} : proposal'[s] = proposal[s]
  BY <1>1, <1>2 DEF IInv, TypeOK
<1>. QED
  BY <1>1, <1>2, <1>3, <1>4, <1>5, <1>6 DEF SameKey

\* While proposals come one at a time, snapshots stay true.
LEMMA SerialSnapshots ==
  ASSUME IInv, StampsBounded, SnapshotsHold, OneProposer, [Next]_vars
  PROVE  SnapshotsHold'
<1>. SUFFICES ASSUME NEW p \in Procs, req'[p].pc = "snapshotted" PROVE SnapshotHolds(req[p])'
  BY DEF SnapshotsHold
<1>1. CASE HistorySnapshot(p)
  BY <1>1, SnapshotIsTrue
<1>2. CASE ~ HistorySnapshot(p)
  <2>1. req[p].pc = "snapshotted" /\ req'[p].rec = req[p].rec /\ req'[p].seen = req[p].seen
    BY <1>2, SnapshotOrigin
  <2>2. ASSUME NEW q \in Procs, Create(q) PROVE FALSE
    <3>1. req[q].pc = "snapshotted"
      BY <2>2 DEF Create, At
    <3>2. q = p
      BY <2>1, <3>1 DEF OneProposer, Minting
    <3>3. req'[p].pc = "done"
      BY <2>2, <3>2, CommitPc DEF Create
    <3>. QED
      BY <3>3
  <2>3. /\ proposal' = proposal
        /\ \A r \in Rems : status[r] \in TerminalStatuses \cup {Absent} => status'[r] = status[r]
    BY <2>2, OnlyCreateCreates
  <2>4. \A r \in Rems : approval[r] # NoApproval => approval'[r] = approval[r]
    BY StepKinds DEF Silent, Publishes, Transacts
  <2>5. ASSUME NEW r \in Rems, SameKey(proposal[r], req[p].rec), ~ req[p].seen.active
        PROVE  /\ status'[r] \notin ActiveStatuses
               /\ status'[r] = "EXECUTION_FAILED" =>
                    \E t \in req[p].seen.lastCompleted : approval'[r].at <= t
    <3>1. /\ status[r] \notin ActiveStatuses
          /\ status[r] = "EXECUTION_FAILED" =>
               \E t \in req[p].seen.lastCompleted : approval[r].at <= t
      BY <2>1, <2>5 DEF SnapshotsHold, SnapshotHolds
    <3>2. status'[r] = status[r]
      <4>1. status[r] \in Statuses \cup {Absent}
        BY DEF IInv, TypeOK
      <4>. QED
        BY <2>3, <3>1, <4>1 DEF ActiveStatuses
    <3>3. status[r] = "EXECUTION_FAILED" => approval[r] # NoApproval
      <4>1. NoApproval.decision = Nothing /\ RowConsistent(r)
        BY DEF NoApproval, IInv, RowsConsistent
      <4>. QED
        BY <4>1 DEF RowConsistent, ApprovedStatuses, Nothing
    <3>. QED
      BY <2>4, <3>1, <3>2, <3>3
  <2>. QED
    BY <2>1, <2>3, <2>5 DEF SnapshotHolds
<1>. QED
  BY <1>1, <1>2

\* A true snapshot keeps two remediations of one key from being in flight.
LEMMA SerialKeys ==
  ASSUME IInv, SnapshotsHold, AtMostOneActivePerKey, [Next]_vars
  PROVE  AtMostOneActivePerKey'
<1>1. CASE \A p \in Procs : ~ Create(p)
  <2>1. \A r \in Rems : status'[r] \in ActiveStatuses => status[r] \in ActiveStatuses
    <3>1. \A r \in Rems : status[r] \in Statuses \cup {Absent}
      BY DEF IInv, TypeOK
    <3>. QED
      BY <1>1, <3>1, OnlyCreateCreates DEF ActiveStatuses, Absent, Statuses
  <2>. QED
    BY <1>1, <2>1, OnlyCreateCreates DEF AtMostOneActivePerKey, SameKey
<1>2. ASSUME NEW p \in Procs, Create(p) PROVE AtMostOneActivePerKey'
  <2>1. PICK r : r = req[p].rem
    OBVIOUS
  <2>2. ASSUME NEW s \in Rems \ {r}, status'[r] \in ActiveStatuses, status'[s] \in ActiveStatuses,
               SameKey(proposal'[s], proposal'[r])
        PROVE  FALSE
    <3>1. status'[r] = "PENDING_APPROVAL" /\ ~ req[p].seen.active
      BY <1>2, <2>1, <2>2, CreationFacts DEF ActiveStatuses, TerminalStatuses
    <3>2. status[s] \in ActiveStatuses /\ SameKey(proposal[s], req[p].rec)
      BY <1>2, <2>1, <2>2, CreationFacts
    <3>3. SnapshotHolds(req[p])
      BY <1>2, <2>1, CreationFacts DEF SnapshotsHold
    <3>. QED
      BY <3>1, <3>2, <3>3 DEF SnapshotHolds
  <2>3. ASSUME NEW a \in Rems \ {r}, NEW b \in Rems \ {r}, a # b,
               status'[a] \in ActiveStatuses, status'[b] \in ActiveStatuses,
               SameKey(proposal'[a], proposal'[b])
        PROVE  FALSE
    BY <1>2, <2>1, <2>3, CreationFacts DEF AtMostOneActivePerKey
  <2>4. \A a, b \in Rems : SameKey(proposal'[a], proposal'[b]) => SameKey(proposal'[b], proposal'[a])
    BY DEF SameKey
  <2>. QED
    BY <2>2, <2>3, <2>4 DEF AtMostOneActivePerKey, SameKey
<1>. QED
  BY <1>1, <1>2

\* A true snapshot keeps the key of a failed run cooling down.
LEMMA SerialCooldown ==
  ASSUME IInv, SnapshotsHold, [Next]_vars, NEW r \in Rems, NEW s \in Rems,
         status[r] = "EXECUTION_FAILED", AllowedInCooldown(s, r)
  PROVE  FALSE
<1>1. PICK p \in Procs : Create(p)
  BY OnlyCreateCreates DEF AllowedInCooldown, Absent
<1>2. s = req[p].rem
  BY <1>1, CreationFacts DEF AllowedInCooldown, Absent
<1>3. /\ req[p].pc = "snapshotted" /\ ~ req[p].seen.active
      /\ \A t \in req[p].seen.lastCompleted : ~ (req[p].ts - t < Cooldown[req[p].rec.action])
      /\ SameKey(proposal[r], req[p].rec)
      /\ proposal'[s].created = req[p].ts
  BY <1>1, <1>2, CreationFacts DEF AllowedInCooldown
<1>4. PICK t \in req[p].seen.lastCompleted : approval[r].at <= t
  BY <1>3 DEF SnapshotsHold, SnapshotHolds
<1>5. /\ approval[r].at \in Nat /\ t \in Nat /\ req[p].ts \in Nat
      /\ proposal[r].action = req[p].rec.action
      /\ Cooldown[proposal[r].action] \in Nat
  <2>1. proposal[r] \in Proposals
    BY DEF IInv, RowsConsistent, RowConsistent, Absent
  <2>2. req[p] \in Requests /\ approval[r] \in Approvals \cup {NoApproval}
    BY DEF IInv, TypeOK
  <2>. QED
    BY <1>3, <1>4, <2>1, <2>2, CooldownAssumption DEF Proposals, Requests, Approvals, NoApproval, SameKey
<1>. QED
  BY <1>3, <1>4, <1>5 DEF AllowedInCooldown

\* The invariant of a controller that handles one proposal at a time.
LEMMA SerialInductive ==
  Spec /\ []OneProposer => [](IInv /\ StampsBounded /\ SnapshotsHold /\ AtMostOneActivePerKey)
<1>1. Init => IInv /\ StampsBounded /\ SnapshotsHold /\ AtMostOneActivePerKey
  <2>. SUFFICES ASSUME Init PROVE StampsBounded /\ SnapshotsHold /\ AtMostOneActivePerKey
    BY InitIInv
  <2>1. Idle.ts = 0 /\ Idle.pc = "idle" /\ NoApproval.at = 0
    BY DEF Idle, Request, NoApproval
  <2>2. StampsBounded
    BY <2>1, RemediationAssumption DEF Init, StampsBounded
  <2>3. SnapshotsHold
    BY <2>1 DEF Init, SnapshotsHold
  <2>4. AtMostOneActivePerKey
    BY DEF Init, AtMostOneActivePerKey, ActiveStatuses, Statuses, Absent
  <2>. QED
    BY <2>2, <2>3, <2>4
<1>2. IInv /\ StampsBounded /\ SnapshotsHold /\ AtMostOneActivePerKey /\ OneProposer /\ [Next]_vars
      => (IInv /\ StampsBounded /\ SnapshotsHold /\ AtMostOneActivePerKey)'
  BY NextIInv, StampOrigin, SerialSnapshots, SerialKeys
<1>. QED
  BY <1>1, <1>2, PTL DEF Spec

\* As long as no two proposals are between their snapshot and their creation at
\* the same time, two remediations of one key are never both in flight.
THEOREM SerialUniqueness == Spec /\ []OneProposer => []AtMostOneActivePerKey
  BY SerialInductive, PTL

\* As long as no two proposals are between their snapshot and their creation at
\* the same time, the key of a failed run stays blocked for its cooldown.
THEOREM SerialCoolsDown == Spec /\ []OneProposer => FailedRunCoolsDown
<1>1. IInv /\ SnapshotsHold /\ [Next]_vars =>
        [\A r, s \in Rems : status[r] = "EXECUTION_FAILED" => ~ AllowedInCooldown(s, r)]_vars
  BY SerialCooldown
<1>. QED
  BY <1>1, SerialInductive, PTL DEF Spec, FailedRunCoolsDown

\* A controller that serves one request at a time has neither duplicates in
\* flight nor a failed run proposed again within its cooldown.
COROLLARY OneRequestAtATime ==
  ASSUME \A p, q \in Procs : p = q
  PROVE  Spec => []AtMostOneActivePerKey /\ FailedRunCoolsDown
<1>1. OneProposer
  BY DEF OneProposer
<1>. QED
  BY <1>1, SerialUniqueness, SerialCoolsDown, PTL

-----------------------------------------------------------------------------
(* The abstract lifecycle.                                                 *)

\* An empty database is an initial state of the lifecycle.
LEMMA InitRefines == Init => Lifecycle!LInit
  BY DEF Init, Lifecycle!LInit, NoProposal, NoApproval, Absent, Nothing,
         Lifecycle!Nothing

Still == UNCHANGED <<status, proposal, approval, applied>>

\* What leaves the row's lifecycle columns alone is a stuttering step.
LEMMA StillStutters == Still => UNCHANGED Lifecycle!lvars
  BY DEF Still, Lifecycle!lvars

\* create is LPropose.
LEMMA CreateRefines ==
  ASSUME IInv, NEW p \in Procs, Create(p)
  PROVE  Lifecycle!LNext
<1>0. PICK r, a, to : r = req[p].rem /\ a = req[p].rec.action /\ to = status'[r]
  OBVIOUS
<1>1. /\ r \in Rems /\ status[r] = Absent /\ a \in ActionTypes
      /\ req[p].pc = "snapshotted"
  BY <1>0 DEF IInv, RequestsTyped, RequestsSound, Typed, Sound, Create, At, Minting,
              IsMappable, RcaActionMap, ActionTypes
<1>2. to \in {"PENDING_APPROVAL", "BLOCKED"} /\ status' = [status EXCEPT ![r] = to]
  BY <1>0, <1>1 DEF Create, IInv, TypeOK
<1>3. /\ \A s \in Rems \ {r} : proposal'[s] = proposal[s]
      /\ proposal'[r].action = a
      /\ UNCHANGED <<approval, applied>>
  BY <1>0, <1>1 DEF Create, IInv, TypeOK
<1>4. Lifecycle!LPropose(r, a, to)
  BY <1>1, <1>2, <1>3 DEF Lifecycle!LPropose, Absent
<1>5. a \in Lifecycle!ActionTypes /\ to \in Lifecycle!Statuses
  BY <1>1, <1>2 DEF ActionTypes, Lifecycle!ActionTypes, Lifecycle!Statuses
<1>. QED
  BY <1>1, <1>4, <1>5 DEF Lifecycle!LNext

\* record_decision is LApprove or LReject.
LEMMA RecordDecisionRefines ==
  ASSUME IInv, NEW p \in Procs, RecordDecision(p)
  PROVE  Lifecycle!LNext
<1>. PICK r, role : r = req[p].rem /\ role = req[p].role
  OBVIOUS
<1>. DEFINE q == req[p]
            final == IF q.decision = "APPROVE" THEN "APPROVED" ELSE "REJECTED"
<1>1. /\ q.pc = "deciding" /\ approval[r] = NoApproval
      /\ status' = [status EXCEPT ![r] = final]
      /\ approval' = [approval EXCEPT ![r] =
                        [decision |-> q.decision, role |-> role, at |-> q.ts]]
      /\ UNCHANGED <<proposal, applied>>
  BY DEF RecordDecision, At, StillUndecided
<1>2. /\ r \in Rems /\ q.decision \in Decisions /\ role \in RouteRoles
      /\ Sound(q) /\ RowConsistent(r)
  BY <1>1 DEF IInv, RequestsTyped, RequestsSound, RowsConsistent, Typed
<1>3. status[r] = "PENDING_APPROVAL"
  BY <1>1, <1>2 DEF Sound, RowConsistent, NoApproval, Nothing, Absent
<1>4. CASE q.decision = "APPROVE"
  <2>1. CanApprove(role, proposal[r].action)
    BY <1>1, <1>2, <1>4 DEF Sound
  <2>2. Lifecycle!CanApprove(role, [s \in Rems |-> proposal[s].action][r])
    BY <1>2, <2>1 DEF CanApprove, RiskLevel, ApprovableRisks, Lifecycle!CanApprove,
                      Lifecycle!RiskLevel, Lifecycle!ApprovableRisks
  <2>3. Lifecycle!Move(r, "APPROVED")
    BY <1>1, <1>3, <1>4 DEF Lifecycle!Move, Lifecycle!AllowedTransitions
  <2>4. Lifecycle!LApprove(r, role)
    BY <1>1, <1>2, <1>4, <2>2, <2>3 DEF Lifecycle!LApprove, IInv, TypeOK, Nothing
  <2>5. role \in Lifecycle!ApproverRoles
    BY <1>2 DEF Lifecycle!ApproverRoles, RouteRoles
  <2>. HIDE DEF q
  <2>. QED
    BY <1>2, <2>4, <2>5 DEF Lifecycle!LNext
<1>5. CASE q.decision = "REJECT"
  <2>1. Lifecycle!Move(r, "REJECTED")
    BY <1>1, <1>3, <1>5 DEF Lifecycle!Move, Lifecycle!AllowedTransitions
  <2>2. Lifecycle!LReject(r)
    BY <1>1, <1>2, <1>5, <2>1 DEF Lifecycle!LReject, IInv, TypeOK, NoApproval, Nothing
  <2>. QED
    BY <1>2, <2>2 DEF Lifecycle!LNext
<1>. QED
  BY <1>2, <1>4, <1>5 DEF Decisions

\* begin_execution is LClaim.
LEMMA BeginExecutionRefines ==
  ASSUME IInv, NEW p \in Procs, BeginExecution(p)
  PROVE  Lifecycle!LNext
<1>1. req[p].rem \in Rems
  BY DEF IInv, RequestsTyped, Typed, BeginExecution, At
<1>2. Lifecycle!LClaim(req[p].rem)
  BY DEF BeginExecution, Claimable, Lifecycle!LClaim, Lifecycle!Move,
         Lifecycle!AllowedTransitions
<1>. QED
  BY <1>1, <1>2 DEF Lifecycle!LNext

\* A run of the executor is LApply if it succeeds and invisible if it fails.
LEMMA RunExecutorRefines ==
  ASSUME IInv, NEW p \in Procs, NEW result \in {"SUCCEEDED", "FAILED"},
         RunExecutor(p, result)
  PROVE  Lifecycle!LNext \/ Still
<1>. DEFINE r == req[p].rem
<1>1. /\ r \in Rems /\ status[r] = "EXECUTING" /\ applied[r] = 0
      /\ UNCHANGED <<status, proposal, approval>>
  BY DEF IInv, RequestsTyped, RequestsSound, Typed, Sound, RunExecutor, At, Executing,
         rowVars
<1>2. CASE result = "SUCCEEDED"
  <2>1. Lifecycle!LApply(r)
    BY <1>1, <1>2 DEF RunExecutor, Lifecycle!LApply
  <2>. QED
    BY <1>1, <2>1 DEF Lifecycle!LNext
<1>3. CASE result = "FAILED"
  <2>1. applied' = applied
    BY <1>1, <1>3 DEF RunExecutor, IInv, TypeOK
  <2>. QED
    BY <1>1, <2>1 DEF Still
<1>. QED
  BY <1>2, <1>3

\* finish_execution is LFinish: what it records is what the executor did.
LEMMA FinishExecutionRefines ==
  ASSUME IInv, NEW p \in Procs, FinishExecution(p)
  PROVE  Lifecycle!LNext
<1>. DEFINE r == req[p].rem
<1>1. /\ r \in Rems /\ req[p].result \in {"SUCCEEDED", "FAILED"}
      /\ applied[r] = IF req[p].result = "SUCCEEDED" THEN 1 ELSE 0
  BY DEF IInv, RequestsTyped, RequestsSound, Typed, Sound, FinishExecution, At
<1>2. /\ status[r] = "EXECUTING"
      /\ status' = [status EXCEPT ![r] = IF applied[r] = 1 THEN "EXECUTED"
                                                         ELSE "EXECUTION_FAILED"]
      /\ UNCHANGED <<proposal, approval, applied>>
  <2>1. CASE req[p].result = "SUCCEEDED"
    BY <1>1, <2>1 DEF FinishExecution
  <2>2. CASE req[p].result = "FAILED"
    BY <1>1, <2>2 DEF FinishExecution
  <2>. QED
    BY <1>1, <2>1, <2>2
<1>3. Lifecycle!LFinish(r)
  BY <1>2 DEF Lifecycle!LFinish, Lifecycle!Move, Lifecycle!AllowedTransitions
<1>. QED
  BY <1>1, <1>3 DEF Lifecycle!LNext

\* The two transactions of a verification are LVerify.
LEMMA VerificationRefines ==
  ASSUME IInv, NEW p \in Procs, BeginVerification(p) \/ FinishVerification(p)
  PROVE  Lifecycle!LNext
<1>. DEFINE r == req[p].rem
<1>1. /\ r \in Rems
      /\ FinishVerification(p) => req[p].result \in {"RECOVERED", "RECOVERY_FAILED"}
  BY DEF IInv, RequestsTyped, Typed, BeginVerification, FinishVerification, At
<1>2. Lifecycle!LVerify(r)
  BY <1>1 DEF BeginVerification, FinishVerification, Verifiable, Lifecycle!LVerify,
              Lifecycle!Move, Lifecycle!AllowedTransitions
<1>. QED
  BY <1>1, <1>2 DEF Lifecycle!LNext

\* Every step of the controller is a step of the lifecycle or stutters.
LEMMA NextRefines == IInv /\ [Next]_vars => [Lifecycle!LNext]_(Lifecycle!lvars)
<1>. SUFFICES ASSUME IInv, [Next]_vars
              PROVE  Lifecycle!LNext \/ Still
  BY StillStutters
<1>1. CASE Tick \/ UNCHANGED vars
  BY <1>1 DEF Tick, vars, rowVars, Still
<1>2. ASSUME NEW p \in Procs, Arrive(p) \/ Abort(p) PROVE Still
  BY <1>2 DEF Arrive, Abort, ProposeUnmappable, ProposeMapped, DecideRequest,
              ExecuteRequest, VerifyRequest, rowVars, Still
<1>3. ASSUME NEW p \in Procs, Advance(p) PROVE Lifecycle!LNext \/ Still
  <2>1. CASE \/ HistorySnapshot(p) \/ DecideGet(p) \/ DecisionRaceLost(p)
             \/ ExecuteGet(p) \/ ExecutionConflict(p)
             \/ \E result \in {"SUCCEEDED", "FAILED"} : DryRun(p, result)
             \/ VerifyGet(p) \/ VerificationConflict(p)
             \/ \E verdict \in {"RECOVERED", "RECOVERY_FAILED"} : Observe(p, verdict)
             \/ \E sent \in BOOLEAN : Publish(p, sent)
             \/ Respond(p)
    BY <2>1 DEF HistorySnapshot, DecideGet, DecisionRaceLost, ExecuteGet, DryRun,
                ExecutionConflict, VerifyGet, VerificationConflict, Observe, Publish,
                Respond, rowVars, Still
  <2>. QED
    BY <1>3, <2>1, CreateRefines, RecordDecisionRefines, BeginExecutionRefines,
       RunExecutorRefines, FinishExecutionRefines, VerificationRefines
    DEF Advance
<1>. QED
  BY <1>1, <1>2, <1>3 DEF Next

\* The controller, with its races, deaths and delayed publications, implements
\* the lifecycle: RemediationService over SqlRemediationRepository keeps the
\* promises of RemediationLifecycle for every instance.
THEOREM Refinement == Spec => LifecycleSpec
  BY InitRefines, NextRefines, Inductive, PTL DEF Spec, LifecycleSpec, Lifecycle!LSpec
=============================================================================
