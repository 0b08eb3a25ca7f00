--------------------------- MODULE EscalationProofs ---------------------------
(***************************************************************************)
(* Safety of the escalation for any policies, workers and requests: its    *)
(* types, that no action is dispatched twice, that steps are climbed in    *)
(* order and none is lost, that only an exhausted ladder fails, and that   *)
(* an answer ends the escalation for good.                                 *)
(***************************************************************************)
EXTENDS Escalation, SequenceTheorems, TLAPS

-----------------------------------------------------------------------------
(* The rows *)

\* A relabelling of the attempts is a sequence of as many attempts.
LEMMA Relabeled ==
  ASSUME attempts \in Seq(Attempt), NEW f \in [Ids -> Attempt]
  PROVE  /\ f \in Seq(Attempt)
         /\ Len(f) = Len(attempts)
         /\ DOMAIN f = Ids
<1>1. Len(attempts) \in Nat /\ Ids = 1..Len(attempts)
  BY LenProperties DEF Ids
<1>2. f \in Seq(Attempt)
  BY <1>1, SeqDef
<1>3. DOMAIN f = 1..Len(f) /\ Len(f) \in Nat
  BY <1>2, LenProperties
<1> QED
  BY <1>1, <1>2, <1>3

\* The rows a batch appends follow those there were.
LEMMA Concatenated ==
  ASSUME NEW s \in Seq(Attempt), NEW t \in Seq(Attempt)
  PROVE  /\ DOMAIN (s \o t) = 1..(Len(s) + Len(t))
         /\ \A i \in 1..Len(s) : (s \o t)[i] = s[i]
         /\ \A j \in 1..Len(t) : (s \o t)[Len(s) + j] = t[j]
<1>1. /\ s \o t \in Seq(Attempt) /\ Len(s \o t) = Len(s) + Len(t)
      /\ \A i \in 1..(Len(s) + Len(t)) :
           (s \o t)[i] = IF i <= Len(s) THEN s[i] ELSE t[i - Len(s)]
  BY ConcatProperties
<1>2. Len(s) \in Nat /\ Len(t) \in Nat
  BY LenProperties
<1>3. ASSUME NEW j \in 1..Len(t) PROVE (s \o t)[Len(s) + j] = t[j]
  <2>1. Len(s) + j \in 1..(Len(s) + Len(t)) /\ ~(Len(s) + j <= Len(s))
    BY <1>2
  <2>2. (Len(s) + j) - Len(s) = j
    BY <1>2
  <2> QED
    BY <1>1, <2>1, <2>2
<1>4. ASSUME NEW i \in 1..Len(s) PROVE (s \o t)[i] = s[i]
  <2>1. i \in 1..(Len(s) + Len(t)) /\ i <= Len(s)
    BY <1>2
  <2> QED
    BY <1>1, <2>1
<1> QED
  BY <1>1, <1>3, <1>4, LenProperties

\* What dispatch_next_action decides is one of its three outcomes, with a step
\* and a key of some policy when it takes one.
LEMMA DecisionsTyped ==
  ASSUME policy \in Policies, NEW next \in Decisions
  PROVE  /\ next \in Outcome
         /\ next.to \in {"WAITING_ACK", "COMPLETED", "FAILED"}
         /\ next.to = "WAITING_ACK" => next.step \in Steps /\ next.key \in Keys
<1>1. CASE next = [to |-> "FAILED", step |-> 0, key |-> "NONE"]
  BY <1>1 DEF Outcome
<1>2. CASE next = [to |-> "COMPLETED", step |-> 0, key |-> "NONE"]
  BY <1>2 DEF Outcome
<1>3. ASSUME NEW s \in FirstUntried,
             next = [to |-> "WAITING_ACK", step |-> s, key |-> policy[s + 1]]
      PROVE  next \in Outcome /\ next.step \in Steps /\ next.key \in Keys
  <2>1. s \in Steps /\ s + 1 \in DOMAIN policy
    BY DEF FirstUntried, Untried
  <2>2. policy[s + 1] \in Keys
    BY <2>1 DEF Keys
  <2> QED
    BY <1>3, <2>1, <2>2 DEF Outcome
<1> QED
  BY <1>1, <1>2, <1>3 DEF Decisions

LEMMA NewAttemptTyped ==
  ASSUME NEW next, next.step \in Steps, next.key \in Keys
  PROVE  NewAttempt(next) \in Attempt
  BY DEF NewAttempt, Attempt

LEMMA OutcomeTaken ==
  ASSUME NEW next \in Outcome, next.to = "WAITING_ACK"
  PROVE  next.step \in Steps /\ next.key \in Keys
  BY DEF Outcome, NoAction

\* An attempt after a write to its state and to its timer's status.
Rewritten(a, s, t) == [a EXCEPT !.state = s, !.timer = t]

AttemptState == {"DISPATCHED", "EXECUTED", "ACKNOWLEDGED", "FAILED"}
TimerStatus == {"PENDING", "DONE", "CANCELED"}

LEMMA AttemptRewritten ==
  ASSUME NEW a \in Attempt, NEW s \in AttemptState, NEW t \in TimerStatus
  PROVE  /\ Rewritten(a, s, t) \in Attempt
         /\ Rewritten(a, s, t).step = a.step
         /\ Rewritten(a, s, t).key = a.key
  BY DEF Attempt, Rewritten, AttemptState, TimerStatus

\* Writes of that kind to every attempt leave the actions.
LEMMA AttemptsRewritten ==
  ASSUME NEW rows \in [Ids -> Attempt],
         NEW S \in [Ids -> AttemptState], NEW T \in [Ids -> TimerStatus]
  PROVE  LET written == [i \in Ids |-> Rewritten(rows[i], S[i], T[i])]
         IN  /\ written \in [Ids -> Attempt]
             /\ \A i \in Ids : /\ written[i].step = rows[i].step
                               /\ written[i].key = rows[i].key
<1>1. ASSUME NEW i \in Ids
      PROVE  /\ Rewritten(rows[i], S[i], T[i]) \in Attempt
             /\ Rewritten(rows[i], S[i], T[i]).step = rows[i].step
             /\ Rewritten(rows[i], S[i], T[i]).key = rows[i].key
  <2>1. rows[i] \in Attempt /\ S[i] \in AttemptState /\ T[i] \in TimerStatus
    OBVIOUS
  <2> QED
    BY <2>1, AttemptRewritten
<1> QED
  BY <1>1

\* The states and timer statuses an attempt is in already.
LEMMA AttemptFields ==
  ASSUME TypeOK, NEW i \in Ids
  PROVE  attempts[i].state \in AttemptState /\ attempts[i].timer \in TimerStatus
<1>1. attempts[i] \in Attempt
  BY LenProperties DEF TypeOK, Ids
<1> QED
  BY <1>1 DEF Attempt, AttemptState, TimerStatus

\* What an answer writes to the attempts.
LEMMA AnswerRewrites ==
  ASSUME TypeOK, NEW c \in Callers, AnswerCommit(c)
  PROVE  /\ attempts' \in [Ids -> Attempt]
         /\ \A i \in Ids : /\ attempts'[i].step = attempts[i].step
                           /\ attempts'[i].key = attempts[i].key
<1> DEFINE canceled == tx[c].todo \cap LiveTimers
           S == [i \in Ids |-> IF tx[c].op = "ack" /\ i = tx[c].target
                               THEN "ACKNOWLEDGED" ELSE attempts[i].state]
           T == [i \in Ids |-> IF i \in canceled
                               THEN "CANCELED" ELSE attempts[i].timer]
<1>1. attempts \in [Ids -> Attempt]
  BY LenProperties DEF TypeOK, Ids
<1>2. attempts' = [i \in Ids |-> Rewritten(attempts[i], S[i], T[i])]
  BY DEF AnswerCommit, Rewritten
<1>3. S \in [Ids -> AttemptState]
  BY AttemptFields DEF AttemptState
<1>4. T \in [Ids -> TimerStatus]
  BY AttemptFields DEF TimerStatus
<1> HIDE DEF S, T
<1> QED
  BY <1>1, <1>2, <1>3, <1>4, AttemptsRewritten

\* What a failure report writes to the attempts.
LEMMA FailureRewrites ==
  ASSUME TypeOK, NEW c \in Callers
  PROVE  LET failed == [i \in Ids |->
                          [attempts[i] EXCEPT
                              !.state = IF i = tx[c].target THEN "FAILED" ELSE @,
                              !.timer = IF i \in tx[c].timers THEN "CANCELED" ELSE @]]
         IN  /\ failed \in [Ids -> Attempt]
             /\ \A i \in Ids : /\ failed[i].step = attempts[i].step
                               /\ failed[i].key = attempts[i].key
<1> DEFINE S == [i \in Ids |-> IF i = tx[c].target
                               THEN "FAILED" ELSE attempts[i].state]
           T == [i \in Ids |-> IF i \in tx[c].timers
                               THEN "CANCELED" ELSE attempts[i].timer]
           written == [i \in Ids |-> Rewritten(attempts[i], S[i], T[i])]
<1>1. attempts \in [Ids -> Attempt]
  BY LenProperties DEF TypeOK, Ids
<1>2. S \in [Ids -> AttemptState]
  BY AttemptFields DEF AttemptState
<1>3. T \in [Ids -> TimerStatus]
  BY AttemptFields DEF TimerStatus
<1>4. /\ written \in [Ids -> Attempt]
      /\ \A i \in Ids : /\ written[i].step = attempts[i].step
                        /\ written[i].key = attempts[i].key
  <2> HIDE DEF S, T
  <2> QED
    BY <1>1, <1>2, <1>3, AttemptsRewritten
<1> QED
  BY <1>4 DEF Rewritten

\* What a report of success writes to the attempts.
LEMMA ExecutedRewrites ==
  ASSUME TypeOK, NEW c \in Callers, ActionExecutedCommit(c)
  PROVE  /\ attempts' \in [Ids -> Attempt]
         /\ \A i \in Ids : /\ attempts'[i].step = attempts[i].step
                           /\ attempts'[i].key = attempts[i].key
<1>1. attempts \in [Ids -> Attempt]
  BY LenProperties DEF TypeOK, Ids
<1>2. attempts' = [attempts EXCEPT ![tx[c].target].state = "EXECUTED"]
  BY DEF ActionExecutedCommit
<1>3. ASSUME NEW a \in Attempt
      PROVE  /\ [a EXCEPT !.state = "EXECUTED"] \in Attempt
             /\ [a EXCEPT !.state = "EXECUTED"].step = a.step
             /\ [a EXCEPT !.state = "EXECUTED"].key = a.key
  BY DEF Attempt
<1> DEFINE E(a) == [a EXCEPT !.state = "EXECUTED"]
<1>4. attempts' = [attempts EXCEPT ![tx[c].target] = E(attempts[tx[c].target])]
  BY <1>2
<1>5. \A a \in Attempt : E(a) \in Attempt /\ E(a).step = a.step /\ E(a).key = a.key
  BY <1>3
<1> HIDE DEF E
<1> QED
  BY <1>1, <1>4, <1>5

LEMMA IdleTyped == Idle \in Transaction
<1>1. <<>> \in Seq(Attempt)
  BY EmptySeq
<1> QED
  BY <1>1 DEF Idle, Transaction, InteractionState, Outcome

-----------------------------------------------------------------------------
(* Types *)

\* A transaction about to flush has a decision to flush, and a timer's is
\* always the next action.
Decided ==
    \A p \in Processes :
        tx[p].pc = "flush" =>
            /\ tx[p].next.to \in {"WAITING_ACK", "COMPLETED", "FAILED"}
            /\ tx[p].op = "timers" => tx[p].next.to = "WAITING_ACK"

TypeInv == TypeOK /\ Decided

LEMMA TypeInit == Init => TypeInv
<1> SUFFICES ASSUME Init PROVE TypeInv
  OBVIOUS
<1>1. <<>> \in Seq(Attempt)
  BY EmptySeq
<1>2. tx \in [Processes -> Transaction]
  BY IdleTyped DEF Init
<1>3. 0 \in 0..MaxCrashes
  BY CrashAssumption
<1> QED
  BY <1>1, <1>2, <1>3 DEF Init, TypeInv, TypeOK, Decided, InteractionState, Idle

\* A commit rewrites the attempts, or leaves them, and closes the transaction.
LEMMA RollbackTyped ==
  ASSUME TypeInv, NEW p \in Processes, Rollback(p)
  PROVE  tx' \in [Processes -> Transaction] /\ Decided'
  BY IdleTyped DEF TypeInv, TypeOK, Decided, Rollback, Idle

\* A process changes its transaction for one of the right type.
LEMMA TransactionTyped ==
  ASSUME TypeInv, NEW p \in Processes, NEW r \in Transaction,
         tx' = [tx EXCEPT ![p] = r],
         r.pc = "flush" =>
             /\ r.next.to \in {"WAITING_ACK", "COMPLETED", "FAILED"}
             /\ r.op = "timers" => r.next.to = "WAITING_ACK"
  PROVE  tx' \in [Processes -> Transaction] /\ Decided'
  BY DEF TypeInv, TypeOK, Decided

LEMMA TypeRequest ==
  ASSUME TypeInv, NEW c \in Callers, Request(c)
  PROVE  TypeInv'
<1> USE DEF TypeInv, TypeOK
<1>0. c \in Processes
  BY DEF Processes
<1>1. ASSUME NEW pc \in {"update", "write"},
             NEW op \in {"fail", "ack", "human", "executed"}, NEW a \in Nat,
             Begin(c, pc, op, a)
      PROVE  tx' \in [Processes -> Transaction] /\ Decided'
  BY <1>0, <1>1, IdleTyped DEF Begin, Transaction, Idle, Decided
<1>2. ASSUME NEW a \in Ids PROVE a \in Nat
  BY <1>2, LenProperties DEF Ids
<1>3. CASE \E a \in Ids : ActionFailedRead(c, a)
  BY <1>1, <1>2, <1>3 DEF ActionFailedRead
<1>4. CASE \E a \in Ids : AcknowledgeRead(c, a)
  BY <1>1, <1>2, <1>4 DEF AcknowledgeRead
<1>5. CASE \E a \in Ids : ActionExecutedRead(c, a)
  BY <1>1, <1>2, <1>5 DEF ActionExecutedRead
<1>6. CASE HumanReplyRead(c)
  BY <1>1, <1>6 DEF HumanReplyRead
<1>7. CASE ForceNextTimer(c)
  <2>1. PICK i \in LiveTimers : Claim(c, {i})
    BY <1>7 DEF ForceNextTimer
  <2>2. i \in Nat
    BY <2>1, <1>2 DEF LiveTimers
  <2> DEFINE r == [Idle EXCEPT !.pc = "timers", !.op = "timers",
                               !.timers = {i}, !.todo = {i}]
  <2>3. r \in Transaction /\ r.pc # "flush"
    BY <2>2, IdleTyped DEF Transaction, Idle
  <2>4. tx' = [tx EXCEPT ![c] = r]
    BY <2>1 DEF Claim
  <2> HIDE DEF r
  <2>5. tx' \in [Processes -> Transaction] /\ Decided'
    BY <1>0, <2>3, <2>4, TransactionTyped
  <2> QED
    BY <2>1, <2>5 DEF Claim
<1> QED
  BY <1>3, <1>4, <1>5, <1>6, <1>7 DEF Request

LEMMA TypeRequestStep ==
  ASSUME TypeInv, NEW c \in Callers,
         \/ ActionFailedDispatch(c) \/ ActionFailedCommit(c)
         \/ CancelTimersSnapshot(c) \/ AnswerCommit(c) \/ ActionExecutedCommit(c)
  PROVE  TypeInv'
<1> USE DEF TypeInv, TypeOK
<1>0. c \in Processes /\ tx[c] \in Transaction
  BY DEF Processes
<1>1. Len(attempts) \in Nat /\ Ids = 1..Len(attempts) /\ attempts \in [Ids -> Attempt]
  BY LenProperties DEF Ids
<1>2. CASE ActionFailedDispatch(c)
  <2>1. PICK next \in Decisions :
          tx' = [tx EXCEPT ![c].pc = "flush", ![c].next = next,
                           ![c].timers = IF Live(tx[c].target)
                                         THEN {tx[c].target} ELSE {}]
    BY <1>2 DEF ActionFailedDispatch
  <2>2. next \in Outcome /\ next.to \in {"WAITING_ACK", "COMPLETED", "FAILED"}
    BY DecisionsTyped
  <2> DEFINE r == [tx[c] EXCEPT !.pc = "flush", !.next = next,
                                !.timers = IF Live(tx[c].target)
                                           THEN {tx[c].target} ELSE {}]
  <2>a. r \in Transaction /\ r.next = next /\ r.op = "fail"
    BY <1>0, <1>2, <2>2 DEF Transaction, ActionFailedDispatch
  <2>b. tx' = [tx EXCEPT ![c] = r]
    BY <1>0, <2>1
  <2> HIDE DEF r
  <2>3. tx' \in [Processes -> Transaction] /\ Decided'
    BY <1>0, <2>2, <2>a, <2>b, TransactionTyped
  <2> QED
    BY <1>2, <2>3 DEF ActionFailedDispatch
<1>3. CASE ActionFailedCommit(c)
  <2> DEFINE failed ==
        [i \in Ids |->
            [attempts[i] EXCEPT
                !.state = IF i = tx[c].target THEN "FAILED" ELSE @,
                !.timer = IF i \in tx[c].timers THEN "CANCELED" ELSE @]]
             next == tx[c].next
  <2>1. failed \in [Ids -> Attempt]
    BY FailureRewrites
  <2>2. failed \in Seq(Attempt)
    BY <2>1, Relabeled
  <2>3. next \in Outcome
    BY <1>0 DEF Transaction
  <2>4. next.to = "WAITING_ACK" => NewAttempt(next) \in Attempt
    BY <2>3, OutcomeTaken, NewAttemptTyped
  <2>5. next.to = "WAITING_ACK" => Append(failed, NewAttempt(next)) \in Seq(Attempt)
    BY <2>2, <2>4, AppendProperties
  <2>6. next.to \in {"WAITING_ACK", "COMPLETED", "FAILED"}
    BY <1>0, <1>3 DEF ActionFailedCommit, Decided
  <2>7. Rollback(c) /\ UNCHANGED <<policy, answered, reported, crashes>>
    BY <1>3 DEF ActionFailedCommit
  <2>8. attempts' \in Seq(Attempt) /\ state' \in InteractionState
    BY <1>3, <2>2, <2>5, <2>6 DEF ActionFailedCommit, InteractionState
  <2> QED
    BY <1>0, <2>7, <2>8, RollbackTyped
<1>4. CASE CancelTimersSnapshot(c)
  <2>1. LiveTimers \subseteq Nat
    BY <1>1 DEF LiveTimers
  <2> DEFINE r == [tx[c] EXCEPT !.pc = "locking", !.todo = LiveTimers]
  <2>a. r \in Transaction /\ r.pc # "flush"
    BY <1>0, <2>1 DEF Transaction
  <2>b. tx' = [tx EXCEPT ![c] = r]
    BY <1>0, <1>4 DEF CancelTimersSnapshot
  <2> HIDE DEF r
  <2>2. tx' \in [Processes -> Transaction] /\ Decided'
    BY <1>0, <2>a, <2>b, TransactionTyped
  <2> QED
    BY <1>4, <2>2 DEF CancelTimersSnapshot
<1>5. CASE AnswerCommit(c)
  <2>1. attempts' \in [Ids -> Attempt]
    BY <1>5, AnswerRewrites
  <2>2. attempts' \in Seq(Attempt)
    BY <2>1, Relabeled
  <2> QED
    BY <1>0, <1>5, <2>2, RollbackTyped DEF AnswerCommit, InteractionState
<1>6. CASE ActionExecutedCommit(c)
  <2>1. attempts' \in [Ids -> Attempt]
    BY <1>6, ExecutedRewrites
  <2>2. attempts' \in Seq(Attempt)
    BY <2>1, Relabeled
  <2> QED
    BY <1>0, <1>6, <2>2, RollbackTyped DEF ActionExecutedCommit
<1> QED
  BY <1>2, <1>3, <1>4, <1>5, <1>6

\* The interaction a timer transaction holds in memory has a known state.
LEMMA RowTyped ==
  ASSUME TypeInv, NEW p \in Processes
  PROVE  Row(p) \in InteractionState
  BY DEF TypeInv, TypeOK, Row, Transaction

LEMMA TypeTimerStep ==
  ASSUME TypeInv, NEW p \in Processes, TimerStep(p)
  PROVE  TypeInv'
<1> USE DEF TypeInv, TypeOK
<1>1. tx[p] \in Transaction /\ Row(p) \in InteractionState
  BY RowTyped
<1>2. ASSUME NEW i \in tx[p].todo, ProcessTimer(p, i)
      PROVE  TypeInv'
  <2> DEFINE loaded == IF Dirty(p) THEN tx[p].loaded ELSE state
             Done(pc, row, next) ==
                tx' = [tx EXCEPT ![p].pc = pc, ![p].todo = @ \ {i},
                                 ![p].loaded = loaded, ![p].row = row,
                                 ![p].next = next]
  <2>1. loaded \in InteractionState
    BY <1>1 DEF Transaction
  <2>2. ASSUME NEW pc \in {"timers", "flush"}, NEW row \in InteractionState,
               NEW next \in Outcome, Done(pc, row, next),
               pc = "flush" => next.to = "WAITING_ACK"
        PROVE  tx' \in [Processes -> Transaction] /\ Decided'
    BY <1>1, <2>1, <2>2 DEF Transaction, Decided
  <2>3. NoAction \in Outcome
    BY DEF Outcome
  <2>4. CASE Done("timers", Row(p), NoAction)
    BY <1>1, <1>2, <2>2, <2>3, <2>4 DEF ProcessTimer
  <2>5. ASSUME NEW next \in Decisions,
               IF next.to = "WAITING_ACK"
               THEN Done("flush", Row(p), next)
               ELSE Done("timers", next.to, NoAction)
        PROVE  tx' \in [Processes -> Transaction] /\ Decided'
    <3>1. next \in Outcome /\ next.to \in {"WAITING_ACK", "COMPLETED", "FAILED"}
      BY DecisionsTyped
    <3>2. next.to # "WAITING_ACK" => next.to \in InteractionState
      BY <3>1 DEF InteractionState
    <3> QED
      BY <1>1, <2>2, <2>3, <2>5, <3>1, <3>2
  <2> QED
    BY <1>2, <2>4, <2>5 DEF ProcessTimer
<1>3. CASE FlushTimer(p)
  <2> DEFINE next == tx[p].next
  <2>1. next \in Outcome /\ next.to = "WAITING_ACK"
    BY <1>1, <1>3 DEF FlushTimer, Decided, Transaction
  <2>2. NewAttempt(next) \in Attempt
    BY <2>1, OutcomeTaken, NewAttemptTyped
  <2>3. Append(tx[p].added, NewAttempt(next)) \in Seq(Attempt)
    BY <1>1, <2>2, AppendProperties DEF Transaction
  <2>4. NoAction \in Outcome
    BY DEF Outcome
  <2>5. CASE tx' = [tx EXCEPT ![p].pc = "timers", ![p].row = "WAITING_ACK",
                              ![p].added = Append(@, NewAttempt(next)),
                              ![p].next = NoAction]
    <3> DEFINE r == [tx[p] EXCEPT !.pc = "timers", !.row = "WAITING_ACK",
                                  !.added = Append(@, NewAttempt(next)),
                                  !.next = NoAction]
    <3>a. r \in Transaction /\ r.pc # "flush"
      BY <1>1, <2>3, <2>4 DEF Transaction, InteractionState
    <3>b. tx' = [tx EXCEPT ![p] = r]
      BY <1>1, <2>5
    <3> HIDE DEF r
    <3>1. tx' \in [Processes -> Transaction] /\ Decided'
      BY <1>1, <3>a, <3>b, TransactionTyped
    <3> QED
      BY <1>3, <3>1 DEF FlushTimer
  <2>6. CASE Rollback(p)
    BY <1>3, <2>6, RollbackTyped DEF FlushTimer
  <2> QED
    BY <1>3, <2>5, <2>6 DEF FlushTimer
<1>4. CASE CommitTimers(p)
  <2> DEFINE done == [i \in Ids |->
                        [attempts[i] EXCEPT
                            !.timer = IF i \in tx[p].timers THEN "DONE" ELSE @]]
  <2>1. attempts \in [Ids -> Attempt]
    BY LenProperties DEF Ids
  <2>2. done \in [Ids -> Attempt]
    BY <2>1 DEF Attempt
  <2>3. done \in Seq(Attempt)
    BY <2>2, Relabeled
  <2>4. done \o tx[p].added \in Seq(Attempt)
    BY <1>1, <2>3, ConcatProperties DEF Transaction
  <2> QED
    BY <1>1, <1>4, <2>4, RollbackTyped DEF CommitTimers
<1> QED
  BY <1>2, <1>3, <1>4 DEF TimerStep

LEMMA TypeNext == TypeInv /\ [Next]_vars => TypeInv'
<1> SUFFICES ASSUME TypeInv, [Next]_vars PROVE TypeInv'
  OBVIOUS
<1> USE DEF TypeInv, TypeOK
<1>1. Len(attempts) \in Nat /\ Ids = 1..Len(attempts) /\ attempts \in [Ids -> Attempt]
  BY LenProperties DEF Ids
<1>2. CASE CompleteDecision
  <2>1. PICK next \in Decisions :
          /\ state' = next.to
          /\ attempts' = IF next.to = "WAITING_ACK"
                         THEN <<NewAttempt(next)>> ELSE <<>>
    BY <1>2 DEF CompleteDecision
  <2>2. /\ next.to \in {"WAITING_ACK", "COMPLETED", "FAILED"}
        /\ next.to = "WAITING_ACK" => NewAttempt(next) \in Attempt
    BY DecisionsTyped, NewAttemptTyped
  <2>3. attempts' \in Seq(Attempt)
    BY <2>1, <2>2
  <2> QED
    BY <1>2, <2>1, <2>2, <2>3 DEF CompleteDecision, InteractionState, Decided
<1>3. CASE UpdatePolicy
  BY <1>3 DEF UpdatePolicy, Decided
<1>4. CASE Elapse
  <2>1. PICK i \in Ids : AckTimeoutElapses(i)
    BY <1>4 DEF Elapse
  <2>2. attempts' \in [Ids -> Attempt]
    BY <1>1, <2>1 DEF AckTimeoutElapses, Attempt
  <2>3. attempts' \in Seq(Attempt)
    BY <2>2, Relabeled
  <2> QED
    BY <2>1, <2>3 DEF AckTimeoutElapses, Decided
<1>5. ASSUME NEW w \in Workers, WorkerStep(w) PROVE TypeInv'
  <2>1. w \in Processes
    BY DEF Processes
  <2>2. CASE ClaimDueTimers(w)
    <3>1. PICK claimed \in SUBSET LiveTimers : Claim(w, claimed)
      BY <2>2 DEF ClaimDueTimers
    <3>2. claimed \in SUBSET Nat
      BY <1>1, <3>1 DEF LiveTimers
    <3> QED
      BY <2>1, <3>1, <3>2, IdleTyped DEF Claim, Transaction, Idle, Decided
  <2> QED
    BY <1>5, <2>1, <2>2, TypeTimerStep DEF WorkerStep
<1>6. ASSUME NEW c \in Callers, Request(c) \/ RequestStep(c) PROVE TypeInv'
  BY <1>6, TypeRequest, TypeRequestStep, TypeTimerStep DEF RequestStep, Processes
<1>7. ASSUME NEW p \in Processes, Crash(p) PROVE TypeInv'
  <2>1. crashes' \in 0..MaxCrashes
    BY <1>7, CrashAssumption DEF Crash
  <2> QED
    BY <1>7, <2>1, RollbackTyped DEF Crash
<1>8. CASE UNCHANGED vars
  BY <1>8 DEF vars, Decided
<1> QED
  BY <1>2, <1>3, <1>4, <1>5, <1>6, <1>7, <1>8 DEF Next

\* Every variable keeps its type: a state machine of known states and timers.
THEOREM EscalationTypeCorrect == Spec => []TypeOK
<1>1. TypeInv => TypeOK
  BY DEF TypeInv
<1> QED
  BY <1>1, TypeInit, TypeNext, PTL DEF Spec

-----------------------------------------------------------------------------
(* No action is dispatched twice *)

SameAction(x, y) == x.step = y.step /\ x.key = y.key

\* Before it is decided an interaction has neither attempts nor transactions,
\* and no transaction takes it back there.
Started ==
    /\ state = "RECEIVED" =>
           attempts = <<>> /\ \A p \in Processes : tx[p].pc = "idle"
    /\ \A p \in Processes : /\ tx[p].pc = "idle" => tx[p] = Idle
                            /\ Dirty(p) => tx[p].row # "RECEIVED"

\* Flushed attempts belong to one transaction at a time, and repeat neither each
\* other nor a committed one.
Unrepeated ==
    /\ OneDispatchPerAction
    /\ \A p \in Processes :
         /\ \A i, j \in DOMAIN tx[p].added :
              SameAction(tx[p].added[i], tx[p].added[j]) => i = j
         /\ \A i \in Ids, j \in DOMAIN tx[p].added :
              ~SameAction(attempts[i], tx[p].added[j])
         /\ tx[p].added # <<>> => RowFree(p)

DispatchInv == TypeInv /\ Started /\ Unrepeated

\* A relabelling of the attempts.
SameActions ==
    /\ attempts' \in Seq(Attempt) /\ Ids' = Ids
    /\ \A i \in Ids : /\ attempts'[i].step = attempts[i].step
                      /\ attempts'[i].key = attempts[i].key

NothingFlushed ==
    \A p \in Processes :
        tx'[p].added = tx[p].added \/ tx'[p].added = <<>>

LEMMA UnrepeatedKept ==
  ASSUME TypeInv, Unrepeated, SameActions, NothingFlushed
  PROVE  Unrepeated'
<1> USE DEF SameActions, NothingFlushed, SameAction
<1>1. OneDispatchPerAction'
  BY DEF Unrepeated, OneDispatchPerAction
<1>2. ASSUME NEW p \in Processes
      PROVE  /\ \A i, j \in DOMAIN tx'[p].added :
                  SameAction(tx'[p].added[i], tx'[p].added[j]) => i = j
             /\ \A i \in Ids', j \in DOMAIN tx'[p].added :
                  ~SameAction(attempts'[i], tx'[p].added[j])
             /\ tx'[p].added # <<>> => RowFree(p)'
  <2>1. CASE tx'[p].added = <<>>
    BY <2>1
  <2>2. CASE tx'[p].added = tx[p].added
    BY <2>2 DEF Unrepeated, RowFree
  <2> QED
    BY <2>1, <2>2
<1> QED
  BY <1>1, <1>2 DEF Unrepeated

\* A commit that adds attempts leaves nothing flushed.
LEMMA UnrepeatedCommitted ==
  ASSUME OneDispatchPerAction', \A p \in Processes : tx'[p].added = <<>>
  PROVE  Unrepeated'
  BY DEF Unrepeated, SameAction

LEMMA DispatchInit == Init => DispatchInv
<1> SUFFICES ASSUME Init PROVE DispatchInv
  OBVIOUS
<1>1. Started
  BY DEF Init, Started, Dirty, Idle
<1>2. Unrepeated
  BY DEF Init, Unrepeated, OneDispatchPerAction, Idle, Ids
<1> QED
  BY <1>1, <1>2, TypeInit DEF DispatchInv

\* The requests that leave the attempts' actions alone.
LEMMA DispatchQuietRequest ==
  ASSUME DispatchInv, NEW c \in Callers,
         \/ Request(c) \/ ActionFailedDispatch(c) \/ CancelTimersSnapshot(c)
         \/ AnswerCommit(c) \/ ActionExecutedCommit(c)
  PROVE  SameActions /\ NothingFlushed /\ Started'
<1> USE DEF DispatchInv, TypeInv, TypeOK
<1>0. c \in Processes /\ tx[c] \in Transaction
  BY DEF Processes
<1>1. Len(attempts) \in Nat /\ Ids = 1..Len(attempts) /\ attempts \in [Ids -> Attempt]
  BY LenProperties DEF Ids
<1>2. ASSUME attempts' = attempts PROVE SameActions
  BY <1>2 DEF SameActions, Ids
<1>3. CASE Request(c)
  <2>1. ASSUME NEW r, tx' = [tx EXCEPT ![c] = r], attempts' = attempts,
               state' = state, state # "RECEIVED",
               r.added = <<>>, r.row = r.loaded, r.pc # "idle"
        PROVE  SameActions /\ NothingFlushed /\ Started'
    BY <1>0, <1>2, <2>1 DEF NothingFlushed, Started, Dirty
  <2>2. ASSUME NEW pc, NEW op, NEW a, Begin(c, pc, op, a), pc # "idle",
               attempts' = attempts, state' = state, state # "RECEIVED"
        PROVE  SameActions /\ NothingFlushed /\ Started'
    <3> DEFINE r == [Idle EXCEPT !.pc = pc, !.op = op, !.target = a,
                                 !.loaded = state, !.row = state]
    <3>1. tx' = [tx EXCEPT ![c] = r]
      BY <2>2 DEF Begin
    <3>2. r.added = <<>> /\ r.row = r.loaded /\ r.pc # "idle"
      BY <2>2 DEF Idle
    <3> HIDE DEF r
    <3> QED
      BY <2>1, <2>2, <3>1, <3>2
  <2>3. ASSUME NEW a \in Ids PROVE state # "RECEIVED"
    BY <1>1 DEF Started
  <2>4. CASE \E a \in Ids : ActionFailedRead(c, a)
    BY <2>2, <2>3, <2>4 DEF ActionFailedRead
  <2>5. CASE \E a \in Ids : AcknowledgeRead(c, a)
    BY <2>2, <2>3, <2>5 DEF AcknowledgeRead
  <2>6. CASE \E a \in Ids : ActionExecutedRead(c, a)
    BY <2>2, <2>3, <2>6 DEF ActionExecutedRead
  <2>7. CASE HumanReplyRead(c)
    BY <2>2, <2>7 DEF HumanReplyRead
  <2>8. CASE ForceNextTimer(c)
    <3>1. PICK i \in LiveTimers : Claim(c, {i})
      BY <2>8 DEF ForceNextTimer
    <3> DEFINE r == [Idle EXCEPT !.pc = "timers", !.op = "timers",
                                 !.timers = {i}, !.todo = {i}]
    <3>2. /\ tx' = [tx EXCEPT ![c] = r]
          /\ attempts' = attempts /\ state' = state
      BY <3>1 DEF Claim
    <3>3. r.added = <<>> /\ r.row = r.loaded /\ r.pc # "idle"
      BY DEF Idle
    <3>4. state # "RECEIVED"
      BY <2>3, <3>1 DEF LiveTimers
    <3> HIDE DEF r
    <3> QED
      BY <2>1, <3>2, <3>3, <3>4
  <2> QED
    BY <1>3, <2>4, <2>5, <2>6, <2>7, <2>8 DEF Request
<1>4. CASE ActionFailedDispatch(c)
  <2>1. attempts' = attempts /\ state' = state /\ tx[c].pc = "update"
    BY <1>4 DEF ActionFailedDispatch
  <2>2. PICK next \in Decisions :
          tx' = [tx EXCEPT ![c].pc = "flush", ![c].next = next,
                           ![c].timers = IF Live(tx[c].target)
                                         THEN {tx[c].target} ELSE {}]
    BY <1>4 DEF ActionFailedDispatch
  <2>3. /\ \A q \in Processes : q # c => tx'[q] = tx[q]
        /\ tx'[c].added = tx[c].added /\ tx'[c].row = tx[c].row
        /\ tx'[c].loaded = tx[c].loaded /\ tx'[c].pc = "flush"
    BY <1>0, <2>2 DEF Transaction
  <2>4. NothingFlushed /\ Started'
    BY <1>0, <2>1, <2>3 DEF NothingFlushed, Started, Dirty
  <2> QED
    BY <1>2, <2>1, <2>4
<1>5. CASE CancelTimersSnapshot(c)
  <2>1. attempts' = attempts /\ state' = state /\ tx[c].pc = "update"
    BY <1>5 DEF CancelTimersSnapshot
  <2>2. /\ \A q \in Processes : q # c => tx'[q] = tx[q]
        /\ tx'[c].added = tx[c].added /\ tx'[c].row = tx[c].row
        /\ tx'[c].loaded = tx[c].loaded /\ tx'[c].pc = "locking"
    BY <1>0, <1>5 DEF CancelTimersSnapshot, Transaction
  <2>3. NothingFlushed /\ Started'
    BY <1>0, <2>1, <2>2 DEF NothingFlushed, Started, Dirty
  <2> QED
    BY <1>2, <2>1, <2>3
<1>6. CASE AnswerCommit(c) \/ ActionExecutedCommit(c)
  <2>1. state # "RECEIVED" /\ state' # "RECEIVED"
    BY <1>0, <1>6 DEF AnswerCommit, ActionExecutedCommit, Started
  <2>2. Rollback(c)
    BY <1>6 DEF AnswerCommit, ActionExecutedCommit
  <2>3. NothingFlushed /\ Started'
    BY <1>0, <2>1, <2>2 DEF NothingFlushed, Started, Rollback, Dirty, Idle
  <2>4. /\ attempts' \in [Ids -> Attempt]
        /\ \A i \in Ids : /\ attempts'[i].step = attempts[i].step
                          /\ attempts'[i].key = attempts[i].key
    <3>1. CASE AnswerCommit(c)
      BY <3>1, AnswerRewrites
    <3>2. CASE ActionExecutedCommit(c)
      BY <3>2, ExecutedRewrites
    <3> QED
      BY <1>6, <3>1, <3>2
  <2>5. SameActions
    BY <2>4, Relabeled DEF SameActions, Ids
  <2> QED
    BY <2>3, <2>5
<1> QED
  BY <1>3, <1>4, <1>5, <1>6

\* A failure report that commits dispatches an action nobody has dispatched.
LEMMA DispatchFailed ==
  ASSUME DispatchInv, NEW c \in Callers, ActionFailedCommit(c)
  PROVE  Started' /\ Unrepeated'
<1> USE DEF DispatchInv, TypeInv, TypeOK
<1> DEFINE failed ==
      [i \in Ids |->
          [attempts[i] EXCEPT
              !.state = IF i = tx[c].target THEN "FAILED" ELSE @,
              !.timer = IF i \in tx[c].timers THEN "CANCELED" ELSE @]]
           next == tx[c].next
<1>0. c \in Processes /\ tx[c] \in Transaction /\ tx[c].pc = "flush"
  BY DEF Processes, ActionFailedCommit
<1>1. Len(attempts) \in Nat /\ Ids = 1..Len(attempts) /\ attempts \in [Ids -> Attempt]
  BY LenProperties DEF Ids
<1>2. Rollback(c) /\ RowFree(c)
  BY DEF ActionFailedCommit
<1>3. \A p \in Processes : tx'[p].added = <<>>
  BY <1>0, <1>2 DEF Rollback, RowFree, Idle
<1>4. next.to \in {"WAITING_ACK", "COMPLETED", "FAILED"}
  BY <1>0 DEF Decided
<1>5. state # "RECEIVED" /\ state' # "RECEIVED"
  BY <1>0, <1>4 DEF ActionFailedCommit, Started
<1>6. Started'
  BY <1>0, <1>2, <1>5 DEF Started, Rollback, Dirty, Idle
<1>7. failed \in [Ids -> Attempt]
  BY FailureRewrites
<1>8. failed \in Seq(Attempt) /\ Len(failed) = Len(attempts)
  BY <1>7, Relabeled
<1>9. \A i \in Ids : /\ failed[i].step = attempts[i].step
                     /\ failed[i].key = attempts[i].key
  BY FailureRewrites
<1>10. OneDispatchPerAction
  BY DEF Unrepeated
<1> HIDE DEF failed
<1>11. OneDispatchPerAction'
  <2>1. CASE attempts' = attempts
    BY <1>10, <2>1 DEF OneDispatchPerAction, Ids
  <2>2. CASE attempts' = failed
    BY <1>7, <1>9, <1>10, <2>2 DEF OneDispatchPerAction, Ids
  <2>3. CASE /\ next.to = "WAITING_ACK"
             /\ ~Taken(attempts, next.step, next.key)
             /\ attempts' = Append(failed, NewAttempt(next))
    <3>1. NewAttempt(next) \in Attempt
      BY <1>0, <2>3, OutcomeTaken, NewAttemptTyped DEF Transaction
    <3>2. /\ Len(attempts') = Len(attempts) + 1
          /\ \A i \in 1..Len(attempts) : attempts'[i] = failed[i]
          /\ attempts'[Len(attempts) + 1] = NewAttempt(next)
          /\ attempts' \in Seq(Attempt)
      BY <1>1, <1>8, <2>3, <3>1, AppendProperties
    <3>3. Ids' = 1..(Len(attempts) + 1)
      BY <3>2, LenProperties DEF Ids
    <3>4. \A i \in Ids : \/ attempts[i].step # next.step
                         \/ attempts[i].key # next.key
      BY <2>3 DEF Taken, Ids
    <3>5. NewAttempt(next).step = next.step /\ NewAttempt(next).key = next.key
      BY DEF NewAttempt
    <3>6. \A i \in Ids : ~SameAction(attempts'[i], attempts'[Len(attempts) + 1])
      BY <1>1, <1>9, <3>2, <3>4, <3>5 DEF SameAction
    <3>7. \A i, j \in Ids : SameAction(attempts'[i], attempts'[j]) => i = j
      BY <1>1, <1>9, <1>10, <3>2 DEF SameAction, OneDispatchPerAction
    <3>8. \A i, j \in Ids' : SameAction(attempts'[i], attempts'[j]) => i = j
      <4> SUFFICES ASSUME NEW i \in Ids', NEW j \in Ids',
                          SameAction(attempts'[i], attempts'[j])
                   PROVE  i = j
        OBVIOUS
      <4>1. CASE i \in Ids /\ j \in Ids
        BY <3>7, <4>1
      <4>2. CASE i \in Ids /\ j = Len(attempts) + 1
        BY <3>6, <4>2
      <4>3. CASE i = Len(attempts) + 1 /\ j \in Ids
        BY <3>6, <4>3 DEF SameAction
      <4>4. CASE i = Len(attempts) + 1 /\ j = Len(attempts) + 1
        BY <4>4
      <4> QED
        BY <1>1, <3>3, <4>1, <4>2, <4>3, <4>4
    <3> QED
      BY <3>8 DEF OneDispatchPerAction, SameAction
  <2> QED
    BY <2>1, <2>2, <2>3 DEF ActionFailedCommit, failed
<1> QED
  BY <1>3, <1>6, <1>11, UnrepeatedCommitted

\* Examining a timer flushes nothing.
LEMMA DispatchProcess ==
  ASSUME DispatchInv, NEW p \in Processes, NEW i \in tx[p].todo, ProcessTimer(p, i)
  PROVE  SameActions /\ NothingFlushed /\ Started'
<1> USE DEF DispatchInv, TypeInv, TypeOK
<1> DEFINE loaded == IF Dirty(p) THEN tx[p].loaded ELSE state
           Done(pc, row, next) ==
              tx' = [tx EXCEPT ![p].pc = pc, ![p].todo = @ \ {i},
                               ![p].loaded = loaded, ![p].row = row,
                               ![p].next = next]
<1>1. /\ attempts' = attempts /\ state' = state /\ tx[p].pc = "timers"
      /\ state # "RECEIVED"
  BY DEF ProcessTimer, Started
<1>2. SameActions
  BY <1>1 DEF SameActions, Ids
<1>3. ASSUME NEW pc, NEW row, NEW next, Done(pc, row, next), pc # "idle",
             row # "RECEIVED"
      PROVE  NothingFlushed /\ Started'
  <2>1. /\ \A q \in Processes : q # p => tx'[q] = tx[q]
        /\ tx'[p].added = tx[p].added /\ tx'[p].row = row /\ tx'[p].pc = pc
    BY <1>3 DEF Transaction
  <2> QED
    BY <1>1, <1>3, <2>1 DEF NothingFlushed, Started, Dirty
<1>4. Row(p) # "RECEIVED"
  BY <1>1 DEF Row, Started
<1>5. CASE Done("timers", Row(p), NoAction)
  BY <1>2, <1>3, <1>4, <1>5
<1>6. ASSUME NEW next \in Decisions,
             IF next.to = "WAITING_ACK" THEN Done("flush", Row(p), next)
                                        ELSE Done("timers", next.to, NoAction)
      PROVE  NothingFlushed /\ Started'
  <2>1. next.to # "RECEIVED"
    BY DecisionsTyped
  <2> HIDE DEF Done
  <2>2. CASE Done("flush", Row(p), next)
    BY <1>3, <1>4, <2>2
  <2>3. CASE Done("timers", next.to, NoAction)
    BY <1>3, <2>1, <2>3
  <2> QED
    BY <1>6, <2>2, <2>3
<1> QED
  BY <1>2, <1>5, <1>6 DEF ProcessTimer

\* A flush adds an action that neither a committed attempt nor an earlier timer
\* of the batch has taken, and only when nobody else has flushed.
LEMMA DispatchFlush ==
  ASSUME DispatchInv, NEW p \in Processes, FlushTimer(p)
  PROVE  Started' /\ Unrepeated'
<1> USE DEF DispatchInv, TypeInv, TypeOK
<1> DEFINE next == tx[p].next
           new == NewAttempt(next)
<1>0. tx[p] \in Transaction /\ tx[p].pc = "flush" /\ state # "RECEIVED"
  BY DEF FlushTimer, Started
<1>1. attempts' = attempts /\ state' = state
  BY DEF FlushTimer
<1>2. SameActions
  BY <1>1 DEF SameActions, Ids
<1>3. CASE Rollback(p)
  <2>1. NothingFlushed /\ Started'
    BY <1>0, <1>1, <1>3 DEF NothingFlushed, Rollback, Started, Dirty, Idle
  <2> QED
    BY <1>2, <2>1, UnrepeatedKept
<1>4. CASE /\ ~Taken(attempts \o tx[p].added, next.step, next.key)
           /\ tx' = [tx EXCEPT ![p].pc = "timers", ![p].row = "WAITING_ACK",
                               ![p].added = Append(@, NewAttempt(next)),
                               ![p].next = NoAction]
  <2>1. next \in Outcome /\ next.to = "WAITING_ACK"
    BY <1>0 DEF FlushTimer, Decided, Transaction
  <2>2. new \in Attempt /\ new.step = next.step /\ new.key = next.key
    BY <2>1, OutcomeTaken, NewAttemptTyped DEF NewAttempt
  <2>3. tx[p].added \in Seq(Attempt)
    BY <1>0 DEF Transaction
  <2> DEFINE n == Len(tx[p].added)
  <2>4. n \in Nat /\ DOMAIN tx[p].added = 1..n
    BY <2>3, LenProperties
  <2>5. Len(attempts) \in Nat /\ Ids = 1..Len(attempts)
    BY LenProperties DEF Ids
  <2>6. /\ \A q \in Processes : q # p => tx'[q] = tx[q]
        /\ tx'[p].added = Append(tx[p].added, new) /\ tx'[p].row = "WAITING_ACK"
        /\ tx'[p].pc = "timers"
    BY <1>0, <1>4 DEF Transaction
  <2>7. /\ DOMAIN tx'[p].added = 1..(n + 1)
        /\ \A j \in 1..n : tx'[p].added[j] = tx[p].added[j]
        /\ tx'[p].added[n + 1] = new
    BY <2>2, <2>3, <2>6, AppendProperties, LenProperties
  <2>8. /\ \A i \in Ids : ~SameAction(attempts[i], new)
        /\ \A j \in 1..n : ~SameAction(tx[p].added[j], new)
    <3>1. \A k \in 1..(Len(attempts) + n) :
             ~SameAction((attempts \o tx[p].added)[k], new)
      BY <1>4, <2>2, <2>3, Concatenated DEF Taken, SameAction
    <3>2. ASSUME NEW i \in Ids PROVE ~SameAction(attempts[i], new)
      BY <2>3, <2>4, <2>5, <3>1, Concatenated
    <3>3. ASSUME NEW j \in 1..n PROVE ~SameAction(tx[p].added[j], new)
      <4>1. Len(attempts) + j \in 1..(Len(attempts) + n)
        BY <2>4, <2>5
      <4> QED
        BY <2>3, <3>1, <4>1, Concatenated
    <3> QED
      BY <3>2, <3>3
  <2>9. Started'
    BY <1>0, <1>1, <2>6 DEF Started, Dirty
  <2>10. OneDispatchPerAction'
    BY <1>1 DEF Unrepeated, OneDispatchPerAction, Ids
  <2>11. RowFree(p)
    BY DEF FlushTimer
  <2>12. ASSUME NEW q \in Processes, q # p PROVE tx'[q].added = <<>>
    BY <2>6, <2>11, <2>12 DEF RowFree
  <2>13. RowFree(p)'
    BY <2>12 DEF RowFree
  <2>14. \A i, j \in 1..(n + 1) :
            SameAction(tx'[p].added[i], tx'[p].added[j]) => i = j
    <3>1. \A i, j \in 1..n : SameAction(tx[p].added[i], tx[p].added[j]) => i = j
      BY <2>4 DEF Unrepeated
    <3> SUFFICES ASSUME NEW i \in 1..(n + 1), NEW j \in 1..(n + 1),
                        SameAction(tx'[p].added[i], tx'[p].added[j])
                 PROVE  i = j
      OBVIOUS
    <3>2. CASE i \in 1..n /\ j \in 1..n
      BY <2>7, <3>1, <3>2
    <3>3. CASE i \in 1..n /\ j = n + 1
      BY <2>7, <2>8, <3>3
    <3>4. CASE i = n + 1 /\ j \in 1..n
      BY <2>7, <2>8, <3>4 DEF SameAction
    <3> QED
      BY <2>4, <3>2, <3>3, <3>4
  <2>15. \A i \in Ids, j \in 1..(n + 1) : ~SameAction(attempts[i], tx'[p].added[j])
    <3>1. \A i \in Ids, j \in 1..n : ~SameAction(attempts[i], tx[p].added[j])
      BY <2>4 DEF Unrepeated
    <3> QED
      BY <2>4, <2>7, <2>8, <3>1
  <2>16. Ids' = Ids
    BY <1>1 DEF Ids
  <2> HIDE DEF new, n
  <2>17. ASSUME NEW q \in Processes
         PROVE  /\ \A i, j \in DOMAIN tx'[q].added :
                     SameAction(tx'[q].added[i], tx'[q].added[j]) => i = j
                /\ \A i \in Ids', j \in DOMAIN tx'[q].added :
                     ~SameAction(attempts'[i], tx'[q].added[j])
                /\ tx'[q].added # <<>> => RowFree(q)'
    <3>1. CASE q = p
      BY <1>1, <2>7, <2>13, <2>14, <2>15, <2>16, <3>1
    <3>2. CASE q # p
      BY <2>12, <3>2
    <3> QED
      BY <3>1, <3>2
  <2>18. Unrepeated'
    BY <2>10, <2>17 DEF Unrepeated
  <2> QED
    BY <2>9, <2>18
<1> QED
  BY <1>3, <1>4 DEF FlushTimer

\* The commit of a batch appends what it has flushed.
LEMMA DispatchCommit ==
  ASSUME DispatchInv, NEW p \in Processes, CommitTimers(p)
  PROVE  Started' /\ Unrepeated'
<1> USE DEF DispatchInv, TypeInv, TypeOK
<1> DEFINE added == tx[p].added
           n == Len(added)
           done == [i \in Ids |->
                      [attempts[i] EXCEPT
                          !.timer = IF i \in tx[p].timers THEN "DONE" ELSE @]]
<1>0. tx[p] \in Transaction /\ tx[p].pc = "timers" /\ state # "RECEIVED"
  BY DEF CommitTimers, Started
<1>1. Len(attempts) \in Nat /\ Ids = 1..Len(attempts) /\ attempts \in [Ids -> Attempt]
  BY LenProperties DEF Ids
<1>2. added \in Seq(Attempt)
  BY <1>0 DEF Transaction
<1>3. n \in Nat /\ DOMAIN added = 1..n
  BY <1>2, LenProperties
<1>4. done \in [Ids -> Attempt]
  BY <1>1 DEF Attempt
<1>5. done \in Seq(Attempt) /\ Len(done) = Len(attempts)
  BY <1>4, Relabeled
<1>6. \A i \in Ids : /\ done[i].step = attempts[i].step
                     /\ done[i].key = attempts[i].key
  BY <1>1 DEF Attempt
<1>7. /\ attempts' = done \o added /\ state' = Row(p) /\ Rollback(p)
      /\ added # <<>> => RowFree(p)
  BY DEF CommitTimers, Dirty
<1>8. Started'
  <2>1. state' # "RECEIVED"
    BY <1>0, <1>7 DEF Started, Row
  <2> QED
    BY <1>7, <2>1 DEF Started, Rollback, Dirty, Idle
<1> HIDE DEF done
<1>9. CASE added = <<>>
  <2>1. attempts' = done
    BY <1>5, <1>7, <1>9, ConcatEmptySeq
  <2>2. SameActions
    BY <1>4, <1>5, <1>6, <2>1 DEF SameActions, Ids
  <2>3. NothingFlushed
    BY <1>7 DEF NothingFlushed, Rollback, Idle
  <2> QED
    BY <1>8, <2>2, <2>3, UnrepeatedKept
<1>10. CASE added # <<>>
  <2>1. \A q \in Processes : tx'[q].added = <<>>
    BY <1>7, <1>10 DEF Rollback, Idle, RowFree
  <2>2. /\ \A i, j \in Ids : SameAction(attempts[i], attempts[j]) => i = j
        /\ \A i, j \in 1..n : SameAction(added[i], added[j]) => i = j
        /\ \A i \in Ids, j \in 1..n : ~SameAction(attempts[i], added[j])
    BY <1>3 DEF Unrepeated, OneDispatchPerAction, SameAction
  <2> HIDE DEF added, n
  <2>3. /\ DOMAIN attempts' = 1..(Len(attempts) + n)
        /\ \A i \in Ids : attempts'[i] = done[i]
        /\ \A j \in 1..n : attempts'[Len(attempts) + j] = added[j]
    <3>1. /\ DOMAIN (done \o added) = 1..(Len(done) + Len(added))
          /\ \A i \in 1..Len(done) : (done \o added)[i] = done[i]
          /\ \A j \in 1..Len(added) : (done \o added)[Len(done) + j] = added[j]
      BY <1>2, <1>5, Concatenated
    <3>2. n = Len(added) /\ attempts' = done \o added
      BY <1>7 DEF n
    <3> QED
      BY <1>1, <1>5, <3>1, <3>2
  <2>4. \A i \in Ids : /\ attempts'[i].step = attempts[i].step
                       /\ attempts'[i].key = attempts[i].key
    BY <1>6, <2>3
  <2>5. \A k \in Ids' : \/ k \in Ids
                        \/ \E j \in 1..n : k = Len(attempts) + j
    <3> SUFFICES ASSUME NEW k \in Ids', k \notin Ids
                 PROVE  k - Len(attempts) \in 1..n /\ k = Len(attempts) + (k - Len(attempts))
      OBVIOUS
    <3> QED
      BY <1>1, <1>3, <2>3 DEF Ids
  <2>6. ASSUME NEW k \in Ids', NEW l \in Ids', SameAction(attempts'[k], attempts'[l])
        PROVE  k = l
    <3>1. CASE k \in Ids /\ l \in Ids
      BY <2>2, <2>4, <2>6, <3>1 DEF SameAction
    <3>2. ASSUME k \in Ids, NEW j \in 1..n, l = Len(attempts) + j PROVE FALSE
      BY <2>2, <2>3, <2>4, <2>6, <3>2 DEF SameAction
    <3>3. ASSUME l \in Ids, NEW j \in 1..n, k = Len(attempts) + j PROVE FALSE
      BY <2>2, <2>3, <2>4, <2>6, <3>3 DEF SameAction
    <3>4. ASSUME NEW i \in 1..n, NEW j \in 1..n, k = Len(attempts) + i,
                 l = Len(attempts) + j
          PROVE  k = l
      BY <2>2, <2>3, <2>6, <3>4
    <3> QED
      BY <2>5, <3>1, <3>2, <3>3, <3>4
  <2> QED
    BY <1>8, <2>1, <2>6, UnrepeatedCommitted DEF OneDispatchPerAction, SameAction
<1> QED
  BY <1>9, <1>10

\* Until the decision nothing has been dispatched, so one action repeats none.
LEMMA DispatchDecision ==
  ASSUME DispatchInv, CompleteDecision
  PROVE  Started' /\ Unrepeated'
<1> USE DEF DispatchInv, TypeInv, TypeOK
<1>1. \A p \in Processes : tx[p] = Idle
  BY DEF CompleteDecision, Started
<1>2. tx' = tx
  BY DEF CompleteDecision
<1>3. PICK next \in Decisions :
        /\ state' = next.to
        /\ attempts' = IF next.to = "WAITING_ACK"
                       THEN <<NewAttempt(next)>> ELSE <<>>
  BY DEF CompleteDecision
<1>4. state' # "RECEIVED"
  BY <1>3, DecisionsTyped
<1>5. Started'
  BY <1>1, <1>2, <1>4 DEF Started, Dirty, Idle
<1>6. Ids' \subseteq {1}
  BY <1>3 DEF Ids
<1>7. OneDispatchPerAction'
  BY <1>6 DEF OneDispatchPerAction
<1>8. \A p \in Processes : tx'[p].added = <<>>
  BY <1>1, <1>2 DEF Idle
<1> QED
  BY <1>5, <1>7, <1>8, UnrepeatedCommitted

LEMMA DispatchNext == DispatchInv /\ [Next]_vars => DispatchInv'
<1> SUFFICES ASSUME DispatchInv, [Next]_vars PROVE Started' /\ Unrepeated'
  BY TypeNext DEF DispatchInv
<1> USE DEF DispatchInv, TypeInv, TypeOK
<1>1. Len(attempts) \in Nat /\ Ids = 1..Len(attempts) /\ attempts \in [Ids -> Attempt]
  BY LenProperties DEF Ids
<1>2. ASSUME attempts' = attempts PROVE SameActions
  BY <1>2 DEF SameActions, Ids
<1>3. CASE CompleteDecision
  BY <1>3, DispatchDecision
<1>4. ASSUME tx' = tx, state' = state, attempts' = attempts
      PROVE  Started' /\ Unrepeated'
  <2>1. NothingFlushed
    BY <1>4 DEF NothingFlushed
  <2>2. Started'
    BY <1>4 DEF Started, Dirty
  <2> QED
    BY <1>2, <1>4, <2>1, <2>2, UnrepeatedKept
<1>5. CASE Elapse
  <2>1. PICK i \in Ids : AckTimeoutElapses(i)
    BY <1>5 DEF Elapse
  <2>2. /\ attempts' \in [Ids -> Attempt]
        /\ \A j \in Ids : /\ attempts'[j].step = attempts[j].step
                          /\ attempts'[j].key = attempts[j].key
    BY <1>1, <2>1 DEF AckTimeoutElapses, Attempt
  <2>3. SameActions
    BY <2>2, Relabeled DEF SameActions, Ids
  <2>4. NothingFlushed
    BY <2>1 DEF AckTimeoutElapses, NothingFlushed
  <2>5. Started'
    BY <1>1, <2>1 DEF AckTimeoutElapses, Started, Dirty
  <2> QED
    BY <2>3, <2>4, <2>5, UnrepeatedKept
<1>6. ASSUME NEW p \in Processes, TimerStep(p) PROVE Started' /\ Unrepeated'
  BY <1>6, DispatchProcess, DispatchFlush, DispatchCommit, UnrepeatedKept DEF TimerStep
<1>7. ASSUME NEW w \in Workers, ClaimDueTimers(w) PROVE Started' /\ Unrepeated'
  <2>1. PICK claimed \in SUBSET LiveTimers : claimed # {} /\ Claim(w, claimed)
    BY <1>7 DEF ClaimDueTimers, Claim
  <2> DEFINE r == [Idle EXCEPT !.pc = "timers", !.op = "timers",
                               !.timers = claimed, !.todo = claimed]
  <2>2. /\ tx' = [tx EXCEPT ![w] = r]
        /\ attempts' = attempts /\ state' = state
    BY <2>1 DEF Claim
  <2>3. r.added = <<>> /\ r.row = r.loaded /\ r.pc # "idle"
    BY DEF Idle
  <2>4. state # "RECEIVED"
    <3>1. PICK i : i \in Ids
      BY <2>1 DEF LiveTimers
    <3> QED
      BY <1>1, <3>1 DEF Started
  <2> HIDE DEF r
  <2>5. NothingFlushed /\ Started'
    BY <2>2, <2>3, <2>4 DEF NothingFlushed, Started, Dirty, Processes
  <2> QED
    BY <1>2, <2>2, <2>5, UnrepeatedKept
<1>8. ASSUME NEW c \in Callers, Request(c) \/ RequestStep(c)
      PROVE  Started' /\ Unrepeated'
  <2>1. c \in Processes
    BY DEF Processes
  <2> QED
    BY <1>6, <1>8, <2>1, DispatchQuietRequest, DispatchFailed, UnrepeatedKept
       DEF RequestStep
<1>9. ASSUME NEW p \in Processes, Crash(p) PROVE Started' /\ Unrepeated'
  <2>1. NothingFlushed
    BY <1>9 DEF Crash, Rollback, NothingFlushed, Idle
  <2>2. Started'
    BY <1>9 DEF Crash, Rollback, Started, Dirty, Idle
  <2> QED
    BY <1>2, <1>9, <2>1, <2>2, UnrepeatedKept DEF Crash
<1> QED
  <2>1. CASE UpdatePolicy
    BY <1>4, <2>1 DEF UpdatePolicy
  <2>2. CASE UNCHANGED vars
    BY <1>4, <2>2 DEF vars
  <2>3. ASSUME NEW w \in Workers, WorkerStep(w) PROVE Started' /\ Unrepeated'
    BY <1>6, <1>7, <2>3 DEF WorkerStep, Processes
  <2> HIDE DEF DispatchInv
  <2> QED
    BY <1>3, <1>5, <1>8, <1>9, <2>1, <2>2, <2>3 DEF Next

\* services.py dispatch_next_action: whatever timers, failure reports and
\* crashes overlap, no step's action is dispatched twice.
THEOREM OneDispatch == Spec => []OneDispatchPerAction
<1>1. DispatchInv => OneDispatchPerAction
  BY DEF DispatchInv, Unrepeated
<1> QED
  BY <1>1, DispatchInit, DispatchNext, PTL DEF Spec

-----------------------------------------------------------------------------
(* What each step writes *)

LEMMA RowsTyped ==
  ASSUME TypeOK
  PROVE  /\ Len(attempts) \in Nat /\ Ids = 1..Len(attempts)
         /\ attempts \in [Ids -> Attempt]
  BY LenProperties DEF Ids, TypeOK

LEMMA RewrittenFields ==
  ASSUME NEW a \in Attempt, NEW s, NEW t
  PROVE  /\ Rewritten(a, s, t).state = s /\ Rewritten(a, s, t).timer = t
         /\ Rewritten(a, s, t).step = a.step /\ Rewritten(a, s, t).due = a.due
  BY DEF Attempt, Rewritten

\* A step of p leaves the transactions of the others alone.
OnlyTx(p) == \A q \in Processes : q # p => tx'[q] = tx[q]

LEMMA RolledBack ==
  ASSUME TypeOK, NEW p \in Processes, Rollback(p)
  PROVE  OnlyTx(p) /\ tx'[p] = Idle
  BY DEF TypeOK, Rollback, OnlyTx

LEMMA Begun ==
  ASSUME TypeOK, NEW p \in Processes, NEW pc, NEW op, NEW a, Begin(p, pc, op, a)
  PROVE  /\ OnlyTx(p) /\ tx[p].pc = "idle"
         /\ tx'[p].pc = pc /\ tx'[p].op = op /\ tx'[p].target = a
         /\ tx'[p].loaded = state /\ tx'[p].row = state
         /\ tx'[p].timers = {} /\ tx'[p].todo = {} /\ tx'[p].added = <<>>
  BY DEF TypeOK, Begin, OnlyTx, Idle

LEMMA Claimed ==
  ASSUME TypeOK, NEW p \in Processes, NEW S, Claim(p, S)
  PROVE  /\ OnlyTx(p) /\ S # {} /\ tx[p].pc = "idle"
         /\ tx'[p].pc = "timers" /\ tx'[p].op = "timers"
         /\ tx'[p].loaded = tx'[p].row
         /\ tx'[p].loaded = "RECEIVED"
         /\ tx'[p].timers = S /\ tx'[p].todo = S /\ tx'[p].added = <<>>
  BY DEF TypeOK, Claim, OnlyTx, Idle

LEMMA FailureDispatched ==
  ASSUME TypeOK, NEW c \in Processes, ActionFailedDispatch(c)
  PROVE  /\ OnlyTx(c)
         /\ tx'[c].pc = "flush" /\ tx[c].op = "fail" /\ tx'[c].op = "fail"
         /\ tx'[c].next \in Decisions
         /\ tx'[c].timers = IF Live(tx[c].target) THEN {tx[c].target} ELSE {}
         /\ tx'[c].target = tx[c].target /\ tx'[c].loaded = tx[c].loaded
         /\ tx'[c].row = tx[c].row /\ tx'[c].added = tx[c].added
         /\ tx'[c].todo = tx[c].todo
<1>1. tx[c] \in Transaction
  BY DEF TypeOK
<1>2. PICK next \in Decisions :
        tx' = [tx EXCEPT ![c].pc = "flush", ![c].next = next,
                         ![c].timers = IF Live(tx[c].target)
                                       THEN {tx[c].target} ELSE {}]
  BY DEF ActionFailedDispatch
<1>3. tx[c].op = "fail"
  BY DEF ActionFailedDispatch
<1> QED
  BY <1>1, <1>2, <1>3 DEF TypeOK, Transaction, OnlyTx

LEMMA SnapshotTaken ==
  ASSUME TypeOK, NEW c \in Processes, CancelTimersSnapshot(c)
  PROVE  /\ OnlyTx(c)
         /\ tx'[c].pc = "locking" /\ tx[c].pc = "update"
         /\ tx[c].op \in {"ack", "human"}
         /\ tx'[c].op = tx[c].op
         /\ tx'[c].todo = LiveTimers /\ tx'[c].timers = tx[c].timers
         /\ tx'[c].target = tx[c].target /\ tx'[c].loaded = tx[c].loaded
         /\ tx'[c].row = tx[c].row /\ tx'[c].added = tx[c].added
<1>1. tx[c] \in Transaction
  BY DEF TypeOK
<1> QED
  BY <1>1 DEF TypeOK, Transaction, OnlyTx, CancelTimersSnapshot

\* A timer is passed over, or moves the escalation on.
LEMMA TimerProcessed ==
  ASSUME TypeOK, NEW p \in Processes, NEW i \in tx[p].todo, ProcessTimer(p, i)
  PROVE  /\ OnlyTx(p) /\ tx[p].pc = "timers"
         /\ tx'[p].op = tx[p].op /\ tx'[p].target = tx[p].target
         /\ tx'[p].timers = tx[p].timers /\ tx'[p].todo = tx[p].todo \ {i}
         /\ tx'[p].added = tx[p].added
         /\ tx'[p].loaded = IF Dirty(p) THEN tx[p].loaded ELSE state
         /\ \/ /\ Row(p) \in Terminal \/ ~Escalates(i)
               /\ tx'[p].pc = "timers" /\ tx'[p].row = Row(p)
            \/ /\ Row(p) \notin Terminal /\ Escalates(i)
               /\ \E next \in Decisions :
                    \/ /\ next.to = "WAITING_ACK" /\ tx'[p].pc = "flush"
                       /\ tx'[p].row = Row(p) /\ tx'[p].next = next
                    \/ /\ next.to # "WAITING_ACK" /\ tx'[p].pc = "timers"
                       /\ tx'[p].row = next.to
<1> DEFINE loaded == IF Dirty(p) THEN tx[p].loaded ELSE state
           Done(pc, row, next) ==
              tx' = [tx EXCEPT ![p].pc = pc, ![p].todo = @ \ {i},
                               ![p].loaded = loaded, ![p].row = row,
                               ![p].next = next]
<1>1. tx[p] \in Transaction
  BY DEF TypeOK
<1>2. tx[p].pc = "timers"
  BY DEF ProcessTimer
<1>3. ASSUME NEW pc, NEW row, NEW next, Done(pc, row, next)
      PROVE  /\ OnlyTx(p)
             /\ tx'[p].op = tx[p].op /\ tx'[p].target = tx[p].target
             /\ tx'[p].timers = tx[p].timers /\ tx'[p].todo = tx[p].todo \ {i}
             /\ tx'[p].added = tx[p].added /\ tx'[p].loaded = loaded
             /\ tx'[p].pc = pc /\ tx'[p].row = row /\ tx'[p].next = next
  <2> HIDE DEF loaded
  <2> QED
    BY <1>1, <1>3 DEF TypeOK, Transaction, OnlyTx, Done
<1>4. CASE (Row(p) \in Terminal \/ ~Escalates(i)) /\ Done("timers", Row(p), NoAction)
  <2> HIDE DEF Done
  <2> QED
    BY <1>2, <1>3, <1>4
<1>5. ASSUME Row(p) \notin Terminal, Escalates(i), NEW next \in Decisions,
             IF next.to = "WAITING_ACK" THEN Done("flush", Row(p), next)
                                        ELSE Done("timers", next.to, NoAction)
      PROVE  /\ OnlyTx(p)
             /\ tx'[p].op = tx[p].op /\ tx'[p].target = tx[p].target
             /\ tx'[p].timers = tx[p].timers /\ tx'[p].todo = tx[p].todo \ {i}
             /\ tx'[p].added = tx[p].added /\ tx'[p].loaded = loaded
             /\ \/ /\ next.to = "WAITING_ACK" /\ tx'[p].pc = "flush"
                   /\ tx'[p].row = Row(p) /\ tx'[p].next = next
                \/ /\ next.to # "WAITING_ACK" /\ tx'[p].pc = "timers"
                   /\ tx'[p].row = next.to
  <2> HIDE DEF Done
  <2> QED
    BY <1>3, <1>5
<1>6. \/ /\ Row(p) \in Terminal \/ ~Escalates(i)
         /\ Done("timers", Row(p), NoAction)
      \/ /\ Row(p) \notin Terminal /\ Escalates(i)
         /\ \E next \in Decisions :
              IF next.to = "WAITING_ACK" THEN Done("flush", Row(p), next)
                                         ELSE Done("timers", next.to, NoAction)
  BY DEF ProcessTimer
<1> HIDE DEF Done
<1> QED
  BY <1>2, <1>4, <1>5, <1>6

LEMMA TimerFlushed ==
  ASSUME TypeOK, NEW p \in Processes, FlushTimer(p)
  PROVE  /\ OnlyTx(p) /\ RowFree(p) /\ tx[p].pc = "flush" /\ tx[p].op = "timers"
         /\ \/ tx'[p] = Idle
            \/ /\ tx'[p].pc = "timers" /\ tx'[p].op = "timers"
               /\ tx'[p].row = "WAITING_ACK" /\ tx'[p].loaded = tx[p].loaded
               /\ tx'[p].target = tx[p].target
               /\ tx'[p].timers = tx[p].timers /\ tx'[p].todo = tx[p].todo
               /\ tx'[p].added = Append(tx[p].added, NewAttempt(tx[p].next))
<1>1. tx[p] \in Transaction
  BY DEF TypeOK
<1>2. RowFree(p) /\ tx[p].pc = "flush" /\ tx[p].op = "timers"
  BY DEF FlushTimer
<1>3. CASE Rollback(p)
  BY <1>2, <1>3, RolledBack
<1>4. CASE tx' = [tx EXCEPT ![p].pc = "timers", ![p].row = "WAITING_ACK",
                            ![p].added = Append(@, NewAttempt(tx[p].next)),
                            ![p].next = NoAction]
  BY <1>1, <1>2, <1>4 DEF TypeOK, Transaction, OnlyTx
<1> QED
  BY <1>3, <1>4 DEF FlushTimer

LEMMA AnswerCommitted ==
  ASSUME TypeOK, NEW c \in Callers, AnswerCommit(c)
  PROVE  /\ OnlyTx(c) /\ tx'[c] = Idle /\ answered'
         /\ Ids' = Ids
         /\ \A i \in Ids :
              /\ attempts'[i].step = attempts[i].step
              /\ attempts'[i].due = attempts[i].due
              /\ attempts'[i].state = IF tx[c].op = "ack" /\ i = tx[c].target
                                      THEN "ACKNOWLEDGED" ELSE attempts[i].state
              /\ attempts'[i].timer = IF i \in tx[c].todo \cap LiveTimers
                                      THEN "CANCELED" ELSE attempts[i].timer
<1> DEFINE S(i) == IF tx[c].op = "ack" /\ i = tx[c].target
                   THEN "ACKNOWLEDGED" ELSE attempts[i].state
           T(i) == IF i \in tx[c].todo \cap LiveTimers
                   THEN "CANCELED" ELSE attempts[i].timer
<1>1. /\ attempts' = [i \in Ids |-> Rewritten(attempts[i], S(i), T(i))]
      /\ Rollback(c) /\ answered' = TRUE
  BY DEF AnswerCommit, Rewritten
<1>2. ASSUME NEW i \in Ids
      PROVE  /\ attempts'[i].step = attempts[i].step
             /\ attempts'[i].due = attempts[i].due
             /\ attempts'[i].state = S(i) /\ attempts'[i].timer = T(i)
  <2>1. attempts[i] \in Attempt
    BY RowsTyped
  <2> HIDE DEF S, T
  <2>2. attempts'[i] = Rewritten(attempts[i], S(i), T(i))
    BY <1>1
  <2> QED
    BY <2>1, <2>2, RewrittenFields
<1>3. Ids' = Ids
  BY <1>1 DEF Ids
<1>4. OnlyTx(c) /\ tx'[c] = Idle
  BY <1>1, RolledBack DEF Processes
<1> HIDE DEF S, T
<1>5. \A i \in Ids : /\ attempts'[i].step = attempts[i].step
                     /\ attempts'[i].due = attempts[i].due
                     /\ attempts'[i].state = S(i) /\ attempts'[i].timer = T(i)
  BY <1>2
<1> QED
  BY <1>1, <1>3, <1>4, <1>5 DEF S, T

LEMMA ExecutedCommitted ==
  ASSUME TypeOK, NEW c \in Callers, ActionExecutedCommit(c)
  PROVE  /\ OnlyTx(c) /\ tx'[c] = Idle
         /\ Ids' = Ids
         /\ \A i \in Ids :
              /\ attempts'[i].step = attempts[i].step
              /\ attempts'[i].due = attempts[i].due
              /\ attempts'[i].state \in {attempts[i].state, "EXECUTED"}
              /\ attempts'[i].timer = attempts[i].timer
<1> DEFINE E(a) == [a EXCEPT !.state = "EXECUTED"]
<1>1. /\ attempts' = [attempts EXCEPT ![tx[c].target] = E(attempts[tx[c].target])]
      /\ Rollback(c)
  BY DEF ActionExecutedCommit
<1>2. ASSUME NEW a \in Attempt
      PROVE  /\ E(a).step = a.step /\ E(a).due = a.due
             /\ E(a).timer = a.timer /\ E(a).state = "EXECUTED"
  BY DEF Attempt
<1>3. attempts \in [Ids -> Attempt]
  BY RowsTyped
<1> HIDE DEF E
<1>4. Ids' = Ids
  BY <1>1 DEF Ids
<1>5. \A i \in Ids : attempts'[i] = attempts[i] \/ attempts'[i] = E(attempts[i])
  BY <1>1, <1>3
<1>6. OnlyTx(c) /\ tx'[c] = Idle
  BY <1>1, RolledBack DEF Processes
<1> QED
  BY <1>2, <1>3, <1>4, <1>5, <1>6

LEMMA TimerElapsed ==
  ASSUME TypeOK, NEW k \in Ids, AckTimeoutElapses(k)
  PROVE  /\ Ids' = Ids
         /\ \A i \in Ids :
              /\ attempts'[i].step = attempts[i].step
              /\ attempts'[i].state = attempts[i].state
              /\ attempts'[i].timer = attempts[i].timer
              /\ attempts[i].due => attempts'[i].due
              /\ i # k => attempts'[i].due = attempts[i].due
<1> DEFINE E(a) == [a EXCEPT !.due = TRUE]
<1>1. attempts' = [attempts EXCEPT ![k] = E(attempts[k])]
  BY DEF AckTimeoutElapses
<1>2. ASSUME NEW a \in Attempt
      PROVE  /\ E(a).step = a.step /\ E(a).state = a.state
             /\ E(a).timer = a.timer /\ E(a).due
  BY DEF Attempt
<1>3. attempts \in [Ids -> Attempt]
  BY RowsTyped
<1> HIDE DEF E
<1>4. Ids' = Ids
  BY <1>1 DEF Ids
<1>5. \A i \in Ids : \/ attempts'[i] = attempts[i]
                     \/ i = k /\ attempts'[i] = E(attempts[i])
  BY <1>1, <1>3
<1> QED
  BY <1>2, <1>3, <1>4, <1>5

\* A failure report that commits is rolled back, or marks its attempt and adds
\* the action it decided on, or marks its attempt and ends the escalation.
LEMMA FailureCommitted ==
  ASSUME TypeInv, NEW c \in Callers, ActionFailedCommit(c)
  PROVE  /\ OnlyTx(c) /\ tx'[c] = Idle /\ RowFree(c)
         /\ tx[c].pc = "flush" /\ tx[c].op = "fail"
         /\ \/ attempts' = attempts /\ state' = state
            \/ /\ \A i \in Ids :
                    /\ attempts'[i].step = attempts[i].step
                    /\ attempts'[i].due = attempts[i].due
                    /\ attempts'[i].state = IF i = tx[c].target THEN "FAILED"
                                            ELSE attempts[i].state
                    /\ attempts'[i].timer = IF i \in tx[c].timers THEN "CANCELED"
                                            ELSE attempts[i].timer
               /\ \/ /\ tx[c].next.to = "WAITING_ACK"
                     /\ Ids' = 1..(Len(attempts) + 1)
                     /\ attempts'[Len(attempts) + 1] = NewAttempt(tx[c].next)
                     /\ state' = "WAITING_ACK"
                  \/ /\ tx[c].next.to \in {"COMPLETED", "FAILED"} /\ Ids' = Ids
                     /\ state' = IF tx[c].next.to # tx[c].loaded
                                 THEN tx[c].next.to ELSE state
<1> DEFINE S(i) == IF i = tx[c].target THEN "FAILED" ELSE attempts[i].state
           T(i) == IF i \in tx[c].timers THEN "CANCELED" ELSE attempts[i].timer
           failed == [i \in Ids |->
                        [attempts[i] EXCEPT
                            !.state = IF i = tx[c].target THEN "FAILED" ELSE @,
                            !.timer = IF i \in tx[c].timers THEN "CANCELED" ELSE @]]
           next == tx[c].next
<1>0. TypeOK /\ c \in Processes /\ tx[c] \in Transaction
  BY DEF TypeInv, TypeOK, Processes
<1>1. /\ Len(attempts) \in Nat /\ Ids = 1..Len(attempts)
      /\ attempts \in [Ids -> Attempt]
  BY <1>0, RowsTyped
<1>2. failed \in Seq(Attempt) /\ Len(failed) = Len(attempts)
  <2>1. failed \in [Ids -> Attempt]
    BY <1>0, FailureRewrites
  <2> QED
    BY <1>0, <2>1, Relabeled DEF TypeOK
<1>3. \A i \in Ids : /\ failed[i].step = attempts[i].step
                     /\ failed[i].due = attempts[i].due
                     /\ failed[i].state = S(i) /\ failed[i].timer = T(i)
  <2>1. failed = [i \in Ids |-> Rewritten(attempts[i], S(i), T(i))]
    BY DEF Rewritten
  <2> HIDE DEF S, T, failed
  <2> SUFFICES ASSUME NEW i \in Ids
               PROVE  /\ failed[i].step = attempts[i].step
                      /\ failed[i].due = attempts[i].due
                      /\ failed[i].state = S(i) /\ failed[i].timer = T(i)
    OBVIOUS
  <2>2. attempts[i] \in Attempt /\ failed[i] = Rewritten(attempts[i], S(i), T(i))
    BY <1>1, <2>1
  <2> QED
    BY <2>2, RewrittenFields
<1>4. OnlyTx(c) /\ tx'[c] = Idle /\ RowFree(c) /\ tx[c].pc = "flush"
      /\ tx[c].op = "fail"
  BY <1>0, RolledBack DEF ActionFailedCommit
<1>5. next.to \in {"WAITING_ACK", "COMPLETED", "FAILED"}
  BY <1>0, <1>4 DEF TypeInv, Decided
<1>6. \/ attempts' = attempts /\ state' = state
      \/ /\ next.to = "WAITING_ACK"
         /\ attempts' = Append(failed, NewAttempt(next))
         /\ state' = "WAITING_ACK"
      \/ /\ next.to # "WAITING_ACK"
         /\ attempts' = failed
         /\ state' = IF next.to # tx[c].loaded THEN next.to ELSE state
  BY DEF ActionFailedCommit
<1> HIDE DEF failed
<1>7. CASE /\ next.to = "WAITING_ACK"
           /\ attempts' = Append(failed, NewAttempt(next))
           /\ state' = "WAITING_ACK"
  <2>1. NewAttempt(next) \in Attempt
    BY <1>0, <1>7, OutcomeTaken, NewAttemptTyped DEF Transaction
  <2>2. /\ Len(attempts') = Len(attempts) + 1
        /\ \A i \in 1..Len(attempts) : attempts'[i] = failed[i]
        /\ attempts'[Len(attempts) + 1] = NewAttempt(next)
        /\ attempts' \in Seq(Attempt)
    BY <1>1, <1>2, <1>7, <2>1, AppendProperties
  <2>3. Ids' = 1..(Len(attempts) + 1)
    BY <2>2, LenProperties DEF Ids
  <2> HIDE DEF next
  <2>4. \A i \in Ids : attempts'[i] = failed[i]
    BY <1>1, <2>2
  <2> QED
    BY <1>3, <1>4, <1>7, <2>2, <2>3, <2>4 DEF next
<1>8. CASE /\ next.to # "WAITING_ACK"
           /\ attempts' = failed
           /\ state' = IF next.to # tx[c].loaded THEN next.to ELSE state
  <2>1. Ids' = Ids
    BY <1>1, <1>2, <1>8, LenProperties DEF Ids
  <2> QED
    BY <1>3, <1>4, <1>5, <1>8, <2>1
<1> QED
  BY <1>4, <1>6, <1>7, <1>8

\* The commit of a batch: its timers are done, and what it flushed follows the
\* attempts there were.
LEMMA BatchCommitted ==
  ASSUME TypeOK, NEW p \in Processes, CommitTimers(p)
  PROVE  /\ OnlyTx(p) /\ tx'[p] = Idle /\ state' = Row(p)
         /\ tx[p].pc = "timers" /\ tx[p].todo = {}
         /\ Len(tx[p].added) \in Nat
         /\ DOMAIN tx[p].added = 1..Len(tx[p].added)
         /\ Ids' = 1..(Len(attempts) + Len(tx[p].added))
         /\ \A i \in Ids :
              /\ attempts'[i].step = attempts[i].step
              /\ attempts'[i].due = attempts[i].due
              /\ attempts'[i].state = attempts[i].state
              /\ attempts'[i].timer = IF i \in tx[p].timers THEN "DONE"
                                      ELSE attempts[i].timer
         /\ \A j \in 1..Len(tx[p].added) :
              attempts'[Len(attempts) + j] = tx[p].added[j]
<1> DEFINE S(i) == attempts[i].state
           T(i) == IF i \in tx[p].timers THEN "DONE" ELSE attempts[i].timer
           done == [i \in Ids |->
                      [attempts[i] EXCEPT
                          !.timer = IF i \in tx[p].timers THEN "DONE" ELSE @]]
           added == tx[p].added
<1>1. /\ Len(attempts) \in Nat /\ Ids = 1..Len(attempts)
      /\ attempts \in [Ids -> Attempt]
  BY RowsTyped
<1>2. added \in Seq(Attempt)
  BY DEF TypeOK, Transaction
<1>3. Len(added) \in Nat /\ DOMAIN added = 1..Len(added)
  BY <1>2, LenProperties
<1>4. done \in [Ids -> Attempt]
  BY <1>1 DEF Attempt
<1>5. done \in Seq(Attempt) /\ Len(done) = Len(attempts)
  BY <1>4, Relabeled DEF TypeOK
<1>6. ASSUME NEW a \in Attempt, NEW t
      PROVE  /\ [a EXCEPT !.timer = t].step = a.step
             /\ [a EXCEPT !.timer = t].due = a.due
             /\ [a EXCEPT !.timer = t].state = a.state
             /\ [a EXCEPT !.timer = t].timer = t
  BY DEF Attempt
<1>7. ASSUME NEW i \in Ids
      PROVE  /\ done[i].step = attempts[i].step
             /\ done[i].due = attempts[i].due
             /\ done[i].state = S(i) /\ done[i].timer = T(i)
  <2>1. attempts[i] \in Attempt /\ done[i] = [attempts[i] EXCEPT !.timer = T(i)]
    BY <1>1
  <2> HIDE DEF T, done
  <2> QED
    BY <1>6, <2>1
<1>8. /\ attempts' = done \o added /\ state' = Row(p) /\ Rollback(p)
      /\ tx[p].pc = "timers" /\ tx[p].todo = {}
  BY DEF CommitTimers
<1>9. OnlyTx(p) /\ tx'[p] = Idle
  BY <1>8, RolledBack
<1> HIDE DEF done, added
<1>10. /\ DOMAIN attempts' = 1..(Len(attempts) + Len(added))
       /\ \A i \in Ids : attempts'[i] = done[i]
       /\ \A j \in 1..Len(added) : attempts'[Len(attempts) + j] = added[j]
  <2>1. /\ DOMAIN (done \o added) = 1..(Len(done) + Len(added))
        /\ \A i \in 1..Len(done) : (done \o added)[i] = done[i]
        /\ \A j \in 1..Len(added) : (done \o added)[Len(done) + j] = added[j]
    BY <1>2, <1>5, Concatenated
  <2> QED
    BY <1>1, <1>5, <1>8, <2>1
<1>11. \A i \in Ids : /\ attempts'[i].step = attempts[i].step
                      /\ attempts'[i].due = attempts[i].due
                      /\ attempts'[i].state = S(i) /\ attempts'[i].timer = T(i)
  BY <1>7, <1>10
<1> QED
  BY <1>3, <1>8, <1>9, <1>10, <1>11 DEF Ids, added

\* The first step is decided on when there are neither attempts nor
\* transactions.
LEMMA FirstDecided ==
  ASSUME DispatchInv, CompleteDecision
  PROVE  /\ state = "RECEIVED" /\ Ids = {} /\ tx' = tx
         /\ \A p \in Processes : tx[p] = Idle
         /\ UNCHANGED <<policy, answered, reported>>
         /\ \E next \in Decisions :
              /\ state' = next.to
              /\ \/ /\ next.to = "WAITING_ACK" /\ Ids' = {1}
                    /\ attempts'[1] = NewAttempt(next)
                 \/ next.to # "WAITING_ACK" /\ Ids' = {}
<1>1. state = "RECEIVED" /\ attempts = <<>> /\ tx' = tx
  BY DEF CompleteDecision, DispatchInv, Started
<1>2. \A p \in Processes : tx[p] = Idle
  BY <1>1 DEF DispatchInv, Started
<1>3. Ids = {}
  BY <1>1 DEF Ids
<1>4. PICK next \in Decisions :
        /\ state' = next.to
        /\ attempts' = IF next.to = "WAITING_ACK"
                       THEN <<NewAttempt(next)>> ELSE <<>>
  BY DEF CompleteDecision
<1>5. CASE next.to = "WAITING_ACK"
  <2>1. Ids' = {1} /\ attempts'[1] = NewAttempt(next)
    BY <1>4, <1>5 DEF Ids
  <2> QED
    BY <1>1, <1>2, <1>3, <1>4, <1>5, <2>1 DEF CompleteDecision
<1>6. CASE next.to # "WAITING_ACK"
  <2>1. Ids' = {}
    BY <1>4, <1>6 DEF Ids
  <2> QED
    BY <1>1, <1>2, <1>3, <1>4, <1>6, <2>1 DEF CompleteDecision
<1> QED
  BY <1>5, <1>6

\* The steps of Next, the worker's and a request's timers taken together.
LEMMA NextCases ==
  ASSUME [Next]_vars
  PROVE  \/ CompleteDecision
         \/ UpdatePolicy
         \/ UNCHANGED vars
         \/ \E i \in Ids : AckTimeoutElapses(i)
         \/ \E w \in Workers : ClaimDueTimers(w)
         \/ \E c \in Callers : ForceNextTimer(c)
         \/ \E p \in Processes :
              \/ FlushTimer(p) \/ CommitTimers(p) \/ Crash(p)
              \/ \E i \in tx[p].todo : ProcessTimer(p, i)
         \/ \E c \in Callers, a \in Ids :
              \/ ActionFailedRead(c, a) \/ AcknowledgeRead(c, a)
              \/ ActionExecutedRead(c, a)
         \/ \E c \in Callers :
              \/ HumanReplyRead(c) \/ ActionFailedDispatch(c)
              \/ ActionFailedCommit(c) \/ CancelTimersSnapshot(c)
              \/ AnswerCommit(c) \/ ActionExecutedCommit(c)
<1>1. ASSUME NEW w \in Workers, WorkerStep(w)
      PROVE  \/ ClaimDueTimers(w)
             \/ /\ w \in Processes
                /\ \/ FlushTimer(w) \/ CommitTimers(w)
                   \/ \E i \in tx[w].todo : ProcessTimer(w, i)
  BY <1>1 DEF WorkerStep, TimerStep, Processes
<1>2. ASSUME NEW c \in Callers, Request(c)
      PROVE  \/ ForceNextTimer(c) \/ HumanReplyRead(c)
             \/ \E a \in Ids : \/ ActionFailedRead(c, a) \/ AcknowledgeRead(c, a)
                               \/ ActionExecutedRead(c, a)
  BY <1>2 DEF Request
<1>3. ASSUME NEW c \in Callers, RequestStep(c)
      PROVE  \/ ActionFailedDispatch(c) \/ ActionFailedCommit(c)
             \/ CancelTimersSnapshot(c) \/ AnswerCommit(c)
             \/ ActionExecutedCommit(c)
             \/ /\ c \in Processes
                /\ \/ FlushTimer(c) \/ CommitTimers(c)
                   \/ \E i \in tx[c].todo : ProcessTimer(c, i)
  BY <1>3 DEF RequestStep, TimerStep, Processes
<1> QED
  BY <1>1, <1>2, <1>3 DEF Next, Elapse

\* The steps that write no attempt.
LEMMA RowsLeft ==
  ASSUME \/ UpdatePolicy \/ UNCHANGED vars
         \/ \E w \in Workers : ClaimDueTimers(w)
         \/ \E c \in Callers : ForceNextTimer(c)
         \/ \E p \in Processes :
              \/ FlushTimer(p) \/ Crash(p)
              \/ \E i \in tx[p].todo : ProcessTimer(p, i)
         \/ \E c \in Callers, a \in Ids :
              \/ ActionFailedRead(c, a) \/ AcknowledgeRead(c, a)
              \/ ActionExecutedRead(c, a)
         \/ \E c \in Callers :
              \/ HumanReplyRead(c) \/ ActionFailedDispatch(c)
              \/ CancelTimersSnapshot(c)
  PROVE  attempts' = attempts /\ state' = state /\ answered' = answered
<1>1. CASE UpdatePolicy \/ UNCHANGED vars
  BY <1>1 DEF UpdatePolicy, vars
<1>2. CASE \/ \E w \in Workers : ClaimDueTimers(w)
           \/ \E c \in Callers : ForceNextTimer(c)
  BY <1>2 DEF ClaimDueTimers, ForceNextTimer, Claim
<1>3. CASE \E p \in Processes : \/ FlushTimer(p) \/ Crash(p)
                              \/ \E i \in tx[p].todo : ProcessTimer(p, i)
  <2>1. ASSUME NEW p, FlushTimer(p)
        PROVE  attempts' = attempts /\ state' = state /\ answered' = answered
    BY <2>1 DEF FlushTimer
  <2>2. ASSUME NEW p, Crash(p)
        PROVE  attempts' = attempts /\ state' = state /\ answered' = answered
    BY <2>2 DEF Crash
  <2>3. ASSUME NEW p, NEW i, ProcessTimer(p, i)
        PROVE  attempts' = attempts /\ state' = state /\ answered' = answered
    BY <2>3 DEF ProcessTimer
  <2> QED
    BY <1>3, <2>1, <2>2, <2>3
<1>4. CASE \E c \in Callers, a \in Ids :
              \/ ActionFailedRead(c, a) \/ AcknowledgeRead(c, a)
              \/ ActionExecutedRead(c, a)
  BY <1>4 DEF ActionFailedRead, AcknowledgeRead, ActionExecutedRead
<1>5. CASE \E c \in Callers :
              \/ HumanReplyRead(c) \/ ActionFailedDispatch(c)
              \/ CancelTimersSnapshot(c)
  BY <1>5 DEF HumanReplyRead, ActionFailedDispatch, CancelTimersSnapshot
<1> QED
  BY <1>1, <1>2, <1>3, <1>4, <1>5

-----------------------------------------------------------------------------
(* The ladder is climbed in order *)

\* Every earlier step has been attempted.
Reached(s) == \A t \in Steps : t < s => t \in Attempted

\* The attempts only grow, by steps whose earlier steps were attempted before.
Grows ==
    /\ Ids \subseteq Ids' /\ Ids' \subseteq Nat \ {0}
    /\ \A i \in Ids : attempts'[i].step = attempts[i].step
    /\ \A i \in Ids' \ Ids : Reached(attempts'[i].step)

\* What a process has decided to dispatch, and what it has flushed.
Promised(p) ==
    /\ tx[p].pc = "flush" /\ tx[p].next.to = "WAITING_ACK"
           => Reached(tx[p].next.step)
    /\ \A j \in DOMAIN tx[p].added : Reached(tx[p].added[j].step)

Supported == LadderInOrder /\ \A p \in Processes : Promised(p)

LadderInv == DispatchInv /\ Supported

LEMMA StepsNatural == Steps \subseteq Nat
<1> SUFFICES ASSUME NEW p \in Policies, NEW i \in DOMAIN p
             PROVE  i - 1 \in Nat
  BY DEF Steps
<1>1. p \in Seq(STRING)
  BY PolicyAssumption
<1>2. DOMAIN p = 1..Len(p) /\ Len(p) \in Nat
  BY <1>1, LenProperties
<1> QED
  BY <1>2

\* dispatch_next_action decides on a step whose earlier steps were attempted,
\* whichever policy is current.
LEMMA DecisionReached ==
  ASSUME policy \in Policies, NEW next \in Decisions, next.to = "WAITING_ACK"
  PROVE  Reached(next.step)
<1>1. PICK s \in FirstUntried : next.step = s
  BY DEF Decisions
<1>2. /\ s \in Steps /\ s + 1 \in DOMAIN policy
      /\ \A t \in Untried : s <= t
  BY DEF FirstUntried, Untried
<1>3. DOMAIN policy = 1..Len(policy) /\ Len(policy) \in Nat
  BY PolicyAssumption, LenProperties
<1>4. ASSUME NEW t \in Steps, t < s
      PROVE  t \in Attempted
  <2>1. t \in Nat /\ s \in Nat
    BY <1>2, StepsNatural
  <2>2. t + 1 \in DOMAIN policy
    BY <1>2, <1>3, <1>4, <2>1
  <2>3. t \notin Untried
    BY <1>2, <1>4, <2>1
  <2> QED
    BY <2>2, <2>3 DEF Untried
<1> QED
  BY <1>1, <1>4 DEF Reached

LEMMA LadderGrows ==
  ASSUME TypeOK, LadderInOrder, Grows
  PROVE  LadderInOrder' /\ Attempted \subseteq Attempted'
<1>1. Len(attempts) \in Nat /\ Ids = 1..Len(attempts)
  BY RowsTyped
<1>2. Attempted \subseteq Attempted'
  BY DEF Attempted, Grows
<1>3. ASSUME NEW i \in Ids', NEW s \in Steps, s < attempts'[i].step
      PROVE  \E j \in 1..(i - 1) : attempts'[j].step = s
  <2>1. CASE i \in Ids
    <3>1. PICK j \in 1..(i - 1) : attempts[j].step = s
      BY <1>3, <2>1 DEF LadderInOrder, Grows
    <3>2. j \in Ids
      BY <1>1, <2>1, <3>1
    <3> QED
      BY <3>1, <3>2 DEF Grows
  <2>2. CASE i \notin Ids
    <3>1. s \in Attempted
      BY <1>3, <2>2 DEF Grows, Reached
    <3>2. PICK j \in Ids : attempts[j].step = s
      BY <3>1 DEF Attempted
    <3>3. j \in 1..(i - 1)
      BY <1>1, <2>2 DEF Grows
    <3> QED
      BY <3>2, <3>3 DEF Grows
  <2> QED
    BY <2>1, <2>2
<1> QED
  BY <1>2, <1>3 DEF LadderInOrder

LEMMA GrowthStep ==
  ASSUME LadderInv, [Next]_vars
  PROVE  Grows
<1> USE DEF LadderInv, DispatchInv, TypeInv
<1>0. Len(attempts) \in Nat /\ Ids = 1..Len(attempts)
  BY RowsTyped
<1>1. CASE attempts' = attempts
  BY <1>0, <1>1 DEF Grows, Ids
<1>2. ASSUME Ids' = Ids, \A i \in Ids : attempts'[i].step = attempts[i].step
      PROVE  Grows
  BY <1>0, <1>2 DEF Grows
<1>3. CASE CompleteDecision
  <2>1. PICK next \in Decisions :
           \/ /\ next.to = "WAITING_ACK" /\ Ids' = {1}
              /\ attempts'[1] = NewAttempt(next)
           \/ next.to # "WAITING_ACK" /\ Ids' = {}
    BY <1>3, FirstDecided
  <2>2. Ids = {}
    BY <1>3, FirstDecided
  <2>3. next.to = "WAITING_ACK" => Reached(next.step)
    BY DecisionReached DEF TypeOK
  <2> QED
    BY <2>1, <2>2, <2>3 DEF Grows, NewAttempt
<1>4. CASE \E i \in Ids : AckTimeoutElapses(i)
  BY <1>2, <1>4, TimerElapsed
<1>5. CASE \E c \in Callers : AnswerCommit(c) \/ ActionExecutedCommit(c)
  BY <1>2, <1>5, AnswerCommitted, ExecutedCommitted
<1>6. ASSUME NEW c \in Callers, ActionFailedCommit(c)
      PROVE  Grows
  <2>0. c \in Processes
    BY DEF Processes
  <2>1. CASE attempts' = attempts
    BY <1>1, <2>1
  <2>2. CASE /\ \A i \in Ids : attempts'[i].step = attempts[i].step
             /\ Ids' = Ids
    BY <1>2, <2>2
  <2>3. CASE /\ \A i \in Ids : attempts'[i].step = attempts[i].step
             /\ tx[c].pc = "flush" /\ tx[c].next.to = "WAITING_ACK"
             /\ Ids' = 1..(Len(attempts) + 1)
             /\ attempts'[Len(attempts) + 1] = NewAttempt(tx[c].next)
    <3>1. Reached(tx[c].next.step)
      BY <2>0, <2>3 DEF Supported, Promised
    <3>2. attempts'[Len(attempts) + 1].step = tx[c].next.step
      BY <2>3 DEF NewAttempt
    <3>3. \A i \in Ids' \ Ids : i = Len(attempts) + 1
      BY <1>0, <2>3
    <3> QED
      BY <1>0, <2>3, <3>1, <3>2, <3>3 DEF Grows
  <2> QED
    BY <1>6, <2>1, <2>2, <2>3, FailureCommitted
<1>7. ASSUME NEW p \in Processes, CommitTimers(p)
      PROVE  Grows
  <2> DEFINE n == Len(tx[p].added)
  <2>1. /\ n \in Nat /\ DOMAIN tx[p].added = 1..n
        /\ Ids' = 1..(Len(attempts) + n)
        /\ \A i \in Ids : attempts'[i].step = attempts[i].step
        /\ \A j \in 1..n : attempts'[Len(attempts) + j] = tx[p].added[j]
    BY <1>7, BatchCommitted
  <2>2. \A j \in 1..n : Reached(tx[p].added[j].step)
    BY <2>1 DEF Supported, Promised
  <2> HIDE DEF n
  <2>3. ASSUME NEW i \in Ids' \ Ids
        PROVE  Reached(attempts'[i].step)
    <3>1. PICK j \in 1..n : i = Len(attempts) + j
      <4>1. i - Len(attempts) \in 1..n /\ i = Len(attempts) + (i - Len(attempts))
        BY <1>0, <2>1
      <4> QED
        BY <4>1
    <3> QED
      BY <2>1, <2>2, <3>1
  <2> QED
    BY <1>0, <2>1, <2>3 DEF Grows
<1> QED
  BY <1>1, <1>3, <1>4, <1>5, <1>6, <1>7, NextCases, RowsLeft

\* What can become of one process's transaction in a step.
LEMMA TxCases ==
  ASSUME DispatchInv, [Next]_vars, NEW q \in Processes
  PROVE  \/ tx'[q] = tx[q]
         \/ tx'[q] = Idle
         \/ FlushTimer(q)
         \/ \E i \in tx[q].todo : ProcessTimer(q, i)
         \/ q \in Workers /\ ClaimDueTimers(q)
         \/ q \in Callers /\ ForceNextTimer(q)
         \/ /\ q \in Callers
            /\ \E a \in Ids : \/ ActionFailedRead(q, a) \/ AcknowledgeRead(q, a)
                              \/ ActionExecutedRead(q, a)
         \/ /\ q \in Callers
            /\ \/ HumanReplyRead(q) \/ ActionFailedDispatch(q)
               \/ CancelTimersSnapshot(q)
<1> USE DEF DispatchInv, TypeInv
<1>1. CASE UpdatePolicy \/ UNCHANGED vars \/ CompleteDecision
  BY <1>1 DEF UpdatePolicy, vars, CompleteDecision
<1>2. CASE \E i \in Ids : AckTimeoutElapses(i)
  BY <1>2 DEF AckTimeoutElapses
<1>3. ASSUME NEW p \in Processes, OnlyTx(p), p # q
      PROVE  tx'[q] = tx[q]
  BY <1>3 DEF OnlyTx
<1>4. ASSUME NEW w \in Workers, ClaimDueTimers(w)
      PROVE  tx'[q] = tx[q] \/ q = w
  BY <1>3, <1>4, Claimed DEF ClaimDueTimers, Processes
<1>5. ASSUME NEW c \in Callers, ForceNextTimer(c)
      PROVE  tx'[q] = tx[q] \/ q = c
  BY <1>3, <1>5, Claimed DEF ForceNextTimer, Processes
<1>6. ASSUME NEW p \in Processes, CommitTimers(p) \/ Crash(p)
      PROVE  tx'[q] = tx[q] \/ tx'[q] = Idle
  BY <1>3, <1>6, RolledBack DEF CommitTimers, Crash
<1>7. ASSUME NEW p \in Processes, FlushTimer(p)
      PROVE  tx'[q] = tx[q] \/ q = p
  BY <1>3, <1>7, TimerFlushed
<1>8. ASSUME NEW p \in Processes, NEW i \in tx[p].todo, ProcessTimer(p, i)
      PROVE  tx'[q] = tx[q] \/ q = p
  BY <1>3, <1>8, TimerProcessed
<1>9. ASSUME NEW c \in Callers, NEW a \in Ids,
             \/ ActionFailedRead(c, a) \/ AcknowledgeRead(c, a)
             \/ ActionExecutedRead(c, a)
      PROVE  tx'[q] = tx[q] \/ q = c
  BY <1>3, <1>9, Begun
     DEF ActionFailedRead, AcknowledgeRead, ActionExecutedRead, Processes
<1>10. ASSUME NEW c \in Callers,
              HumanReplyRead(c) \/ ActionFailedDispatch(c) \/ CancelTimersSnapshot(c)
       PROVE  tx'[q] = tx[q] \/ q = c
  BY <1>3, <1>10, Begun, FailureDispatched, SnapshotTaken
     DEF HumanReplyRead, Processes
<1>11. ASSUME NEW c \in Callers,
              ActionFailedCommit(c) \/ AnswerCommit(c) \/ ActionExecutedCommit(c)
       PROVE  tx'[q] = tx[q] \/ tx'[q] = Idle
  <2>1. c \in Processes /\ Rollback(c)
    BY <1>11 DEF ActionFailedCommit, AnswerCommit, ActionExecutedCommit, Processes
  <2> QED
    BY <1>3, <2>1, RolledBack
<1> QED
  BY <1>1, <1>2, <1>4, <1>5, <1>6, <1>7, <1>8, <1>9, <1>10, <1>11, NextCases

\* The fields of a transaction a request has begun.
LEMMA RequestBegun ==
  ASSUME TypeOK, NEW q \in Callers,
         \/ \E a \in Ids : \/ ActionFailedRead(q, a) \/ AcknowledgeRead(q, a)
                           \/ ActionExecutedRead(q, a)
         \/ HumanReplyRead(q)
  PROVE  /\ OnlyTx(q) /\ tx[q].pc = "idle"
         /\ tx'[q].pc \in {"update", "write"}
         /\ tx'[q].op \in {"fail", "ack", "human", "executed"}
         /\ tx'[q].op \in {"fail", "ack", "executed"} => tx'[q].target \in Ids
         /\ tx'[q].loaded = state /\ tx'[q].row = state
         /\ tx'[q].timers = {} /\ tx'[q].todo = {} /\ tx'[q].added = <<>>
         /\ tx'[q].op = "fail" => reported'
         /\ tx'[q].pc = "write" <=> tx'[q].op = "executed"
<1>0. q \in Processes
  BY DEF Processes
<1>1. ASSUME NEW a \in Ids, ActionFailedRead(q, a)
      PROVE  Begin(q, "update", "fail", a) /\ reported'
  BY <1>1 DEF ActionFailedRead
<1>2. ASSUME NEW a \in Ids, AcknowledgeRead(q, a)
      PROVE  Begin(q, "update", "ack", a)
  BY <1>2 DEF AcknowledgeRead
<1>3. ASSUME NEW a \in Ids, ActionExecutedRead(q, a)
      PROVE  Begin(q, "write", "executed", a)
  BY <1>3 DEF ActionExecutedRead
<1>4. ASSUME HumanReplyRead(q)
      PROVE  Begin(q, "update", "human", 0)
  BY <1>4 DEF HumanReplyRead
<1>5. \/ \E a \in Ids : Begin(q, "update", "fail", a) /\ reported'
      \/ \E a \in Ids : Begin(q, "update", "ack", a)
      \/ \E a \in Ids : Begin(q, "write", "executed", a)
      \/ Begin(q, "update", "human", 0)
  BY <1>1, <1>2, <1>3, <1>4
<1>6. CASE \E a \in Ids : Begin(q, "update", "fail", a) /\ reported'
  BY <1>0, <1>6, Begun
<1>7. CASE \E a \in Ids : Begin(q, "update", "ack", a)
  BY <1>0, <1>7, Begun
<1>8. CASE \E a \in Ids : Begin(q, "write", "executed", a)
  BY <1>0, <1>8, Begun
<1>9. CASE Begin(q, "update", "human", 0)
  BY <1>0, <1>9, Begun
<1> QED
  BY <1>5, <1>6, <1>7, <1>8, <1>9

\* The fields of a transaction that has claimed timers.
LEMMA TimersClaimed ==
  ASSUME TypeOK, NEW q \in Processes,
         \/ q \in Workers /\ ClaimDueTimers(q)
         \/ q \in Callers /\ ForceNextTimer(q)
  PROVE  /\ OnlyTx(q) /\ tx[q].pc = "idle"
         /\ tx'[q].pc = "timers" /\ tx'[q].op = "timers"
         /\ tx'[q].loaded = "RECEIVED" /\ tx'[q].row = "RECEIVED"
         /\ tx'[q].timers # {} /\ tx'[q].timers \subseteq LiveTimers
         /\ tx'[q].timers \cap LockedByOthers(q) = {}
         /\ tx'[q].todo = tx'[q].timers /\ tx'[q].added = <<>>
<1>1. CASE ClaimDueTimers(q)
  <2>1. Claim(q, {i \in LiveTimers : attempts[i].due} \ LockedByOthers(q))
    BY <1>1 DEF ClaimDueTimers
  <2> QED
    BY <2>1, Claimed
<1>2. CASE ForceNextTimer(q)
  <2>1. PICK i \in LiveTimers \ LockedByOthers(q) : Claim(q, {i})
    BY <1>2 DEF ForceNextTimer
  <2> QED
    BY <2>1, Claimed
<1> QED
  BY <1>1, <1>2

LEMMA PromiseStep ==
  ASSUME LadderInv, [Next]_vars, NEW q \in Processes
  PROVE  Promised(q)'
<1> USE DEF LadderInv, DispatchInv, TypeInv
<1> DEFINE Soon(s) == \A t \in Steps : t < s => t \in Attempted'
<1>1. Attempted \subseteq Attempted'
  BY GrowthStep, LadderGrows DEF Supported
<1>2. \A s : Reached(s) => Soon(s)
  BY <1>1 DEF Reached
<1>a. ASSUME tx'[q].pc = "flush" /\ tx'[q].next.to = "WAITING_ACK"
                 => Soon(tx'[q].next.step),
             \A j \in DOMAIN tx'[q].added : Soon(tx'[q].added[j].step)
      PROVE  Promised(q)'
  BY <1>a DEF Promised, Reached
<1> HIDE DEF Soon
<1>3. Promised(q)
  BY DEF Supported
<1>4. ASSUME tx'[q].added = tx[q].added \/ tx'[q].added = <<>>
      PROVE  \A j \in DOMAIN tx'[q].added : Soon(tx'[q].added[j].step)
  BY <1>2, <1>3, <1>4 DEF Promised
<1>5. CASE tx'[q] = tx[q]
  BY <1>2, <1>3, <1>5, <1>a DEF Promised
<1>6. CASE tx'[q] = Idle
  BY <1>6, <1>a DEF Idle
<1>7. CASE FlushTimer(q)
  <2>1. CASE tx'[q] = Idle
    BY <1>6, <2>1
  <2>2. CASE /\ tx'[q].pc = "timers" /\ tx[q].pc = "flush" /\ tx[q].op = "timers"
             /\ tx'[q].added = Append(tx[q].added, NewAttempt(tx[q].next))
    <3> DEFINE new == NewAttempt(tx[q].next)
    <3>1. tx[q] \in Transaction /\ tx[q].next.to = "WAITING_ACK"
      BY <2>2 DEF TypeOK, Decided
    <3>2. tx[q].added \in Seq(Attempt) /\ new \in Attempt
      BY <3>1, OutcomeTaken, NewAttemptTyped DEF Transaction
    <3>3. new.step = tx[q].next.step /\ Reached(new.step)
      BY <1>3, <2>2, <3>1 DEF NewAttempt, Promised
    <3> HIDE DEF new
    <3>4. /\ tx'[q].added \in Seq(Attempt)
          /\ Len(tx'[q].added) = Len(tx[q].added) + 1
          /\ \A j \in 1..Len(tx[q].added) : tx'[q].added[j] = tx[q].added[j]
          /\ tx'[q].added[Len(tx[q].added) + 1] = new
      BY <2>2, <3>2, AppendProperties DEF new
    <3>5. /\ DOMAIN tx'[q].added = 1..(Len(tx[q].added) + 1)
          /\ DOMAIN tx[q].added = 1..Len(tx[q].added) /\ Len(tx[q].added) \in Nat
      BY <3>2, <3>4, LenProperties
    <3>6. ASSUME NEW j \in DOMAIN tx'[q].added
          PROVE  Reached(tx'[q].added[j].step)
      <4>1. j \in 1..Len(tx[q].added) \/ j = Len(tx[q].added) + 1
        BY <3>5
      <4> QED
        BY <1>3, <3>3, <3>4, <3>5, <4>1 DEF Promised
    <3> QED
      BY <1>2, <1>a, <2>2, <3>6
  <2> QED
    BY <1>7, <2>1, <2>2, TimerFlushed
<1>8. CASE \E i \in tx[q].todo : ProcessTimer(q, i)
  <2>1. PICK i \in tx[q].todo : ProcessTimer(q, i)
    BY <1>8
  <2>2. tx'[q].added = tx[q].added
    BY <2>1, TimerProcessed
  <2>3. \/ tx'[q].pc = "timers"
        \/ tx'[q].next \in Decisions
    BY <2>1, TimerProcessed
  <2>4. tx'[q].next \in Decisions /\ tx'[q].next.to = "WAITING_ACK"
           => Reached(tx'[q].next.step)
    BY DecisionReached DEF TypeOK
  <2> QED
    BY <1>2, <1>4, <1>a, <2>2, <2>3, <2>4
<1>9. CASE \/ q \in Workers /\ ClaimDueTimers(q)
           \/ q \in Callers /\ ForceNextTimer(q)
  BY <1>4, <1>9, <1>a, TimersClaimed
<1>10. CASE /\ q \in Callers
            /\ \/ HumanReplyRead(q)
               \/ \E a \in Ids : \/ ActionFailedRead(q, a) \/ AcknowledgeRead(q, a)
                                 \/ ActionExecutedRead(q, a)
  BY <1>4, <1>10, <1>a, RequestBegun
<1>11. CASE q \in Callers /\ ActionFailedDispatch(q)
  <2>1. tx'[q].next \in Decisions /\ tx'[q].added = tx[q].added
    BY <1>11, FailureDispatched
  <2>2. tx'[q].next.to = "WAITING_ACK" => Reached(tx'[q].next.step)
    BY <2>1, DecisionReached DEF TypeOK
  <2> QED
    BY <1>2, <1>4, <1>a, <2>1, <2>2
<1>12. CASE q \in Callers /\ CancelTimersSnapshot(q)
  BY <1>4, <1>12, <1>a, SnapshotTaken, RowsTyped DEF Processes
<1> QED
  BY <1>5, <1>6, <1>7, <1>8, <1>9, <1>10, <1>11, <1>12, TxCases

LEMMA LadderInvAlways == Spec => []LadderInv
<1>1. Init => LadderInv
  BY DispatchInit DEF Init, LadderInv, Supported, LadderInOrder, Promised, Idle, Ids
<1>2. LadderInv /\ [Next]_vars => LadderInv'
  <2> SUFFICES ASSUME LadderInv, [Next]_vars PROVE LadderInv'
    OBVIOUS
  <2>1. DispatchInv'
    BY DispatchNext DEF LadderInv
  <2>2. LadderInOrder'
    BY GrowthStep, LadderGrows DEF LadderInv, DispatchInv, TypeInv, Supported
  <2> QED
    BY <2>1, <2>2, PromiseStep DEF LadderInv, Supported
<1> QED
  BY <1>1, <1>2, PTL DEF Spec

\* services.py dispatch_next_action: no step of the ladder is skipped, although
\* each decision reads the attempts before the commit that adds its own, and
\* whatever policies an administrator publishes meanwhile.
THEOREM LadderIsClimbed == Spec => []LadderInOrder
<1>1. LadderInv => LadderInOrder
  BY DEF LadderInv, Supported
<1> QED
  BY <1>1, LadderInvAlways, PTL

-----------------------------------------------------------------------------
(* Only an exhausted escalation fails *)

\* The policies published differ in their actions and not in their length.
SameLength == \A p, q \in Policies : Len(p) = Len(q)

Exhausted == \A n \in DOMAIN policy : n - 1 \in Attempted

\* A process that has found the escalation failed, or is about to write so.
FindsFailed(p) ==
    \/ tx[p].row = "FAILED"
    \/ tx[p].pc = "flush" /\ tx[p].next.to = "FAILED"

FailureFounded ==
    /\ state = "FAILED" => Exhausted
    /\ \A p \in Processes : FindsFailed(p) => Exhausted

LEMMA DecisionExhausted ==
  ASSUME policy \in Policies, NEW next \in Decisions, next.to = "FAILED"
  PROVE  Exhausted
<1>1. Untried = {}
  BY DEF Decisions
<1>2. ASSUME NEW n \in DOMAIN policy
      PROVE  n - 1 \in Attempted
  <2>1. n - 1 \in Steps
    BY DEF Steps
  <2>2. DOMAIN policy = 1..Len(policy) /\ Len(policy) \in Nat
    BY PolicyAssumption, LenProperties
  <2>3. (n - 1) + 1 \in DOMAIN policy
    BY <2>2
  <2> QED
    BY <1>1, <2>1, <2>3 DEF Untried
<1> QED
  BY <1>2 DEF Exhausted

LEMMA ExhaustedKept ==
  ASSUME LadderInv, SameLength, [Next]_vars, Exhausted
  PROVE  Exhausted'
<1> USE DEF LadderInv, DispatchInv, TypeInv
<1>1. Attempted \subseteq Attempted'
  BY GrowthStep, LadderGrows DEF Supported
<1>2. policy \in Policies /\ policy' \in Policies
  BY TypeNext DEF TypeOK
<1>3. Len(policy') = Len(policy)
  BY <1>2 DEF SameLength
<1>4. DOMAIN policy = 1..Len(policy) /\ DOMAIN policy' = 1..Len(policy')
  BY <1>2, PolicyAssumption, LenProperties
<1> QED
  BY <1>1, <1>3, <1>4 DEF Exhausted

\* A process comes to find the escalation failed by reading it so, or by
\* deciding with no step left.
LEMMA FailureFound ==
  ASSUME LadderInv, FailureFounded, [Next]_vars, NEW q \in Processes,
         FindsFailed(q)'
  PROVE  Exhausted
<1> USE DEF LadderInv, DispatchInv, TypeInv
<1>1. CASE tx'[q] = tx[q]
  BY <1>1 DEF FindsFailed, FailureFounded
<1>2. CASE tx'[q] = Idle
  BY <1>2 DEF FindsFailed, Idle
<1>3. CASE FlushTimer(q)
  BY <1>2, <1>3, TimerFlushed DEF FindsFailed
<1>4. CASE \E i \in tx[q].todo : ProcessTimer(q, i)
  <2>1. PICK i \in tx[q].todo : ProcessTimer(q, i)
    BY <1>4
  <2>2. Row(q) = "FAILED" => Exhausted
    BY DEF Row, FailureFounded, FindsFailed
  <2>3. CASE tx'[q].pc = "timers" /\ tx'[q].row = Row(q)
    BY <2>2, <2>3 DEF FindsFailed
  <2>4. CASE /\ tx'[q].next \in Decisions /\ tx'[q].next.to = "WAITING_ACK"
             /\ tx'[q].row = Row(q)
    BY <2>2, <2>4 DEF FindsFailed
  <2>5. ASSUME NEW next \in Decisions, tx'[q].pc = "timers",
               tx'[q].row = next.to
        PROVE  Exhausted
    BY <2>5, DecisionExhausted DEF FindsFailed, TypeOK
  <2> QED
    BY <2>1, <2>3, <2>4, <2>5, TimerProcessed
<1>5. CASE \/ q \in Workers /\ ClaimDueTimers(q)
           \/ q \in Callers /\ ForceNextTimer(q)
  BY <1>5, TimersClaimed DEF FindsFailed
<1>6. CASE /\ q \in Callers
           /\ \/ HumanReplyRead(q)
              \/ \E a \in Ids : \/ ActionFailedRead(q, a) \/ AcknowledgeRead(q, a)
                                \/ ActionExecutedRead(q, a)
  BY <1>6, RequestBegun DEF FindsFailed, FailureFounded
<1>7. CASE q \in Callers /\ ActionFailedDispatch(q)
  <2>1. tx'[q].next \in Decisions /\ tx'[q].row = tx[q].row
    BY <1>7, FailureDispatched
  <2>2. tx'[q].next.to = "FAILED" => Exhausted
    BY <2>1, DecisionExhausted DEF TypeOK
  <2> QED
    BY <2>1, <2>2 DEF FindsFailed, FailureFounded
<1>8. CASE q \in Callers /\ CancelTimersSnapshot(q)
  BY <1>8, SnapshotTaken DEF FindsFailed, FailureFounded
<1> QED
  BY <1>1, <1>2, <1>3, <1>4, <1>5, <1>6, <1>7, <1>8, TxCases

\* A commit writes FAILED when its process has found the escalation failed.
LEMMA FailureWritten ==
  ASSUME LadderInv, FailureFounded, [Next]_vars, state' = "FAILED"
  PROVE  Exhausted
<1> USE DEF LadderInv, DispatchInv, TypeInv
<1>1. CASE state' = state
  BY <1>1 DEF FailureFounded
<1>2. CASE CompleteDecision
  BY <1>2, FirstDecided, DecisionExhausted DEF TypeOK
<1>3. CASE \E i \in Ids : AckTimeoutElapses(i)
  BY <1>1, <1>3 DEF AckTimeoutElapses
<1>4. ASSUME NEW p \in Processes, CommitTimers(p)
      PROVE  Exhausted
  BY <1>4, BatchCommitted DEF Row, FailureFounded, FindsFailed
<1>5. ASSUME NEW c \in Callers, ActionFailedCommit(c)
      PROVE  Exhausted
  BY <1>1, <1>5, FailureCommitted DEF FailureFounded, FindsFailed, Processes
<1>6. ASSUME NEW c \in Callers, AnswerCommit(c) \/ ActionExecutedCommit(c)
      PROVE  Exhausted
  <2>1. state' \in {state, "ACKNOWLEDGED", "CANCELED_BY_HUMAN_REPLY"}
    BY <1>6 DEF AnswerCommit, ActionExecutedCommit
  <2> QED
    BY <1>1, <2>1
<1> QED
  BY <1>1, <1>2, <1>3, <1>4, <1>5, <1>6, NextCases, RowsLeft

\* services.py dispatch_next_action: an escalation is given up only when every
\* step has been tried, whatever other transactions decide meanwhile, as long
\* as no policy published is longer or shorter than another.
THEOREM FailureIsExhausted ==
  ASSUME SameLength
  PROVE  Spec => []FailedMeansExhausted
<1>1. Init => FailureFounded
  BY DEF Init, FailureFounded, FindsFailed, Idle
<1>2. LadderInv /\ FailureFounded /\ [Next]_vars => FailureFounded'
  <2> SUFFICES ASSUME LadderInv, FailureFounded, [Next]_vars
               PROVE  FailureFounded'
    OBVIOUS
  <2> QED
    BY ExhaustedKept, FailureFound, FailureWritten DEF FailureFounded
<1>3. FailureFounded => FailedMeansExhausted
  BY DEF FailureFounded, FailedMeansExhausted, Exhausted
<1> QED
  BY <1>1, <1>2, <1>3, LadderInvAlways, PTL DEF Spec

-----------------------------------------------------------------------------
(* No escalation is lost *)

\* What a transaction has locked, and what it has flushed.
Shaped(p) ==
    /\ tx[p].timers \subseteq Ids
    /\ tx[p].pc = "timers" => tx[p].op = "timers"
    /\ \A j \in DOMAIN tx[p].added :
         /\ tx[p].added[j].state = "DISPATCHED"
         /\ tx[p].added[j].timer = "PENDING"
         /\ ~tx[p].added[j].due
    /\ tx[p].op = "fail" =>
         /\ tx[p].target \in Ids
         /\ tx[p].timers \subseteq {tx[p].target}
         /\ tx[p].pc = "flush" /\ Live(tx[p].target)
                => tx[p].target \in tx[p].timers
    /\ tx[p].op = "timers" =>
         /\ tx[p].todo \subseteq tx[p].timers
         /\ tx[p].row # tx[p].loaded /\ tx[p].added = <<>>
                => tx[p].row \in Terminal

\* A failed attempt's timer has ended, and only an answer acknowledges one.
Marked ==
    \A i \in Ids : /\ attempts[i].state = "FAILED" => ~Live(i)
                   /\ attempts[i].state = "ACKNOWLEDGED" => answered

ShapeInv == DispatchInv /\ Marked /\ \A p \in Processes : Shaped(p)

\* Attempts are added and not removed, and a timer that ended does not start
\* again.
TimersEnd ==
    Ids \subseteq Ids' /\ \A i \in Ids : Live(i)' => Live(i)

LEMMA TimersEndStep ==
  ASSUME DispatchInv, [Next]_vars
  PROVE  TimersEnd
<1> USE DEF DispatchInv, TypeInv, TimersEnd, Live
<1>0. Len(attempts) \in Nat /\ Ids = 1..Len(attempts)
  BY RowsTyped
<1>1. CASE attempts' = attempts
  BY <1>1 DEF Ids
<1>2. CASE CompleteDecision
  BY <1>2, FirstDecided
<1>3. CASE \E i \in Ids : AckTimeoutElapses(i)
  BY <1>3, TimerElapsed
<1>4. CASE \E c \in Callers : AnswerCommit(c)
  <2> PICK c \in Callers : AnswerCommit(c)
    BY <1>4
  <2>1. /\ Ids' = Ids
        /\ \A i \in Ids : attempts'[i].timer \in {"CANCELED", attempts[i].timer}
    BY AnswerCommitted
  <2> QED
    BY <2>1
<1>5. CASE \E c \in Callers : ActionExecutedCommit(c)
  BY <1>5, ExecutedCommitted
<1>6. ASSUME NEW c \in Callers, ActionFailedCommit(c)
      PROVE  TimersEnd
  <2>1. CASE attempts' = attempts
    BY <1>1, <2>1
  <2>2. CASE /\ \A i \in Ids : attempts'[i].timer \in {"CANCELED", attempts[i].timer}
             /\ Ids' = 1..(Len(attempts) + 1) \/ Ids' = Ids
    BY <1>0, <2>2
  <2> QED
    BY <1>6, <2>1, <2>2, FailureCommitted
<1>7. ASSUME NEW p \in Processes, CommitTimers(p)
      PROVE  TimersEnd
  <2>1. /\ Len(tx[p].added) \in Nat
        /\ Ids' = 1..(Len(attempts) + Len(tx[p].added))
        /\ \A i \in Ids : attempts'[i].timer \in {"DONE", attempts[i].timer}
    BY <1>7, BatchCommitted
  <2> QED
    BY <1>0, <2>1
<1> QED
  BY <1>1, <1>2, <1>3, <1>4, <1>5, <1>6, <1>7, NextCases, RowsLeft

LEMMA ShapedStep ==
  ASSUME ShapeInv, [Next]_vars, NEW q \in Processes
  PROVE  Shaped(q)'
<1> USE DEF ShapeInv, DispatchInv, TypeInv
<1>0. TimersEnd /\ Shaped(q)
  BY TimersEndStep
<1>1. CASE tx'[q] = tx[q]
  BY <1>0, <1>1 DEF Shaped, TimersEnd
<1>2. CASE tx'[q] = Idle
  BY <1>2 DEF Shaped, Idle
<1>3. CASE FlushTimer(q)
  <2>1. CASE tx'[q] = Idle
    BY <1>2, <2>1
  <2>2. CASE /\ tx'[q].pc = "timers" /\ tx'[q].op = "timers"
             /\ tx[q].op = "timers" /\ tx[q].pc = "flush"
             /\ tx'[q].timers = tx[q].timers /\ tx'[q].todo = tx[q].todo
             /\ tx'[q].added = Append(tx[q].added, NewAttempt(tx[q].next))
    <3> DEFINE new == NewAttempt(tx[q].next)
    <3>1. tx[q] \in Transaction /\ tx[q].next.to = "WAITING_ACK"
      BY <2>2 DEF TypeOK, Decided
    <3>2. tx[q].added \in Seq(Attempt) /\ new \in Attempt
      BY <3>1, OutcomeTaken, NewAttemptTyped DEF Transaction
    <3>3. new.state = "DISPATCHED" /\ new.timer = "PENDING" /\ ~new.due
      BY DEF NewAttempt
    <3> HIDE DEF new
    <3>4. /\ tx'[q].added \in Seq(Attempt)
          /\ Len(tx'[q].added) = Len(tx[q].added) + 1
          /\ \A j \in 1..Len(tx[q].added) : tx'[q].added[j] = tx[q].added[j]
          /\ tx'[q].added[Len(tx[q].added) + 1] = new
      BY <2>2, <3>2, AppendProperties DEF new
    <3>5. /\ DOMAIN tx'[q].added = 1..(Len(tx[q].added) + 1)
          /\ DOMAIN tx[q].added = 1..Len(tx[q].added) /\ Len(tx[q].added) \in Nat
      BY <3>2, <3>4, LenProperties
    <3>6. ASSUME NEW j \in DOMAIN tx'[q].added
          PROVE  /\ tx'[q].added[j].state = "DISPATCHED"
                 /\ tx'[q].added[j].timer = "PENDING"
                 /\ ~tx'[q].added[j].due
      <4>1. j \in 1..Len(tx[q].added) \/ j = Len(tx[q].added) + 1
        BY <3>5
      <4> QED
        BY <1>0, <3>3, <3>4, <3>5, <4>1 DEF Shaped
    <3>7. tx'[q].added # <<>>
      BY <3>4, <3>5
    <3> QED
      BY <1>0, <2>2, <3>6, <3>7 DEF Shaped, TimersEnd
  <2> QED
    BY <1>3, <2>1, <2>2, TimerFlushed
<1>4. CASE \E i \in tx[q].todo : ProcessTimer(q, i)
  <2>1. PICK i \in tx[q].todo : ProcessTimer(q, i)
    BY <1>4
  <2>2. /\ tx'[q].op = tx[q].op /\ tx[q].pc = "timers"
        /\ tx'[q].timers = tx[q].timers /\ tx'[q].todo = tx[q].todo \ {i}
        /\ tx'[q].added = tx[q].added
        /\ tx'[q].loaded = IF Dirty(q) THEN tx[q].loaded ELSE state
        /\ \/ tx'[q].row = Row(q)
           \/ tx'[q].row \in Terminal
    <3>1. \A next \in Decisions : next.to # "WAITING_ACK" => next.to \in Terminal
      BY DecisionsTyped DEF TypeOK, Terminal
    <3> QED
      BY <2>1, <3>1, TimerProcessed
  <2>3. tx'[q].row # tx'[q].loaded /\ tx'[q].added = <<>>
           => tx'[q].row \in Terminal
    BY <1>0, <2>2 DEF Shaped, Row, Dirty
  <2> QED
    BY <1>0, <2>2, <2>3 DEF Shaped, TimersEnd
<1>5. CASE \/ q \in Workers /\ ClaimDueTimers(q)
           \/ q \in Callers /\ ForceNextTimer(q)
  BY <1>0, <1>5, TimersClaimed DEF Shaped, LiveTimers, TimersEnd
<1>6. CASE /\ q \in Callers
           /\ \/ HumanReplyRead(q)
              \/ \E a \in Ids : \/ ActionFailedRead(q, a) \/ AcknowledgeRead(q, a)
                                \/ ActionExecutedRead(q, a)
  BY <1>0, <1>6, RequestBegun DEF Shaped, TimersEnd
<1>7. CASE q \in Callers /\ ActionFailedDispatch(q)
  <2>1. /\ tx'[q].pc = "flush" /\ tx[q].op = "fail" /\ tx'[q].op = "fail"
        /\ tx'[q].timers = IF Live(tx[q].target) THEN {tx[q].target} ELSE {}
        /\ tx'[q].target = tx[q].target /\ tx'[q].added = tx[q].added
    BY <1>7, FailureDispatched
  <2> QED
    BY <1>0, <2>1 DEF Shaped, TimersEnd
<1>8. CASE q \in Callers /\ CancelTimersSnapshot(q)
  BY <1>0, <1>8, SnapshotTaken DEF Shaped, TimersEnd
<1> QED
  BY <1>1, <1>2, <1>3, <1>4, <1>5, <1>6, <1>7, <1>8, TxCases

LEMMA MarkedStep ==
  ASSUME ShapeInv, [Next]_vars
  PROVE  Marked'
<1> USE DEF ShapeInv, DispatchInv, TypeInv, Live
<1>0. Len(attempts) \in Nat /\ Ids = 1..Len(attempts)
  BY RowsTyped
<1>1. CASE attempts' = attempts /\ answered' = answered
  BY <1>1 DEF Marked, Ids
<1>2. CASE CompleteDecision
  <2>1. PICK next \in Decisions :
           \/ Ids' = {1} /\ attempts'[1] = NewAttempt(next)
           \/ Ids' = {}
    BY <1>2, FirstDecided
  <2>2. \A i \in Ids' : attempts'[i].state = "DISPATCHED"
    BY <2>1 DEF NewAttempt
  <2> QED
    BY <2>2 DEF Marked
<1>3. CASE \E i \in Ids : AckTimeoutElapses(i)
  <2> PICK k \in Ids : AckTimeoutElapses(k)
    BY <1>3
  <2>1. answered' = answered
    BY DEF AckTimeoutElapses
  <2>2. /\ Ids' = Ids
        /\ \A i \in Ids : /\ attempts'[i].state = attempts[i].state
                          /\ attempts'[i].timer = attempts[i].timer
    BY TimerElapsed
  <2> QED
    BY <2>1, <2>2 DEF Marked
<1>4. ASSUME NEW c \in Callers, AnswerCommit(c)
      PROVE  Marked'
  <2>1. /\ Ids' = Ids /\ answered'
        /\ \A i \in Ids :
             /\ attempts'[i].state \in {"ACKNOWLEDGED", attempts[i].state}
             /\ attempts'[i].timer \in {"CANCELED", attempts[i].timer}
    BY <1>4, AnswerCommitted
  <2> QED
    BY <2>1 DEF Marked
<1>5. CASE \E c \in Callers : ActionExecutedCommit(c)
  <2> PICK c \in Callers : ActionExecutedCommit(c)
    BY <1>5
  <2>1. answered' = answered
    BY DEF ActionExecutedCommit
  <2> QED
    BY <2>1, ExecutedCommitted DEF Marked
<1>6. ASSUME NEW c \in Callers, ActionFailedCommit(c)
      PROVE  Marked'
  <2>0. c \in Processes /\ answered' = answered
    BY <1>6 DEF Processes, ActionFailedCommit
  <2>1. CASE attempts' = attempts
    BY <1>1, <2>0, <2>1
  <2>2. CASE /\ tx[c].pc = "flush" /\ tx[c].op = "fail"
             /\ \A i \in Ids :
                  /\ attempts'[i].state = IF i = tx[c].target THEN "FAILED"
                                          ELSE attempts[i].state
                  /\ attempts'[i].timer = IF i \in tx[c].timers THEN "CANCELED"
                                          ELSE attempts[i].timer
             /\ \/ /\ Ids' = 1..(Len(attempts) + 1)
                   /\ attempts'[Len(attempts) + 1] = NewAttempt(tx[c].next)
                \/ Ids' = Ids
    <3>1. Live(tx[c].target) => tx[c].target \in tx[c].timers
      BY <2>0, <2>2 DEF Shaped
    <3>2. \A i \in Ids : /\ attempts'[i].state = "FAILED" => ~Live(i)'
                         /\ attempts'[i].state = "ACKNOWLEDGED" => answered'
      BY <2>0, <2>2, <3>1 DEF Marked
    <3>3. \A i \in Ids' \ Ids : attempts'[i].state = "DISPATCHED"
      BY <1>0, <2>2 DEF NewAttempt
    <3> QED
      BY <3>2, <3>3 DEF Marked
  <2> QED
    BY <1>6, <2>1, <2>2, FailureCommitted
<1>7. ASSUME NEW p \in Processes, CommitTimers(p)
      PROVE  Marked'
  <2> DEFINE n == Len(tx[p].added)
  <2>1. /\ n \in Nat /\ DOMAIN tx[p].added = 1..n
        /\ Ids' = 1..(Len(attempts) + n)
        /\ \A i \in Ids :
             /\ attempts'[i].state = attempts[i].state
             /\ attempts'[i].timer \in {"DONE", attempts[i].timer}
        /\ \A j \in 1..n : attempts'[Len(attempts) + j] = tx[p].added[j]
    BY <1>7, BatchCommitted
  <2>2. answered' = answered
    BY <1>7 DEF CommitTimers
  <2>3. \A j \in 1..n : tx[p].added[j].state = "DISPATCHED"
    BY <2>1 DEF Shaped
  <2> HIDE DEF n
  <2>4. ASSUME NEW i \in Ids' \ Ids
        PROVE  attempts'[i].state = "DISPATCHED"
    <3>1. i - Len(attempts) \in 1..n /\ i = Len(attempts) + (i - Len(attempts))
      BY <1>0, <2>1
    <3> QED
      BY <2>1, <2>3, <3>1
  <2> QED
    BY <2>1, <2>2, <2>4 DEF Marked
<1> QED
  BY <1>1, <1>2, <1>3, <1>4, <1>5, <1>6, <1>7, NextCases, RowsLeft

LEMMA ShapeInvInit == Init => ShapeInv
  BY DispatchInit DEF Init, ShapeInv, Marked, Shaped, Idle, Ids

LEMMA ShapeInvNext == ShapeInv /\ [Next]_vars => ShapeInv'
<1> SUFFICES ASSUME ShapeInv, [Next]_vars PROVE ShapeInv'
  OBVIOUS
<1> QED
  BY DispatchNext, ShapedStep, MarkedStep DEF ShapeInv

LEMMA ShapeInvAlways == Spec => []ShapeInv
  BY ShapeInvInit, ShapeInvNext, PTL DEF Spec

\* The process will not end i's timer without moving the escalation on: a
\* failure report of its attempt has read the interaction while it waited, and
\* a batch that has examined it has something to write.
Allows(p, i) ==
    /\ tx[p].op = "fail" /\ tx[p].target = i => tx[p].loaded \notin Terminal
    /\ tx[p].op = "timers" /\ i \in tx[p].timers
           => i \in tx[p].todo \/ Dirty(p) \/ tx[p].pc = "flush"

\* A live timer that nothing under way passes over.
Moves(i) == Live(i) /\ \A p \in Processes : Allows(p, i)

Movement == state = "WAITING_ACK" /\ ~answered => \E i \in Ids : Moves(i)

\* While an unanswered interaction waits, no process comes to pass over a timer
\* that is still live.
LEMMA AllowsStep ==
  ASSUME ShapeInv, [Next]_vars, NEW q \in Processes, NEW i \in Ids,
         Live(i), Allows(q, i), state = "WAITING_ACK", ~answered
  PROVE  Allows(q, i)'
<1> USE DEF ShapeInv, DispatchInv, TypeInv
<1>0. Shaped(q)
  OBVIOUS
<1>1. CASE tx'[q] = tx[q]
  BY <1>1 DEF Allows, Dirty
<1>2. CASE tx'[q] = Idle
  BY <1>2 DEF Allows, Idle
<1>3. CASE FlushTimer(q)
  <2>1. CASE tx'[q] = Idle
    BY <1>2, <2>1
  <2>2. CASE /\ tx[q].op = "timers" /\ tx'[q].op = "timers" /\ tx[q].pc = "flush"
             /\ tx'[q].added = Append(tx[q].added, NewAttempt(tx[q].next))
    <3> DEFINE new == NewAttempt(tx[q].next)
    <3>1. tx[q] \in Transaction /\ tx[q].next.to = "WAITING_ACK"
      BY <2>2 DEF TypeOK, Decided
    <3>2. tx[q].added \in Seq(Attempt) /\ new \in Attempt
      BY <3>1, OutcomeTaken, NewAttemptTyped DEF Transaction
    <3> HIDE DEF new
    <3>3. /\ tx'[q].added \in Seq(Attempt)
          /\ Len(tx'[q].added) = Len(tx[q].added) + 1
          /\ Len(tx[q].added) \in Nat
      BY <2>2, <3>2, AppendProperties, LenProperties DEF new
    <3>4. tx'[q].added # <<>>
      BY <3>3
    <3> QED
      BY <2>2, <3>4 DEF Allows, Dirty
  <2> QED
    BY <1>3, <2>1, <2>2, TimerFlushed
<1>4. CASE \E k \in tx[q].todo : ProcessTimer(q, k)
  <2>1. PICK k \in tx[q].todo : ProcessTimer(q, k)
    BY <1>4
  <2>2. /\ tx'[q].op = "timers" /\ tx[q].op = "timers" /\ tx[q].pc = "timers"
        /\ tx'[q].timers = tx[q].timers /\ tx'[q].todo = tx[q].todo \ {k}
        /\ tx'[q].added = tx[q].added
        /\ tx'[q].loaded = IF Dirty(q) THEN tx[q].loaded ELSE state
        /\ \/ tx'[q].row = Row(q) /\ (Row(q) \in Terminal \/ ~Escalates(k))
           \/ tx'[q].pc = "flush"
           \/ Row(q) \notin Terminal /\ tx'[q].row \in Terminal
    <3>1. \A next \in Decisions : next.to # "WAITING_ACK" => next.to \in Terminal
      BY DecisionsTyped DEF TypeOK, Terminal
    <3> QED
      BY <1>0, <2>1, <3>1, TimerProcessed DEF Shaped
  <2>3. CASE tx'[q].pc = "flush"
    BY <2>2, <2>3 DEF Allows
  <2>4. CASE tx[q].added # <<>>
    BY <2>2, <2>4 DEF Allows, Dirty
  <2>5. CASE Dirty(q) /\ tx[q].added = <<>>
    <3>1. Row(q) \in Terminal
      BY <1>0, <2>2, <2>5 DEF Dirty, Shaped, Row
    <3>2. \/ tx'[q].row = tx[q].row /\ tx'[q].loaded = tx[q].loaded
          \/ tx'[q].pc = "flush"
      BY <2>2, <2>5, <3>1 DEF Row
    <3> QED
      BY <2>2, <2>3, <2>5, <3>2 DEF Allows, Dirty
  <2>6. CASE ~Dirty(q) /\ Row(q) \notin Terminal /\ tx'[q].row \in Terminal
    BY <2>2, <2>6 DEF Allows, Dirty, Row
  <2>7. CASE ~Dirty(q) /\ (Row(q) \in Terminal \/ ~Escalates(k))
    <3>1. Row(q) \notin Terminal
      BY <2>7 DEF Row, Terminal
    <3>2. i # k
      <4>1. attempts[i].state \in AttemptState
        BY AttemptFields
      <4> QED
        BY <2>7, <3>1, <4>1 DEF Marked, Escalates, AttemptState
    <3>3. i \in tx[q].timers => i \in tx[q].todo
      BY <2>2, <2>7 DEF Allows
    <3> QED
      BY <2>2, <3>2, <3>3 DEF Allows
  <2> QED
    BY <2>2, <2>3, <2>4, <2>5, <2>6, <2>7 DEF Dirty
<1>5. CASE \/ q \in Workers /\ ClaimDueTimers(q)
           \/ q \in Callers /\ ForceNextTimer(q)
  BY <1>5, TimersClaimed DEF Allows
<1>6. CASE /\ q \in Callers
           /\ \/ HumanReplyRead(q)
              \/ \E a \in Ids : \/ ActionFailedRead(q, a) \/ AcknowledgeRead(q, a)
                                \/ ActionExecutedRead(q, a)
  BY <1>6, RequestBegun DEF Allows, Terminal
<1>7. CASE q \in Callers /\ ActionFailedDispatch(q)
  BY <1>7, FailureDispatched DEF Allows
<1>8. CASE q \in Callers /\ CancelTimersSnapshot(q)
  BY <1>8, SnapshotTaken DEF Allows
<1> QED
  BY <1>1, <1>2, <1>3, <1>4, <1>5, <1>6, <1>7, <1>8, TxCases

\* An attempt added by a commit that ends its transaction has a live timer that
\* nobody else has seen.
LEMMA AddedMoves ==
  ASSUME ShapeInv, NEW p \in Processes, OnlyTx(p), tx'[p] = Idle,
         NEW k \in Ids', k \notin Ids, attempts'[k].timer = "PENDING"
  PROVE  Moves(k)'
<1>1. Live(k)'
  BY DEF Live
<1>2. ASSUME NEW q \in Processes
      PROVE  Allows(q, k)'
  <2>1. CASE q = p
    BY <2>1 DEF Allows, Idle
  <2>2. CASE q # p
    <3>1. tx'[q] = tx[q] /\ Shaped(q)
      BY <2>2 DEF OnlyTx, ShapeInv
    <3> QED
      BY <3>1 DEF Allows, Shaped
  <2> QED
    BY <2>1, <2>2
<1> QED
  BY <1>1, <1>2 DEF Moves

\* A timer that stays live while the interaction waits still moves it on.
LEMMA MovesKept ==
  ASSUME ShapeInv, [Next]_vars, NEW i \in Ids, Moves(i), Live(i)',
         state = "WAITING_ACK", ~answered
  PROVE  i \in Ids' /\ Moves(i)'
<1>1. TimersEnd
  BY TimersEndStep DEF ShapeInv
<1>2. \A q \in Processes : Allows(q, i)'
  BY AllowsStep DEF Moves
<1> QED
  BY <1>1, <1>2 DEF Moves, TimersEnd

LEMMA MovementStep ==
  ASSUME ShapeInv, Movement, [Next]_vars
  PROVE  Movement'
<1> USE DEF ShapeInv, DispatchInv, TypeInv
<1> SUFFICES ASSUME state' = "WAITING_ACK", ~answered'
             PROVE  \E i \in Ids' : Moves(i)'
  BY DEF Movement
<1>0. Len(attempts) \in Nat /\ Ids = 1..Len(attempts)
  BY RowsTyped
<1>1. ASSUME state = "WAITING_ACK", ~answered,
             \A i \in Ids : Moves(i) => attempts'[i].timer = attempts[i].timer
      PROVE  \E i \in Ids' : Moves(i)'
  <2>1. PICK i \in Ids : Moves(i)
    BY <1>1 DEF Movement
  <2>2. Live(i)'
    BY <1>1, <2>1 DEF Moves, Live
  <2> QED
    BY <1>1, <2>1, <2>2, MovesKept
<1>2. CASE attempts' = attempts /\ state' = state /\ answered' = answered
  BY <1>1, <1>2
<1>3. CASE CompleteDecision
  <2>1. /\ Ids' = {1} /\ Ids = {} /\ tx' = tx
        /\ \A p \in Processes : tx[p] = Idle
        /\ \E next : attempts'[1] = NewAttempt(next)
    BY <1>3, FirstDecided
  <2>2. attempts'[1].timer = "PENDING"
    BY <2>1 DEF NewAttempt
  <2>3. Live(1)' /\ \A p \in Processes : Allows(p, 1)'
    BY <2>1, <2>2 DEF Live, Allows, Idle
  <2> QED
    BY <2>1, <2>3 DEF Moves
<1>4. CASE \E i \in Ids : AckTimeoutElapses(i)
  <2>1. state' = state /\ answered' = answered
        /\ \A i \in Ids : attempts'[i].timer = attempts[i].timer
    BY <1>4, TimerElapsed DEF AckTimeoutElapses
  <2> QED
    BY <1>1, <2>1
<1>5. CASE \E c \in Callers : AnswerCommit(c)
  BY <1>5 DEF AnswerCommit
<1>6. CASE \E c \in Callers : ActionExecutedCommit(c)
  <2> PICK c \in Callers : ActionExecutedCommit(c)
    BY <1>6
  <2>1. state' = state /\ answered' = answered
    BY DEF ActionExecutedCommit
  <2>2. \A i \in Ids : attempts'[i].timer = attempts[i].timer
    BY ExecutedCommitted
  <2> QED
    BY <1>1, <2>1, <2>2
<1>7. ASSUME NEW c \in Callers, ActionFailedCommit(c)
      PROVE  \E i \in Ids' : Moves(i)'
  <2>0. c \in Processes /\ answered' = answered
    BY <1>7 DEF Processes, ActionFailedCommit
  <2>1. OnlyTx(c) /\ tx'[c] = Idle /\ tx[c].pc = "flush" /\ tx[c].op = "fail"
    BY <1>7, FailureCommitted
  <2>2. CASE attempts' = attempts /\ state' = state
    BY <1>2, <2>0, <2>2
  <2>3. CASE /\ Ids' = 1..(Len(attempts) + 1)
             /\ attempts'[Len(attempts) + 1] = NewAttempt(tx[c].next)
    <3>1. /\ Len(attempts) + 1 \in Ids' /\ Len(attempts) + 1 \notin Ids
          /\ attempts'[Len(attempts) + 1].timer = "PENDING"
      BY <1>0, <2>3 DEF NewAttempt
    <3> QED
      BY <2>0, <2>1, <3>1, AddedMoves
  <2>4. CASE /\ tx[c].next.to \in {"COMPLETED", "FAILED"}
             /\ state' = IF tx[c].next.to # tx[c].loaded
                         THEN tx[c].next.to ELSE state
             /\ \A i \in Ids : attempts'[i].timer = IF i \in tx[c].timers
                                                    THEN "CANCELED"
                                                    ELSE attempts[i].timer
    <3>1. state = "WAITING_ACK" /\ tx[c].loaded \in Terminal
      BY <2>4 DEF Terminal
    <3>2. ASSUME NEW i \in Ids, Moves(i)
          PROVE  attempts'[i].timer = attempts[i].timer
      <4>1. i # tx[c].target
        BY <2>0, <2>1, <3>1, <3>2 DEF Moves, Allows
      <4>2. i \notin tx[c].timers
        BY <2>0, <2>1, <4>1 DEF Shaped
      <4> QED
        BY <2>4, <4>2
    <3> QED
      BY <1>1, <2>0, <3>1, <3>2
  <2> QED
    BY <1>7, <2>2, <2>3, <2>4, FailureCommitted
<1>8. ASSUME NEW p \in Processes, CommitTimers(p)
      PROVE  \E i \in Ids' : Moves(i)'
  <2> DEFINE n == Len(tx[p].added)
  <2>1. /\ OnlyTx(p) /\ tx'[p] = Idle /\ state' = Row(p)
        /\ tx[p].pc = "timers" /\ tx[p].todo = {}
        /\ n \in Nat /\ DOMAIN tx[p].added = 1..n
        /\ Ids' = 1..(Len(attempts) + n)
        /\ \A i \in Ids : attempts'[i].timer = IF i \in tx[p].timers THEN "DONE"
                                               ELSE attempts[i].timer
        /\ \A j \in 1..n : attempts'[Len(attempts) + j] = tx[p].added[j]
    BY <1>8, BatchCommitted
  <2>2. answered' = answered
    BY <1>8 DEF CommitTimers
  <2>3. Shaped(p)
    OBVIOUS
  <2>4. CASE n # 0
    <3>1. 1 \in 1..n
      BY <2>1, <2>4
    <3>2. tx[p].added[1].timer = "PENDING"
      BY <2>1, <2>3, <3>1 DEF Shaped
    <3>3. /\ Len(attempts) + 1 \in Ids' /\ Len(attempts) + 1 \notin Ids
          /\ attempts'[Len(attempts) + 1].timer = "PENDING"
      BY <1>0, <2>1, <3>1, <3>2
    <3> QED
      BY <2>1, <3>3, AddedMoves
  <2>5. CASE n = 0
    <3>1. tx[p].added = <<>>
      <4>1. tx[p].added \in Seq(Attempt)
        BY DEF TypeOK, Transaction
      <4> QED
        BY <2>5, <4>1, EmptySeq
    <3>2. ~Dirty(p)
      BY <2>1, <2>3, <3>1 DEF Dirty, Row, Shaped, Terminal
    <3>3. state = "WAITING_ACK"
      BY <2>1, <3>2 DEF Row
    <3>4. ASSUME NEW i \in Ids, Moves(i)
          PROVE  attempts'[i].timer = attempts[i].timer
      <4>1. i \notin tx[p].timers
        BY <2>1, <2>3, <3>2, <3>4 DEF Moves, Allows, Shaped
      <4> QED
        BY <2>1, <4>1
    <3> QED
      BY <1>1, <2>2, <3>3, <3>4
  <2> QED
    BY <2>4, <2>5
<1> QED
  BY <1>2, <1>3, <1>4, <1>5, <1>6, <1>7, <1>8, NextCases, RowsLeft

\* docs/architecture.md: whatever timers, failure reports, crashes and policy
\* changes overlap, an unanswered interaction that waits has a live timer.
THEOREM EscalationsAreKept == Spec => []NoLostEscalation
<1>1. Init => Movement
  BY DEF Init, Movement
<1>2. Movement => NoLostEscalation
  BY DEF Movement, Moves, NoLostEscalation, LiveTimers
<1> QED
  BY <1>1, <1>2, MovementStep, ShapeInvAlways, PTL DEF Spec

-----------------------------------------------------------------------------
(* An answer ends the escalation *)

\* No two transactions hold one timer.
Apart ==
    \A p, q \in Processes : p # q => tx[p].timers \cap tx[q].timers = {}

\* A held timer is live, and a batch holds some.
Held(p) ==
    /\ \A i \in tx[p].timers : Live(i)
    /\ tx[p].op = "timers" => tx[p].timers # {}

LockInv == ShapeInv /\ Apart /\ \A p \in Processes : Held(p)

LEMMA ApartHeld ==
  ASSUME Apart, NEW p \in Processes, NEW q \in Processes, p # q,
         NEW i \in tx[q].timers
  PROVE  i \notin tx[p].timers /\ i \in LockedByOthers(p)
  BY DEF Apart, LockedByOthers

\* A timer some transaction holds is ended by that transaction alone, when it
\* commits.
LEMMA HeldStayLive ==
  ASSUME LockInv, [Next]_vars, NEW q \in Processes
  PROVE  tx'[q] = Idle \/ \A i \in tx[q].timers : Live(i)'
<1> USE DEF LockInv, ShapeInv, DispatchInv, TypeInv
<1>0. /\ \A i \in tx[q].timers : i \in Ids /\ attempts[i].timer = "PENDING"
      /\ Shaped(q)
  BY DEF Shaped, Held, Live
<1> SUFFICES ASSUME tx'[q] # Idle, NEW i \in tx[q].timers
             PROVE  attempts'[i].timer = attempts[i].timer
  BY <1>0 DEF Live
<1>1. CASE attempts' = attempts
  BY <1>1
<1>2. CASE CompleteDecision
  BY <1>0, <1>2, FirstDecided
<1>3. CASE \E k \in Ids : AckTimeoutElapses(k)
  BY <1>0, <1>3, TimerElapsed
<1>4. CASE \E c \in Callers : AnswerCommit(c)
  <2> PICK c \in Callers : AnswerCommit(c)
    BY <1>4
  <2>1. c \in Processes /\ tx'[c] = Idle
    BY AnswerCommitted DEF Processes
  <2>2. i \in LockedByOthers(c)
    BY <2>1, ApartHeld
  <2>3. i \notin tx[c].todo \cap LiveTimers
    BY <2>2 DEF AnswerCommit
  <2> QED
    BY <1>0, <2>3, AnswerCommitted
<1>5. CASE \E c \in Callers : ActionExecutedCommit(c)
  BY <1>0, <1>5, ExecutedCommitted
<1>6. CASE \E c \in Callers : ActionFailedCommit(c)
  <2> PICK c \in Callers : ActionFailedCommit(c)
    BY <1>6
  <2>1. c \in Processes /\ tx'[c] = Idle
    BY FailureCommitted DEF Processes
  <2>2. i \notin tx[c].timers
    BY <2>1, ApartHeld
  <2> QED
    BY <1>0, <1>1, <2>2, FailureCommitted
<1>7. CASE \E p \in Processes : CommitTimers(p)
  <2> PICK p \in Processes : CommitTimers(p)
    BY <1>7
  <2>1. tx'[p] = Idle
    BY BatchCommitted
  <2>2. i \notin tx[p].timers
    BY <2>1, ApartHeld
  <2> QED
    BY <1>0, <2>2, BatchCommitted
<1> QED
  BY <1>1, <1>2, <1>3, <1>4, <1>5, <1>6, <1>7, NextCases, RowsLeft

\* A transaction holds on to its timers, lets them go, or takes live ones that
\* no other transaction holds.
LEMMA HoldCases ==
  ASSUME LockInv, [Next]_vars, NEW q \in Processes
  PROVE  \/ /\ tx'[q].timers = tx[q].timers
            /\ tx'[q].op = "timers" => tx[q].op = "timers"
         \/ tx'[q] = Idle
         \/ /\ OnlyTx(q) /\ attempts' = attempts
            /\ tx'[q].timers \subseteq LiveTimers \ LockedByOthers(q)
            /\ tx'[q].op = "timers" => tx'[q].timers # {}
<1> USE DEF LockInv, ShapeInv, DispatchInv, TypeInv
<1>1. CASE FlushTimer(q)
  BY <1>1, TimerFlushed
<1>2. CASE \E i \in tx[q].todo : ProcessTimer(q, i)
  BY <1>2, TimerProcessed
<1>3. CASE \/ q \in Workers /\ ClaimDueTimers(q)
           \/ q \in Callers /\ ForceNextTimer(q)
  <2>1. attempts' = attempts
    BY <1>3, RowsLeft
  <2>2. /\ OnlyTx(q) /\ tx'[q].timers # {} /\ tx'[q].timers \subseteq LiveTimers
        /\ tx'[q].timers \cap LockedByOthers(q) = {}
    BY <1>3, TimersClaimed
  <2> QED
    BY <2>1, <2>2
<1>4. CASE /\ q \in Callers
           /\ \/ HumanReplyRead(q)
              \/ \E a \in Ids : \/ ActionFailedRead(q, a) \/ AcknowledgeRead(q, a)
                                \/ ActionExecutedRead(q, a)
  <2>1. attempts' = attempts
    BY <1>4, RowsLeft
  <2> QED
    BY <1>4, <2>1, RequestBegun
<1>5. CASE q \in Callers /\ ActionFailedDispatch(q)
  <2>1. attempts' = attempts
    BY <1>5, RowsLeft
  <2>2. /\ OnlyTx(q) /\ tx'[q].op = "fail" /\ tx[q].op = "fail"
        /\ tx'[q].timers = IF Live(tx[q].target) THEN {tx[q].target} ELSE {}
    BY <1>5, FailureDispatched
  <2>3. Live(tx[q].target) =>
           /\ tx[q].target \notin LockedByOthers(q)
           /\ tx[q].target \in LiveTimers
    BY <1>5, <2>2 DEF ActionFailedDispatch, LiveTimers, Shaped
  <2> QED
    BY <2>1, <2>2, <2>3
<1>6. CASE q \in Callers /\ CancelTimersSnapshot(q)
  BY <1>6, SnapshotTaken
<1> QED
  BY <1>1, <1>2, <1>3, <1>4, <1>5, <1>6, TxCases

LEMMA LockInvNext == LockInv /\ [Next]_vars => LockInv'
<1> SUFFICES ASSUME LockInv, [Next]_vars PROVE LockInv'
  OBVIOUS
<1>1. ShapeInv'
  BY ShapeInvNext DEF LockInv
<1>2. ASSUME NEW q \in Processes PROVE Held(q)'
  <2>1. CASE /\ tx'[q].timers = tx[q].timers
             /\ tx'[q].op = "timers" => tx[q].op = "timers"
             /\ tx'[q] # Idle
    BY <2>1, HeldStayLive DEF LockInv, Held
  <2>2. CASE tx'[q] = Idle
    BY <2>2 DEF Held, Idle
  <2>3. CASE /\ attempts' = attempts /\ tx'[q].timers \subseteq LiveTimers
             /\ tx'[q].op = "timers" => tx'[q].timers # {}
    BY <2>3 DEF Held, LiveTimers, Live
  <2> QED
    BY <2>1, <2>2, <2>3, HoldCases
<1>3. ASSUME NEW p \in Processes, NEW q \in Processes, p # q,
             tx'[p].timers \subseteq LiveTimers \ LockedByOthers(p), OnlyTx(p)
      PROVE  tx'[p].timers \cap tx'[q].timers = {}
  BY <1>3 DEF OnlyTx, LockedByOthers
<1>4. ASSUME NEW p \in Processes, NEW q \in Processes, p # q
      PROVE  tx'[p].timers \cap tx'[q].timers = {}
  <2>1. \/ tx'[p].timers \subseteq tx[p].timers
        \/ OnlyTx(p) /\ tx'[p].timers \subseteq LiveTimers \ LockedByOthers(p)
    BY HoldCases DEF Idle
  <2>2. \/ tx'[q].timers \subseteq tx[q].timers
        \/ OnlyTx(q) /\ tx'[q].timers \subseteq LiveTimers \ LockedByOthers(q)
    BY HoldCases DEF Idle
  <2>3. tx[p].timers \cap tx[q].timers = {}
    BY <1>4 DEF LockInv, Apart
  <2> QED
    BY <1>3, <1>4, <2>1, <2>2, <2>3
<1> QED
  BY <1>1, <1>2, <1>4 DEF LockInv, Apart

LEMMA LockInvAlways == Spec => []LockInv
<1>1. Init => LockInv
  BY ShapeInvInit DEF Init, LockInv, Apart, Held, Idle
<1> QED
  BY <1>1, LockInvNext, PTL DEF Spec

\* No timer is in two transactions, and a timer in a transaction is still
\* PENDING: a batch and the requests that cancel timers never decide on one
\* timer together (claim_due_timers FOR UPDATE SKIP LOCKED, the UPDATE and the
\* row lock of the requests).
THEOREM TimersAreExclusive ==
  Spec => [](Apart /\ \A p \in Processes : Held(p))
  BY LockInvAlways, PTL DEF LockInv

\* What an answer leaves in interactions.state.
AnswerState == {"ACKNOWLEDGED", "CANCELED_BY_HUMAN_REPLY"}

\* With the test clock out of use only workers claim timers, and only due ones;
\* a request's UPDATE saw every timer that is due by now; an answer's state is
\* in nobody's memory before there is an answer.
Informed(p) ==
    /\ tx[p].op = "fail" => reported
    /\ tx[p].op = "timers" =>
         p \in Workers /\ \A i \in tx[p].timers : attempts[i].due
    /\ tx[p].loaded \in AnswerState \/ tx[p].row \in AnswerState => answered
    /\ p \in Callers /\ tx[p].pc = "locking"
           => \A i \in LiveTimers : attempts[i].due => i \in tx[p].todo

\* A transaction that has nothing to write for the escalation.
Quiet(p) ==
    /\ tx[p].added = <<>>
    /\ tx[p].op = "timers" => tx[p].pc # "flush" /\ tx[p].row = tx[p].loaded

\* Once there is an answer and no failure was reported, the interaction is in
\* the answer's state and every transaction is quiet.
Settled ==
    /\ state \in AnswerState => answered
    /\ answered /\ ~reported =>
         state \in AnswerState /\ \A p \in Processes : Quiet(p)

AnswerInv == LockInv /\ (\A p \in Processes : Informed(p)) /\ Settled

\* A timer that is due stays due, and none becomes due while a request is open.
DueStep ==
    /\ \A i \in Ids : attempts[i].due => attempts'[i].due
    /\ \/ \A i \in Ids' : attempts'[i].due => i \in Ids /\ attempts[i].due
       \/ tx' = tx /\ \A c \in Callers : tx[c].pc = "idle"

LEMMA DueStepTaken ==
  ASSUME ~TestClock, ShapeInv, [Next]_vars
  PROVE  DueStep
<1> USE DEF ShapeInv, DispatchInv, TypeInv
<1>0. Len(attempts) \in Nat /\ Ids = 1..Len(attempts)
  BY RowsTyped
<1>1. CASE attempts' = attempts
  BY <1>1 DEF DueStep, Ids
<1>2. CASE CompleteDecision
  <2>1. PICK next \in Decisions :
           \/ Ids' = {1} /\ attempts'[1] = NewAttempt(next)
           \/ Ids' = {}
    BY <1>2, FirstDecided
  <2>2. Ids = {} /\ \A i \in Ids' : ~attempts'[i].due
    BY <1>2, <2>1, FirstDecided DEF NewAttempt
  <2> QED
    BY <2>2 DEF DueStep
<1>3. CASE \E k \in Ids : AckTimeoutElapses(k)
  <2> PICK k \in Ids : AckTimeoutElapses(k)
    BY <1>3
  <2>1. tx' = tx /\ \A c \in Callers : tx[c].pc = "idle"
    BY DEF AckTimeoutElapses
  <2>2. \A i \in Ids : attempts[i].due => attempts'[i].due
    BY TimerElapsed
  <2> QED
    BY <2>1, <2>2 DEF DueStep
<1>4. CASE \E c \in Callers : AnswerCommit(c)
  BY <1>4, AnswerCommitted DEF DueStep
<1>5. CASE \E c \in Callers : ActionExecutedCommit(c)
  BY <1>5, ExecutedCommitted DEF DueStep
<1>6. ASSUME NEW c \in Callers, ActionFailedCommit(c)
      PROVE  DueStep
  <2>1. CASE /\ \A i \in Ids : attempts'[i].due = attempts[i].due
             /\ \/ /\ Ids' = 1..(Len(attempts) + 1)
                   /\ attempts'[Len(attempts) + 1] = NewAttempt(tx[c].next)
                \/ Ids' = Ids
    <3>1. \A i \in Ids' \ Ids : ~attempts'[i].due
      BY <1>0, <2>1 DEF NewAttempt
    <3> QED
      BY <2>1, <3>1 DEF DueStep
  <2> QED
    BY <1>1, <1>6, <2>1, FailureCommitted
<1>7. ASSUME NEW p \in Processes, CommitTimers(p)
      PROVE  DueStep
  <2> DEFINE n == Len(tx[p].added)
  <2>1. /\ n \in Nat /\ DOMAIN tx[p].added = 1..n
        /\ Ids' = 1..(Len(attempts) + n)
        /\ \A i \in Ids : attempts'[i].due = attempts[i].due
        /\ \A j \in 1..n : attempts'[Len(attempts) + j] = tx[p].added[j]
    BY <1>7, BatchCommitted
  <2>2. \A j \in 1..n : ~tx[p].added[j].due
    BY <2>1 DEF Shaped
  <2> HIDE DEF n
  <2>3. ASSUME NEW i \in Ids' \ Ids PROVE ~attempts'[i].due
    <3>1. i - Len(attempts) \in 1..n /\ i = Len(attempts) + (i - Len(attempts))
      BY <1>0, <2>1
    <3> QED
      BY <2>1, <2>2, <3>1
  <2> QED
    BY <2>1, <2>3 DEF DueStep
<1> QED
  BY <1>1, <1>2, <1>3, <1>4, <1>5, <1>6, <1>7, NextCases, RowsLeft

\* An answer is not withdrawn, nor a report, and only an answer is new.
LEMMA AnsweredStep ==
  ASSUME [Next]_vars
  PROVE  /\ answered => answered'
         /\ reported => reported'
         /\ answered' => answered \/ \E c \in Callers : AnswerCommit(c)
<1> DEFINE Kept == answered' = answered /\ reported' = reported
<1>1. CASE UpdatePolicy \/ UNCHANGED vars \/ CompleteDecision
  BY <1>1 DEF UpdatePolicy, vars, CompleteDecision
<1>2. CASE \E i \in Ids : AckTimeoutElapses(i)
  BY <1>2 DEF AckTimeoutElapses
<1>3. ASSUME NEW p, NEW S, Claim(p, S) PROVE Kept
  BY <1>3 DEF Claim
<1>a. ASSUME NEW w \in Workers, ClaimDueTimers(w) PROVE Kept
  <2>1. Claim(w, {i \in LiveTimers : attempts[i].due} \ LockedByOthers(w))
    BY <1>a DEF ClaimDueTimers
  <2> QED
    BY <1>3, <2>1
<1>b. ASSUME NEW c \in Callers, ForceNextTimer(c) PROVE Kept
  <2>1. PICK i \in LiveTimers \ LockedByOthers(c) : Claim(c, {i})
    BY <1>b DEF ForceNextTimer
  <2> QED
    BY <1>3, <2>1
<1>4. ASSUME NEW p \in Processes, FlushTimer(p) PROVE Kept
  BY <1>4 DEF FlushTimer
<1>5. ASSUME NEW p \in Processes, CommitTimers(p) \/ Crash(p) PROVE Kept
  BY <1>5 DEF CommitTimers, Crash
<1>6. ASSUME NEW p \in Processes, NEW i \in tx[p].todo, ProcessTimer(p, i)
      PROVE  Kept
  BY <1>6 DEF ProcessTimer
<1>7. ASSUME NEW c \in Callers, NEW a \in Ids, ActionFailedRead(c, a)
      PROVE  answered' = answered /\ reported'
  BY <1>7 DEF ActionFailedRead
<1>8. ASSUME NEW c \in Callers, NEW a \in Ids,
             AcknowledgeRead(c, a) \/ ActionExecutedRead(c, a)
      PROVE  Kept
  BY <1>8 DEF AcknowledgeRead, ActionExecutedRead
<1>9. ASSUME NEW c \in Callers,
             \/ HumanReplyRead(c) \/ ActionFailedDispatch(c)
             \/ CancelTimersSnapshot(c) \/ ActionExecutedCommit(c)
      PROVE  Kept
  BY <1>9 DEF HumanReplyRead, ActionFailedDispatch, CancelTimersSnapshot,
              ActionExecutedCommit
<1>10. ASSUME NEW c \in Callers, ActionFailedCommit(c) PROVE Kept
  BY <1>10 DEF ActionFailedCommit
<1>11. ASSUME NEW c \in Callers, AnswerCommit(c)
       PROVE  answered' /\ reported' = reported
  BY <1>11 DEF AnswerCommit
<1> QED
  BY <1>1, <1>2, <1>a, <1>b, <1>4, <1>5, <1>6, <1>7, <1>8, <1>9, <1>10, <1>11, NextCases

LEMMA InformedStep ==
  ASSUME ~TestClock, AnswerInv, [Next]_vars, NEW q \in Processes
  PROVE  Informed(q)'
<1> USE DEF AnswerInv, LockInv, ShapeInv, DispatchInv, TypeInv
<1>0. /\ TimersEnd /\ DueStep /\ Informed(q) /\ Shaped(q)
      /\ answered => answered'
      /\ reported => reported'
      /\ state \in AnswerState => answered
  BY TimersEndStep, DueStepTaken, AnsweredStep DEF Settled
<1>1. CASE tx'[q] = tx[q]
  <2>1. tx[q].op = "timers" => \A i \in tx[q].timers : attempts'[i].due
    BY <1>0 DEF Informed, Shaped, DueStep
  <2>2. ASSUME q \in Callers, tx[q].pc = "locking",
               NEW i \in Ids', Live(i)', attempts'[i].due
        PROVE  i \in tx[q].todo
    <3>1. i \in Ids /\ attempts[i].due
      BY <1>0, <2>2 DEF DueStep
    <3>2. i \in LiveTimers
      BY <1>0, <2>2, <3>1 DEF TimersEnd, LiveTimers
    <3> QED
      BY <1>0, <2>2, <3>1, <3>2 DEF Informed
  <2> QED
    BY <1>0, <1>1, <2>1, <2>2 DEF Informed, LiveTimers
<1>2. CASE tx'[q] = Idle
  BY <1>2 DEF Informed, Idle, AnswerState
<1>3. CASE FlushTimer(q)
  <2>1. \/ tx'[q] = Idle
        \/ /\ tx'[q].pc = "timers" /\ tx'[q].op = "timers" /\ tx[q].op = "timers"
           /\ tx'[q].row = "WAITING_ACK" /\ tx'[q].loaded = tx[q].loaded
           /\ tx'[q].timers = tx[q].timers
    BY <1>3, TimerFlushed
  <2> QED
    BY <1>0, <1>2, <2>1 DEF Informed, AnswerState, Shaped, DueStep
<1>4. CASE \E i \in tx[q].todo : ProcessTimer(q, i)
  <2>1. PICK i \in tx[q].todo : ProcessTimer(q, i)
    BY <1>4
  <2>2. /\ tx'[q].op = tx[q].op /\ tx[q].pc = "timers"
        /\ tx'[q].timers = tx[q].timers
        /\ tx'[q].loaded = IF Dirty(q) THEN tx[q].loaded ELSE state
        /\ tx'[q].pc \in {"timers", "flush"}
        /\ tx'[q].row = Row(q) \/ tx'[q].row \notin AnswerState
    <3>1. \A next \in Decisions : next.to \notin AnswerState
      BY DecisionsTyped DEF TypeOK, AnswerState
    <3> QED
      BY <2>1, <3>1, TimerProcessed
  <2>3. Row(q) \in AnswerState => answered
    BY <1>0 DEF Informed, Row
  <2> QED
    BY <1>0, <2>2, <2>3 DEF Informed, Shaped, DueStep
<1>5. CASE \/ q \in Workers /\ ClaimDueTimers(q)
           \/ q \in Callers /\ ForceNextTimer(q)
  <2>1. q \in Workers /\ ClaimDueTimers(q)
    BY <1>5 DEF ForceNextTimer
  <2>2. \A i \in tx'[q].timers : i \in Ids /\ attempts[i].due
    <3>1. Claim(q, {i \in LiveTimers : attempts[i].due} \ LockedByOthers(q))
      BY <2>1 DEF ClaimDueTimers
    <3>2. tx'[q].timers = {i \in LiveTimers : attempts[i].due} \ LockedByOthers(q)
      BY <3>1, Claimed
    <3> QED
      BY <3>2 DEF LiveTimers
  <2>3. tx'[q].pc = "timers" /\ tx'[q].op = "timers"
        /\ tx'[q].loaded = "RECEIVED" /\ tx'[q].row = "RECEIVED"
    BY <1>5, TimersClaimed
  <2> QED
    BY <1>0, <2>1, <2>2, <2>3 DEF Informed, AnswerState, DueStep
<1>6. CASE /\ q \in Callers
           /\ \/ HumanReplyRead(q)
              \/ \E a \in Ids : \/ ActionFailedRead(q, a) \/ AcknowledgeRead(q, a)
                                \/ ActionExecutedRead(q, a)
  <2>1. /\ tx'[q].pc \in {"update", "write"}
        /\ tx'[q].op \in {"fail", "ack", "human", "executed"}
        /\ tx'[q].loaded = state /\ tx'[q].row = state
        /\ tx'[q].op = "fail" => reported'
    BY <1>6, RequestBegun
  <2> QED
    BY <1>0, <2>1 DEF Informed
<1>7. CASE q \in Callers /\ ActionFailedDispatch(q)
  <2>1. /\ tx'[q].pc = "flush" /\ tx[q].op = "fail" /\ tx'[q].op = "fail"
        /\ tx'[q].loaded = tx[q].loaded /\ tx'[q].row = tx[q].row
    BY <1>7, FailureDispatched
  <2> QED
    BY <1>0, <2>1 DEF Informed
<1>8. CASE q \in Callers /\ CancelTimersSnapshot(q)
  <2>1. attempts' = attempts
    BY <1>8, RowsLeft
  <2>2. /\ tx'[q].op = tx[q].op /\ tx[q].op \in {"ack", "human"}
        /\ tx'[q].todo = LiveTimers
        /\ tx'[q].loaded = tx[q].loaded /\ tx'[q].row = tx[q].row
    BY <1>8, SnapshotTaken
  <2> QED
    BY <1>0, <2>1, <2>2 DEF Informed, LiveTimers, Live, Ids
<1> QED
  BY <1>1, <1>2, <1>3, <1>4, <1>5, <1>6, <1>7, <1>8, TxCases

\* When an answer commits with no failure reported, no batch is under way: its
\* timers were due when the answer's UPDATE began, so the UPDATE waits for them.
LEMMA AnswerFindsNoBatch ==
  ASSUME ~TestClock, AnswerInv, NEW c \in Callers, AnswerCommit(c), NEW p \in Processes
  PROVE  p # c => tx[p].op # "timers"
<1> USE DEF AnswerInv, LockInv, ShapeInv, DispatchInv, TypeInv
<1> SUFFICES ASSUME p # c, tx[p].op = "timers" PROVE FALSE
  OBVIOUS
<1>0. c \in Processes
  BY DEF Processes
<1>1. PICK i \in tx[p].timers : Live(i) /\ attempts[i].due
  BY DEF Held, Informed
<1>2. i \in LiveTimers
  BY <1>1 DEF Shaped, LiveTimers
<1>3. i \in tx[c].todo
  BY <1>0, <1>1, <1>2 DEF Informed, AnswerCommit
<1>4. i \in LockedByOthers(c)
  BY <1>0, <1>1, ApartHeld
<1> QED
  BY <1>2, <1>3, <1>4 DEF AnswerCommit

\* The interaction's state once it is answered, and before.
LEMMA AnswerStateStep ==
  ASSUME AnswerInv, [Next]_vars
  PROVE  /\ state' \in AnswerState => answered'
         /\ answered' /\ ~reported' => state' \in AnswerState
<1> USE DEF AnswerInv, LockInv, ShapeInv, DispatchInv, TypeInv
<1>0. /\ answered => answered'
      /\ reported => reported'
      /\ answered' => answered \/ \E c \in Callers : AnswerCommit(c)
  BY AnsweredStep
<1>1. CASE state' = state /\ ~ \E c \in Callers : AnswerCommit(c)
  BY <1>0, <1>1 DEF Settled
<1>2. CASE CompleteDecision
  <2>1. /\ answered' = answered /\ reported' = reported /\ state = "RECEIVED"
        /\ \E next \in Decisions : state' = next.to
    BY <1>2, FirstDecided
  <2>2. state' \notin AnswerState
    BY <2>1, DecisionsTyped DEF TypeOK, AnswerState
  <2> QED
    BY <2>1, <2>2 DEF Settled, AnswerState
<1>3. CASE \E i \in Ids : AckTimeoutElapses(i)
  BY <1>3 DEF AckTimeoutElapses, Settled
<1>4. CASE \E c \in Callers : AnswerCommit(c)
  <2> PICK c \in Callers : AnswerCommit(c)
    BY <1>4
  <2>1. answered' /\ reported' = reported
    BY DEF AnswerCommit
  <2>2. \/ state' \in AnswerState
        \/ state' = state /\ tx[c].loaded \in AnswerState
    BY DEF AnswerCommit, AnswerState
  <2>3. tx[c].loaded \in AnswerState => answered
    BY DEF Informed, Processes
  <2> QED
    BY <2>1, <2>2, <2>3 DEF Settled
<1>5. CASE \E c \in Callers : ActionExecutedCommit(c)
  BY <1>5 DEF ActionExecutedCommit, Settled
<1>6. CASE \E c \in Callers : ActionFailedCommit(c)
  <2> PICK c \in Callers : ActionFailedCommit(c)
    BY <1>6
  <2>1. answered' = answered /\ reported' = reported
    BY DEF ActionFailedCommit
  <2>2. reported
    BY FailureCommitted DEF Informed, Processes
  <2>3. state' = state \/ state' \notin AnswerState
    BY FailureCommitted DEF AnswerState
  <2> QED
    BY <2>1, <2>2, <2>3 DEF Settled
<1>7. CASE \E p \in Processes : CommitTimers(p)
  <2> PICK p \in Processes : CommitTimers(p)
    BY <1>7
  <2>1. answered' = answered /\ reported' = reported
    BY DEF CommitTimers
  <2>2. state' = Row(p) /\ tx[p].op = "timers"
    BY BatchCommitted DEF Shaped
  <2>3. state' \in AnswerState => answered
    BY <2>2 DEF Informed, Settled, Row
  <2>4. answered /\ ~reported => Quiet(p) /\ state \in AnswerState
    BY DEF Settled
  <2>5. Quiet(p) => state' = state
    BY <2>2 DEF Quiet, Row, Dirty
  <2> QED
    BY <2>1, <2>3, <2>4, <2>5
<1> QED
  BY <1>1, <1>2, <1>3, <1>4, <1>5, <1>6, <1>7, NextCases, RowsLeft

LEMMA QuietStep ==
  ASSUME ~TestClock, AnswerInv, [Next]_vars, answered', ~reported', NEW q \in Processes
  PROVE  Quiet(q)'
<1> USE DEF AnswerInv, LockInv, ShapeInv, DispatchInv, TypeInv
<1>0. /\ ~reported
      /\ answered \/ \E c \in Callers : AnswerCommit(c)
  BY AnsweredStep
<1>1. CASE tx'[q] = Idle
  BY <1>1 DEF Quiet, Idle
<1>2. ASSUME NEW c \in Callers, AnswerCommit(c), tx'[q] # Idle
      PROVE  Quiet(q)'
  <2>1. OnlyTx(c) /\ tx'[c] = Idle /\ RowFree(c) /\ c \in Processes
    BY <1>2, AnswerCommitted DEF AnswerCommit, Processes
  <2>2. q # c /\ tx'[q] = tx[q]
    BY <1>2, <2>1 DEF OnlyTx
  <2>3. tx[q].op # "timers" /\ tx[q].added = <<>>
    BY <1>2, <2>1, <2>2, AnswerFindsNoBatch DEF RowFree
  <2> QED
    BY <2>2, <2>3 DEF Quiet
<1> SUFFICES ASSUME answered PROVE Quiet(q)'
  BY <1>0, <1>1, <1>2
<1>3. Quiet(q) /\ state \in AnswerState /\ tx[q].op # "fail"
  BY <1>0 DEF Settled, Informed
<1>4. CASE tx'[q] = tx[q]
  BY <1>3, <1>4 DEF Quiet
<1>5. CASE FlushTimer(q)
  BY <1>3, <1>5, TimerFlushed DEF Quiet
<1>6. CASE \E i \in tx[q].todo : ProcessTimer(q, i)
  <2> PICK i \in tx[q].todo : ProcessTimer(q, i)
    BY <1>6
  <2>1. tx[q].pc = "timers" /\ tx[q].op = "timers"
    BY TimerProcessed DEF Shaped
  <2>2. ~Dirty(q) /\ Row(q) = state /\ state \in Terminal
    BY <1>3, <2>1 DEF Quiet, Dirty, Row, AnswerState, Terminal
  <2>3. /\ tx'[q].pc = "timers" /\ tx'[q].row = state /\ tx'[q].loaded = state
        /\ tx'[q].added = tx[q].added
    BY <2>2, TimerProcessed
  <2> QED
    BY <1>3, <2>3 DEF Quiet
<1>7. CASE \/ q \in Workers /\ ClaimDueTimers(q)
           \/ q \in Callers /\ ForceNextTimer(q)
  BY <1>7, TimersClaimed DEF Quiet
<1>8. CASE /\ q \in Callers
           /\ \/ HumanReplyRead(q)
              \/ \E a \in Ids : \/ ActionFailedRead(q, a) \/ AcknowledgeRead(q, a)
                                \/ ActionExecutedRead(q, a)
  BY <1>8, RequestBegun DEF Quiet
<1>9. CASE q \in Callers /\ ActionFailedDispatch(q)
  BY <1>3, <1>9, FailureDispatched
<1>10. CASE q \in Callers /\ CancelTimersSnapshot(q)
  BY <1>3, <1>10, SnapshotTaken DEF Quiet
<1> QED
  BY <1>1, <1>4, <1>5, <1>6, <1>7, <1>8, <1>9, <1>10, TxCases

LEMMA AnswerInvAlways ==
  ASSUME ~TestClock
  PROVE  Spec => []AnswerInv
<1>1. Init => AnswerInv
  <2> SUFFICES ASSUME Init PROVE AnswerInv
    OBVIOUS
  <2>1. LockInv
    BY ShapeInvInit DEF Init, LockInv, Apart, Held, Idle
  <2> QED
    BY <2>1 DEF Init, AnswerInv, Informed, Settled, AnswerState, Idle
<1>2. AnswerInv /\ [Next]_vars => AnswerInv'
  <2> SUFFICES ASSUME AnswerInv, [Next]_vars PROVE AnswerInv'
    OBVIOUS
  <2>1. LockInv'
    BY LockInvNext DEF AnswerInv
  <2>2. Settled'
    BY AnswerStateStep, QuietStep DEF Settled
  <2> QED
    BY <2>1, <2>2, InformedStep DEF AnswerInv
<1> QED
  BY <1>1, <1>2, PTL DEF Spec

\* services.py _cancel_timers, claim_due_timers: once an acknowledgement or a
\* human reply is committed no action is dispatched any more, unless a failure
\* has been reported.  The test-clock endpoint is out of use.
THEOREM AnsweredIsFinal ==
  ASSUME ~TestClock
  PROVE  Spec => AnswerStopsEscalation
<1> USE DEF AnswerInv, LockInv, ShapeInv, DispatchInv, TypeInv
<1>1. ASSUME AnswerInv, [Next]_vars, answered, ~reported
      PROVE  Ids' = Ids
  <2> USE <1>1
  <2>0. \A p \in Processes : Quiet(p)
    BY DEF Settled
  <2>1. CASE attempts' = attempts
    BY <2>1 DEF Ids
  <2>2. CASE CompleteDecision
    BY <2>2, FirstDecided DEF Settled, AnswerState
  <2>3. CASE \E i \in Ids : AckTimeoutElapses(i)
    BY <2>3, TimerElapsed
  <2>4. CASE \E c \in Callers : AnswerCommit(c)
    BY <2>4, AnswerCommitted
  <2>5. CASE \E c \in Callers : ActionExecutedCommit(c)
    BY <2>5, ExecutedCommitted
  <2>6. CASE \E c \in Callers : ActionFailedCommit(c)
    BY <2>6, FailureCommitted DEF Informed, Processes
  <2>7. CASE \E p \in Processes : CommitTimers(p)
    <3> PICK p \in Processes : CommitTimers(p)
      BY <2>7
    <3>1. tx[p].added = <<>> /\ Len(tx[p].added) = 0
      BY <2>0 DEF Quiet
    <3>2. Ids' = 1..(Len(attempts) + 0)
      BY <3>1, BatchCommitted
    <3> QED
      BY <3>2, RowsTyped
  <2> QED
    BY <2>1, <2>2, <2>3, <2>4, <2>5, <2>6, <2>7, NextCases, RowsLeft
<1>2. ASSUME AnswerInv, AnswerInv', Ids' = Ids
      PROVE  Len(attempts') = Len(attempts)
  <2>1. Len(attempts) \in Nat /\ Ids = 1..Len(attempts)
    BY <1>2, RowsTyped
  <2>2. Len(attempts') \in Nat /\ Ids' = 1..Len(attempts')
    BY <1>2, LenProperties DEF TypeOK, Ids
  <2> QED
    BY <1>2, <2>1, <2>2
<1>3. AnswerInv /\ AnswerInv' /\ [Next]_vars
         => [answered /\ ~reported => Len(attempts') = Len(attempts)]_vars
  BY <1>1, <1>2
<1> QED
  BY <1>3, AnswerInvAlways, PTL DEF Spec, AnswerStopsEscalation
=============================================================================
