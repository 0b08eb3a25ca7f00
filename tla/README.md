# A formal model of Attention Router

Attention Router answers a person's messages on their behalf, under policy,
and must stay out of the way when the person answers, pauses it or takes a
conversation over.  The modules here model the parts of it where that promise is
kept or broken: the grace windows that wait for the owner, the pipeline that
carries one reply to the contact's phone, the review and the questions by which
the owner has a say, the escalation that tries one action after another, the
authority and the proof of a provider call, and the intake of mail.  Paths are
relative to `attention_router/` unless they start with another directory.

| Module | Models | Runs | Proofs |
|---|---|---|---|
| `ReplyDelivery` | the worker's loop and the reply's rows | `delivery` | `ReplyDeliveryProofs` |
| `ReplyVerdict` | what the pipeline promises about one reply | property `ImplementsVerdict` | `PipelineImplementsVerdict` |
| `GraceWindow` | the life of a grace window, as pipeline and grace agree on it | property `ImplementsLifecycle` of `delivery` and `grace` | `PipelineImplementsLifecycle`, `GraceImplementsLifecycle` |
| `OwnerReplyGrace` | the clock, causality and control of grace windows | `grace` | `OwnerReplyGraceProofs` |
| `Escalation` | the ladder of actions of one interaction, its timers and reports | `escalation`, `escalation_requests` | `EscalationProofs` |
| `ResponseReview` | edits, verdicts and the intent of one reviewed response | `review` | `ResponseReviewProofs` |
| `OwnerClarification` | the questions a conversation with the owner leaves open | `clarification`; `two_winners` ends in a violation | `OwnerClarificationProofs` |
| `ExecutionSafety` | the lease, the budget and the consumption of one effect | `safety` | `ExecutionSafetyProofs` |
| `MetaDelivery` | one attempt through the Meta API and its verdict | `meta`; `meta_reclaimed` ends in a violation | `MetaDeliveryProofs` |
| `MailIntake` | the incremental runs over a mailbox, admission and dispatch | `intake`, `intake_live` | `MailIntakeProofs` |

The `MC` module of each instantiates it for TLC.  To check:
`tlc -config <cfg> <MC module>`; to prove: `tlapm <Proofs module>`.

## 1. Inventory

For each component: the state it keeps, what happens to it, what makes it hard,
what would make it correct.

**A. Reply pipeline** (`infrastructure/worker.py`, `application/execution.py`,
`autonomy.py`, `response_review.py`, `owner_automation_control.py`,
`services.py` 2274-2955, `adapters/*outbound.py`).  State: the rows
`queue`, `autonomy_evaluations`, `agent_execution_intents`, `outbox_messages`,
`owner_automation_controls`, and each worker's place in its loop, its batch and
its session's identity map.  Operations: release due windows, decide, enqueue,
claim, dispatch and record; approve a review, release or cancel an intent,
pause and resume.  Hard: any number of workers, unlocked reads, commits in the
middle of a loop, a provider call outside any row lock, leases, crashes,
outcomes nobody knows.  Correct when a reply takes effect at most once, never
after the owner's own reply, never during a pause if it is automatic, and when
its rows tell the truth about it.

**B. Owner reply grace and operational control** (`owner_reply_grace.py`,
`owner_operational_control.py`).  State: `conversation_response_grace_windows`
with its members, `owner_operational_controls`, `interactions.state`.
Operations: open, extend, preempt, release, cancel by reply, change the delay
or the switch.  Hard: events handled out of order, two clocks, a deadline that
messages and commands both move.  Correct when windows wait as long as the
control in force says, the answer is about the latest message, and the owner's
replies cancel what they answer and nothing else.

**C. Escalation engine** (`services.py` 211, 1772-2260, `infrastructure/repository.py`,
`domain/enums.py`).  State: `interactions.state`, `action_attempts`, `timers`,
`acknowledgements`.  Operations: dispatch the next action, acknowledge, fail,
execute, claim and process timers, human reply.  Hard: timers racing
acknowledgements and failure reports, sessions without autoflush, a batch that
commits or fails as a whole.  Correct when a step of the policy is attempted at
most once and in order, no unanswered interaction is left without a timer, and
an answer ends it.

**D. Response review** (`response_review.py`, `owner_response_review_control.py`,
`execution.py` 302-337, 638-647).  State: `agent_response_reviews`, the intent an
approval creates, its outbox row.  Operations: edit, approve, reject, release,
cancel, enqueue.  Hard: the same row decided from two channels, read before it
is locked or not locked at all.  Correct when a response is sent once, and
nobody who begins after a rejection, a cancellation or a decision on a text
undoes it.

**E. Execution safety** (`platform/execution_safety.py`).  State: execution
lease, effect budget, consumptions of a scenario run.  Operations: provision,
activate, claim and reserve, bind, revalidate, finalize, expire, abort.  Hard:
snapshots older than the lock, expiry against finalization, concurrent
reservations.  Correct when one effect at most is sent, the counters are the
rows, a released slot was not used and a lease is never revived.

**F. Meta callback reconciliation** (`platform/meta_callback_reconciliation.py`,
`platform/production_controlled_execution.py`).  State: the attempt's outbox row,
the reconciliation row, the callback inbox.  Operations: reserve, send, accept,
store a status, correlate, judge, quarantine, requeue.  Hard: statuses
duplicated, reordered, early, late or in quarantine; two passes of several
workers; deadlines.  Correct when the verdict is the one the statuses received in
time call for, the records agree and every accepted attempt is judged.

**G. Client sessions, commands, approvals** (`application/client_*.py`,
`infrastructure/client_session_repository.py`).  State: challenges, sessions,
devices, command receipts.  Every step locks the device and reads it again.
Correct when a challenge yields at most one session and a command one effect.

**H. Integration transport** (`integrations/admission.py`, `dispatch.py`).
State: bindings, credentials, `integration_inbox`.  **K. Gmail ingestion**
(`gmail_*.py`, `infrastructure/gmail_*.py`).  State: the durable cursor, the
installation's slot, the conversation archive.  Operations: poll, run, connect,
disconnect, hand the cursor over, admit, dispatch.  Hard: an admission commits
alone and the cursor later; authority is withdrawn in between.  Correct when no
message is skipped or lost to the archive, the cursor never goes back and mail
reaches the timeline.

**J. Pending intents and clarification** (`pending_intent.py`, `services.py`
432-1336, `client_command.py`).  State: `pending_intents`.  Operations: ask,
select, refuse, replace, expire.  Hard: the open question is found without a
lock, by concurrent handlers.  Correct when one question is open and one reply
to it wins.

**I. Obligations** (`obligations.py`): due-state advance against event
reconciliation.  **L. First contact** (`first_contact*.py`): a durable
presentation reservation.  **M. Voice and artifacts** (`voice_*.py`,
`artifact_understanding.py`): derivations a decision or a voice reply waits
for.  **N. Decision pipeline and agents** (`decision_pipeline.py`, `agents/`).
**O. Local WhatsApp transport** (`whatsapp-transport-local/`, JavaScript).
**P. Personal context** (`personal_context_*.py`).  **Q. Memory, graph,
profiles.**  **R. Owner chat control, group presence.**  **S. Platform
governance, scenarios, readiness.**  **T. Web, API, observability,
provisioning.**

How they meet: the transport (O) posts messages and the owner's own replies to
ingestion, which calls B.  The worker (A) releases B's windows into `queue`,
asks N for a decision, turns an allowed one into an intent, enqueues an outbox
row, claims it and calls O again.  D creates intents for what autonomy would
not send alone.  R changes the controls of A and B, through J when a command is
ambiguous.  E guards laboratory intents of A, F judges what A's other provider
says of a reply, and H with K feed the timeline that N reads.  L and M add waits
and extra rows to A.  C is the older path of
interactions that escalate through actions and timers of the same worker.  All
of it shares one PostgreSQL database: components meet in rows, row locks and
advisory locks, and that is what the modules are about.

The hazards, each with the properties aimed at it, are in `PROJECT.json`.

## 2. Plan

Written, in the order of what an error would cost: `ReplyDelivery` with
`ReplyVerdict`, `OwnerReplyGrace`, `Escalation`, `ExecutionSafety`,
`MetaDelivery`, `MailIntake`, `ResponseReview`, `OwnerClarification`, each with
proofs of its own; then `GraceWindow`, the contract on which the first two
meet.

What would come next: a composition of `ResponseReview` and `ReplyDelivery`, so
that the intent of the one is the intent of the other; `Obligations` (I), whose
state machine meets nothing modelled here; and waits for derivations (M) in
`ReplyDelivery`.  Every safety and action property the runs check is proved; a
contract between `ResponseReview` and `ReplyDelivery`, as `GraceWindow` is one
between its two modules, would be the next theorem.

## 3. ReplyDelivery

One reply per conversation.  `window`, `queue`, `evaluation`, `intent` and
`outbox` are the status columns of the rows of that reply, `cancelReason` the
window's `cancellation_reason`; `paused` is the owner's automation switch.
A worker is its program
counter `pc` through `run_forever`, the conversation `cur` it works on, the
claimed rows `batch` it still holds and `seen`, the intent status its session's
identity map holds.  `observing` is a takeover between its reads and its
commit, `canceling` a `cancel_intent` between its read and its write.
`delivered` counts the provider calls that took effect, which no table knows.

| Action | Code |
|---|---|
| `ReceiveInbound` | `defer_decision_for_grace` |
| `ReleaseDueWindows` | `process_due_grace_windows` |
| `DecidePick`, `DecideLock`, `DecideCommit` | `process_agent_decisions`: unlocked select, first check and flush, routing and commit |
| `EnqueuePick`, `EnqueueCommit` | `enqueue_ready_intents` |
| `ClaimOutbox` | `claim_outbox` and the commit after it |
| `DispatchLoad` ... `DispatchFinish` | one row of `process_outbox`: read, authority and gate, provider call, record |
| `Crash` | death of the process, or an exception that unwinds the loop |
| `ObserveOwnerReply`, `CancelWindow` | `receive_owner_outbound_observation`, `_cancel_window` |
| `SetAutomaticResponses` | `set_automatic_responses_enabled` |
| `ApproveReview`, `ReleaseIntent`, `CancelIntentRead/Write` | the operator's calls |

Where the code commits or reads without a lock, an action ends; where a lock
excludes others, a guard stands for it (`QueueRowLocked`, `observing`,
`AutomationLockShared`).

Abstractions.  A transaction of the decision and enqueue phases handles one row
(the code: up to ten; a batch is what the dispatcher's transactions really share
and there it is kept).  Text messages to the external transport, grace windows
present, first contact off (its default).  Every gate and policy verdict that
depends on data is a free choice.  The clock is free: any claimed row may have
an expired lease, any window may be due.  A row left in `RETRY` is quarantined
at the next claim, so the third-attempt `FAILED` of the code is out of reach
and left out.  The cancellation of a late row in `claim_outbox` is modelled, but
`_cancel_window` has already canceled every row it could find: it is a
defence.  The pause read of `claim_outbox` takes no lock, as in the code; the
one before the call takes the shared one.

| Run | Instance | Shows |
|---|---|---|
| `delivery` | 1 conversation, 2 workers, fair | the safety and liveness properties and the two refinements, 34,450 states |

Two workers are what every race here needs: one that acts on what it read and
one that changed it since.  A second conversation matters only to a batch, whose
rows meet nowhere else; that a takeover or a pause reaches a row that waits in a
batch (`NoSendAfterTakeover`, `PauseRespected`) is proved for any number of
conversations.  Nothing counts, so there is no other bound.

Fairness (`FairSpec`).  `WF(WorkerStep)`: `run_forever` never stops looping and
a systemd-style restart follows a crash.  `WF(CancelWindow)`: a transaction
begun is committed.  `SF(Quarantine)`: a worker that claims for ever finds, some
time, the lease of an abandoned row expired, since a lease is finite; strong
fairness because the claim phase comes and goes.  Crashes are finitely many:
without that a worker that dies in every loop finishes nothing, and no property
of the code could help.

## 4. OwnerReplyGrace

One conversation.  An event is a contact's message or an owner's reply; the
transport gives it `occurred` (the phone's clock) and `received` (the
router's), and its transaction may commit (`handled`) later and in another
order than it was received: HTTP requests are concurrent and retried.  `window[m]` is the
window message `m` opened, with its members, anchor, deadline and the control
and policy it was opened under.  `control` and `policy` are the rows in force.
`irreversible` holds the released windows whose reply is on the way or was sent,
which is `ReplyDelivery`'s business: a claim puts a window there, and a reply that
goes back before any effect takes it out again.

`GraceWindow` states what the two modules rely on.  A window is opened, then
released or canceled; a released one is late while its reply is irreversible
and is canceled only when it is not late.  `OwnerReplyGrace` implements it with
`irreversible` for late, `ReplyDelivery` with the statuses `_cancel_window` looks
at.  There the takeover is two steps, its reads and its commit, and the
refinement says that what it read still holds when it commits.

| Action | Code |
|---|---|
| `PreemptInbound`, `OpenWindow`, `ExtendWindow` | the three ways through `defer_decision_for_grace` |
| `ReleaseDue` | `process_due_grace_windows`, `release_grace_window`, `_routing_still_valid` |
| `CancelByReply`, `RecordReply` | `receive_owner_outbound_observation`, `_cancel_window` |
| `SetControl` | `set_owner_reply_grace_seconds/_enabled`, `_recalculate_open_windows` |
| `ActivatePolicy` | `update_policy`, `activate_policy_version` |
| `BecomeIrreversible`, `BecomeReversible` | `claim_outbox`; `process_outbox` putting a row back or blocking it |
| `Tick`, `Arrive` | time and the transport |

Each is one step because the code takes the advisory lock of the control, then
that of the conversation, then the window row, and holds them to the commit;
the release takes the window row (`SKIP LOCKED`).  Left out: redelivered
events and repeated commands (they find their receipt and change nothing), an
unresolved conversation identity, the legacy policy-scoped control, the
`generation` (it is the number of members, and the release runs in the
transaction that read it), the batch limit of ten, and the state SUPERSEDED,
which the code never writes.  `policy` stands for every part of
`_routing_still_valid` that is not the grace control.  Interactions of a
released window stay WAITING here: what follows is `ReplyDelivery`.

| Run | Instance | Shows |
|---|---|---|
| `grace` | 2 messages, 1 reply, delays 0 and 2, 2 control changes, 2 policies, times 0..3, fair | membership, anchor, cancellation by replies, deadlines and control, the refinement, and that windows close; 1,291,848 states |

Bounds.  Two messages give an older window and a newer one, or a late message to
either; one reply answers some of them and not others; two instants of arrival
order or tie any two events on either clock.  Deadlines need two delays and a
horizon past the longest.  All that the run shows, except that windows close, is
proved for any number of messages and replies.  `LastArrival`, `Horizon`,
`MaxRevision` and `MaxPolicy` bound arrivals, the clock, control changes and policy versions; no symmetry is
used, since the run checks liveness.

Fairness.  `WF(Tick)`: time passes.  `WF(ReleaseDue(w))`: the worker polls due
windows for ever and takes them oldest deadline first.  Messages and control
changes are finitely many, since a contact who never stops writing holds the
window open by design (trailing edge); policies may change without end.

## 5. Escalation

One interaction.  `state` is its state column, `attempts` its action attempts in
the order of insertion, each with the status of its acknowledgement timer and
whether that is due.  `policy` is the ladder of the current policy version, which
is what `dispatch_next_action` reads, whatever version the interaction names.
`tx[p]` is the transaction a process has open: the worker's, over a batch of
timers, or a request's.
`answered` and `reported` remember that an answer was committed and a failure
reported.

| Action | Code |
|---|---|
| `CompleteDecision` | `_complete_interaction_decision` with its first `dispatch_next_action` |
| `ActionFailedRead`, `ActionFailedDispatch`, `ActionFailedCommit` | `action_failed`: reads, UPDATE of the timer and `dispatch_next_action`, flush and commit |
| `AcknowledgeRead`, `HumanReplyRead`, `CancelTimersSnapshot`, `AnswerCommit` | `acknowledge_action`, `human_reply`: reads, snapshot of the UPDATE of the timers, its end and the commit |
| `ActionExecutedRead`, `ActionExecutedCommit` | `action_executed` |
| `ClaimDueTimers`, `ForceNextTimer` | `claim_due_timers`; `force_next_timer` of the test clock |
| `ProcessTimer`, `FlushTimer`, `CommitTimers` | `process_claimed_timer` for one timer of the batch, the flush inside `add_action`, the commit of the loop |
| `UpdatePolicy`, `AckTimeoutElapses`, `Crash` | an edit, time, the loss of a transaction |

The model is built on three facts of the database layer.  PostgreSQL's READ
COMMITTED: an UPDATE waits for locked rows and does not see rows inserted after
it began.  Sessions without autoflush: what a transaction has added since its
last flush its own queries miss.  SQLAlchemy writes a column only if it differs
from the value it loaded, so `ActionFailedCommit` always writes WAITING_ACK (it
has flushed ACTING before) while `AnswerCommit` writes nothing when it had
loaded the state it wants.  An exception in `process_claimed_timer` propagates
through `run_forever` and takes the transaction with it, so RETRY, FAILED and
PROCESSING of a timer never reach another transaction and are not states here.

Left out: the queue rows that shadow the timers, the acknowledgement and audit
rows, the actuator behind the outbox row, the choice of the policy, and the
REQUESTED state, which no code writes.  A batch takes its timers in any order
(the code: by `due_at`) and holds those of this interaction only; the timers of
other interactions in it matter in one way, that a flush for one of them between
two of ours would hide a defect noted in section 11.  `AckTimeoutElapses`
assumes, unless the test clock is in use, that a timer started while a request
is open does not expire before that request ends: timeouts are seconds or more,
requests are shorter.  `AnswerStopsEscalation` depends on it: a timer both
created and expired while a human reply waits would be missed by its UPDATE.
`escalation_requests` has the test clock and no such limit.

| Run | Instance | Shows |
|---|---|---|
| `escalation` | 4 steps, 2 workers, 1 request at a time, 1 crash, fair | failure, answers and the end; 780,917 states |
| `escalation_requests` | 1 or 2 steps, edited freely, 1 worker, 2 requests, test clock | order, and no lost escalation, when requests race each other and an edit; 1,930,504 states |

Bounds.  A third step is what a race needs to repeat or skip one and go on, a
fourth what two timers need to have a step left to dispatch both; more requests
than two only wait.  A policy of two steps already has a first, a
last and none left.  `MaxCrashes` bounds the lost transactions; each leaves the
state it found, so one shows what any number do to safety.  `Requests` names the
requests of a run: `escalation` leaves out the report of an execution, which
moves no timer and would take it past any patience, and
`escalation_requests` has it.  Deadlock is not checked: an interaction that has
ended has nothing left to do.

`EscalationConcludes` has one exception, which the code makes.  A failure
reported for an attempt that was already superseded dispatches the next step
and leaves the live timer of the superseding one: two live timers, both due
some time, with a step still untried.  Claimed in one batch, the second decides on
the step the first has just added; its flush violates the unique key, the batch
rolls back, the worker ends, and its successor claims the same batch (section
11).  `Jammed` names this state.  The property says that nothing else, no crash,
overlap or lost transaction, keeps an unanswered escalation from its end; with
four steps and without that exception TLC finds the jam at once.  An answer, or
a batch that takes one of the two alone, ends the jam, but nothing makes either
happen.

Fairness.  `WF(Elapse)`: time passes.  `WF(WorkerStep(w))`: the worker polls,
and is restarted when it dies.  `WF(RequestStep(c))`: a request in progress
ends.  Nothing makes anyone report or answer.

## 6. ResponseReview

One review.  `review`, `intent` and `outbox` are its rows; `tx[c]` is the
transaction of a request, a chat command or a worker, with the rows it has
loaded.  Except for the API's approve and release, nothing locks what it reads;
the owner's approval in the chat locks a row its session has loaded before,
which refreshes nothing.  A commit writes the columns that differ from the
loaded ones, and so may leave another transaction's value in the rest.

| Action | Code |
|---|---|
| `OpenEdit`, `CommitEdit`; `OpenReject`, `CommitReject` | `edit_review`, `reject_review` |
| `Approve`; `OpenOwnerApproval`, `OwnerApproves`, `OwnerReleases` | `approve_review` from the API; `apply_owner_response_review` |
| `Release`; `OpenCancel`, `CommitCancel` | `release_intent`, `cancel_intent` |
| `OpenEnqueue`, `GateStops`, `PassGate`, `CommitEnqueue` | `enqueue_ready_intents`: selection, gates, the text read after the gate, the row under the key `execution:{intent.id}` |
| `Claim`, `CommitSend`, `Quarantine` | `claim_outbox`, the outcomes of `process_outbox`, expired leases |
| `Rollback` | an error, or a lost transaction |

Left out: the creation of a review (a second creator finds the row), the
message that asks the owner, the lookup by reference, versions and audit.

`calls` counts the dispatches.  That they are one (`OneCall`) rests on nothing the
review or the intent says: a cancellation may be written over SENT, an approval
uses a canceled intent again and a slow sender writes over AMBIGUOUS.  What
holds is the outbox row, unique by the intent and never PENDING again.

Run `review`: 3 transactions, 2 texts, symmetry, 497,556 states: one that acts
on an old copy, one that decides meanwhile, one that sends.  The races of
stale copies are in the scope of the three action properties.  A rejection, a
cancellation or a text may be overridden by a transaction that read the rows
before it (`UnawareOfRejection`, `UnawareOfCancellation`, the open edits in
`Sayable`); the properties say that only such a transaction overrides it, by its
commit, and that these are never joined by one that begins later.  Section 11
says what the override does.  A decided review may stop, so deadlock is not
checked.

## 7. OwnerClarification

The questions of one conversation between the owner and the router.  A message
that is ambiguous becomes a question (`pending_intents`) with closed options;
the question is named by the message that caused it.  `state` and `expires` are
the committed columns, `draft[m]` what the transaction of message `m` has
written, `pc[m]` where its handler is, `seen[m]` the question it found and keeps a
copy of.  `chosen` and `acted` are the question whose option it dispatched,
before and after its commit; `before[m]` the messages whose handling had ended
when `m`'s began.  `channel` is the owner's own chat or the client application,
which differ in the clock (`Stamps`), in what may follow a superseded question,
and in what a conflict undoes.

| Action | Code |
|---|---|
| `Begin` | the start of `_handle_owner_control_command` or `_submit_with_authority`: `expire_due_pending_intents` (SKIP LOCKED), `find_active_pending_intent` (no lock), the choice of branch |
| `Select` | `resolve_pending_intent`, then the dispatch of the option |
| `Cancel`, `Supersede` | `cancel_pending_intent`, `supersede_pending_intent` |
| `CreateRead`, `CreateWrite` | `create_pending_intent`: its reads; the rows closed and the insert under `uq_pending_intent_active_scope` |
| `Rejected` | a stale write over a RESOLVED row, which `ck_pending_intent_selected_only_when_resolved` rejects; the request fails |
| `Commit`, `Crash` | `get_session` |

What the text means is an input: any branch may be taken.  `Write` waits for the
row lock of the UPDATE; `IndexSettled` is the wait of a unique index for a
transaction that is inserting or changing a row of its predicate.  Left out: the
checks that only deny (scope, a reply older than its question), the uniqueness of
the resolving message (a message resolves one question anyway), the prompt's
outbox row and delivery mark, and the language fact learned from a resolution.

| Run | Instance | Shows |
|---|---|---|
| `clarification` | 3 messages, one of them lost once, lifetime 1, times 0..1, fair | the record of what was done, later replies, and that handlers end; 151,828 states |
| `two_winners` | the same without the loss | two overlapping replies both win |

Three messages make one question and two replies to it, or a question, a reply
and a newer question.  A lifetime of one instant and two instants let a question
be open, expire under a handler, and be expired.  Fairness: a transaction that
has begun takes its next step once the locks let it (`WF(Step(m))`).
`TransactionsEnd` is about those locks: an insert waits for an index while it
holds rows, and an update waits for rows.  That no group of handlers waits in a
circle is proved for any number of them (`NobodyWaitsInACircle`).

## 8. ExecutionSafety

The authority of one scenario run to cause one external effect.  `lease`,
`budget`, `cons` and `outbox` are the rows, `sent` the calls of the transport,
`tx[c]` the snapshot a caller read before it locked the lease.  A row read
before the lock is stale after it; only what is first read under the lock, the
count of taken slots and the clock are fresh.

| Action | Code |
|---|---|
| `Provision`, `Activate`, `AbortRun`, `ExpireRun` | the run's life (`_provision_effect_input`, `activate_scenario_run_for_execution`, `transition_scenario_run`, `derive_resume_decision`) |
| `ReserveRead`, `Reserve`, `ReserveDenied` | `claim_and_reserve_in_transaction` and the binding to the intent |
| `EnqueueRead`, `Enqueue`, `EnqueueNothing` | `enqueue_ready_intents` under `evaluate_dispatch_in_transaction` |
| `ClaimOutbox`, `RevalidateRead`, `Revalidate`, `Send` | claim, presend check and call of `process_outbox` |
| `FinalizeRead`, `Finalize` | `finalize_consumed_in_transaction` |
| `ExpireStaleLease`, `QuarantineStale`, `Crash` | `expire_stale_lease_in_transaction`, `claim_outbox`, a lost process |

`transaction_locks.py` orders the row locks that make each step one
transaction.  `probe_transport_status` reports external delivery disabled in this
build, so a synthetic send is blocked at the presend check; the model takes the
probe open, as the tests patch it, since the same rows carry the Meta path.  One
clock; `intent.status` is not tracked.  Run `safety`: 2 intents, 2 callers, one
slot, expiry of lease and budget at 2 and of the run at 3, symmetry, 19,234
states.  Two intents contend for the slot, two callers for one intent.  `Limit`, the
slots of a budget, is 0 or 1 because `scenarios.py` 292 rejects a larger one for
the only effect class that is provisioned.  The code rests on it: with two slots
TLC finds two claims on stale snapshots send two effects.

## 9. MetaDelivery

One reply sent through the Meta API.  A dispatcher reserves the attempt, calls
the API and records its acceptance; the provider reports statuses by webhook,
repeated, in any order, perhaps before the acceptance is recorded.  Each status
is stored as a receipt first and correlated later; the reconciliation row is
judged by the evidence, at once on a delivery, else after its window and a grace.

| Action | Code |
|---|---|
| `Reserve`, `Send`, `Accept`, `ReplayAccept`, `DispatcherStops` | `reserve_production_conversation_reply`, the call, `consume_meta_api_acceptance` |
| `MarkStale`, `ClaimRetry`, `DispatchLocally` | the generic outbox worker over the same row |
| `Receive`, `NextStatus`, `Admit`, `CorrelateReceipt`, `ReconcileReceipt`, `IngressStops` | `meta_webhook` |
| `ClaimReceipt`, `ProcessReceipt` | `reconcile_pending_meta_callback_inbox` |
| `StartSweep`, `SweepRow`, `SweepFails`, `EndSweep`, `WorkerStops` | `reconcile_due_meta_callback_outcomes` |
| `RequeueReconciliation`, `RequeueReceipt`, `ExpireRun`, `Tick` | the operator's recovery, the run's expiry, time |

A correlated receipt is one evidence row and the effect is consumed with the
reconciliation row, so neither is a variable.  A receipt's backoff and claim
time are left out: it may be claimed at any time.  `finalize_delivered_...`
wraps the same reconciliation and adds no step.

| Run | Instance | Shows |
|---|---|---|
| `meta` | 1 dispatcher, handler and worker; a delivery and a failure, in a request each or in one; window 0, grace 2, horizon 3, fair | the verdict, one attempt, agreement of the records, and that the outcome settles; 1,337,015 states |
| `meta_reclaimed` | the same | one statement the code does not keep |

A request may carry several statuses.  All are stamped when it arrives and each is
stored in a transaction of its own that may take `AdmissionLimit`, after those
before it: a status received in the window may be stored when the attempt is
already judged.  `VerdictFitsEvidence` therefore does not ask for all that was
received in the window.  It asks that the verdict follow from evidence received in
it (`Heard`) that includes every status whose admission had to end by the closure
(`InTime`): the first of each request always is one, a later one if those before
it were quick.

A denied correlation quarantines a receipt at once; it has no step, since it needs
a row that somebody else claimed, and an accepted row stays its dispatcher's
(`AcceptedIsOwn`, proved), or other evidence under the receipt's own key.

A delivery and a failure can contradict each other; an admission up to the
grace's end and a horizon past the closure give early, late and refused
evidence; two failures of a row reach its quarantine.  Several dispatchers and
workers are covered by the proofs.  `LastRequest` bounds the reservations,
acceptances and webhooks, not what follows from them.  Fairness: time passes; `run_forever` makes
both passes in every cycle (`WF(ProcessReceipt)`) and does not die in every one
of its sweeps (`SF`).

## 10. MailIntake

One mailbox and the tenants that have read it in turn.  `history` is the
provider's log, `auth` the authorization rows with the durable cursor, `bound`
what is live of the integration's binding and credential, `inbox` the admitted
messages, `archive` the archived
texts, `run[w]` a scheduler's run.  An admission commits by itself through HTTP;
the cursor and the archive commit at the end of the run, under the
installation's advisory lock (`SlotFree`).  `origin` is history: where each
cursor came from.

| Action | Code |
|---|---|
| `StartRun`, `ReadBaseline`, `FetchPage`, `HistoryStale`, `Ingest`, `AdvanceRecord`, `NextPage`, `StopReading`, `Finish`, `Refuse` | `run_channel_sync_cycle` and `run_incremental`, page by page and message by message |
| `Fault`, `Restart` | a failed run, a restarted scheduler |
| `Poll` | the operator's `run_once` |
| `Connect`, `Disconnect`, `Withdraw`, `Handoff` | `GmailConnectionService`; `disable_binding`, `revoke_credential`; `handoff_gmail_history_cursor` |
| `Dispatch` | `integrations/dispatch.py` |
| `Arrive`, `Delete`, `Expire` | the provider (external) |

An admission needs the binding and the credential, a dispatch the binding only.
The worker's batch is one transaction under row locks: rows are dispatched one
at a time here, and a batch that raises is a step that changes nothing.  What
`run_once` archives is left out because it is lost: `scripts/run_gmail_product_once.py`
closes the session without a commit.  One account per tenant (replacing it
clears the cursor); expiry of a credential is its revocation; a tenant that is
made inactive, token revocation, attachments and parsing are left
out; the provider's pages are assumed consistent and its records dense.

| Run | Instance | Shows |
|---|---|---|
| `intake` | 2 tenants, 1 scheduler, 2 messages, symmetry | nothing is skipped, across a hand-over; 4,828,482 states |
| `intake_live` | 1 tenant, 2 schedulers, 2 profiles, 1 fault, fair | the archive, the cursor, and that mail reaches the timeline; 596,906 states |

A hand-over needs two tenants and contention two schedulers; both at once, with
liveness, are beyond TLC here, and all four safety properties are proved for any
number of each.  One message per run and per page make limits bind with two
messages.  Fairness: `run_forever` goes on with a run (`WF(RunStep)`) and comes
to each installation again and again (`SF(StartRun)`: the slot may be taken when
it does); the worker dispatches (`WF(Dispatch)`).  `MailReachesTimeline` excepts
what a run cannot pass without the owner (`Stuck`).

## 11. Where the code and the repository disagree

Two runs end in a violation on purpose.

- `two_winners`: the contract of pending intents
  (`docs/architecture/pending-intent-v1-contract.md` 317, and the list at 358) says
  that concurrent resolutions have at most one winner.  `_lock_row`
  (`pending_intent.py` 165) locks a row that the handler's session has loaded
  already, and without `populate_existing` (which `client_session_repository.py`
  uses for each of its locks) it still reads PENDING.  The second of two overlapping
  replies resolves the question again and dispatches its own option.  What holds
  instead: the question stays RESOLVED, and a reply that begins after the
  winner's commit loses (`ActedIsResolved`, `LaterReplyIsTooLate`).
- `meta_reclaimed`: `production_controlled_execution.py` 253 claims "the one lease".
  `_is_external_network_outbox` (`services.py` 2379) does not know the Meta
  destination, so after `worker_timer_lease_seconds` the generic worker takes the
  row of an attempt under way, dispatches it as a local action and writes DONE
  with nothing proved.

The rest was met while modelling and is in the modules' behaviour, but no run is
devoted to it.

- A pause read at dispatch (`services.py` 2581) puts a claimed row back to
  PENDING, though 2326 calls the claim the last cancellation boundary: an owner's
  reply refused as too late in between does not stop the send after the resume.
- The statuses that make a takeover too late (`owner_reply_grace.py` 636) omit
  RECONCILIATION_REQUIRED: a reply that was delivered but not finalized can be
  "canceled by human reply".
- A manual reply is compared with the newest window only
  (`owner_reply_grace.py` 798).  A message handled after a newer one's window was
  released sits in an older OPEN window, which the reply does not cancel.
- Two timers of one interaction due in one batch both try to dispatch the same
  step, since the session has no autoflush; the unique key raises, the worker
  ends and meets the same batch again, and with it every timer of every
  interaction in it.  `docs/architecture.md` 12 says that a restart loses no
  escalation; this one is not lost and never ends.  The tests' session has
  autoflush (`tests/conftest.py` 76).  `Jammed` is this state (section 5).
- `action_failed` does not look at the interaction's state: a late report
  reopens an acknowledged interaction, which `tests/test_engine.py` 73 finishes.
- An owner's approval in the chat, on a stale copy, overrides a committed
  rejection (`tests/test_response_review.py` 69-76 reject such transitions in one
  session); a rejection may overwrite an approval and leave its intent READY,
  which the gate then stops; an edit that races an approval makes the sent text
  differ from the approved one.
- A selection can be dispatched after the same question was refused or replaced
  by another handler, whose row it overwrites; the learned language fact is then
  the first winner's while the row names the last.
- An abort of a run does not stop a reservation or an enqueue that read the run
  before; a finalization may turn EXPIRED into CONSUMED; a BLOCKED effect keeps
  its slot.
- A webhook of several statuses stamps all of them on arrival, so one received in
  the window may be admitted after the grace and a delivery judged FAILED, which
  is why the verdict is compared with `InTime` and not with all of `Heard`; a
  conflict found by the worker's inbox pass leaves no marker; a run that expires
  while a delivery is awaited cannot be judged.
- `run_once` stamps the wall clock into the event, so polling a known message
  again is an IDEMPOTENCY_CONFLICT, although
  `docs/architecture/gmail-product-runner-v1.md` 94-97 has a retry use the
  duplicate contract, and its archived texts are rolled back with
  its session; a stale installation is remembered until the scheduler
  restarts.

Two more are on purpose or of no effect.  ADR 0003 says that an abandoned item
becomes eligible again after its lease; an external row becomes AMBIGUOUS
instead, which is what `AtMostOneDelivery` rests on.  An interaction names the
policy version it was decided under, but `dispatch_next_action` climbs the
current one.

## 12. What is proved

All by `tlapm`, for all values of the constants that satisfy the modules'
ASSUMEs.  Type correctness is proved for every module, not run.

`ReplyDeliveryProofs`.  `TypeOK` is inductive once every worker's `cur` and
`batch` agree with its `pc` (`TypeInv`).  `DeliveryInv` is the heart: with
`OneHolder` (a row is in one batch at most, and then PROCESSING or AMBIGUOUS)
it says which rows may still cause an effect.  A row in a batch whose call has
not been made has `delivered = 0`; one whose call was made is in its worker's
hands at the outcome; and a row that is in no batch is claimable only if it was
never sent (`TruthfulOutcome`).  `AtMostOneDelivery` alone is not inductive: a
state in which a PENDING row has been delivered satisfies it and the next
send does not.  `TakeoverIsFinal` needs that a row in a worker's batch has a
released window that is not under observation, and a takeover under way has
found no irreversible row (`TakeoverInv`); a claim preserves it because it takes
the window's lock first.  `PauseHolds` needs that a worker sending an automatic
reply excludes a pause, and, so that a reply cannot become automatic on the way,
that every intent and row has its evaluation already (`PauseInv`).
`PipelineImplementsVerdict` combines them: a delivery maps to `Deliver`, a
takeover of an undelivered reply to `Withhold`, all other steps to stutters.
`PipelineImplementsLifecycle` needs besides that nothing was derived from a
window before it closed, by a worker or in a row, and that no intent becomes SENT
while a takeover is under way (`ClosedInv`); the release of a window is then one
of a reversible reply, and the takeover's commit finds what its reads found.

`OwnerReplyGraceProofs`.  `WindowInv` (types, anchors, membership, at most one
open window) gives `TypeCorrect`, `AnchorIsTheLatest`, `NewestOpenAwaitsOwner`;
`ControlInv` (an open window carries the control, and its deadline is not
closer than the delay in force after its last message) gives
`WindowsKeepTheControl` and `ReleasesAreQuiet`.  `HumanCanceledMeansAnswered`
uses that handled events keep their times.  `LineageIsSingle` adds `Lineage`,
that no two windows share a message and a handled message is in one or was
answered; it needs that only unhandled messages are added and that an answer
stays one.  `GraceImplementsLifecycle` needs that irreversible windows are
released, which is part of `WindowInv`.

`EscalationProofs`.  `EscalationTypeCorrect` needs that a transaction about to
flush has decided something (`Decided`).  `OneDispatch`, that a step's action is
dispatched once, rests on `DispatchInv`.  It is not inductive alone: a batch
flushes attempts long before it commits them, and another process could commit
the same step in between.  `Unrepeated` therefore says that flushed attempts
repeat neither each other nor a committed one, and that one transaction at a
time has flushed (`RowFree`, the lock on the interaction row); `Started` that
nothing was dispatched before the decision.  The unique outbox key carries the
proof: no step needs that two processes decide differently.
- `LadderIsClimbed`: what a process has decided or flushed also rests on attempted
  steps (`Promised`), and attempts only grow (`Grows`), so a promise holds until
  its commit, whatever policy is in force by then.
- `FailureIsExhausted`: whoever has found the escalation failed, or is about to
  write so, has an exhausted ladder (`FailureFounded`).  It assumes `SameLength`,
  that the policies an administrator publishes have equally many steps: one policy
  that nobody edits is a case of it, and an edit that adds a step makes a failed
  escalation unexhausted after the fact.
- `EscalationsAreKept`: a live timer is not enough, since a batch or a request
  under way may have passed over it already.  `Movement` asks for one that nobody
  has passed over (`Moves`), which rests on what locks and copies a transaction
  has at each point (`ShapeInv`).
- `TimersAreExclusive`: the row locks are what the code takes them for (`LockInv`).
- `AnsweredIsFinal`: after an answer and before any failure report the interaction
  is in the answer's state and no transaction has anything to write for the
  escalation (`Settled`).  A batch that had something to write holds a due timer,
  and the answer's UPDATE has waited for every timer that was due (`Informed`).
  It assumes `~TestClock`: the test-clock endpoint fires timers that are not due,
  and the property makes no claim of it.  Like the run it rests on the model's
  `AckTimeoutElapses`, which fires no timer while a request is open (section 5).

`ResponseReviewProofs`.  `ReviewInv`: an intent or a row exists only after a
decision, a loaded intent still exists, and a PENDING row was never dispatched,
from which `CalledOnce` follows.  `RejectionHolds`, `CancellationHolds` and
`TextHolds` go through each action with the copies every transaction holds: one
that opens after the decision loads the decided row.

`OwnerClarificationProofs`.  `ClarificationInv`: one writer per row, and none over
a RESOLVED row that would undo it (`Locks`); a dispatched option belongs to a row
that is or is about to be RESOLVED (`Acting`); nobody has seen open a question
that was acted on before it began (`Late`); and the question being inserted
replaces every open one (`Single`).  None of the properties is inductive: each
speaks of committed rows and is broken by a draft.  `NobodyWaitsInACircle` adds
`WaitInv`: a handler that replies to a question has written nothing before
(`Unwritten`); one that asks and closed the open question itself has no expired one
to close (`Sole`); and of handlers that wait to close a row which was closed
under them, the last to have read waits for none of the others (`ReadInOrder`).
In any group a handler that replies waits only for one about to insert or to
commit, and those follow the order of their reads.

`ExecutionSafetyProofs`.  `IInv` names the intent that ever held the lease
(`Holder`), the counters as rows (`Ledger`), the rows bound to consumptions
(`Bound`), what open transactions still know of what they read (`Remembered`)
and that one worker dispatches an effect (`Sole`).

`MetaDeliveryProofs`.  `AtMostOneAttempt` from `Single` (one dispatcher past the
reservation); `RecordsAlwaysAgree` from `Agreement`; `VerdictIsSound` from
`VerdictInv`, which relates a verdict to the receipts that can still be
correlated: those whose admission had to end by the closure are in by then.
`VerdictIsSound` holds for any batching of the statuses into requests.
`AcceptedIsOwn`: once it is accepted, the row has not been taken over.

`MailIntakeProofs`.  `IntakeInv`: what a run has passed since the cursor it began
with it has seen and admitted (`Progress`), and what a cursor passed is admitted
and archived or inherited along its line (`Admission`).  Slots make the cursor
of an installation its run's own.

Only model-checked: the liveness properties, which rest on fairness and are
beyond the prover (`ClaimsResolve`, `DecisionsSettle`, `TakeoverRetiresIntent`,
`OpenWindowsClose`, `EscalationConcludes`, `TransactionsEnd`, `OutcomeSettles`,
`MailReachesTimeline`).  Only proved, not run: the types, `OneHolder`,
`OpenAwaitsOwner`, `OneDispatchPerAction`, `OneOpenQuestion`, the exclusive timers
and the absence of circular waits.

## 13. What is not modelled

- Client sessions and challenges (G): each step locks its device and reads it
  again, so per device they are sequential.  Obligations (I): a state machine
  that no modelled component reads or writes.
- First contact (L) is off by default.  Voice and artifacts (M) wait on external
  engines in queues of their own and do not change the rows of the pipeline.
- Decisions (N) come from a language model: every verdict is allowed.  The local
  transport (O) is a process of its own; its answers are those a dispatch
  distinguishes.
- Personal context (P), memory, graph and profiles (Q) append and analyse stored
  events.  Governance, scenarios and readiness (S) keep records; of the scenarios,
  `ExecutionSafety` has what guards an effect.  Web, API and provisioning (T) are
  request handling around the operations above.

These are most of the repository's lines: the modules cover the control of the
concurrent core, and `PROJECT.json` names each definition's source.
