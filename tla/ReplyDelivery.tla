---------------------------- MODULE ReplyDelivery ----------------------------
(***************************************************************************)
(* The reply pipeline of the attention router, from the grace window that  *)
(* delays an automatic reply to the network call that delivers it.         *)
(*                                                                         *)
(* One conversation stands for one inbound message and the rows derived    *)
(* from it: its grace window, its decision queue row, its autonomy         *)
(* evaluation, its execution intent and its outbox message.  Several       *)
(* workers run the loop of infrastructure/worker.py; the owner, who may    *)
(* answer the contact by hand, and an operator, who pauses automation,     *)
(* approves, releases or cancels, act at any time through the web process. *)
(* A step is a database transaction, split wherever the code reads a row   *)
(* in one place and acts on it in another, and around the provider call.   *)
(***************************************************************************)
EXTENDS Naturals, FiniteSets

CONSTANTS
    Conversations,  \* one inbound message each, with the rows derived from it
    Workers,        \* worker processes running run_forever
    NoConversation  \* the value of cur when a worker holds no row

ASSUME NoConversationAssumption == NoConversation \notin Conversations

VARIABLES
    window,       \* conversation_response_grace_windows.state
    cancelReason, \* ... .cancellation_reason
    queue,        \* processing_queue.status of the "decision:" row
    evaluation,   \* autonomy_evaluations, by the branch it took
    intent,       \* agent_execution_intents.status
    outbox,       \* outbox_messages.status
    paused,       \* owner_automation_control, automatic responses disabled
    observing,    \* the owner observation transaction in progress, if any
    canceling,    \* cancel_intent requests past their unlocked read
    pc,           \* where each worker is in its loop
    cur,          \* the row a worker is working on
    batch,        \* rows a worker has claimed and not yet finished
    seen,         \* the intent status cached in the worker's session
    delivered     \* how many provider calls have taken effect

rows == <<window, cancelReason, queue, evaluation, intent, outbox>>
locals == <<pc, cur, batch, seen>>
vars == <<rows, paused, observing, canceling, locals, delivered>>

IntentStatus ==
    {"NONE", "READY", "BLOCKED", "QUEUED", "SENT", "CANCELLED", "FAILED"}
OutboxStatus ==
    {"ABSENT", "PENDING", "PROCESSING", "RETRY", "DONE", "AMBIGUOUS",
     "RECONCILIATION_REQUIRED", "FAILED", "CANCELED", "BLOCKED"}
DispatchPhases ==
    {"dispatch", "loaded", "sending", "confirmed", "unconfirmed", "refused"}
Phases ==
    {"release", "decide", "picked", "deciding", "enqueue", "listed", "claim"}
        \cup DispatchPhases

TypeOK ==
    /\ window \in [Conversations -> {"NONE", "OPEN", "RELEASED", "CANCELED"}]
    /\ cancelReason \in [Conversations ->
           {"NONE", "OWNER_MANUAL_REPLY", "GRACE_REVALIDATION_FAILED"}]
    /\ queue \in [Conversations -> {"ABSENT", "PENDING", "DONE", "CANCELED"}]
    /\ evaluation \in [Conversations ->
           {"NONE", "AUTO_ALLOWED", "REVIEW_REQUIRED", "BLOCKED"}]
    /\ intent \in [Conversations -> IntentStatus]
    /\ outbox \in [Conversations -> OutboxStatus]
    /\ paused \in BOOLEAN
    /\ observing \in [Conversations -> {"NO", "BEFORE_INTENT", "WITH_INTENT"}]
    /\ canceling \subseteq Conversations
    /\ pc \in [Workers -> Phases]
    /\ cur \in [Workers -> Conversations \cup {NoConversation}]
    /\ batch \in [Workers -> SUBSET Conversations]
    /\ seen \in [Workers -> IntentStatus]
    /\ delivered \in [Conversations -> Nat]

Init ==
    /\ window = [c \in Conversations |-> "NONE"]
    /\ cancelReason = [c \in Conversations |-> "NONE"]
    /\ queue = [c \in Conversations |-> "ABSENT"]
    /\ evaluation = [c \in Conversations |-> "NONE"]
    /\ intent = [c \in Conversations |-> "NONE"]
    /\ outbox = [c \in Conversations |-> "ABSENT"]
    /\ paused = FALSE
    /\ observing = [c \in Conversations |-> "NO"]
    /\ canceling = {}
    /\ pc = [w \in Workers |-> "release"]
    /\ cur = [w \in Workers |-> NoConversation]
    /\ batch = [w \in Workers |-> {}]
    /\ seen = [w \in Workers |-> "NONE"]
    /\ delivered = [c \in Conversations |-> 0]

-----------------------------------------------------------------------------
(* What the guards of the code ask.                                        *)

\* Mutation: only a window still waiting holds the reply back.
GraceAllowsUnlessOpen(c) == window[c] # "OPEN"

\* grace_allows_interaction: the window was released and not canceled since.
GraceAllows(c) == window[c] = "RELEASED"

\* authorization_source = POLICY_AUTONOMY, the only effects a pause freezes.
Automatic(c) == evaluation[c] = "AUTO_ALLOWED"

\* Mutation: a claimed row could still be taken over.
IrreversibleWithoutProcessing == {"DONE", "AMBIGUOUS", "FAILED"}

\* Outbox states that make the owner's takeover too late in _cancel_window.
IrreversibleStatus == {"PROCESSING", "DONE", "AMBIGUOUS", "FAILED"}
Irreversible(c) == outbox[c] \in IrreversibleStatus \/ intent[c] = "SENT"

\* A worker between the flush and the commit of a decision holds the queue row.
QueueRowLocked(c) == \E w \in Workers : pc[w] = "deciding" /\ cur[w] = c

\* Mutation: the lock is not taken.
AutomationLockNotTaken == FALSE

\* The shared owner-automation lock spans an automatic effect and its commit.
AutomationLockShared ==
    \E w \in Workers :
        /\ pc[w] \in {"sending", "confirmed", "unconfirmed", "refused"}
        /\ Automatic(cur[w])

\* Mutation: an unknown outcome is replayed, taken for a failure, or left as it
\* is.
UnknownReplayed == "PENDING"
UnknownFailed == "FAILED"
UnknownKept == "PROCESSING"

\* The status a claimed external row takes when its outcome is unknown.
UnknownOutcome == "AMBIGUOUS"

-----------------------------------------------------------------------------
(* Inbound messages and the release of their windows.                      *)

\* defer_decision_for_grace opens the window of a first inbound message.
ReceiveInbound(c) ==
    /\ window[c] = "NONE"
    /\ window' = [window EXCEPT ![c] = "OPEN"]
    /\ UNCHANGED <<cancelReason, queue, evaluation, intent, outbox,
                   paused, observing, canceling, locals, delivered>>

\* process_due_grace_windows: SKIP LOCKED leaves out windows under observation;
\* of those due, the ones whose routing is still valid are released, and the
\* others are canceled for good.
ReleaseDueWindows(w) ==
    /\ pc[w] = "release"
    /\ \E due \in SUBSET {c \in Conversations :
                            window[c] = "OPEN" /\ observing[c] = "NO"} :
         \E valid \in SUBSET due :
           /\ window' = [c \in Conversations |->
                  IF c \in valid THEN "RELEASED"
                  ELSE IF c \in due THEN "CANCELED" ELSE window[c]]
           /\ cancelReason' = [c \in Conversations |->
                  IF c \in due \ valid THEN "GRACE_REVALIDATION_FAILED"
                  ELSE cancelReason[c]]
           /\ queue' = [c \in Conversations |->
                  IF c \in valid THEN "PENDING" ELSE queue[c]]
    /\ pc' = [pc EXCEPT ![w] = "decide"]
    /\ UNCHANGED <<evaluation, intent, outbox, paused, observing,
                   canceling, cur, batch, seen, delivered>>

-----------------------------------------------------------------------------
(* The decision phase: process_agent_decisions.                            *)

\* The unlocked select of PENDING decision rows.
DecidePick(w) ==
    /\ pc[w] = "decide"
    /\ \/ /\ \A c \in Conversations : queue[c] # "PENDING"
          /\ pc' = [pc EXCEPT ![w] = "enqueue"]
          /\ UNCHANGED cur
       \/ \E c \in Conversations :
            /\ queue[c] = "PENDING"
            /\ pc' = [pc EXCEPT ![w] = "picked"]
            /\ cur' = [cur EXCEPT ![w] = c]
    /\ UNCHANGED <<rows, paused, observing, canceling, batch, seen, delivered>>

\* The first grace check, then the flush that takes the queue row's lock.
DecideLock(w) ==
    LET c == cur[w] IN
    /\ pc[w] = "picked"
    /\ ~QueueRowLocked(c)
    /\ \/ /\ GraceAllows(c)
          /\ pc' = [pc EXCEPT ![w] = "deciding"]
          /\ UNCHANGED <<queue, cur>>
       \/ /\ ~GraceAllows(c)
          /\ queue' = [queue EXCEPT ![c] = "CANCELED"]
          /\ pc' = [pc EXCEPT ![w] = "enqueue"]
          /\ cur' = [cur EXCEPT ![w] = NoConversation]
    /\ UNCHANGED <<window, cancelReason, evaluation, intent, outbox,
                   paused, observing, canceling, batch, seen, delivered>>

\* evaluate_and_route: an existing evaluation is returned as it is; a pause
\* blocks, and otherwise the policy mode allows, requires review or blocks.
\* An allowed evaluation creates its intent READY and released.
Route(c) ==
    IF evaluation[c] # "NONE" THEN UNCHANGED <<evaluation, intent>>
    ELSE \E verdict \in {"AUTO_ALLOWED", "REVIEW_REQUIRED", "BLOCKED"} :
           /\ paused => verdict = "BLOCKED"
           /\ evaluation' = [evaluation EXCEPT ![c] = verdict]
           /\ intent' = IF verdict = "AUTO_ALLOWED"
                        THEN [intent EXCEPT ![c] = "READY"] ELSE intent

\* Mutation: a decided row keeps its status.
DecidedStatusKept(c) == IF GraceAllows(c) THEN "PENDING" ELSE "CANCELED"

\* The queue row's final status, after the third grace check.
DecidedStatus(c) == IF GraceAllows(c) THEN "DONE" ELSE "CANCELED"

\* The second grace check, the routing it allows, and the commit.
DecideCommit(w) ==
    LET c == cur[w] IN
    /\ pc[w] = "deciding"
    /\ \/ GraceAllows(c) /\ Route(c)
       \/ ~GraceAllows(c) /\ UNCHANGED <<evaluation, intent>>
    /\ queue' = [queue EXCEPT ![c] = DecidedStatus(c)]
    /\ pc' = [pc EXCEPT ![w] = "enqueue"]
    /\ cur' = [cur EXCEPT ![w] = NoConversation]
    /\ UNCHANGED <<window, cancelReason, outbox, paused, observing,
                   canceling, batch, seen, delivered>>

-----------------------------------------------------------------------------
(* The enqueue phase: enqueue_ready_intents.                               *)

\* The unlocked select of READY, released intents.
EnqueuePick(w) ==
    /\ pc[w] = "enqueue"
    /\ \/ /\ \A c \in Conversations : intent[c] # "READY"
          /\ pc' = [pc EXCEPT ![w] = "claim"]
          /\ UNCHANGED cur
       \/ \E c \in Conversations :
            /\ intent[c] = "READY"
            /\ pc' = [pc EXCEPT ![w] = "listed"]
            /\ cur' = [cur EXCEPT ![w] = c]
    /\ UNCHANGED <<rows, paused, observing, canceling, batch, seen, delivered>>

\* Mutation: the pause is looked at before the grace window.
EnqueueOutcomesPauseFirst(c) ==
    IF Automatic(c) /\ paused THEN {<<intent[c], outbox[c]>>}
    ELSE IF ~GraceAllows(c) THEN {<<"CANCELLED", outbox[c]>>}
    ELSE {<<"BLOCKED", outbox[c]>>, <<"QUEUED", IF outbox[c] = "ABSENT"
                                                THEN "PENDING" ELSE outbox[c]>>}

\* What becomes of a listed intent and its outbox row: the grace check, a pause
\* (which leaves everything as it is), the other gates, a row that exists
\* already, and for a new one the repetition guard.
EnqueueOutcomes(c) ==
    IF ~GraceAllows(c) THEN {<<"CANCELLED", outbox[c]>>}
    ELSE IF Automatic(c) /\ paused THEN {<<intent[c], outbox[c]>>}
    ELSE {<<"BLOCKED", outbox[c]>>} \cup
         IF outbox[c] # "ABSENT" THEN {<<"QUEUED", outbox[c]>>}
         ELSE {<<"CANCELLED", "ABSENT">>, <<"QUEUED", "PENDING">>}

\* The commit, under the window's row lock: the session still believes the
\* intent READY, and overwrites whatever was committed since it was listed.
EnqueueCommit(w) ==
    LET c == cur[w] IN
    /\ pc[w] = "listed"
    /\ observing[c] = "NO"
    /\ \E result \in EnqueueOutcomes(c) :
         /\ intent' = [intent EXCEPT ![c] = result[1]]
         /\ outbox' = [outbox EXCEPT ![c] = result[2]]
    /\ pc' = [pc EXCEPT ![w] = "claim"]
    /\ cur' = [cur EXCEPT ![w] = NoConversation]
    /\ UNCHANGED <<window, cancelReason, queue, evaluation, paused,
                   observing, canceling, batch, seen, delivered>>

-----------------------------------------------------------------------------
(* The outbox phase: claim_outbox, then process_outbox row by row.         *)

\* One claim transaction: rows of unknown outcome are quarantined with their
\* intents, claimed rows form the worker's batch, late ones are canceled.
ClaimRows(w, unknown, claimed, late) ==
    /\ outbox' = [c \in Conversations |->
           IF c \in unknown THEN UnknownOutcome
           ELSE IF c \in claimed THEN "PROCESSING"
           ELSE IF c \in late THEN "CANCELED" ELSE outbox[c]]
    /\ intent' = [c \in Conversations |->
           IF c \in unknown THEN "BLOCKED"
           ELSE IF c \in late /\ intent[c] # "SENT" THEN "CANCELLED"
           ELSE intent[c]]
    /\ batch' = [batch EXCEPT ![w] = claimed]
    /\ pc' = [pc EXCEPT ![w] = IF claimed = {} THEN "release" ELSE "dispatch"]
    /\ UNCHANGED <<window, cancelReason, queue, evaluation, paused,
                   observing, canceling, cur, seen, delivered>>

\* Mutation: a row is claimed whoever holds its window.
ClaimableUnlocked(c) ==
    outbox[c] = "PENDING" /\ ~(Automatic(c) /\ paused)

\* A queued row whose window is not under observation (SKIP LOCKED) and that no
\* pause passes over.
Claimable(c) ==
    /\ outbox[c] = "PENDING" /\ observing[c] = "NO"
    /\ ~(Automatic(c) /\ paused)

\* Rows claimed longer ago than the lease (expired) and rows left in RETRY have
\* an unknown outcome and are never replayed.  Of the PENDING rows whose
\* available_at has come (due), those whose window is not released are canceled
\* and the others claimed.
ClaimOutbox(w) ==
    /\ pc[w] = "claim"
    /\ \E expired \in SUBSET {c \in Conversations : outbox[c] = "PROCESSING"},
          due \in SUBSET {c \in Conversations : Claimable(c)} :
         ClaimRows(w,
             expired \cup {c \in Conversations :
                             outbox[c] = "RETRY" /\ observing[c] = "NO"},
             {c \in due : GraceAllows(c)},
             {c \in due : ~GraceAllows(c)})

\* The intent enters the session's identity map, where it stays for this row.
DispatchLoad(w) ==
    /\ pc[w] = "dispatch"
    /\ \E c \in batch[w] :
         /\ cur' = [cur EXCEPT ![w] = c]
         /\ seen' = [seen EXCEPT ![w] = intent[c]]
    /\ pc' = [pc EXCEPT ![w] = "loaded"]
    /\ UNCHANGED <<rows, paused, observing, canceling, batch, delivered>>

\* The worker writes the row's status o and the intent's status i and goes on.
FinishRow(w, o, i) ==
    LET c == cur[w] IN
    /\ outbox' = [outbox EXCEPT ![c] = o]
    /\ intent' = [intent EXCEPT ![c] = i]
    /\ batch' = [batch EXCEPT ![w] = @ \ {c}]
    /\ pc' = [pc EXCEPT ![w] =
                  IF batch[w] = {c} THEN "release" ELSE "dispatch"]
    /\ cur' = [cur EXCEPT ![w] = NoConversation]
    /\ seen' = [seen EXCEPT ![w] = "NONE"]
    /\ UNCHANGED <<window, cancelReason, queue, evaluation, paused,
                   observing, canceling, delivered>>

\* An attribute the session believes to have value v already is not written.
Flushed(w, v) == IF seen[w] = v THEN intent[cur[w]] ELSE v

\* The last authority read denies an automatic effect and gives the row back:
\* always while responses are paused, and for any other reason the read finds.
DispatchDefer(w) ==
    /\ pc[w] = "loaded"
    /\ Automatic(cur[w])
    /\ FinishRow(w, "PENDING", intent[cur[w]])

\* The execution gate, on the cached intent, or freshness denies the effect.
DispatchBlock(w) ==
    /\ pc[w] = "loaded"
    /\ Automatic(cur[w]) /\ ~paused
    /\ FinishRow(w, "BLOCKED", Flushed(w, "BLOCKED"))

\* An exception before the provider call rolls back and leaves RETRY.
DispatchError(w) ==
    /\ pc[w] = "loaded"
    /\ FinishRow(w, "RETRY", intent[cur[w]])

\* An automatic effect passes the gate holding the shared automation lock; a
\* human-approved one has no gate here.
DispatchGate(w) ==
    /\ pc[w] = "loaded"
    /\ Automatic(cur[w]) => ~paused /\ seen[w] # "CANCELLED"
    /\ pc' = [pc EXCEPT ![w] = "sending"]
    /\ UNCHANGED <<rows, paused, observing, canceling, cur, batch, seen,
                   delivered>>

\* The provider call: confirmed, refused before any effect (a configuration
\* error), or ended by an error that leaves the effect unknown.
DispatchSend(w) ==
    /\ pc[w] = "sending"
    /\ \E outcome \in {"confirmed", "unconfirmed", "refused"}, n \in {0, 1} :
         /\ outcome = "confirmed" => n = 1
         /\ outcome = "refused" => n = 0
         /\ delivered' = [delivered EXCEPT ![cur[w]] = @ + n]
         /\ pc' = [pc EXCEPT ![w] = outcome]
    /\ UNCHANGED <<rows, paused, observing, canceling, cur, batch, seen>>

\* The outcome is recorded; a failure to record a confirmed one is kept apart.
DispatchFinish(w) ==
    \/ /\ pc[w] = "confirmed"
       /\ \/ FinishRow(w, "DONE", Flushed(w, "SENT"))
          \/ FinishRow(w, "RECONCILIATION_REQUIRED", "BLOCKED")
    \/ /\ pc[w] = "unconfirmed"
       /\ \E i \in {Flushed(w, "BLOCKED"), "BLOCKED"} :
            FinishRow(w, UnknownOutcome, i)
    \/ /\ pc[w] = "refused"
       /\ FinishRow(w, "FAILED", Flushed(w, "FAILED"))

\* The process dies, or an exception unwinds the loop: the open transaction is
\* rolled back, and the rows of the batch stay PROCESSING.
Crash(w) ==
    /\ pc[w] # "release"
    /\ pc' = [pc EXCEPT ![w] = "release"]
    /\ cur' = [cur EXCEPT ![w] = NoConversation]
    /\ batch' = [batch EXCEPT ![w] = {}]
    /\ seen' = [seen EXCEPT ![w] = "NONE"]
    /\ UNCHANGED <<rows, paused, observing, canceling, delivered>>

-----------------------------------------------------------------------------
(* The owner and the operator.                                             *)

\* receive_owner_outbound_observation takes the window's row lock, reads the
\* intents derived from it; a takeover that comes too late is only audited.
ObserveOwnerReply(c) ==
    /\ window[c] \in {"OPEN", "RELEASED"}
    /\ observing[c] = "NO"
    /\ ~Irreversible(c)
    /\ observing' = [observing EXCEPT ![c] =
           IF intent[c] = "NONE" THEN "BEFORE_INTENT" ELSE "WITH_INTENT"]
    /\ UNCHANGED <<rows, paused, canceling, locals, delivered>>

\* _cancel_window commits: it waits for a decision holding the queue row, and
\* an intent created since the read is not among those it cancels.
CancelWindow(c) ==
    /\ observing[c] # "NO"
    /\ ~(queue[c] = "PENDING" /\ QueueRowLocked(c))
    /\ window' = [window EXCEPT ![c] = "CANCELED"]
    /\ cancelReason' = [cancelReason EXCEPT ![c] = "OWNER_MANUAL_REPLY"]
    /\ queue' = [queue EXCEPT ![c] = IF @ = "PENDING" THEN "CANCELED" ELSE @]
    /\ intent' = [intent EXCEPT ![c] =
                      IF observing[c] = "WITH_INTENT" THEN "CANCELLED" ELSE @]
    /\ outbox' = [outbox EXCEPT ![c] = IF @ = "PENDING" THEN "CANCELED" ELSE @]
    /\ observing' = [observing EXCEPT ![c] = "NO"]
    /\ UNCHANGED <<evaluation, paused, canceling, locals, delivered>>

\* set_automatic_responses_enabled under the exclusive automation lock.
SetAutomaticResponses(enabled) ==
    /\ paused = enabled
    /\ ~AutomationLockShared
    /\ paused' = ~enabled
    /\ UNCHANGED <<rows, observing, canceling, locals, delivered>>

\* approve_review creates the human-authorized intent, held until released.
ApproveReview(c) ==
    /\ evaluation[c] = "REVIEW_REQUIRED"
    /\ intent[c] = "NONE"
    /\ intent' = [intent EXCEPT ![c] = "BLOCKED"]
    /\ UNCHANGED <<window, cancelReason, queue, evaluation, outbox,
                   paused, observing, canceling, locals, delivered>>

\* release_intent under the intent's row lock; a failing gate raises.
ReleaseIntent(c) ==
    /\ intent[c] \notin {"NONE", "READY", "SENT", "CANCELLED"}
    /\ ~(Automatic(c) /\ paused)
    /\ intent' = [intent EXCEPT ![c] = "READY"]
    /\ UNCHANGED <<window, cancelReason, queue, evaluation, outbox,
                   paused, observing, canceling, locals, delivered>>

\* cancel_intent reads the status without a lock ...
CancelIntentRead(c) ==
    /\ intent[c] \notin {"NONE", "SENT", "CANCELLED"}
    /\ c \notin canceling
    /\ canceling' = canceling \cup {c}
    /\ UNCHANGED <<rows, paused, observing, locals, delivered>>

\* ... and writes CANCELLED over whatever it has become.
CancelIntentWrite(c) ==
    /\ c \in canceling
    /\ canceling' = canceling \ {c}
    /\ intent' = [intent EXCEPT ![c] = "CANCELLED"]
    /\ UNCHANGED <<window, cancelReason, queue, evaluation, outbox,
                   paused, observing, locals, delivered>>

-----------------------------------------------------------------------------

WorkerStep(w) ==
    \/ ReleaseDueWindows(w)
    \/ DecidePick(w) \/ DecideLock(w) \/ DecideCommit(w)
    \/ EnqueuePick(w) \/ EnqueueCommit(w)
    \/ ClaimOutbox(w) \/ DispatchLoad(w)
    \/ DispatchDefer(w) \/ DispatchBlock(w) \/ DispatchError(w)
    \/ DispatchGate(w) \/ DispatchSend(w) \/ DispatchFinish(w)

WebStep(c) ==
    \/ ReceiveInbound(c) \/ ObserveOwnerReply(c) \/ CancelWindow(c)
    \/ ApproveReview(c) \/ ReleaseIntent(c)
    \/ CancelIntentRead(c) \/ CancelIntentWrite(c)

Next ==
    \/ \E w \in Workers : WorkerStep(w) \/ Crash(w)
    \/ \E c \in Conversations : WebStep(c)
    \/ \E enabled \in BOOLEAN : SetAutomaticResponses(enabled)

Spec == Init /\ [][Next]_vars

\* run_forever keeps looping and the transactions it waits for end; a lease is
\* finite, so a worker that keeps claiming finds an abandoned row expired; and
\* processes are not restarted for ever (a claim that finds nothing ends a loop
\* as a crash does, and is none).
Quarantine(w, c) ==
    /\ ClaimOutbox(w)
    /\ outbox[c] = "PROCESSING" /\ outbox'[c] # "PROCESSING"
Crashes == \E w \in Workers : Crash(w) /\ ~WorkerStep(w)
Fairness ==
    /\ \A w \in Workers : WF_vars(WorkerStep(w))
    /\ \A c \in Conversations : WF_vars(CancelWindow(c))
    /\ \A w \in Workers, c \in Conversations : SF_vars(Quarantine(w, c))
    /\ <>[][~Crashes]_vars

FairSpec == Spec /\ Fairness

-----------------------------------------------------------------------------
(* Safety.                                                                 *)

\* Whatever the crashes, expired leases, slow workers and operator commands, a
\* reply's provider call takes effect at most once: a row whose attempt may have
\* had an effect is never made claimable again (claim_outbox quarantines it).
AtMostOneDelivery == \A c \in Conversations : delivered[c] <= 1

\* A row's status tells the truth about the contact's phone: DONE and
\* RECONCILIATION_REQUIRED only after an effect, and a row that is claimable,
\* canceled, blocked or failed never had one, although slow workers overwrite
\* statuses that another worker has quarantined in the meantime.
ProvenDelivered == {"DONE", "RECONCILIATION_REQUIRED"}
ProvenUndelivered ==
    {"ABSENT", "PENDING", "RETRY", "FAILED", "CANCELED", "BLOCKED"}
TruthfulOutcome ==
    \A c \in Conversations :
        /\ outbox[c] \in ProvenDelivered => delivered[c] = 1
        /\ outbox[c] \in ProvenUndelivered => delivered[c] = 0

\* A row is in at most one worker's hands, and while it is, its status is the
\* one claim_outbox gave it or the quarantine of an expired lease.
OneHolder ==
    \A w \in Workers : \A c \in batch[w] :
        /\ outbox[c] \in {"PROCESSING", "AMBIGUOUS"}
        /\ \A v \in Workers \ {w} : c \notin batch[v]

\* Once the owner's own reply has canceled the window (_cancel_window), no
\* provider call of that conversation takes effect any more: not from an intent
\* created during the takeover, nor from one an operator releases later.
NoSendAfterTakeover ==
    [][\A c \in Conversations :
          delivered'[c] # delivered[c]
              => cancelReason[c] # "OWNER_MANUAL_REPLY"]_vars

\* An automatic reply never takes effect while a committed pause is in force:
\* the dispatcher's shared lock and the command's exclusive one exclude it
\* (lock_automation_scope), even when the pause comes after the claim.
PauseRespected ==
    [][\A c \in Conversations :
          delivered'[c] # delivered[c] /\ Automatic(c) => ~paused]_vars

\* The pipeline implements the abstract verdict: a reply is delivered when its
\* call has taken effect, and withheld when the owner's takeover came first.
VerdictOf(c) ==
    CASE delivered[c] > 1 -> "DUPLICATED"
      [] delivered[c] = 1 -> "DELIVERED"
      [] delivered[c] = 0 ->
           IF cancelReason[c] = "OWNER_MANUAL_REPLY" THEN "WITHHELD" ELSE "OPEN"
Verdict == INSTANCE ReplyVerdict WITH
    Replies <- Conversations,
    verdict <- [c \in Conversations |-> VerdictOf(c)]
ImplementsVerdict == Verdict!Spec

\* The window keeps the promise its other half makes of it (module
\* OwnerReplyGrace): a takeover that found it in time is in time when it
\* commits, and a window is never canceled while its reply is on the way.
PhaseOf(c) ==
    IF window[c] = "RELEASED" /\ Irreversible(c) THEN "LATE" ELSE window[c]
Lifecycle == INSTANCE GraceWindow WITH
    Windows <- Conversations,
    phase <- [c \in Conversations |-> PhaseOf(c)]
ImplementsLifecycle == Lifecycle!Spec

-----------------------------------------------------------------------------
(* Liveness.                                                               *)

\* A claimed row does not stay PROCESSING for ever, even when the worker that
\* claimed it has died: some worker finishes it or quarantines it.
ClaimsResolve ==
    \A c \in Conversations :
        outbox[c] = "PROCESSING" ~> outbox[c] # "PROCESSING"

\* A decision queue row that a released window created is decided or canceled,
\* although workers race for it and the owner's takeover may lock it.
DecisionsSettle ==
    \A c \in Conversations : queue[c] = "PENDING" ~> queue[c] # "PENDING"

\* After the owner's takeover no intent stays ready to be enqueued, whether it
\* was created while the takeover ran or released by an operator afterwards.
TakeoverRetiresIntent ==
    \A c \in Conversations :
        (cancelReason[c] = "OWNER_MANUAL_REPLY" /\ intent[c] = "READY")
            ~> intent[c] # "READY"
=============================================================================
