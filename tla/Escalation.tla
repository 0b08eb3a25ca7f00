------------------------------ MODULE Escalation ------------------------------
(***************************************************************************)
(* The escalation of one interaction: a policy lists the actions to try in *)
(* order, each attempt starts an acknowledgement timer, and a timer that   *)
(* expires or a reported failure moves on to the next action, until        *)
(* somebody acknowledges, the human replies, or no action is left.         *)
(*                                                                         *)
(* The worker loop fires the timers; the web process serves requests       *)
(* concurrently.  Both run PostgreSQL transactions at READ COMMITTED, so a *)
(* transaction is modelled by what it read, the timer rows it has locked   *)
(* and the rows it has flushed: it is split where it reads, where it can   *)
(* wait for a lock, and where it commits.  The sessions have autoflush     *)
(* off: what a transaction adds after its last flush, its own queries do   *)
(* not return.  An UPDATE is emitted only for a column whose value differs *)
(* from the value loaded.                                                  *)
(***************************************************************************)
EXTENDS Naturals, Sequences, FiniteSets

CONSTANTS
    Workers,     \* worker processes running run_forever
    Callers,     \* concurrent requests of the web process
    Policies,    \* the escalation_steps an administrator may publish
    Requests,    \* the requests the devices and the human send
    TestClock,   \* TRUE when the test-clock endpoint is in use
    MaxCrashes   \* bound on the transactions lost to a process death

ASSUME PolicyAssumption == Policies \subseteq Seq(STRING)
ASSUME RequestAssumption == Requests \subseteq {"ack", "human", "fail", "executed"}
ASSUME CrashAssumption == MaxCrashes \in Nat
ASSUME ClockAssumption == TestClock \in BOOLEAN
ASSUME ProcessAssumption == Workers \cap Callers = {}

VARIABLES
    policy,    \* escalation_steps of the current policy version
    state,     \* interactions.state
    attempts,  \* action_attempts in insertion order, each with its timer
    tx,        \* the transaction each process has open
    answered,  \* an acknowledgement or a human reply has been committed
    reported,  \* a failure report has been received
    crashes    \* transactions lost so far

vars == <<policy, state, attempts, tx, answered, reported, crashes>>

Keys == UNION {{p[i] : i \in DOMAIN p} : p \in Policies}
Steps == UNION {{i - 1 : i \in DOMAIN p} : p \in Policies}
Processes == Workers \cup Callers
Ids == DOMAIN attempts

InteractionState ==
    {"RECEIVED", "WAITING_ACK", "ACKNOWLEDGED", "CANCELED_BY_HUMAN_REPLY",
     "COMPLETED", "FAILED"}
Terminal == {"ACKNOWLEDGED", "CANCELED_BY_HUMAN_REPLY", "COMPLETED", "FAILED"}
Attempt ==
    [step : Steps, key : Keys,
     state : {"DISPATCHED", "EXECUTED", "ACKNOWLEDGED", "FAILED"},
     timer : {"PENDING", "DONE", "CANCELED"}, due : BOOLEAN]

\* What dispatch_next_action decides: the state it moves to and, for
\* WAITING_ACK, the step it takes.
NoAction == [to |-> "NONE", step |-> 0, key |-> "NONE"]
Outcome ==
    {NoAction}
        \cup [to : {"COMPLETED", "FAILED"}, step : {0}, key : {"NONE"}]
        \cup [to : {"WAITING_ACK"}, step : Steps, key : Keys]

\* A transaction: where it is, what it does and to which attempt, the
\* interaction state it loaded and the one it holds in memory, its timers,
\* what dispatch_next_action decided, and the attempts it has added.
Idle ==
    [pc |-> "idle", op |-> "none", target |-> 0, loaded |-> "RECEIVED",
     row |-> "RECEIVED", timers |-> {}, todo |-> {}, next |-> NoAction,
     added |-> <<>>]

Transaction ==
    [pc : {"idle", "update", "locking", "flush", "write", "timers"},
     op : {"none", "ack", "human", "fail", "executed", "timers"},
     target : Nat, loaded : InteractionState, row : InteractionState,
     timers : SUBSET Nat, todo : SUBSET Nat, next : Outcome,
     added : Seq(Attempt)]

TypeOK ==
    /\ policy \in Policies
    /\ state \in InteractionState
    /\ attempts \in Seq(Attempt)
    /\ tx \in [Processes -> Transaction]
    /\ answered \in BOOLEAN
    /\ reported \in BOOLEAN
    /\ crashes \in 0..MaxCrashes

Init ==
    /\ policy \in Policies
    /\ state = "RECEIVED"
    /\ attempts = <<>>
    /\ tx = [p \in Processes |-> Idle]
    /\ answered = FALSE
    /\ reported = FALSE
    /\ crashes = 0

-----------------------------------------------------------------------------
(* Rows and locks *)

\* The statuses a cancellation or a claim selects.  PROCESSING and RETRY never
\* outlive the transaction that writes them: the worker claims, processes and
\* commits in one, and an exception propagates and rolls it back.
Live(i) == attempts[i].timer = "PENDING"
LiveTimers == {i \in Ids : Live(i)}

\* Mutant: timers are claimed without FOR UPDATE.
UnlockedTimers(p) == {}

\* Timer rows locked by a transaction other than p's: those a worker claimed
\* FOR UPDATE and those a failure report canceled.
LockedByOthers(p) == UNION {tx[q].timers : q \in Processes \ {p}}

\* The interaction row is locked from the flush inside add_action, which is
\* the one a worker makes before it goes on to its other timers.
RowFree(p) == \A q \in Processes \ {p} : tx[q].added = <<>>

\* uq_outbox_idempotency_key: interaction, step and action key.
Taken(rows, step, key) ==
    \E i \in DOMAIN rows : rows[i].step = step /\ rows[i].key = key

NewAttempt(next) ==
    [step |-> next.step, key |-> next.key, state |-> "DISPATCHED",
     timer |-> "PENDING", due |-> FALSE]

Rollback(p) == tx' = [tx EXCEPT ![p] = Idle]

-----------------------------------------------------------------------------
(* dispatch_next_action *)

Attempted == {attempts[i].step : i \in Ids}

\* Mutant: the last step of the policy is out of range.
UntriedButLast == {s \in Steps : s + 2 \in DOMAIN policy /\ s \notin Attempted}

Untried == {s \in Steps : s + 1 \in DOMAIN policy /\ s \notin Attempted}

\* Mutant: the last step is tried first.
LastUntried == {s \in Untried : \A t \in Untried : s >= t}

FirstUntried == {s \in Untried : \A t \in Untried : s <= t}

\* The next step of the current policy, unless the repetition guard suppresses
\* it; with no step left the escalation has failed.
Decisions ==
    IF Untried = {}
    THEN {[to |-> "FAILED", step |-> 0, key |-> "NONE"]}
    ELSE {[to |-> "COMPLETED", step |-> 0, key |-> "NONE"]}
             \cup {[to |-> "WAITING_ACK", step |-> s, key |-> policy[s + 1]] :
                      s \in FirstUntried}

\* The interaction is decided and its first action dispatched in the
\* transaction that creates it.
CompleteDecision ==
    /\ state = "RECEIVED"
    /\ \E next \in Decisions :
         /\ state' = next.to
         /\ attempts' = IF next.to = "WAITING_ACK"
                        THEN <<NewAttempt(next)>> ELSE <<>>
    /\ UNCHANGED <<policy, tx, answered, reported, crashes>>

\* An administrator publishes another version of the policy.
UpdatePolicy ==
    /\ policy' \in Policies \ {policy}
    /\ UNCHANGED <<state, attempts, tx, answered, reported, crashes>>

-----------------------------------------------------------------------------
(* Requests of the web process *)

Begin(p, pc, op, target) ==
    /\ op \in Requests
    /\ tx[p].pc = "idle"
    /\ tx' = [tx EXCEPT ![p] =
                 [Idle EXCEPT !.pc = pc, !.op = op, !.target = target,
                              !.loaded = state, !.row = state]]

\* action_failed: the attempt and the interaction are read, and a report
\* already recorded is ignored.
ActionFailedRead(c, a) ==
    /\ attempts[a].state # "FAILED"
    /\ Begin(c, "update", "fail", a)
    /\ reported' = TRUE
    /\ UNCHANGED <<policy, state, attempts, answered, crashes>>

\* action_failed: the attempt's own timer is canceled, once no other
\* transaction holds it, and dispatch_next_action reads the attempts made.
ActionFailedDispatch(c) ==
    LET a == tx[c].target
    IN  /\ tx[c].pc = "update" /\ tx[c].op = "fail"
        /\ Live(a) => a \notin LockedByOthers(c)
        /\ \E next \in Decisions :
             tx' = [tx EXCEPT ![c].pc = "flush", ![c].next = next,
                              ![c].timers = IF Live(a) THEN {a} ELSE {}]
        /\ UNCHANGED <<policy, state, attempts, answered, reported,
                       crashes>>

\* action_failed: flush and commit.  A key another transaction has inserted
\* meanwhile raises IntegrityError and the request is rolled back.  ACTING is
\* flushed before WAITING_ACK, so WAITING_ACK is always written.
ActionFailedCommit(c) ==
    LET next == tx[c].next
        failed == [i \in Ids |->
                      [attempts[i] EXCEPT
                          !.state = IF i = tx[c].target THEN "FAILED" ELSE @,
                          !.timer = IF i \in tx[c].timers THEN "CANCELED" ELSE @]]
    IN  /\ tx[c].pc = "flush" /\ tx[c].op = "fail"
        /\ RowFree(c)
        /\ Rollback(c)
        /\ \/ /\ next.to = "WAITING_ACK"
              /\ Taken(attempts, next.step, next.key)
              /\ UNCHANGED <<attempts, state>>
           \/ /\ next.to = "WAITING_ACK"
              /\ ~Taken(attempts, next.step, next.key)
              /\ attempts' = Append(failed, NewAttempt(next))
              /\ state' = "WAITING_ACK"
           \/ /\ next.to # "WAITING_ACK"
              /\ attempts' = failed
              /\ state' = IF next.to # tx[c].loaded THEN next.to ELSE state
        /\ UNCHANGED <<policy, answered, reported, crashes>>

\* acknowledge_action: an acknowledgement already recorded is ignored.
AcknowledgeRead(c, a) ==
    /\ attempts[a].state # "ACKNOWLEDGED"
    /\ Begin(c, "update", "ack", a)
    /\ UNCHANGED <<policy, state, attempts, answered, reported, crashes>>

HumanReplyRead(c) ==
    /\ state # "RECEIVED"
    /\ Begin(c, "update", "human", 0)
    /\ UNCHANGED <<policy, state, attempts, answered, reported, crashes>>

\* The UPDATE that cancels the interaction's timers starts: it sees the timers
\* committed by now and no later ones.
CancelTimersSnapshot(c) ==
    /\ tx[c].pc = "update" /\ tx[c].op \in {"ack", "human"}
    /\ tx' = [tx EXCEPT ![c].pc = "locking", ![c].todo = LiveTimers]
    /\ UNCHANGED <<policy, state, attempts, answered, reported, crashes>>

\* The UPDATE has every row it waited for, cancels those still live, and the
\* request commits.
AnswerCommit(c) ==
    LET canceled == tx[c].todo \cap LiveTimers
        reached == IF tx[c].op = "ack" THEN "ACKNOWLEDGED"
                                       ELSE "CANCELED_BY_HUMAN_REPLY"
    IN  /\ tx[c].pc = "locking"
        /\ canceled \cap LockedByOthers(c) = {}
        /\ RowFree(c)
        /\ attempts' =
             [i \in Ids |->
                 [attempts[i] EXCEPT
                     !.state = IF tx[c].op = "ack" /\ i = tx[c].target
                               THEN "ACKNOWLEDGED" ELSE @,
                     !.timer = IF i \in canceled THEN "CANCELED" ELSE @]]
        /\ state' = IF tx[c].loaded # reached THEN reached ELSE state
        /\ answered' = TRUE
        /\ Rollback(c)
        /\ UNCHANGED <<policy, reported, crashes>>

\* action_executed, whose check of the attempt and whose write are two steps.
ActionExecutedRead(c, a) ==
    /\ attempts[a].state \notin {"ACKNOWLEDGED", "EXECUTED"}
    /\ Begin(c, "write", "executed", a)
    /\ UNCHANGED <<policy, state, attempts, answered, reported, crashes>>

ActionExecutedCommit(c) ==
    /\ tx[c].pc = "write"
    /\ attempts' = [attempts EXCEPT ![tx[c].target].state = "EXECUTED"]
    /\ Rollback(c)
    /\ UNCHANGED <<policy, state, answered, reported, crashes>>

-----------------------------------------------------------------------------
(* Timers *)

\* Time passes: a timer becomes due.  Unless the test clock is in use, a timer
\* started while a request is open does not expire before the request ends.
AckTimeoutElapses(i) ==
    /\ Live(i) /\ ~attempts[i].due
    /\ TestClock \/ \A c \in Callers : tx[c].pc = "idle"
    /\ attempts' = [attempts EXCEPT ![i].due = TRUE]
    /\ UNCHANGED <<policy, state, tx, answered, reported, crashes>>

Claim(p, claimed) ==
    /\ claimed # {}
    /\ tx[p].pc = "idle"
    /\ tx' = [tx EXCEPT ![p] =
                 [Idle EXCEPT !.pc = "timers", !.op = "timers",
                              !.timers = claimed, !.todo = claimed]]
    /\ UNCHANGED <<policy, state, attempts, answered, reported, crashes>>

\* claim_due_timers: FOR UPDATE SKIP LOCKED over the timers that are due.
ClaimDueTimers(w) ==
    Claim(w, {i \in LiveTimers : attempts[i].due} \ LockedByOthers(w))

\* force_next_timer: a request makes a timer due and processes one.
ForceNextTimer(c) ==
    /\ TestClock
    /\ \E i \in LiveTimers \ LockedByOthers(c) : Claim(c, {i})

\* The session still holds the interaction it has changed; otherwise it reads
\* the row again.
Dirty(p) == tx[p].added # <<>> \/ tx[p].row # tx[p].loaded
Row(p) == IF Dirty(p) THEN tx[p].row ELSE state

\* Mutant: an executed action is taken for an acknowledged one.
EscalatesUnlessExecuted(i) == attempts[i].state = "DISPATCHED"

\* Mutant: an action is waited for only once its execution is reported.
EscalatesIfExecuted(i) == attempts[i].state = "EXECUTED"

\* A timer escalates only if its attempt is still unanswered.
Escalates(i) == attempts[i].state \in {"DISPATCHED", "EXECUTED"}

\* process_claimed_timer up to the flush inside add_action.  The attempts this
\* transaction has added after its last flush are not among those it reads.
ProcessTimer(p, i) ==
    LET loaded == IF Dirty(p) THEN tx[p].loaded ELSE state
        Done(pc, row, next) ==
            tx' = [tx EXCEPT ![p].pc = pc, ![p].todo = @ \ {i},
                             ![p].loaded = loaded, ![p].row = row,
                             ![p].next = next]
    IN  /\ tx[p].pc = "timers"
        /\ \/ /\ Row(p) \in Terminal \/ ~Escalates(i)
              /\ Done("timers", Row(p), NoAction)
           \/ /\ Row(p) \notin Terminal /\ Escalates(i)
              /\ \E next \in Decisions :
                   IF next.to = "WAITING_ACK"
                   THEN Done("flush", Row(p), next)
                   ELSE Done("timers", next.to, NoAction)
        /\ UNCHANGED <<policy, state, attempts, answered, reported,
                       crashes>>

\* The flush inside add_action.  A key taken by another transaction, or by an
\* earlier timer of this batch, raises: the exception leaves run_forever and
\* the restarted worker finds the batch as it was.
FlushTimer(p) ==
    LET next == tx[p].next
        conflict == Taken(attempts \o tx[p].added, next.step, next.key)
    IN  /\ tx[p].pc = "flush" /\ tx[p].op = "timers"
        /\ RowFree(p)
        /\ IF conflict
           THEN Rollback(p)
           ELSE tx' = [tx EXCEPT ![p].pc = "timers", ![p].row = "WAITING_ACK",
                                 ![p].added = Append(@, NewAttempt(next)),
                                 ![p].next = NoAction]
        /\ UNCHANGED <<policy, state, attempts, answered, reported,
                       crashes>>

CommitTimers(p) ==
    /\ tx[p].pc = "timers" /\ tx[p].todo = {}
    /\ Dirty(p) => RowFree(p)
    /\ attempts' =
         [i \in Ids |-> [attempts[i] EXCEPT
                            !.timer = IF i \in tx[p].timers THEN "DONE" ELSE @]]
             \o tx[p].added
    /\ state' = Row(p)
    /\ Rollback(p)
    /\ UNCHANGED <<policy, answered, reported, crashes>>

\* A process dies, or a later phase of the worker loop raises: the open
\* transaction is rolled back.
Crash(p) ==
    /\ crashes < MaxCrashes
    /\ tx[p].pc # "idle"
    /\ crashes' = crashes + 1
    /\ Rollback(p)
    /\ UNCHANGED <<policy, state, attempts, answered, reported>>

-----------------------------------------------------------------------------
TimerStep(p) ==
    \/ \E i \in tx[p].todo : ProcessTimer(p, i)
    \/ FlushTimer(p)
    \/ CommitTimers(p)

WorkerStep(w) == ClaimDueTimers(w) \/ TimerStep(w)

RequestStep(c) ==
    \/ ActionFailedDispatch(c) \/ ActionFailedCommit(c)
    \/ CancelTimersSnapshot(c) \/ AnswerCommit(c)
    \/ ActionExecutedCommit(c)
    \/ TimerStep(c)

Request(c) ==
    \/ \E a \in Ids : \/ ActionFailedRead(c, a)
                      \/ AcknowledgeRead(c, a)
                      \/ ActionExecutedRead(c, a)
    \/ HumanReplyRead(c)
    \/ ForceNextTimer(c)

Elapse == \E i \in Ids : AckTimeoutElapses(i)

Next ==
    \/ CompleteDecision
    \/ UpdatePolicy
    \/ Elapse
    \/ \E w \in Workers : WorkerStep(w)
    \/ \E c \in Callers : Request(c) \/ RequestStep(c)
    \/ \E p \in Processes : Crash(p)

Spec == Init /\ [][Next]_vars

\* Time passes, the worker loop runs on (a restarted worker is a running one)
\* and a request in progress ends; nothing makes anyone send a request.
Fairness ==
    /\ WF_vars(Elapse)
    /\ \A w \in Workers : WF_vars(WorkerStep(w))
    /\ \A c \in Callers : WF_vars(RequestStep(c))

LiveSpec == Spec /\ Fairness

-----------------------------------------------------------------------------
(* Properties *)

\* Escalation never repeats an action: whatever timers, failure reports and
\* crashes overlap, one step's action is dispatched at most once.  Two
\* transactions may decide on the same step; only the unique outbox key stops
\* the second.
OneDispatchPerAction ==
    \A i, j \in Ids :
        attempts[i].step = attempts[j].step /\ attempts[i].key = attempts[j].key
            => i = j

\* Escalation skips no step: an action is dispatched only after one of each
\* earlier step, although the attempts were read before the commit.
LadderInOrder ==
    \A i \in Ids : \A s \in Steps :
        s < attempts[i].step => \E j \in 1..(i - 1) : attempts[j].step = s

\* docs/architecture.md: a restart loses no escalation.  An interaction that
\* waits for an acknowledgement, and that nobody has answered, has a live timer
\* to move it on.
NoLostEscalation ==
    state = "WAITING_ACK" /\ ~answered => LiveTimers # {}

\* An escalation is given up only when every step of the policy has been
\* tried.  Stated for a policy that is not edited.
FailedMeansExhausted ==
    state = "FAILED" => \A n \in DOMAIN policy : n - 1 \in Attempted

\* An answer and an expiring timer are serialised by the timer's row lock: once
\* an acknowledgement or a human reply is committed no further action is
\* dispatched, unless a failure is reported or the test clock hurries a timer.
AnswerStopsEscalation ==
    [][answered /\ ~reported => Len(attempts') = Len(attempts)]_vars

\* Two timers that both escalate are due and a step is left to try.  Claimed in
\* one batch, the second decides on the step the first has just taken, its
\* flush raises, and the restarted worker finds the same batch.  Only a failure
\* reported for an attempt that was already superseded gives the interaction a
\* second timer.
Jammed ==
    /\ reported
    /\ Untried # {}
    /\ \E i, j \in LiveTimers :
           i # j /\ \A n \in {i, j} : attempts[n].due /\ Escalates(n)

\* An unanswered escalation comes to an end: somebody answers, or its timers
\* take it through the remaining steps.  Whatever overlaps or is lost, one
\* thing alone keeps it from its end, a jam that lasts for ever
\* (process_claimed_timer, dispatch_next_action, run_forever).
EscalationConcludes ==
    (state = "WAITING_ACK" /\ ~answered)
        ~> (state # "WAITING_ACK" \/ answered \/ []Jammed)
=============================================================================
