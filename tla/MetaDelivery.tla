----------------------------- MODULE MetaDelivery -----------------------------
(***************************************************************************)
(* One reply sent through the Meta API and the judgement of its delivery.  *)
(* A dispatcher reserves the only attempt, calls the API and records the   *)
(* acceptance; the provider then reports statuses by webhooks, duplicated, *)
(* in any order, and possibly before the acceptance is recorded.  Each     *)
(* status is first stored as a receipt, in a transaction that never        *)
(* touches the outcome, and later correlated with the reconciliation row.  *)
(* A delivery proof received inside the window passes the run; a failure   *)
(* is concluded only after the window and a grace have passed.             *)
(*                                                                         *)
(* Every action is one PostgreSQL transaction that holds the provider gate *)
(* or the lock of the reconciliation row.  A correlated receipt is exactly *)
(* one piece of evidence, and the effect is consumed exactly when the      *)
(* reconciliation row is created, so neither has a variable of its own.    *)
(* The backoff and the claim time of a receipt are left out: a pending     *)
(* receipt may be claimed at any time.                                     *)
(***************************************************************************)
EXTENDS Naturals, FiniteSets

CONSTANTS
    Callbacks,       \* distinct statuses the provider may report
    Kind,            \* "sent", "delivered" (or read), "failed" or "invalid"
    ProviderTime,    \* timestamp the provider gives each status
    Webhooks,        \* sets of statuses that may come in one request
    Handlers,        \* ingress processes
    Dispatchers,     \* processes that may dispatch the reply
    Workers,         \* worker processes
    Window,          \* RECONCILIATION_WINDOW_SECONDS
    Grace,           \* ADMISSION_GRACE_SECONDS
    AdmissionLimit,  \* MAX_ADMISSION_TRANSACTION_SECONDS
    OutboxLease,     \* worker_timer_lease_seconds
    RunExpires,      \* scenario_runs.expires_at
    Backoff,         \* delay after a failed reconciliation
    Batch,           \* receipts correlated in one transaction
    MaxFailures,     \* MAX_RECONCILIATION_FAILURES, MAX_INBOX_CORRELATION_FAILURES
    LastRequest,     \* bound: the last reservation, acceptance or webhook
    Horizon,         \* bound on the clock
    None

ASSUME StatusAssumption ==
    /\ IsFiniteSet(Callbacks)
    /\ Kind \in [Callbacks -> {"sent", "delivered", "failed", "invalid"}]
    /\ ProviderTime \in [Callbacks -> Nat]
    /\ Webhooks \subseteq SUBSET Callbacks
ASSUME TimeAssumption ==
    /\ {Window, Grace, OutboxLease, RunExpires, Backoff, Batch,
        LastRequest, Horizon} \subseteq Nat
    /\ AdmissionLimit \in 1..Grace
    /\ MaxFailures \in Nat \ {0}
ASSUME NoneAssumption == None \notin Callbacks \cup Dispatchers \cup Workers

VARIABLES
    now,
    outbox,      \* status, claimed_by and claimed_at of the attempt's row
    run,         \* scenario_runs.status
    recon,       \* the meta_delivery_reconciliations row
    inbox,       \* the meta_callback_inbox row of each status
    marker,      \* the DELIVERY_WITH_FAILURE_CONFLICT marker exists
    sends,       \* calls of the provider's API
    dispatcher,  \* what each dispatcher has done
    ingress,     \* the webhook each ingress process is handling
    worker       \* the pass each worker is in

rows == <<outbox, run, recon, inbox, marker>>
vars == <<now, rows, sends, dispatcher, ingress, worker>>

Terminal == {"PASSED", "FAILED"}
Outbox ==
    [status : {"NONE", "PROCESSING", "RETRY", "AWAITING_DELIVERY", "DONE",
               "FAILED"},
     by : Dispatchers \cup {None}, at : Nat]
Reconciliation ==
    [state : {"NONE", "PENDING"} \cup Terminal,
     op : {"ACTIVE", "QUARANTINED"}, accepted : Nat, next : Nat,
     failures : Nat,
     reason : {"PENDING", "DELIVERED", "FAILED", "TIMEOUT", "INVALID"}]
Receipt ==
    [state : {"NONE", "PENDING", "QUARANTINED", "CORRELATED"},
     received : Nat, created : Nat, attempts : Nat,
     error : {"none", "NOT_FOUND", "ERROR"}, token : Workers \cup {None}]
Webhook ==
    [pc : {"idle", "admit", "correlate", "reconcile"},
     queue : SUBSET Callbacks, cur : Callbacks \cup {None},
     received : Nat, started : Nat, hit : BOOLEAN]
Pass ==
    [pc : {"idle", "claimed", "sweep"}, row : Callbacks \cup {None},
     stamp : Nat]

NoReceipt ==
    [state |-> "NONE", received |-> 0, created |-> 0, attempts |-> 0,
     error |-> "none", token |-> None]
NoWebhook ==
    [pc |-> "idle", queue |-> {}, cur |-> None, received |-> 0,
     started |-> 0, hit |-> FALSE]
NoPass == [pc |-> "idle", row |-> None, stamp |-> 0]

Init ==
    /\ now = 0
    /\ outbox = [status |-> "NONE", by |-> None, at |-> 0]
    /\ run = "ARMED"
    /\ recon = [state |-> "NONE", op |-> "ACTIVE", accepted |-> 0,
                next |-> 0, failures |-> 0, reason |-> "PENDING"]
    /\ inbox = [c \in Callbacks |-> NoReceipt]
    /\ marker = FALSE
    /\ sends = 0
    /\ dispatcher = [d \in Dispatchers |-> "idle"]
    /\ ingress = [h \in Handlers |-> NoWebhook]
    /\ worker = [w \in Workers |-> NoPass]

(***************************************************************************)
(* Receipts and evidence.                                                  *)
(***************************************************************************)

Valid(c) == Kind[c] # "invalid"
Deadline(r) == r.accepted + Window
Closure(r) == Deadline(r) + Grace

\* Receipts that wait for correlation: the pending ones and those that were
\* quarantined because there was no reconciliation row yet.
Backlog(in) ==
    {c \in Callbacks :
        \/ in[c].state = "PENDING"
        \/ in[c].state = "QUARANTINED" /\ in[c].error = "NOT_FOUND"}

\* One query's worth of the backlog, the earliest received first.
Batches(in) ==
    {B \in SUBSET Backlog(in) :
        /\ Cardinality(B) <= Batch
        /\ B = Backlog(in) \/ Cardinality(B) = Batch
        /\ \A b \in B, c \in Backlog(in) \ B :
               in[b].received <= in[c].received}

\* The count of attempts of a correlated receipt is never read again.
Correlated(in, B) ==
    [c \in Callbacks |->
        IF c \in B
        THEN [state |-> "CORRELATED", received |-> in[c].received,
              created |-> in[c].created, attempts |-> 0, error |-> "none",
              token |-> None]
        ELSE in[c]]

\* A valid receipt that only an operator can bring back.
Blocked(in) ==
    \E c \in Callbacks :
        in[c].state = "QUARANTINED" /\ in[c].error = "ERROR" /\ Valid(c)

\* The correlated evidence that was received inside the window.
Admissible(r, in) ==
    {c \in Callbacks :
        in[c].state = "CORRELATED" /\ in[c].received <= Deadline(r)}

Conflict(r, in) ==
    /\ \E c \in Admissible(r, in) : Kind[c] = "delivered"
    /\ \E c \in Admissible(r, in) : Kind[c] = "failed"

\* The last word of the provider, by the provider's own clock, is a failure.
LatestFailed(S) ==
    \E c \in S :
        /\ Kind[c] = "failed"
        /\ \A d \in S : Valid(d) => ProviderTime[d] <= ProviderTime[c]

\* Mutant: no grace for receipts that are being stored.
DueAtDeadline(r, ts) == ts >= Deadline(r)

Due(r, ts) == ts >= Closure(r)

\* reduce_meta_callback_evidence
Judge(r, in, ts) ==
    LET S == Admissible(r, in) IN
    IF \E c \in S : Kind[c] = "delivered" THEN "DELIVERED"
    ELSE IF ~Due(r, ts) THEN "PENDING"
    ELSE IF LatestFailed(S) THEN "FAILED"
    ELSE IF S # {} /\ \A c \in S : ~Valid(c) THEN "INVALID"
    ELSE "TIMEOUT"

(***************************************************************************)
(* The outcome.                                                            *)
(***************************************************************************)

Concluded(r, verdict) ==
    [state |-> IF verdict = "PENDING" THEN "PENDING"
               ELSE IF verdict = "DELIVERED" THEN "PASSED" ELSE "FAILED",
     op |-> r.op, accepted |-> r.accepted,
     next |-> IF verdict = "PENDING" THEN Closure(r) ELSE r.next,
     failures |-> 0, reason |-> verdict]

Closed(o, verdict) ==
    [status |-> IF verdict = "PENDING" THEN o.status
                ELSE IF verdict = "DELIVERED" THEN "DONE" ELSE "FAILED",
     by |-> o.by, at |-> o.at]

Judged(r, o, in, ts) ==
    LET verdict == Judge(r, in, ts) IN
    /\ o.status = "AWAITING_DELIVERY"
    /\ run = "RUNNING"
    /\ recon' = Concluded(r, verdict)
    /\ outbox' = Closed(o, verdict)
    /\ run' = IF verdict = "PENDING" THEN run ELSE recon'.state
    /\ marker' = (marker \/ Conflict(r, in))

Rescheduled(r, ts) ==
    [state |-> r.state, op |-> r.op, accepted |-> r.accepted, next |-> ts,
     failures |-> r.failures, reason |-> r.reason]

\* _reconcile_locked_meta_callback_outcome for the row r and the outbox row
\* o, after correlation has left the receipts as in.  Where no disjunct
\* applies the code raises and the transaction is rolled back.
Settle(r, o, in, ts) ==
    /\ r.op = "ACTIVE"
    /\ inbox' = in
    /\ \/ /\ r.state \in Terminal
          /\ marker' = (marker \/ Conflict(r, in))
          /\ recon' = r /\ outbox' = o /\ UNCHANGED run
       \/ /\ r.state = "PENDING" /\ Backlog(in) # {}
          /\ recon' = Rescheduled(r, ts)
          /\ outbox' = o /\ UNCHANGED <<run, marker>>
       \/ /\ r.state = "PENDING" /\ Backlog(in) = {} /\ ~Blocked(in)
          /\ Judged(r, o, in, ts)

Reconcile(ts) ==
    /\ recon.state # "NONE"
    /\ \E B \in Batches(inbox) :
           Settle(recon, outbox, Correlated(inbox, B), ts)

(***************************************************************************)
(* The dispatcher.  The process is external: it calls the functions of     *)
(* production_controlled_execution around its call of the API.             *)
(***************************************************************************)

\* Mutant: an attempt whose run is still open may be made again.
ReservableAgain == run \in {"ARMED", "RUNNING"} /\ recon.state = "NONE"

Reservable ==
    run = "ARMED" /\ now < RunExpires /\ outbox.status = "NONE"

Reserve(d) ==
    /\ dispatcher[d] = "idle"
    /\ Reservable
    /\ now <= LastRequest
    /\ outbox' = [status |-> "PROCESSING", by |-> d, at |-> now]
    /\ run' = "RUNNING"
    /\ dispatcher' = [dispatcher EXCEPT ![d] = "reserved"]
    /\ UNCHANGED <<now, recon, inbox, marker, sends, ingress, worker>>

Send(d) ==
    /\ dispatcher[d] = "reserved"
    /\ sends' = sends + 1
    /\ dispatcher' = [dispatcher EXCEPT ![d] = "sent"]
    /\ UNCHANGED <<now, rows, ingress, worker>>

Accepted ==
    [state |-> "PENDING", op |-> "ACTIVE", accepted |-> now,
     next |-> now + Window + Grace, failures |-> 0, reason |-> "PENDING"]
Awaiting ==
    [status |-> "AWAITING_DELIVERY", by |-> outbox.by, at |-> outbox.at]

\* Mutant: whoever claimed the row, its attempt may be accepted.
AcceptableFromAnyone(d) == outbox.status = "PROCESSING"

Acceptable(d) == outbox.status = "PROCESSING" /\ outbox.by = d

\* The acceptance consumes the effect, opens the reconciliation and
\* correlates the receipts that came before it.
Accept(d) ==
    /\ dispatcher[d] = "sent"
    /\ recon.state = "NONE"
    /\ Acceptable(d)
    /\ run = "RUNNING"
    /\ now <= LastRequest
    /\ \E B \in Batches(inbox) :
           \/ /\ B = {}
              /\ recon' = Accepted /\ outbox' = Awaiting
              /\ UNCHANGED <<run, inbox, marker>>
           \/ /\ B # {}
              /\ Settle(Accepted, Awaiting, Correlated(inbox, B), now)
    /\ dispatcher' = [dispatcher EXCEPT ![d] = "accepted"]
    /\ UNCHANGED <<now, sends, ingress, worker>>

\* The acceptance is reported again by the same dispatcher.
ReplayAccept(d) ==
    /\ dispatcher[d] = "accepted"
    /\ outbox.by = d
    /\ \E B \in Batches(inbox) :
           /\ B # {}
           /\ \/ /\ recon.state = "PENDING"
                 /\ Settle(recon, outbox, Correlated(inbox, B), now)
              \/ /\ recon.state \in Terminal
                 /\ inbox' = Correlated(inbox, B)
                 /\ UNCHANGED <<outbox, run, recon, marker>>
    /\ UNCHANGED <<now, sends, dispatcher, ingress, worker>>

DispatcherStops(d) ==
    /\ dispatcher[d] # "idle"
    /\ dispatcher' = [dispatcher EXCEPT ![d] = "idle"]
    /\ UNCHANGED <<now, rows, sends, ingress, worker>>

(***************************************************************************)
(* The generic outbox worker, which does not know this destination.        *)
(***************************************************************************)

MarkStale ==
    /\ outbox.status = "PROCESSING"
    /\ now > outbox.at + OutboxLease
    /\ outbox' = [status |-> "RETRY", by |-> outbox.by, at |-> outbox.at]
    /\ UNCHANGED <<now, run, recon, inbox, marker, sends, dispatcher,
                   ingress, worker>>

ClaimRetry ==
    /\ outbox.status = "RETRY"
    /\ outbox' = [status |-> "PROCESSING", by |-> None, at |-> now]
    /\ UNCHANGED <<now, run, recon, inbox, marker, sends, dispatcher,
                   ingress, worker>>

\* MockActionAdapter.dispatch: nothing is sent.  The row is then written DONE
\* from the claim the worker remembers, whatever its status has become.
DispatchLocally ==
    /\ outbox.status \notin {"NONE", "DONE"} /\ outbox.by = None
    /\ outbox' = [status |-> "DONE", by |-> None, at |-> outbox.at]
    /\ UNCHANGED <<now, run, recon, inbox, marker, sends, dispatcher,
                   ingress, worker>>

\* derive_resume_decision on a run past its expiry.
ExpireRun ==
    /\ run \in {"ARMED", "RUNNING"}
    /\ now >= RunExpires
    /\ run' = "EXPIRED"
    /\ UNCHANGED <<now, outbox, recon, inbox, marker, sends, dispatcher,
                   ingress, worker>>

(***************************************************************************)
(* The ingress: every status of a request is stamped on arrival, stored in *)
(* a transaction of its own, and correlated on a best effort.              *)
(***************************************************************************)

Receive(h, W) ==
    /\ ingress[h].pc = "idle"
    /\ sends > 0
    /\ now <= LastRequest
    /\ W # {}
    /\ ingress' = [ingress EXCEPT ![h] =
           [pc |-> "admit", queue |-> W, cur |-> None, received |-> now,
            started |-> now, hit |-> FALSE]]
    /\ UNCHANGED <<now, rows, sends, dispatcher, worker>>

\* The webhook g after the status it was handling.
NextStatus(g, queue, hit) ==
    IF queue = {}
    THEN [pc |-> "reconcile", queue |-> {}, cur |-> None, received |-> 0,
          started |-> 0, hit |-> hit]
    ELSE [pc |-> "admit", queue |-> queue, cur |-> None,
          received |-> g.received, started |-> now, hit |-> hit]

\* The receipt of c after its admission by the webhook g, created when that
\* admission began: a repeated status changes nothing.
Admitted(c, g) ==
    IF inbox[c].state # "NONE" THEN inbox[c]
    ELSE [state |-> "PENDING", received |-> g.received, created |-> g.started,
          attempts |-> 0, error |-> "none", token |-> None]

Admit(h, c) ==
    LET g == ingress[h] IN
    /\ g.pc = "admit" /\ c \in g.queue
    /\ now < g.started + AdmissionLimit
    /\ inbox' = [inbox EXCEPT ![c] = Admitted(c, g)]
    /\ ingress' = [ingress EXCEPT ![h] =
           IF inbox'[c].state = "PENDING"
           THEN [pc |-> "correlate", queue |-> g.queue \ {c}, cur |-> c,
                 received |-> g.received, started |-> 0, hit |-> g.hit]
           ELSE NextStatus(g, g.queue \ {c},
                           g.hit \/ inbox[c].state = "CORRELATED")]
    /\ UNCHANGED <<now, outbox, run, recon, marker, sends, dispatcher,
                   worker>>

\* Any error of this transaction is swallowed; the receipt stays pending.
\* The quarantine of a receipt whose correlation is denied, here and in
\* ProcessReceipt, has no step: it needs a row that someone else has claimed,
\* which no accepted row ever is (AcceptedIsOwn in MetaDeliveryProofs), or
\* evidence under the same key that another receipt made, and a receipt's key
\* is its own.
CorrelateReceipt(h) ==
    LET g == ingress[h] IN
    /\ g.pc = "correlate"
    /\ \/ /\ recon.state # "NONE" /\ inbox[g.cur].state = "PENDING"
          /\ inbox' = Correlated(inbox, {g.cur})
          /\ ingress' = [ingress EXCEPT ![h] = NextStatus(g, g.queue, TRUE)]
       \/ /\ ingress' = [ingress EXCEPT ![h] = NextStatus(g, g.queue, g.hit)]
          /\ UNCHANGED inbox
    /\ UNCHANGED <<now, outbox, run, recon, marker, sends, dispatcher,
                   worker>>

ReconcileReceipt(h) ==
    /\ ingress[h].pc = "reconcile"
    /\ \/ ingress[h].hit /\ Reconcile(now)
       \/ UNCHANGED rows
    /\ ingress' = [ingress EXCEPT ![h] = NoWebhook]
    /\ UNCHANGED <<now, sends, dispatcher, worker>>

\* A timeout of the admission, any other error, or the end of the process.
IngressStops(h) ==
    /\ ingress[h].pc # "idle"
    /\ ingress' = [ingress EXCEPT ![h] = NoWebhook]
    /\ UNCHANGED <<now, rows, sends, dispatcher, worker>>

(***************************************************************************)
(* The worker: a pass over the pending receipts and a pass over the        *)
(* reconciliations that are due, each row in a transaction of its own.     *)
(***************************************************************************)

ClaimReceipt(w, c) ==
    /\ worker[w].pc = "idle"
    /\ inbox[c].state = "PENDING"
    /\ inbox' = [inbox EXCEPT ![c].token = w]
    /\ worker' = [worker EXCEPT ![w] =
           [pc |-> "claimed", row |-> c, stamp |-> 0]]
    /\ UNCHANGED <<now, outbox, run, recon, marker, sends, dispatcher,
                   ingress>>

\* A failed attempt at receipt c; the last one quarantines it.  The error of
\* an earlier attempt is never read.
Attempted(c, error) ==
    LET last == inbox[c].attempts + 1 >= MaxFailures IN
    [state |-> IF last THEN "QUARANTINED" ELSE "PENDING",
     received |-> inbox[c].received, created |-> inbox[c].created,
     attempts |-> inbox[c].attempts + 1,
     error |-> IF last THEN error ELSE "none", token |-> None]

\* The transaction finds the reconciliation, or not, or fails; a receipt
\* that has changed hands is left alone.  It is never denied: see
\* CorrelateReceipt.
ProcessReceipt(w) ==
    LET c == worker[w].row IN
    /\ worker[w].pc = "claimed"
    /\ \/ /\ inbox[c].state = "PENDING" /\ inbox[c].token = w
          /\ \/ /\ recon.state # "NONE"
                /\ inbox' = Correlated(inbox, {c})
             \/ /\ recon.state = "NONE"
                /\ inbox' = [inbox EXCEPT ![c] = Attempted(c, "NOT_FOUND")]
             \/ inbox' = [inbox EXCEPT ![c] = Attempted(c, "ERROR")]
       \/ /\ ~(inbox[c].state = "PENDING" /\ inbox[c].token = w)
          /\ UNCHANGED inbox
    /\ worker' = [worker EXCEPT ![w] = NoPass]
    /\ UNCHANGED <<now, outbox, run, recon, marker, sends, dispatcher,
                   ingress>>

\* One clock reading serves the whole pass.
StartSweep(w) ==
    /\ worker[w].pc = "idle"
    /\ worker' = [worker EXCEPT ![w] =
           [pc |-> "sweep", row |-> None, stamp |-> now]]
    /\ UNCHANGED <<now, rows, sends, dispatcher, ingress>>

Selected(w) ==
    /\ worker[w].pc = "sweep"
    /\ recon.state = "PENDING" /\ recon.op = "ACTIVE"
    /\ recon.next <= worker[w].stamp

SweepRow(w) ==
    /\ Selected(w)
    /\ Reconcile(worker[w].stamp)
    /\ UNCHANGED <<now, sends, dispatcher, ingress, worker>>

\* The retry is capped at the Horizon, where the clock stops.
RetryAt(ts) == IF ts + Backoff > Horizon THEN Horizon ELSE ts + Backoff

\* Mutant: failures are not counted.
FailedForEver(ts) ==
    [state |-> recon.state, op |-> "ACTIVE", accepted |-> recon.accepted,
     next |-> RetryAt(ts), failures |-> recon.failures,
     reason |-> recon.reason]

FailedOnce(ts) ==
    LET quarantined == recon.failures + 1 >= MaxFailures IN
    [state |-> recon.state,
     op |-> IF quarantined THEN "QUARANTINED" ELSE "ACTIVE",
     accepted |-> recon.accepted,
     next |-> IF quarantined THEN recon.next ELSE RetryAt(ts),
     failures |-> recon.failures + 1, reason |-> recon.reason]

\* The row's transaction is rolled back and its failure recorded in another;
\* the pass goes on without the row.
SweepFails(w) ==
    /\ Selected(w)
    /\ recon' = FailedOnce(worker[w].stamp)
    /\ worker' = [worker EXCEPT ![w] = NoPass]
    /\ UNCHANGED <<now, outbox, run, inbox, marker, sends, dispatcher,
                   ingress>>

EndSweep(w) ==
    /\ worker[w].pc = "sweep"
    /\ ~Selected(w)
    /\ worker' = [worker EXCEPT ![w] = NoPass]
    /\ UNCHANGED <<now, rows, sends, dispatcher, ingress>>

\* A token nobody holds any more is as good as none.
WorkerStops(w) ==
    /\ worker[w].pc # "idle"
    /\ worker' = [worker EXCEPT ![w] = NoPass]
    /\ inbox' = [c \in Callbacks |->
           IF inbox[c].token = w THEN [inbox[c] EXCEPT !.token = None]
           ELSE inbox[c]]
    /\ UNCHANGED <<now, outbox, run, recon, marker, sends, dispatcher,
                   ingress>>

(***************************************************************************)
(* The operator, and time.                                                 *)
(***************************************************************************)

RequeueReconciliation ==
    /\ recon.state = "PENDING" /\ recon.op = "QUARANTINED"
    /\ recon' = [state |-> "PENDING", op |-> "ACTIVE",
                 accepted |-> recon.accepted, next |-> now, failures |-> 0,
                 reason |-> recon.reason]
    /\ UNCHANGED <<now, outbox, run, inbox, marker, sends, dispatcher,
                   ingress, worker>>

RequeueReceipt(c) ==
    /\ recon.state \notin Terminal
    /\ inbox[c].state = "QUARANTINED"
    /\ inbox' = [inbox EXCEPT ![c] =
           [state |-> "PENDING", received |-> inbox[c].received,
            created |-> inbox[c].created, attempts |-> 0, error |-> "none",
            token |-> None]]
    /\ UNCHANGED <<now, outbox, run, recon, marker, sends, dispatcher,
                   ingress, worker>>

Tick ==
    /\ now < Horizon
    /\ now' = now + 1
    /\ UNCHANGED <<rows, sends, dispatcher, ingress, worker>>

Dispatch(d) ==
    Reserve(d) \/ Send(d) \/ Accept(d) \/ ReplayAccept(d) \/ DispatcherStops(d)
OutboxWorker == MarkStale \/ ClaimRetry \/ DispatchLocally
Ingest(h) ==
    \/ \E W \in Webhooks : Receive(h, W)
    \/ \E c \in Callbacks : Admit(h, c)
    \/ CorrelateReceipt(h)
    \/ ReconcileReceipt(h)
    \/ IngressStops(h)
Work(w) ==
    \/ \E c \in Callbacks : ClaimReceipt(w, c)
    \/ ProcessReceipt(w)
    \/ StartSweep(w)
    \/ SweepRow(w)
    \/ SweepFails(w)
    \/ EndSweep(w)
    \/ WorkerStops(w)
Operate == RequeueReconciliation \/ \E c \in Callbacks : RequeueReceipt(c)

Next ==
    \/ \E d \in Dispatchers : Dispatch(d)
    \/ OutboxWorker
    \/ ExpireRun
    \/ \E h \in Handlers : Ingest(h)
    \/ \E w \in Workers : Work(w)
    \/ Operate
    \/ Tick

Spec == Init /\ [][Next]_vars

\* The clock goes on; run_forever makes both passes in every cycle,
\* and a worker does not end in the middle of every one of its passes.
Fairness ==
    /\ WF_vars(Tick)
    /\ \A w \in Workers :
        /\ WF_vars(ProcessReceipt(w))
        /\ SF_vars(StartSweep(w))
        /\ SF_vars(SweepRow(w) \/ SweepFails(w) \/ EndSweep(w))

FairSpec == Spec /\ Fairness

(***************************************************************************)
(* Properties.                                                             *)
(***************************************************************************)

\* Every variable has its type.
TypeOK ==
    /\ now \in Nat
    /\ outbox \in Outbox
    /\ run \in {"ARMED", "RUNNING", "EXPIRED"} \cup Terminal
    /\ recon \in Reconciliation
    /\ inbox \in [Callbacks -> Receipt]
    /\ marker \in BOOLEAN
    /\ sends \in Nat
    /\ dispatcher \in
           [Dispatchers -> {"idle", "reserved", "sent", "accepted"}]
    /\ ingress \in [Handlers -> Webhook]
    /\ worker \in [Workers -> Pass]

\* The valid statuses that were stored with a receipt inside the window,
\* whatever became of them.
Heard ==
    {c \in Callbacks :
        /\ Valid(c)
        /\ inbox[c].state # "NONE"
        /\ inbox[c].received <= Deadline(recon)}

\* Those of them whose admission had to end by the closure.  The first status
\* of a request is always one; a later one waits for those before it.
InTime ==
    {c \in Heard : inbox[c].created + AdmissionLimit <= Closure(recon)}

\* However the statuses were ordered, repeated, delayed, quarantined and split
\* into batches and requests, the outcome is the one called for by evidence
\* that was received in the window and that leaves out none of those admitted
\* in time: PASSED on a delivery, otherwise FAILED, for the provider's failure
\* only if that was its last word, and never before the closure
\* (reduce_meta_callback_evidence and its callers).
VerdictFitsEvidence ==
    /\ recon.state = "PASSED" => \E c \in Heard : Kind[c] = "delivered"
    /\ recon.state = "FAILED" =>
           /\ now >= Closure(recon)
           /\ \E S \in SUBSET Heard :
                  /\ InTime \subseteq S
                  /\ \A c \in S : Kind[c] # "delivered"
                  /\ (recon.reason = "FAILED") <=> LatestFailed(S)

\* Crashes and second dispatchers included, the API is called at most once
\* for the reply (reserve_production_conversation_reply).
OneAttempt == sends <= 1

\* The reconciliation row, the outbox row and the run tell one story, though
\* the generic worker may take the outbox row from a slow dispatcher.
RecordsAgree ==
    /\ recon.state = "PENDING" <=> outbox.status = "AWAITING_DELIVERY"
    /\ recon.state = "FAILED" <=> outbox.status = "FAILED"
    /\ recon.state = "PASSED" => outbox.status = "DONE"
    /\ recon.state \in Terminal => run = recon.state

\* An accepted attempt is concluded, or handed to an operator, without
\* anyone's help (reconcile_due_meta_callback_outcomes).
OutcomeSettles ==
    recon.state = "PENDING" ~>
        (recon.state \in Terminal \/ recon.op = "QUARANTINED")

\* The outbox row says DONE only for a reply that is proved delivered.
DoneIsDelivered == outbox.status = "DONE" => recon.state = "PASSED"
=============================================================================
