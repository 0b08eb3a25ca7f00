--------------------------- MODULE ExecutionSafety ---------------------------
(***************************************************************************)
(* The authority to cause one external effect in a scenario run: a budget, *)
(* a lease that one intent may claim, and the consumption row that ties    *)
(* the claim to the intent and to its outbox row.                          *)
(*                                                                         *)
(* Every operation is one PostgreSQL transaction at READ COMMITTED, in two *)
(* steps: the caller reads the rows and the clock without a lock, then     *)
(* locks the lease and decides.  A row already read in the session is not  *)
(* refreshed by SELECT ... FOR UPDATE, so what the decision sees of the    *)
(* lease, the budget and the run is the snapshot of the first step.  Fresh *)
(* are the rows first read under the lock, the count of the slots taken,   *)
(* and the clock that the binding of a consumption reads again.            *)
(***************************************************************************)
EXTENDS Naturals, FiniteSets

CONSTANTS
    Intents,       \* agent execution intents of the run
    Callers,       \* worker processes
    Limit,         \* system_effect_limit of the budget
    LeaseExpires,  \* execution_leases.expires_at
    BudgetUntil,   \* effect_budgets.valid_until
    RunExpires,    \* scenario_runs.expires_at
    Horizon,       \* bound on the clock
    NoIntent

\* A budget is provisioned for a synthetic external scenario, whose manifest may
\* ask for one response at most (SYNTHETIC_EXTERNAL_V1_LIMIT_IS_ONE_PLUS_ONE),
\* or for one production reply.
ASSUME LimitAssumption == Limit \in 0..1
ASSUME WindowAssumption ==
    /\ {LeaseExpires, BudgetUntil, RunExpires, Horizon} \subseteq Nat
    /\ 0 < LeaseExpires
    /\ LeaseExpires <= BudgetUntil
    /\ BudgetUntil <= RunExpires
ASSUME NoIntentAssumption == NoIntent \notin Intents

VARIABLES
    now,
    run,     \* scenario_runs.status
    lease,   \* status, claimant and claim_count of the execution lease
    budget,  \* status, reserved_count and consumed_count of the budget
    cons,    \* state of the consumption of each intent's effect
    outbox,  \* status of each intent's outbox row, bound to its consumption
    sent,    \* times the transport was asked to deliver the effect
    tx       \* what each caller is doing, with the snapshot it read

vars == <<now, run, lease, budget, cons, outbox, sent, tx>>

RunStatus == {"CREATED", "ARMED", "ABORTED", "EXPIRED"}
Lease ==
    [status : {"MISSING", "AVAILABLE", "CLAIMED", "CONSUMED", "EXPIRED"},
     claimant : Intents \cup {NoIntent}, claims : 0..1]
Budget ==
    [status : {"MISSING", "AVAILABLE", "RESERVED", "CONSUMED"},
     reserved : Nat, consumed : Nat]
ConsumptionState == {"NONE", "RESERVED", "CONSUMED", "RELEASED"}
OutboxStatus ==
    {"NONE", "PENDING", "PROCESSING", "BLOCKED", "DONE", "RECONCILE"}
Transaction ==
    [op : {"idle", "reserve", "enqueue", "claimed", "revalidate", "send",
           "confirm", "finalize"},
     intent : Intents \cup {NoIntent}, at : Nat, run : RunStatus,
     lease : Lease, budget : Budget, cons : ConsumptionState]

NoLease == [status |-> "MISSING", claimant |-> NoIntent, claims |-> 0]
NoBudget == [status |-> "MISSING", reserved |-> 0, consumed |-> 0]
Idle ==
    [op |-> "idle", intent |-> NoIntent, at |-> 0, run |-> "CREATED",
     lease |-> NoLease, budget |-> NoBudget, cons |-> "NONE"]

\* The rows and the clock as a transaction for intent i finds them now.
Snapshot(op, i) ==
    [op |-> op, intent |-> i, at |-> now, run |-> run, lease |-> lease,
     budget |-> budget, cons |-> cons[i]]

Become(c, op) == tx' = [tx EXCEPT ![c].op = op]
Stop(c) == tx' = [tx EXCEPT ![c] = Idle]

Init ==
    /\ now = 0
    /\ run = "CREATED"
    /\ lease = NoLease
    /\ budget = NoBudget
    /\ cons = [i \in Intents |-> "NONE"]
    /\ outbox = [i \in Intents |-> "NONE"]
    /\ sent = [i \in Intents |-> 0]
    /\ tx = [c \in Callers |-> Idle]

(***************************************************************************)
(* Preparing the run.                                                      *)
(***************************************************************************)

\* The budget and its one-shot lease are created together, once.
Provision ==
    /\ run \in {"CREATED", "ARMED"}
    /\ now < LeaseExpires
    /\ lease.status = "MISSING"
    /\ lease' = [NoLease EXCEPT !.status = "AVAILABLE"]
    /\ budget' = [NoBudget EXCEPT !.status = "AVAILABLE"]
    /\ UNCHANGED <<now, run, cons, outbox, sent, tx>>

Activate ==
    /\ run = "CREATED"
    /\ lease.status = "AVAILABLE" /\ lease.claims = 0
    /\ budget.status = "AVAILABLE" /\ budget.consumed = 0
    /\ run' = "ARMED"
    /\ UNCHANGED <<now, lease, budget, cons, outbox, sent, tx>>

AbortRun ==
    /\ run \in {"CREATED", "ARMED"}
    /\ run' = "ABORTED"
    /\ UNCHANGED <<now, lease, budget, cons, outbox, sent, tx>>

\* derive_resume_decision after a restart.
ExpireRun ==
    /\ run \in {"CREATED", "ARMED"}
    /\ now >= RunExpires
    /\ run' = "EXPIRED"
    /\ UNCHANGED <<now, lease, budget, cons, outbox, sent, tx>>

(***************************************************************************)
(* Reserving: claim the lease, take a slot of the budget and bind the      *)
(* consumption to the intent, in one transaction.                          *)
(***************************************************************************)

ReserveRead(c, i) ==
    /\ tx[c].op = "idle"
    /\ run = "ARMED" /\ now < RunExpires
    /\ lease.status # "MISSING"
    /\ tx' = [tx EXCEPT ![c] = Snapshot("reserve", i)]
    /\ UNCHANGED <<now, run, lease, budget, cons, outbox, sent>>

\* Mutant: the rows of the budget are not counted, only its snapshot is read.
NoSlotTaken == 0

\* The count is read under the lock of the lease.
SlotsTaken ==
    Cardinality({j \in Intents : cons[j] \in {"RESERVED", "CONSUMED"}})

\* Mutant: the binding uses the time the transaction began.
ValidWhenRead(s) == s.at < LeaseExpires /\ s.at < BudgetUntil

\* _lock_reserved_consumption_graph reads the clock again: a reservation is
\* bound only while the lease and the budget are still valid.
StillValid(s) == now < LeaseExpires /\ now < BudgetUntil

Claimable(s) ==
    /\ s.at < LeaseExpires /\ s.at < BudgetUntil
    /\ s.budget.status # "CONSUMED"
    /\ s.lease.status = "AVAILABLE"
    /\ cons[s.intent] = "NONE"
    /\ SlotsTaken < Limit
    /\ s.lease.claims = 0
    /\ StillValid(s)

\* The slot is counted from the snapshot of the budget.
Reserve(c) ==
    LET s == tx[c] IN
    /\ s.op = "reserve"
    /\ Claimable(s)
    /\ lease' =
        [status |-> "CLAIMED", claimant |-> s.intent, claims |-> s.lease.claims + 1]
    /\ budget' = [status |-> "RESERVED", reserved |-> s.budget.reserved + 1,
                  consumed |-> budget.consumed]
    /\ cons' = [cons EXCEPT ![s.intent] = "RESERVED"]
    /\ Stop(c)
    /\ UNCHANGED <<now, run, outbox, sent>>

\* A claim of a taken lease is denied, and the claimant's own retry returns
\* the reservation it has: neither changes a row.
ReserveDenied(c) ==
    /\ tx[c].op = "reserve"
    /\ ~Claimable(tx[c])
    /\ Stop(c)
    /\ UNCHANGED <<now, run, lease, budget, cons, outbox, sent>>

(***************************************************************************)
(* Queueing: insert the outbox row, revalidate and bind it.                *)
(***************************************************************************)

EnqueueRead(c, i) ==
    /\ tx[c].op = "idle"
    /\ cons[i] = "RESERVED"
    /\ tx' = [tx EXCEPT ![c] = Snapshot("enqueue", i)]
    /\ UNCHANGED <<now, run, lease, budget, cons, outbox, sent>>

DispatchAllowed(s) ==
    /\ s.lease.status = "CLAIMED" /\ s.lease.claimant = s.intent
    /\ s.cons = "RESERVED"
    /\ s.at < LeaseExpires /\ s.at < BudgetUntil /\ s.at < RunExpires
    /\ s.budget.status = "RESERVED"
    /\ s.run = "ARMED"
    /\ StillValid(s)

\* The idempotency key of the row is unique: a second insert rolls back.
Enqueue(c) ==
    LET s == tx[c] IN
    /\ s.op = "enqueue"
    /\ DispatchAllowed(s) /\ outbox[s.intent] = "NONE"
    /\ outbox' = [outbox EXCEPT ![s.intent] = "PENDING"]
    /\ Stop(c)
    /\ UNCHANGED <<now, run, lease, budget, cons, sent>>

\* Denied, or the row exists and is bound already.
EnqueueNothing(c) ==
    LET s == tx[c] IN
    /\ s.op = "enqueue"
    /\ ~(DispatchAllowed(s) /\ outbox[s.intent] = "NONE")
    /\ Stop(c)
    /\ UNCHANGED <<now, run, lease, budget, cons, outbox, sent>>

(***************************************************************************)
(* Dispatching a claimed outbox row.                                       *)
(***************************************************************************)

ClaimOutbox(c, i) ==
    /\ tx[c].op = "idle"
    /\ outbox[i] = "PENDING"
    /\ outbox' = [outbox EXCEPT ![i] = "PROCESSING"]
    /\ tx' = [tx EXCEPT ![c] = [Idle EXCEPT !.op = "claimed", !.intent = i]]
    /\ UNCHANGED <<now, run, lease, budget, cons, sent>>

RevalidateRead(c) ==
    /\ tx[c].op = "claimed"
    /\ tx' = [tx EXCEPT ![c] = Snapshot("revalidate", tx[c].intent)]
    /\ UNCHANGED <<now, run, lease, budget, cons, outbox, sent>>

Revalidate(c) ==
    LET s == tx[c] IN
    /\ s.op = "revalidate"
    /\ IF DispatchAllowed(s)
       THEN Become(c, "send") /\ UNCHANGED outbox
       ELSE Stop(c) /\ outbox' = [outbox EXCEPT ![s.intent] = "BLOCKED"]
    /\ UNCHANGED <<now, run, lease, budget, cons, sent>>

\* The provider's answer is a success or leaves the outcome unknown.
Send(c) ==
    LET i == tx[c].intent IN
    /\ tx[c].op = "send"
    /\ sent' = [sent EXCEPT ![i] = @ + 1]
    /\ \/ Become(c, "confirm") /\ UNCHANGED outbox
       \/ Stop(c) /\ outbox' = [outbox EXCEPT ![i] = "RECONCILE"]
    /\ UNCHANGED <<now, run, lease, budget, cons>>

FinalizeRead(c) ==
    /\ tx[c].op = "confirm"
    /\ tx' = [tx EXCEPT ![c] = Snapshot("finalize", tx[c].intent)]
    /\ UNCHANGED <<now, run, lease, budget, cons, outbox, sent>>

\* The lease was read before its lock, the budget under it.
Finalizable(s) ==
    /\ s.lease.status = "CLAIMED"
    /\ s.cons = "RESERVED"
    /\ budget.reserved > 0

Consumed(b) ==
    [reserved |-> b.reserved - 1, consumed |-> b.consumed + 1,
     status |-> IF b.consumed + 1 >= Limit THEN "CONSUMED"
                ELSE IF b.reserved > 1 THEN "RESERVED" ELSE "AVAILABLE"]

Finalize(c) ==
    LET s == tx[c] IN
    /\ s.op = "finalize"
    /\ IF Finalizable(s)
       THEN /\ lease' = [lease EXCEPT !.status = "CONSUMED"]
            /\ budget' = Consumed(budget)
            /\ cons' = [cons EXCEPT ![s.intent] = "CONSUMED"]
            /\ outbox' = [outbox EXCEPT ![s.intent] = "DONE"]
       ELSE /\ outbox' = [outbox EXCEPT ![s.intent] = "RECONCILE"]
            /\ UNCHANGED <<lease, budget, cons>>
    /\ Stop(c)
    /\ UNCHANGED <<now, run, sent>>

(***************************************************************************)
(* Expiry, recovery, process death and the clock.                          *)
(***************************************************************************)

\* Mutant: the link to an outbox row is not looked at.
ReleasableIfReserved(i) == cons[i] = "RESERVED"

\* Only a reservation that no outbox row is bound to goes back.
Releasable(i) == cons[i] = "RESERVED" /\ outbox[i] = "NONE"

\* Mutant: the status is not reset.
ReleasedStatusKept(b) == [b EXCEPT !.reserved = @ - 1]

Released(b) ==
    [reserved |-> b.reserved - 1, consumed |-> b.consumed,
     status |-> IF b.status = "RESERVED" /\ b.reserved = 1 THEN "AVAILABLE" ELSE b.status]

ExpireStaleLease ==
    /\ lease.status \in {"AVAILABLE", "CLAIMED"}
    /\ now >= LeaseExpires
    /\ lease' = [lease EXCEPT !.status = "EXPIRED"]
    /\ cons' = [i \in Intents |-> IF Releasable(i) THEN "RELEASED" ELSE cons[i]]
    /\ budget' = IF \E i \in Intents : Releasable(i) THEN Released(budget) ELSE budget
    /\ UNCHANGED <<now, run, outbox, sent, tx>>

\* quarantine_stale_external_outbox: a row left PROCESSING is never resent.
QuarantineStale(i) ==
    /\ outbox[i] = "PROCESSING"
    /\ outbox' = [outbox EXCEPT ![i] = "RECONCILE"]
    /\ UNCHANGED <<now, run, lease, budget, cons, sent, tx>>

Crash(c) ==
    /\ tx[c].op # "idle"
    /\ Stop(c)
    /\ UNCHANGED <<now, run, lease, budget, cons, outbox, sent>>

Tick ==
    /\ now < Horizon
    /\ now' = now + 1
    /\ UNCHANGED <<run, lease, budget, cons, outbox, sent, tx>>

RunStep == Provision \/ Activate \/ AbortRun \/ ExpireRun
CallerStep(c) ==
    \/ \E i \in Intents : ReserveRead(c, i) \/ EnqueueRead(c, i) \/ ClaimOutbox(c, i)
    \/ Reserve(c) \/ ReserveDenied(c)
    \/ Enqueue(c) \/ EnqueueNothing(c)
    \/ RevalidateRead(c) \/ Revalidate(c)
    \/ Send(c) \/ FinalizeRead(c) \/ Finalize(c)
    \/ Crash(c)
Next ==
    \/ RunStep
    \/ \E c \in Callers : CallerStep(c)
    \/ ExpireStaleLease
    \/ \E i \in Intents : QuarantineStale(i)
    \/ Tick

Spec == Init /\ [][Next]_vars

(***************************************************************************)
(* Properties.                                                             *)
(***************************************************************************)

\* Every variable stays within its type.
TypeOK ==
    /\ now \in Nat
    /\ run \in RunStatus
    /\ lease \in Lease
    /\ budget \in Budget
    /\ cons \in [Intents -> ConsumptionState]
    /\ outbox \in [Intents -> OutboxStatus]
    /\ sent \in [Intents -> Nat]
    /\ tx \in [Callers -> Transaction]

\* However the claims of a budget interleave, expire and are retried, at most
\* one effect of the run reaches the provider, once.
OneEffect ==
    /\ \A i \in Intents : sent[i] <= Limit
    /\ \A i, j \in Intents : sent[i] > 0 /\ sent[j] > 0 => i = j

\* The counters of the budget are the consumption rows, and its status tells
\* whether a slot is held, spent or free.
LedgerBalances ==
    LET InState(s) == {i \in Intents : cons[i] = s} IN
    /\ budget.reserved = Cardinality(InState("RESERVED"))
    /\ budget.consumed = Cardinality(InState("CONSUMED"))
    /\ budget.status = "RESERVED" <=> budget.reserved > 0
    /\ budget.status = "CONSUMED" <=> budget.consumed > 0

\* A reservation goes back to the budget only if its effect can no longer
\* reach the provider: no outbox row holds it, and none will.
ReleasedUnsent ==
    \A i \in Intents : cons[i] = "RELEASED" => outbox[i] = "NONE" /\ sent[i] = 0

\* A lease that expired is never claimed again, and a consumed one is final,
\* though a claim may decide on a row it read before the expiry.
LeaseNeverRevived ==
    [][/\ lease.status = "EXPIRED" => lease'.status \in {"EXPIRED", "CONSUMED"}
       /\ lease.status = "CONSUMED" => lease' = lease]_vars
=============================================================================
