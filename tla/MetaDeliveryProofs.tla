-------------------------- MODULE MetaDeliveryProofs --------------------------
(***************************************************************************)
(* Proofs about MetaDelivery, for any statuses, processes and times.       *)
(***************************************************************************)
EXTENDS MetaDelivery, TLAPS

\* The types of the rows, which a reconciliation changes.
RowsTyped ==
    /\ outbox \in Outbox
    /\ run \in {"ARMED", "RUNNING", "EXPIRED"} \cup Terminal
    /\ recon \in Reconciliation
    /\ inbox \in [Callbacks -> Receipt]
    /\ marker \in BOOLEAN

\* The types of the processes; a pass and a webhook hold a receipt where they
\* use one.
ProcessesTyped ==
    /\ sends \in Nat
    /\ dispatcher \in
           [Dispatchers -> {"idle", "reserved", "sent", "accepted"}]
    /\ ingress \in [Handlers -> Webhook]
    /\ worker \in [Workers -> Pass]
    /\ \A w \in Workers :
           worker[w].pc = "claimed" => worker[w].row \in Callbacks
    /\ \A h \in Handlers :
           ingress[h].pc = "correlate" => ingress[h].cur \in Callbacks

TypeInv == now \in Nat /\ RowsTyped /\ ProcessesTyped

-----------------------------------------------------------------------------

LEMMA CorrelatedTyped ==
  ASSUME NEW in \in [Callbacks -> Receipt], NEW B
  PROVE  Correlated(in, B) \in [Callbacks -> Receipt]
<1>1. ASSUME NEW c \in Callbacks
      PROVE  Correlated(in, B)[c] \in Receipt
  <2>1. in[c] \in Receipt
    OBVIOUS
  <2>2. in[c].received \in Nat
    BY <2>1 DEF Receipt
  <2>3. [state |-> "CORRELATED", received |-> in[c].received,
         created |-> in[c].created, attempts |-> 0, error |-> "none",
         token |-> None] \in Receipt
    BY <2>2 DEF Receipt
  <2> QED
    BY <2>1, <2>3 DEF Correlated
<1> QED
  BY <1>1 DEF Correlated

LEMMA JudgeTyped ==
  ASSUME NEW r, NEW in, NEW ts
  PROVE  Judge(r, in, ts) \in
             {"PENDING", "DELIVERED", "FAILED", "TIMEOUT", "INVALID"}
BY DEF Judge

LEMMA ConcludedTyped ==
  ASSUME NEW r \in Reconciliation, NEW o \in Outbox,
         NEW v \in {"PENDING", "DELIVERED", "FAILED", "TIMEOUT", "INVALID"}
  PROVE  /\ Concluded(r, v) \in Reconciliation
         /\ Closed(o, v) \in Outbox
         /\ Concluded(r, v).state \in {"PENDING"} \cup Terminal
<1>1. r.op \in {"ACTIVE", "QUARANTINED"} /\ r.accepted \in Nat /\ r.next \in Nat
  BY DEF Reconciliation
<1>2. Closure(r) \in Nat
  BY <1>1, TimeAssumption DEF Closure, Deadline
<1>3. Concluded(r, v) \in Reconciliation
  BY <1>1, <1>2 DEF Concluded, Reconciliation, Terminal
<1>4. o.by \in Dispatchers \cup {None} /\ o.at \in Nat
      /\ o.status \in {"NONE", "PROCESSING", "RETRY", "AWAITING_DELIVERY",
                       "DONE", "FAILED"}
  BY DEF Outbox
<1>5. Closed(o, v) \in Outbox
  BY <1>4 DEF Closed, Outbox
<1>6. Concluded(r, v).state \in {"PENDING"} \cup Terminal
  BY DEF Concluded, Terminal
<1> QED
  BY <1>3, <1>5, <1>6

LEMMA RescheduledTyped ==
  ASSUME NEW r \in Reconciliation, NEW ts \in Nat
  PROVE  Rescheduled(r, ts) \in Reconciliation
BY DEF Rescheduled, Reconciliation

LEMMA SettleTyped ==
  ASSUME RowsTyped,
         NEW r \in Reconciliation, NEW o \in Outbox,
         NEW in \in [Callbacks -> Receipt], NEW ts \in Nat,
         Settle(r, o, in, ts)
  PROVE  RowsTyped'
<1>1. inbox' \in [Callbacks -> Receipt]
  BY DEF Settle
<1>2. Conflict(r, in) \in BOOLEAN
  BY DEF Conflict
<1>3. CASE r.state \in Terminal /\ recon' = r /\ outbox' = o /\ UNCHANGED run
           /\ marker' = (marker \/ Conflict(r, in))
  <2>1. recon' \in Reconciliation /\ outbox' \in Outbox
    BY <1>3
  <2>2. run' \in {"ARMED", "RUNNING", "EXPIRED"} \cup Terminal
    BY <1>3 DEF RowsTyped
  <2>3. marker' \in BOOLEAN
    BY <1>3, <1>2 DEF RowsTyped
  <2> QED
    BY <1>1, <2>1, <2>2, <2>3 DEF RowsTyped
<1>4. CASE recon' = Rescheduled(r, ts) /\ outbox' = o
           /\ UNCHANGED <<run, marker>>
  <2>1. recon' \in Reconciliation /\ outbox' \in Outbox
    BY <1>4, RescheduledTyped
  <2> QED
    BY <1>1, <2>1, <1>4 DEF RowsTyped
<1>5. CASE Judged(r, o, in, ts)
  <2> DEFINE v == Judge(r, in, ts)
  <2>1. v \in {"PENDING", "DELIVERED", "FAILED", "TIMEOUT", "INVALID"}
    BY JudgeTyped
  <2>2. recon' = Concluded(r, v) /\ outbox' = Closed(o, v)
        /\ run' = (IF v = "PENDING" THEN run ELSE recon'.state)
        /\ marker' = (marker \/ Conflict(r, in))
    BY <1>5 DEF Judged
  <2>3. recon' \in Reconciliation /\ outbox' \in Outbox
    BY <2>1, <2>2, ConcludedTyped
  <2>4. v # "PENDING" => Concluded(r, v).state \in Terminal
    BY <2>1 DEF Concluded, Terminal
  <2>5. run' \in {"ARMED", "RUNNING", "EXPIRED"} \cup Terminal
    BY <2>2, <2>4 DEF RowsTyped
  <2>6. marker' \in BOOLEAN
    BY <2>2, <1>2 DEF RowsTyped
  <2> QED
    BY <1>1, <2>3, <2>5, <2>6 DEF RowsTyped
<1> QED
  BY <1>3, <1>4, <1>5 DEF Settle

LEMMA ReconcileTyped ==
  ASSUME RowsTyped, NEW ts \in Nat, Reconcile(ts)
  PROVE  RowsTyped'
<1>1. PICK B \in Batches(inbox) :
          Settle(recon, outbox, Correlated(inbox, B), ts)
  BY DEF Reconcile
<1>2. Correlated(inbox, B) \in [Callbacks -> Receipt]
  BY CorrelatedTyped DEF RowsTyped
<1> QED
  BY <1>1, <1>2, SettleTyped DEF RowsTyped

LEMMA ProcessesKept ==
  ASSUME ProcessesTyped, UNCHANGED <<sends, dispatcher, ingress, worker>>
  PROVE  ProcessesTyped'
BY DEF ProcessesTyped

LEMMA RowsKept ==
  ASSUME RowsTyped, UNCHANGED <<outbox, run, recon, inbox, marker>>
  PROVE  RowsTyped'
BY DEF RowsTyped

\* A step that changes only what a dispatcher has done.
LEMMA DispatcherTyped ==
  ASSUME ProcessesTyped, NEW d \in Dispatchers,
         NEW p \in {"idle", "reserved", "sent", "accepted"},
         dispatcher' = [dispatcher EXCEPT ![d] = p],
         sends' \in Nat, UNCHANGED <<ingress, worker>>
  PROVE  ProcessesTyped'
BY DEF ProcessesTyped

LEMMA IngressTyped ==
  ASSUME ProcessesTyped, NEW h \in Handlers, NEW g \in Webhook,
         g.pc = "correlate" => g.cur \in Callbacks,
         ingress' = [ingress EXCEPT ![h] = g],
         UNCHANGED <<sends, dispatcher, worker>>
  PROVE  ProcessesTyped'
BY DEF ProcessesTyped

LEMMA WorkerTyped ==
  ASSUME ProcessesTyped, NEW w \in Workers, NEW p \in Pass,
         p.pc = "claimed" => p.row \in Callbacks,
         worker' = [worker EXCEPT ![w] = p],
         UNCHANGED <<sends, dispatcher, ingress>>
  PROVE  ProcessesTyped'
BY DEF ProcessesTyped

LEMMA InboxTyped ==
  ASSUME RowsTyped, inbox' \in [Callbacks -> Receipt],
         UNCHANGED <<outbox, run, recon, marker>>
  PROVE  RowsTyped'
BY DEF RowsTyped

LEMMA OutboxTyped ==
  ASSUME RowsTyped, outbox' \in Outbox,
         run' \in {"ARMED", "RUNNING", "EXPIRED"} \cup Terminal,
         UNCHANGED <<recon, inbox, marker>>
  PROVE  RowsTyped'
BY DEF RowsTyped

LEMMA ReconTyped ==
  ASSUME RowsTyped, recon' \in Reconciliation,
         UNCHANGED <<outbox, run, inbox, marker>>
  PROVE  RowsTyped'
BY DEF RowsTyped

LEMMA AcceptedTyped ==
  ASSUME TypeInv
  PROVE  Accepted \in Reconciliation /\ Awaiting \in Outbox
<1>1. now \in Nat /\ now + Window + Grace \in Nat
  BY TimeAssumption DEF TypeInv
<1>2. Accepted \in Reconciliation
  BY <1>1 DEF Accepted, Reconciliation
<1>3. outbox.by \in Dispatchers \cup {None} /\ outbox.at \in Nat
  BY DEF TypeInv, RowsTyped, Outbox
<1>4. Awaiting \in Outbox
  BY <1>3 DEF Awaiting, Outbox
<1> QED
  BY <1>2, <1>4

LEMMA DispatchTyped ==
  ASSUME TypeInv, NEW d \in Dispatchers, Dispatch(d)
  PROVE  TypeInv'
<1>1. now' = now /\ now \in Nat /\ RowsTyped /\ ProcessesTyped
  BY DEF TypeInv, Dispatch, Reserve, Send, Accept, ReplayAccept,
         DispatcherStops
<1>2. CASE Reserve(d)
  <2>1. [status |-> "PROCESSING", by |-> d, at |-> now] \in Outbox
    BY <1>1 DEF Outbox
  <2>2. RowsTyped'
    BY <1>1, <1>2, <2>1, OutboxTyped DEF Reserve
  <2>3. ProcessesTyped'
    <3>1. sends' \in Nat
      BY <1>1, <1>2 DEF Reserve, ProcessesTyped
    <3> QED
      BY <1>1, <1>2, <3>1, DispatcherTyped DEF Reserve
  <2> QED
    BY <1>1, <2>2, <2>3 DEF TypeInv
<1>3. CASE Send(d)
  <2>1. RowsTyped'
    BY <1>1, <1>3, RowsKept DEF Send, rows
  <2>2. sends' \in Nat
    BY <1>1, <1>3 DEF Send, ProcessesTyped
  <2>3. ProcessesTyped'
    BY <1>1, <1>3, <2>2, DispatcherTyped DEF Send
  <2> QED
    BY <1>1, <2>1, <2>3 DEF TypeInv
<1>4. CASE Accept(d)
  <2>1. ProcessesTyped'
    <3>1. sends' \in Nat
      BY <1>1, <1>4 DEF Accept, ProcessesTyped
    <3> QED
      BY <1>1, <1>4, <3>1, DispatcherTyped DEF Accept
  <2>2. RowsTyped'
    <3>1. PICK B \in Batches(inbox) :
             \/ /\ recon' = Accepted /\ outbox' = Awaiting
                /\ UNCHANGED <<run, inbox, marker>>
             \/ Settle(Accepted, Awaiting, Correlated(inbox, B), now)
      BY <1>4 DEF Accept
    <3>2. CASE /\ recon' = Accepted /\ outbox' = Awaiting
               /\ UNCHANGED <<run, inbox, marker>>
      BY <1>1, <3>2, AcceptedTyped DEF RowsTyped
    <3>3. CASE Settle(Accepted, Awaiting, Correlated(inbox, B), now)
      <4>1. Correlated(inbox, B) \in [Callbacks -> Receipt]
        BY <1>1, CorrelatedTyped DEF RowsTyped
      <4> QED
        BY <1>1, <3>3, <4>1, AcceptedTyped, SettleTyped
    <3> QED
      BY <3>1, <3>2, <3>3
  <2> QED
    BY <1>1, <2>1, <2>2 DEF TypeInv
<1>5. CASE ReplayAccept(d)
  <2>1. ProcessesTyped'
    BY <1>1, <1>5, ProcessesKept DEF ReplayAccept
  <2>2. RowsTyped'
    <3>1. PICK B \in Batches(inbox) :
             \/ Settle(recon, outbox, Correlated(inbox, B), now)
             \/ /\ inbox' = Correlated(inbox, B)
                /\ UNCHANGED <<outbox, run, recon, marker>>
      BY <1>5 DEF ReplayAccept
    <3>2. Correlated(inbox, B) \in [Callbacks -> Receipt]
      BY <1>1, CorrelatedTyped DEF RowsTyped
    <3>3. CASE Settle(recon, outbox, Correlated(inbox, B), now)
      <4>1. recon \in Reconciliation /\ outbox \in Outbox
        BY <1>1 DEF RowsTyped
      <4> QED
        BY <1>1, <3>2, <3>3, <4>1, SettleTyped
    <3>4. CASE /\ inbox' = Correlated(inbox, B)
               /\ UNCHANGED <<outbox, run, recon, marker>>
      BY <1>1, <3>2, <3>4, InboxTyped
    <3> QED
      BY <3>1, <3>3, <3>4
  <2> QED
    BY <1>1, <2>1, <2>2 DEF TypeInv
<1>6. CASE DispatcherStops(d)
  <2>1. RowsTyped'
    BY <1>1, <1>6, RowsKept DEF DispatcherStops, rows
  <2>2. ProcessesTyped'
    <3>1. sends' \in Nat
      BY <1>1, <1>6 DEF DispatcherStops, ProcessesTyped
    <3> QED
      BY <1>1, <1>6, <3>1, DispatcherTyped DEF DispatcherStops
  <2> QED
    BY <1>1, <2>1, <2>2 DEF TypeInv
<1> QED
  BY <1>2, <1>3, <1>4, <1>5, <1>6 DEF Dispatch

LEMMA OutboxWorkerTyped ==
  ASSUME TypeInv, OutboxWorker \/ ExpireRun
  PROVE  TypeInv'
<1>1. now' = now /\ now \in Nat /\ RowsTyped /\ ProcessesTyped
  BY DEF TypeInv, OutboxWorker, MarkStale, ClaimRetry, DispatchLocally,
         ExpireRun
<1>2. ProcessesTyped'
  BY <1>1, ProcessesKept
     DEF OutboxWorker, MarkStale, ClaimRetry, DispatchLocally, ExpireRun
<1>3. outbox.by \in Dispatchers \cup {None} /\ outbox.at \in Nat
      /\ outbox \in Outbox
      /\ run \in {"ARMED", "RUNNING", "EXPIRED"} \cup Terminal
  BY <1>1 DEF RowsTyped, Outbox
<1>4. UNCHANGED <<recon, inbox, marker>>
  BY DEF OutboxWorker, MarkStale, ClaimRetry, DispatchLocally, ExpireRun
<1>5. run' \in {"ARMED", "RUNNING", "EXPIRED"} \cup Terminal
  BY <1>3 DEF OutboxWorker, MarkStale, ClaimRetry, DispatchLocally, ExpireRun
<1>6. CASE MarkStale
  <2>1. [status |-> "RETRY", by |-> outbox.by, at |-> outbox.at] \in Outbox
    BY <1>3 DEF Outbox
  <2>2. RowsTyped'
    BY <1>1, <1>4, <1>5, <1>6, <2>1, OutboxTyped DEF MarkStale
  <2> QED
    BY <1>1, <1>2, <2>2 DEF TypeInv
<1>7. CASE ClaimRetry
  <2>1. [status |-> "PROCESSING", by |-> None, at |-> now] \in Outbox
    BY <1>1 DEF Outbox
  <2>2. RowsTyped'
    BY <1>1, <1>4, <1>5, <1>7, <2>1, OutboxTyped DEF ClaimRetry
  <2> QED
    BY <1>1, <1>2, <2>2 DEF TypeInv
<1>8. CASE DispatchLocally
  <2>1. [status |-> "DONE", by |-> None, at |-> outbox.at] \in Outbox
    BY <1>3 DEF Outbox
  <2>2. RowsTyped'
    BY <1>1, <1>4, <1>5, <1>8, <2>1, OutboxTyped DEF DispatchLocally
  <2> QED
    BY <1>1, <1>2, <2>2 DEF TypeInv
<1>9. CASE ExpireRun
  <2>1. outbox' \in Outbox
    BY <1>3, <1>9 DEF ExpireRun
  <2>2. RowsTyped'
    BY <1>1, <1>4, <1>5, <2>1, OutboxTyped
  <2> QED
    BY <1>1, <1>2, <2>2 DEF TypeInv
<1> QED
  BY <1>6, <1>7, <1>8, <1>9 DEF OutboxWorker

LEMMA NextStatusTyped ==
  ASSUME now \in Nat, NEW g \in Webhook, NEW queue \in SUBSET Callbacks,
         NEW hit \in BOOLEAN
  PROVE  /\ NextStatus(g, queue, hit) \in Webhook
         /\ NextStatus(g, queue, hit).pc # "correlate"
<1>1. g.received \in Nat
  BY DEF Webhook
<1>2. [pc |-> "admit", queue |-> queue, cur |-> None,
       received |-> g.received, started |-> now, hit |-> hit] \in Webhook
  BY <1>1 DEF Webhook
<1>3. [pc |-> "reconcile", queue |-> {}, cur |-> None, received |-> 0,
       started |-> 0, hit |-> hit] \in Webhook
  BY DEF Webhook
<1>4. CASE queue = {}
  BY <1>3, <1>4 DEF NextStatus
<1>5. CASE queue # {}
  BY <1>2, <1>5 DEF NextStatus
<1> QED
  BY <1>4, <1>5

LEMMA NoWebhookTyped == NoWebhook \in Webhook /\ NoWebhook.pc = "idle"
BY DEF NoWebhook, Webhook

LEMMA NoPassTyped == NoPass \in Pass /\ NoPass.pc = "idle"
BY DEF NoPass, Pass

\* What a receipt becomes.
LEMMA ReceiptTyped ==
  ASSUME RowsTyped, now \in Nat, NEW c \in Callbacks, NEW g \in Webhook,
         NEW error \in {"NOT_FOUND", "ERROR"}
  PROVE  /\ Admitted(c, g) \in Receipt
         /\ Attempted(c, error) \in Receipt
<1>1. inbox[c] \in Receipt
  BY DEF RowsTyped
<1>2. /\ inbox[c].received \in Nat /\ inbox[c].created \in Nat
      /\ inbox[c].attempts \in Nat
  BY <1>1 DEF Receipt
<1>3. Admitted(c, g) \in Receipt
  <2>1. g.received \in Nat /\ g.started \in Nat
    BY DEF Webhook
  <2> QED
    BY <1>1, <2>1 DEF Admitted, Receipt
<1>4. Attempted(c, error) \in Receipt
  <2> DEFINE last == inbox[c].attempts + 1 >= MaxFailures
  <2>1. (IF last THEN "QUARANTINED" ELSE "PENDING")
            \in {"QUARANTINED", "PENDING"}
    OBVIOUS
  <2>2. (IF last THEN error ELSE "none") \in {"none", "NOT_FOUND", "ERROR"}
    OBVIOUS
  <2>3. inbox[c].attempts + 1 \in Nat
    BY <1>2
  <2>4. Attempted(c, error) =
            [state |-> IF last THEN "QUARANTINED" ELSE "PENDING",
             received |-> inbox[c].received, created |-> inbox[c].created,
             attempts |-> inbox[c].attempts + 1,
             error |-> IF last THEN error ELSE "none", token |-> None]
    BY DEF Attempted
  <2> HIDE DEF last
  <2> QED
    BY <1>2, <2>1, <2>2, <2>3, <2>4 DEF Receipt
<1> QED
  BY <1>3, <1>4

LEMMA IngestTyped ==
  ASSUME TypeInv, NEW h \in Handlers, Ingest(h)
  PROVE  TypeInv'
<1>1. now' = now /\ now \in Nat /\ RowsTyped /\ ProcessesTyped
  BY DEF TypeInv, Ingest, Receive, Admit, CorrelateReceipt, ReconcileReceipt,
         IngressStops
<1>2. UNCHANGED <<sends, dispatcher, worker>>
  BY DEF Ingest, Receive, Admit, CorrelateReceipt, ReconcileReceipt,
         IngressStops
<1>3. /\ ingress[h] \in Webhook /\ ingress[h].queue \in SUBSET Callbacks
      /\ ingress[h].received \in Nat /\ ingress[h].started \in Nat
      /\ ingress[h].hit \in BOOLEAN
  BY <1>1 DEF ProcessesTyped, Webhook
<1>4. ASSUME NEW W \in Webhooks, Receive(h, W)
      PROVE  TypeInv'
  <2> DEFINE g == [pc |-> "admit", queue |-> W, cur |-> None,
                   received |-> now, started |-> now, hit |-> FALSE]
  <2>1. W \in SUBSET Callbacks
    BY StatusAssumption
  <2>2. g \in Webhook /\ g.pc # "correlate"
    BY <1>1, <2>1 DEF Webhook
  <2>3. ingress' = [ingress EXCEPT ![h] = g]
    BY <1>4 DEF Receive
  <2> HIDE DEF g
  <2>4. ProcessesTyped'
    BY <1>1, <1>2, <2>2, <2>3, IngressTyped
  <2>5. RowsTyped'
    BY <1>1, <1>4, RowsKept DEF Receive, rows
  <2> QED
    BY <1>1, <2>4, <2>5 DEF TypeInv
<1>5. ASSUME NEW c \in Callbacks, Admit(h, c)
      PROVE  TypeInv'
  <2>1. Admitted(c, ingress[h]) \in Receipt
    BY <1>1, <1>3, ReceiptTyped
  <2>2. inbox' \in [Callbacks -> Receipt]
    BY <1>1, <1>5, <2>1 DEF Admit, RowsTyped
  <2>3. RowsTyped'
    BY <1>1, <1>5, <2>2, InboxTyped DEF Admit
  <2>4. ingress[h].queue \ {c} \in SUBSET Callbacks
    BY <1>3
  <2>5. (ingress[h].hit \/ inbox[c].state = "CORRELATED") \in BOOLEAN
    BY <1>3
  <2> DEFINE g == [pc |-> "correlate", queue |-> ingress[h].queue \ {c},
                   cur |-> c, received |-> ingress[h].received,
                   started |-> 0, hit |-> ingress[h].hit]
             n == NextStatus(ingress[h], ingress[h].queue \ {c},
                             ingress[h].hit \/ inbox[c].state = "CORRELATED")
  <2>6. g \in Webhook /\ g.cur \in Callbacks
    BY <1>3, <2>4 DEF Webhook
  <2>7. n \in Webhook /\ n.pc # "correlate"
    <3>1. \A q \in SUBSET Callbacks, hit \in BOOLEAN :
             /\ NextStatus(ingress[h], q, hit) \in Webhook
             /\ NextStatus(ingress[h], q, hit).pc # "correlate"
      BY <1>1, <1>3, NextStatusTyped
    <3> QED
      BY <2>4, <2>5, <3>1
  <2>8. ingress' = [ingress EXCEPT ![h] =
                       IF inbox'[c].state = "PENDING" THEN g ELSE n]
    BY <1>5 DEF Admit
  <2> HIDE DEF g, n
  <2>9. ProcessesTyped'
    BY <1>1, <1>2, <2>6, <2>7, <2>8, IngressTyped
  <2> QED
    BY <1>1, <2>3, <2>9 DEF TypeInv
<1>6. CASE CorrelateReceipt(h)
  <2>1. inbox' = Correlated(inbox, {ingress[h].cur}) \/ inbox' = inbox
    BY <1>6 DEF CorrelateReceipt
  <2>2. inbox' \in [Callbacks -> Receipt]
    BY <1>1, <2>1, CorrelatedTyped DEF RowsTyped
  <2>3. RowsTyped'
    BY <1>1, <1>6, <2>2, InboxTyped DEF CorrelateReceipt
  <2>4. PICK hit \in BOOLEAN :
           ingress' = [ingress EXCEPT ![h] =
               NextStatus(ingress[h], ingress[h].queue, hit)]
    BY <1>3, <1>6 DEF CorrelateReceipt
  <2>5. /\ NextStatus(ingress[h], ingress[h].queue, hit) \in Webhook
        /\ NextStatus(ingress[h], ingress[h].queue, hit).pc # "correlate"
    BY <1>1, <1>3, NextStatusTyped
  <2>6. ProcessesTyped'
    BY <1>1, <1>2, <2>4, <2>5, IngressTyped
  <2> QED
    BY <1>1, <2>3, <2>6 DEF TypeInv
<1>7. CASE ReconcileReceipt(h)
  <2>1. RowsTyped'
    BY <1>1, <1>7, RowsKept, ReconcileTyped DEF ReconcileReceipt, rows
  <2>2. ProcessesTyped'
    BY <1>1, <1>2, <1>7, NoWebhookTyped, IngressTyped DEF ReconcileReceipt
  <2> QED
    BY <1>1, <2>1, <2>2 DEF TypeInv
<1>8. CASE IngressStops(h)
  <2>1. RowsTyped'
    BY <1>1, <1>8, RowsKept DEF IngressStops, rows
  <2>2. ProcessesTyped'
    BY <1>1, <1>2, <1>8, NoWebhookTyped, IngressTyped DEF IngressStops
  <2> QED
    BY <1>1, <2>1, <2>2 DEF TypeInv
<1> QED
  BY <1>4, <1>5, <1>6, <1>7, <1>8 DEF Ingest

LEMMA FailedOnceTyped ==
  ASSUME recon \in Reconciliation, NEW ts \in Nat
  PROVE  FailedOnce(ts) \in Reconciliation
<1>1. /\ recon.state \in {"NONE", "PENDING"} \cup Terminal
      /\ recon.accepted \in Nat /\ recon.next \in Nat
      /\ recon.failures \in Nat
      /\ recon.reason \in
             {"PENDING", "DELIVERED", "FAILED", "TIMEOUT", "INVALID"}
  BY DEF Reconciliation
<1>2. RetryAt(ts) \in Nat /\ recon.failures + 1 \in Nat
  BY <1>1, TimeAssumption DEF RetryAt
<1> DEFINE q == recon.failures + 1 >= MaxFailures
<1>3. /\ (IF q THEN "QUARANTINED" ELSE "ACTIVE") \in {"ACTIVE", "QUARANTINED"}
      /\ (IF q THEN recon.next ELSE RetryAt(ts)) \in Nat
  BY <1>1, <1>2
<1>4. FailedOnce(ts) =
          [state |-> recon.state,
           op |-> IF q THEN "QUARANTINED" ELSE "ACTIVE",
           accepted |-> recon.accepted,
           next |-> IF q THEN recon.next ELSE RetryAt(ts),
           failures |-> recon.failures + 1, reason |-> recon.reason]
  BY DEF FailedOnce
<1> HIDE DEF q
<1> QED
  BY <1>1, <1>2, <1>3, <1>4 DEF Reconciliation

LEMMA WorkTyped ==
  ASSUME TypeInv, NEW w \in Workers, Work(w)
  PROVE  TypeInv'
<1>1. now' = now /\ now \in Nat /\ RowsTyped /\ ProcessesTyped
  BY DEF TypeInv, Work, ClaimReceipt, ProcessReceipt, StartSweep, SweepRow,
         SweepFails, EndSweep, WorkerStops
<1>2. UNCHANGED <<sends, dispatcher, ingress>>
  BY DEF Work, ClaimReceipt, ProcessReceipt, StartSweep, SweepRow,
         SweepFails, EndSweep, WorkerStops
<1>3. worker[w].stamp \in Nat
      /\ (worker[w].pc = "claimed" => worker[w].row \in Callbacks)
  BY <1>1 DEF ProcessesTyped, Pass
<1>4. inbox \in [Callbacks -> Receipt] /\ recon \in Reconciliation
  BY <1>1 DEF RowsTyped
\* The token of a receipt may change hands.
<1>5. ASSUME NEW c \in Callbacks, NEW t \in Workers \cup {None}
      PROVE  [inbox[c] EXCEPT !.token = t] \in Receipt
  <2>1. inbox[c] \in Receipt
    BY <1>4
  <2> QED
    BY <2>1 DEF Receipt
<1>6. ASSUME NEW c \in Callbacks, ClaimReceipt(w, c)
      PROVE  TypeInv'
  <2>1. inbox' = [inbox EXCEPT ![c] = [inbox[c] EXCEPT !.token = w]]
    BY <1>6 DEF ClaimReceipt
  <2>2. inbox' \in [Callbacks -> Receipt]
    BY <1>4, <1>5, <2>1
  <2>3. RowsTyped'
    BY <1>1, <1>6, <2>2, InboxTyped DEF ClaimReceipt
  <2>4. [pc |-> "claimed", row |-> c, stamp |-> 0] \in Pass
    BY DEF Pass
  <2>5. ProcessesTyped'
    BY <1>1, <1>2, <1>6, <2>4, WorkerTyped DEF ClaimReceipt
  <2> QED
    BY <1>1, <2>3, <2>5 DEF TypeInv
<1>7. CASE ProcessReceipt(w)
  <2> DEFINE c == worker[w].row
  <2>1. c \in Callbacks
    BY <1>3, <1>7 DEF ProcessReceipt
  <2>2. Attempted(c, "NOT_FOUND") \in Receipt
        /\ Attempted(c, "ERROR") \in Receipt
    BY <1>1, <2>1, ReceiptTyped, NoWebhookTyped
  <2>3. \/ inbox' = Correlated(inbox, {c})
        \/ inbox' = [inbox EXCEPT ![c] = Attempted(c, "NOT_FOUND")]
        \/ inbox' = [inbox EXCEPT ![c] = Attempted(c, "ERROR")]
        \/ inbox' = inbox
    BY <1>7 DEF ProcessReceipt
  <2> HIDE DEF c
  <2>4. inbox' \in [Callbacks -> Receipt]
    BY <1>4, <2>1, <2>2, <2>3, CorrelatedTyped
  <2>5. RowsTyped'
    BY <1>1, <1>7, <2>4, InboxTyped DEF ProcessReceipt
  <2>6. ProcessesTyped'
    BY <1>1, <1>2, <1>7, NoPassTyped, WorkerTyped DEF ProcessReceipt
  <2> QED
    BY <1>1, <2>5, <2>6 DEF TypeInv
<1>8. CASE StartSweep(w)
  <2>1. [pc |-> "sweep", row |-> None, stamp |-> now] \in Pass
    BY <1>1 DEF Pass
  <2>2. ProcessesTyped'
    BY <1>1, <1>2, <1>8, <2>1, WorkerTyped DEF StartSweep
  <2>3. RowsTyped'
    BY <1>1, <1>8, RowsKept DEF StartSweep, rows
  <2> QED
    BY <1>1, <2>2, <2>3 DEF TypeInv
<1>9. CASE SweepRow(w)
  <2>1. RowsTyped'
    BY <1>1, <1>3, <1>9, ReconcileTyped DEF SweepRow
  <2>2. ProcessesTyped'
    BY <1>1, <1>2, <1>9, ProcessesKept DEF SweepRow
  <2> QED
    BY <1>1, <2>1, <2>2 DEF TypeInv
<1>10. CASE SweepFails(w)
  <2>1. recon' \in Reconciliation
    BY <1>3, <1>4, <1>10, FailedOnceTyped DEF SweepFails
  <2>2. RowsTyped'
    BY <1>1, <1>10, <2>1, ReconTyped DEF SweepFails
  <2>3. ProcessesTyped'
    BY <1>1, <1>2, <1>10, NoPassTyped, WorkerTyped DEF SweepFails
  <2> QED
    BY <1>1, <2>2, <2>3 DEF TypeInv
<1>11. CASE EndSweep(w)
  <2>1. ProcessesTyped'
    BY <1>1, <1>2, <1>11, NoPassTyped, WorkerTyped DEF EndSweep
  <2>2. RowsTyped'
    BY <1>1, <1>11, RowsKept DEF EndSweep, rows
  <2> QED
    BY <1>1, <2>1, <2>2 DEF TypeInv
<1>12. CASE WorkerStops(w)
  <2>1. inbox' = [c \in Callbacks |->
                     IF inbox[c].token = w
                     THEN [inbox[c] EXCEPT !.token = None] ELSE inbox[c]]
    BY <1>12 DEF WorkerStops
  <2>2. inbox' \in [Callbacks -> Receipt]
    BY <1>4, <1>5, <2>1
  <2>3. RowsTyped'
    BY <1>1, <1>12, <2>2, InboxTyped DEF WorkerStops
  <2>4. ProcessesTyped'
    BY <1>1, <1>2, <1>12, NoPassTyped, WorkerTyped DEF WorkerStops
  <2> QED
    BY <1>1, <2>3, <2>4 DEF TypeInv
<1> QED
  BY <1>6, <1>7, <1>8, <1>9, <1>10, <1>11, <1>12 DEF Work

LEMMA OperateTyped ==
  ASSUME TypeInv, Operate
  PROVE  TypeInv'
<1>1. now' = now /\ now \in Nat /\ RowsTyped /\ ProcessesTyped
  BY DEF TypeInv, Operate, RequeueReconciliation, RequeueReceipt
<1>2. ProcessesTyped'
  BY <1>1, ProcessesKept DEF Operate, RequeueReconciliation, RequeueReceipt
<1>3. CASE RequeueReconciliation
  <2>1. recon \in Reconciliation
    BY <1>1 DEF RowsTyped
  <2>2. recon' \in Reconciliation
    BY <1>1, <1>3, <2>1 DEF RequeueReconciliation, Reconciliation
  <2>3. RowsTyped'
    BY <1>1, <1>3, <2>2, ReconTyped DEF RequeueReconciliation
  <2> QED
    BY <1>1, <1>2, <2>3 DEF TypeInv
<1>4. ASSUME NEW c \in Callbacks, RequeueReceipt(c)
      PROVE  TypeInv'
  <2>1. inbox \in [Callbacks -> Receipt]
    BY <1>1 DEF RowsTyped
  <2>2. inbox[c].received \in Nat /\ inbox[c].created \in Nat
    BY <2>1 DEF Receipt
  <2>3. [state |-> "PENDING", received |-> inbox[c].received,
         created |-> inbox[c].created, attempts |-> 0, error |-> "none",
         token |-> None] \in Receipt
    BY <2>2 DEF Receipt
  <2>4. inbox' \in [Callbacks -> Receipt]
    BY <1>4, <2>1, <2>3 DEF RequeueReceipt
  <2>5. RowsTyped'
    BY <1>1, <1>4, <2>4, InboxTyped DEF RequeueReceipt
  <2> QED
    BY <1>1, <1>2, <2>5 DEF TypeInv
<1> QED
  BY <1>3, <1>4 DEF Operate

LEMMA InitTyped ==
  ASSUME Init
  PROVE  TypeInv
<1>1. RowsTyped
  <2>1. NoReceipt \in Receipt
    BY DEF NoReceipt, Receipt
  <2>2. inbox \in [Callbacks -> Receipt]
    BY <2>1 DEF Init
  <2>3. outbox \in Outbox
    BY DEF Init, Outbox
  <2>4. recon \in Reconciliation
    BY DEF Init, Reconciliation
  <2> QED
    BY <2>2, <2>3, <2>4 DEF Init, RowsTyped
<1>2. ProcessesTyped
  BY NoWebhookTyped, NoPassTyped DEF Init, ProcessesTyped
<1> QED
  BY <1>1, <1>2 DEF Init, TypeInv

LEMMA StepTyped ==
  ASSUME TypeInv, [Next]_vars
  PROVE  TypeInv'
<1>1. ASSUME NEW d \in Dispatchers, Dispatch(d)
      PROVE  TypeInv'
  BY <1>1, DispatchTyped
<1>2. CASE OutboxWorker \/ ExpireRun
  BY <1>2, OutboxWorkerTyped
<1>3. ASSUME NEW h \in Handlers, Ingest(h)
      PROVE  TypeInv'
  BY <1>3, IngestTyped
<1>4. ASSUME NEW w \in Workers, Work(w)
      PROVE  TypeInv'
  BY <1>4, WorkTyped
<1>5. CASE Operate
  BY <1>5, OperateTyped
<1>6. CASE Tick \/ UNCHANGED vars
  <2>1. RowsTyped'
    BY <1>6, RowsKept DEF Tick, vars, rows, TypeInv
  <2>2. ProcessesTyped'
    BY <1>6, ProcessesKept DEF Tick, vars, TypeInv
  <2>3. now' \in Nat
    BY <1>6 DEF Tick, vars, TypeInv
  <2> QED
    BY <2>1, <2>2, <2>3 DEF TypeInv
<1> QED
  BY <1>1, <1>2, <1>3, <1>4, <1>5, <1>6 DEF Next

LEMMA Typed == Spec => []TypeInv
<1>1. Init => TypeInv
  BY InitTyped
<1>2. TypeInv /\ [Next]_vars => TypeInv'
  BY StepTyped
<1> QED
  BY <1>1, <1>2, PTL DEF Spec

\* Every variable of the Meta delivery keeps its type.
THEOREM MetaTyped == Spec => []TypeOK
<1>1. TypeInv => TypeOK
  BY DEF TypeInv, RowsTyped, ProcessesTyped, TypeOK
<1> QED
  BY <1>1, Typed, PTL

-----------------------------------------------------------------------------

\* The attempt is claimed once: only the dispatcher that claimed the fresh row
\* may be about to call the API, and nobody has called it before.
Single ==
    /\ outbox.status = "NONE" =>
           sends = 0 /\ \A d \in Dispatchers : dispatcher[d] = "idle"
    /\ \A d, e \in Dispatchers :
           dispatcher[d] = "reserved" /\ dispatcher[e] = "reserved" => d = e
    /\ (\E d \in Dispatchers : dispatcher[d] = "reserved") => sends = 0
    /\ sends <= 1

LEMMA SettleOpens ==
  ASSUME NEW r, NEW o, NEW in, NEW ts, Settle(r, o, in, ts),
         o.status # "NONE"
  PROVE  outbox'.status # "NONE"
<1>1. CASE outbox' = o
  BY <1>1
<1>2. CASE Judged(r, o, in, ts)
  <2>1. outbox' = Closed(o, Judge(r, in, ts))
    BY <1>2 DEF Judged
  <2> QED
    BY <2>1 DEF Closed
<1> QED
  BY <1>1, <1>2 DEF Settle

\* A row that was claimed once is never fresh again.
LEMMA NeverFreshAgain ==
  ASSUME [Next]_vars, outbox.status # "NONE"
  PROVE  outbox'.status # "NONE"
<1>1. ASSUME NEW ts, Reconcile(ts)
      PROVE  outbox'.status # "NONE"
  BY <1>1, SettleOpens DEF Reconcile
<1>2. ASSUME NEW d \in Dispatchers, Dispatch(d)
      PROVE  outbox'.status # "NONE"
  <2>1. CASE Accept(d)
    <3>1. Awaiting.status # "NONE"
      BY DEF Awaiting
    <3> QED
      BY <2>1, <3>1, SettleOpens DEF Accept
  <2>2. CASE ReplayAccept(d)
    BY <2>2, SettleOpens DEF ReplayAccept
  <2>3. CASE Reserve(d)
    BY <2>3 DEF Reserve
  <2>4. CASE Send(d) \/ DispatcherStops(d)
    BY <2>4 DEF Send, DispatcherStops, rows
  <2> QED
    BY <1>2, <2>1, <2>2, <2>3, <2>4 DEF Dispatch
<1>3. CASE OutboxWorker \/ ExpireRun
  BY <1>3 DEF OutboxWorker, MarkStale, ClaimRetry, DispatchLocally, ExpireRun
<1>4. ASSUME NEW h \in Handlers, Ingest(h)
      PROVE  outbox'.status # "NONE"
  BY <1>1, <1>4 DEF Ingest, Receive, Admit, CorrelateReceipt,
     ReconcileReceipt, IngressStops, rows
<1>5. ASSUME NEW w \in Workers, Work(w)
      PROVE  outbox'.status # "NONE"
  BY <1>1, <1>5 DEF Work, ClaimReceipt, ProcessReceipt, StartSweep, SweepRow,
     SweepFails, EndSweep, WorkerStops, rows
<1>6. CASE Operate \/ Tick \/ UNCHANGED vars
  BY <1>6 DEF Operate, RequeueReconciliation, RequeueReceipt, Tick, vars, rows
<1> QED
  BY <1>2, <1>3, <1>4, <1>5, <1>6 DEF Next

LEMMA SingleInit ==
  ASSUME Init
  PROVE  Single
BY DEF Init, Single

LEMMA SingleStep ==
  ASSUME TypeInv, Single, [Next]_vars
  PROVE  Single'
<1>1. sends \in Nat
      /\ dispatcher \in
             [Dispatchers -> {"idle", "reserved", "sent", "accepted"}]
  BY DEF TypeInv, ProcessesTyped
<1>2. outbox.status # "NONE" => outbox'.status # "NONE"
  BY NeverFreshAgain
<1>3. ASSUME UNCHANGED <<sends, dispatcher>>
      PROVE  Single'
  BY <1>2, <1>3 DEF Single
<1>4. ASSUME NEW d \in Dispatchers, Reserve(d)
      PROVE  Single'
  <2>1. outbox.status = "NONE" /\ outbox'.status = "PROCESSING"
        /\ dispatcher' = [dispatcher EXCEPT ![d] = "reserved"]
        /\ sends' = sends
    BY <1>4 DEF Reserve, Reservable
  <2> QED
    BY <1>1, <2>1 DEF Single
<1>5. ASSUME NEW d \in Dispatchers, Send(d)
      PROVE  Single'
  <2>1. dispatcher[d] = "reserved" /\ outbox' = outbox
        /\ dispatcher' = [dispatcher EXCEPT ![d] = "sent"]
        /\ sends' = sends + 1
    BY <1>5 DEF Send, rows
  <2>2. sends = 0 /\ outbox.status # "NONE"
    BY <2>1 DEF Single
  <2>3. \A e \in Dispatchers : dispatcher'[e] # "reserved"
    BY <1>1, <2>1 DEF Single
  <2> QED
    BY <2>1, <2>2, <2>3 DEF Single
<1>6. ASSUME NEW d \in Dispatchers, NEW p \in {"accepted", "idle"},
             dispatcher[d] # "idle", sends' = sends,
             dispatcher' = [dispatcher EXCEPT ![d] = p]
      PROVE  Single'
  <2>1. outbox'.status # "NONE"
    BY <1>2, <1>6 DEF Single
  <2>2. \A e \in Dispatchers :
           dispatcher'[e] = "reserved" => dispatcher[e] = "reserved"
    BY <1>1, <1>6
  <2> QED
    BY <1>6, <2>1, <2>2 DEF Single
<1>7. ASSUME NEW d \in Dispatchers, Dispatch(d)
      PROVE  Single'
  <2>1. CASE Accept(d)
    BY <1>6, <2>1 DEF Accept
  <2>2. CASE DispatcherStops(d)
    BY <1>6, <2>2 DEF DispatcherStops
  <2>3. CASE ReplayAccept(d)
    BY <1>3, <2>3 DEF ReplayAccept
  <2> QED
    BY <1>4, <1>5, <1>7, <2>1, <2>2, <2>3 DEF Dispatch
<1>8. CASE OutboxWorker \/ ExpireRun
  BY <1>3, <1>8 DEF OutboxWorker, MarkStale, ClaimRetry, DispatchLocally,
     ExpireRun
<1>9. ASSUME NEW h \in Handlers, Ingest(h)
      PROVE  Single'
  BY <1>3, <1>9 DEF Ingest, Receive, Admit, CorrelateReceipt,
     ReconcileReceipt, IngressStops
<1>10. ASSUME NEW w \in Workers, Work(w)
       PROVE  Single'
  BY <1>3, <1>10 DEF Work, ClaimReceipt, ProcessReceipt, StartSweep,
     SweepRow, SweepFails, EndSweep, WorkerStops
<1>11. CASE Operate \/ Tick \/ UNCHANGED vars
  BY <1>3, <1>11 DEF Operate, RequeueReconciliation, RequeueReceipt, Tick,
     vars
<1> QED
  BY <1>7, <1>8, <1>9, <1>10, <1>11 DEF Next

\* Whatever crashes, and however many dispatchers try, the API is called at
\* most once for the reply.
THEOREM AtMostOneAttempt == Spec => []OneAttempt
<1>1. Init => Single
  BY SingleInit
<1>2. TypeInv /\ Single /\ [Next]_vars => Single'
  BY SingleStep
<1>3. Single => OneAttempt
  BY DEF Single, OneAttempt
<1> QED
  BY <1>1, <1>2, <1>3, Typed, PTL DEF Spec

-----------------------------------------------------------------------------

\* The row r agrees with the outbox row o and the run; whoever claimed an
\* accepted attempt is known, so the generic worker leaves it alone.
Agree(r, o) ==
    /\ r.state = "PENDING" <=> o.status = "AWAITING_DELIVERY"
    /\ r.state = "FAILED" <=> o.status = "FAILED"
    /\ r.state = "PASSED" => o.status = "DONE"
    /\ r.state \in Terminal => run = r.state
    /\ r.state # "NONE" => o.by # None

Agreement == Agree(recon, outbox)

LEMMA SettleAgrees ==
  ASSUME NEW r, NEW o, NEW in, NEW ts, Settle(r, o, in, ts),
         Agree(r, o), r.state # "NONE"
  PROVE  Agreement'
<1>1. CASE recon' = r /\ outbox' = o /\ UNCHANGED run
  BY <1>1 DEF Agree, Agreement
<1>2. CASE recon' = Rescheduled(r, ts) /\ outbox' = o /\ UNCHANGED run
  <2>1. recon'.state = r.state
    BY <1>2 DEF Rescheduled
  <2> QED
    BY <1>2, <2>1 DEF Agree, Agreement
<1>3. CASE Judged(r, o, in, ts)
  <2> DEFINE v == Judge(r, in, ts)
  <2>1. v \in {"PENDING", "DELIVERED", "FAILED", "TIMEOUT", "INVALID"}
    BY JudgeTyped
  <2>2. recon' = Concluded(r, v) /\ outbox' = Closed(o, v)
        /\ run' = (IF v = "PENDING" THEN run ELSE recon'.state)
        /\ o.status = "AWAITING_DELIVERY"
    BY <1>3 DEF Judged
  <2>3. o.by # None
    BY DEF Agree
  <2>4. outbox'.by # None
    BY <2>2, <2>3 DEF Closed
  <2> HIDE DEF v
  <2>5. CASE v = "PENDING"
    <3>1. recon'.state = "PENDING" /\ outbox'.status = "AWAITING_DELIVERY"
      BY <2>2, <2>5 DEF Concluded, Closed
    <3> QED
      BY <2>4, <3>1 DEF Agree, Agreement, Terminal
  <2>6. CASE v = "DELIVERED"
    <3>1. recon'.state = "PASSED" /\ outbox'.status = "DONE"
          /\ run' = "PASSED"
      BY <2>2, <2>6 DEF Concluded, Closed
    <3> QED
      BY <2>4, <3>1 DEF Agree, Agreement, Terminal
  <2>7. CASE v \in {"FAILED", "TIMEOUT", "INVALID"}
    <3>1. recon'.state = "FAILED" /\ outbox'.status = "FAILED"
          /\ run' = "FAILED"
      BY <2>2, <2>7 DEF Concluded, Closed
    <3> QED
      BY <2>4, <3>1 DEF Agree, Agreement, Terminal
  <2> QED
    BY <2>1, <2>5, <2>6, <2>7
<1> QED
  BY <1>1, <1>2, <1>3 DEF Settle

LEMMA AgreementInit ==
  ASSUME Init
  PROVE  Agreement
BY DEF Init, Agreement, Agree, Terminal

LEMMA AgreementStep ==
  ASSUME TypeInv, Agreement, [Next]_vars
  PROVE  Agreement'
<1>1. recon.state \in {"NONE", "PENDING", "PASSED", "FAILED"}
  BY DEF TypeInv, RowsTyped, Reconciliation, Terminal
<1>2. ASSUME UNCHANGED <<recon, outbox, run>>
      PROVE  Agreement'
  BY <1>2 DEF Agreement, Agree
<1>3. ASSUME NEW ts, Reconcile(ts)
      PROVE  Agreement'
  BY <1>3, SettleAgrees DEF Reconcile, Agreement
\* The row is still open or not there yet.
<1>4. ASSUME outbox.status \in {"NONE", "PROCESSING", "RETRY"}
      PROVE  recon.state = "NONE"
  BY <1>1, <1>4 DEF Agreement, Agree
<1>5. ASSUME NEW d \in Dispatchers, Dispatch(d)
      PROVE  Agreement'
  <2>1. CASE Reserve(d)
    <3>1. recon.state = "NONE" /\ recon' = recon
          /\ outbox'.status = "PROCESSING"
      BY <1>4, <2>1 DEF Reserve, Reservable
    <3> QED
      BY <3>1 DEF Agreement, Agree, Terminal
  <2>2. CASE Accept(d)
    <3>1. outbox.by # None
      BY <2>2, NoneAssumption DEF Accept, Acceptable
    <3>2. Accepted.state = "PENDING" /\ Awaiting.by # None
          /\ Awaiting.status = "AWAITING_DELIVERY"
      BY <3>1 DEF Accepted, Awaiting
    <3>3. Agree(Accepted, Awaiting)
      BY <3>2 DEF Agree, Terminal
    <3>4. CASE recon' = Accepted /\ outbox' = Awaiting /\ UNCHANGED run
      BY <3>3, <3>4 DEF Agreement, Agree
    <3>5. ASSUME NEW in, Settle(Accepted, Awaiting, in, now)
          PROVE  Agreement'
      BY <3>2, <3>3, <3>5, SettleAgrees
    <3> QED
      BY <2>2, <3>4, <3>5 DEF Accept
  <2>3. CASE ReplayAccept(d)
    BY <1>2, <2>3, SettleAgrees DEF ReplayAccept, Agreement
  <2>4. CASE Send(d) \/ DispatcherStops(d)
    BY <1>2, <2>4 DEF Send, DispatcherStops, rows
  <2> QED
    BY <1>5, <2>1, <2>2, <2>3, <2>4 DEF Dispatch
<1>6. CASE OutboxWorker
  <2>1. recon.state = "NONE"
    <3>1. CASE MarkStale \/ ClaimRetry
      BY <1>4, <3>1 DEF MarkStale, ClaimRetry
    <3>2. CASE DispatchLocally
      BY <3>2 DEF DispatchLocally, Agreement, Agree
    <3> QED
      BY <1>6, <3>1, <3>2 DEF OutboxWorker
  <2>2. recon' = recon /\ outbox'.status \in {"RETRY", "PROCESSING", "DONE"}
    BY <1>6 DEF OutboxWorker, MarkStale, ClaimRetry, DispatchLocally
  <2> QED
    BY <2>1, <2>2 DEF Agreement, Agree, Terminal
<1>7. CASE ExpireRun
  <2>1. run \in {"ARMED", "RUNNING"} /\ UNCHANGED <<recon, outbox>>
    BY <1>7 DEF ExpireRun
  <2>2. recon.state \notin Terminal
    BY <2>1 DEF Agreement, Agree, Terminal
  <2> QED
    BY <2>1, <2>2 DEF Agreement, Agree
<1>8. ASSUME NEW h \in Handlers, Ingest(h)
      PROVE  Agreement'
  BY <1>2, <1>3, <1>8 DEF Ingest, Receive, Admit, CorrelateReceipt,
     ReconcileReceipt, IngressStops, rows
\* A failure or a requeue leaves the state of the row as it was.
<1>9. ASSUME UNCHANGED <<outbox, run>>, recon'.state = recon.state
      PROVE  Agreement'
  BY <1>9 DEF Agreement, Agree
<1>10. ASSUME NEW w \in Workers, Work(w)
       PROVE  Agreement'
  <2>1. CASE SweepFails(w)
    BY <1>9, <2>1 DEF SweepFails, FailedOnce
  <2>2. CASE SweepRow(w)
    BY <1>3, <2>2 DEF SweepRow
  <2> QED
    BY <1>2, <1>10, <2>1, <2>2 DEF Work, ClaimReceipt, ProcessReceipt,
       StartSweep, EndSweep, WorkerStops, rows
<1>11. CASE Operate
  <2>1. CASE RequeueReconciliation
    BY <1>9, <2>1 DEF RequeueReconciliation
  <2> QED
    BY <1>2, <1>11, <2>1 DEF Operate, RequeueReceipt
<1>12. CASE Tick \/ UNCHANGED vars
  BY <1>2, <1>12 DEF Tick, vars, rows
<1> QED
  BY <1>5, <1>6, <1>7, <1>8, <1>10, <1>11, <1>12 DEF Next

\* The reconciliation row, the outbox row and the run tell one story.
THEOREM RecordsAlwaysAgree == Spec => []RecordsAgree
<1>1. Init => Agreement
  BY AgreementInit
<1>2. TypeInv /\ Agreement /\ [Next]_vars => Agreement'
  BY AgreementStep
<1>3. Agreement => RecordsAgree
  BY DEF Agreement, Agree, RecordsAgree
<1> QED
  BY <1>1, <1>2, <1>3, Typed, PTL DEF Spec

\* From its acceptance on, the row is still the one its dispatcher claimed:
\* the generic worker never gets hold of it, so no correlation is denied for
\* its scope (_basic_outbox_scope_valid, _correlate_pending_inbox_locked).
THEOREM AcceptedIsOwn ==
  Spec => [](recon.state # "NONE" => outbox.by \in Dispatchers)
<1>1. Init => Agreement
  BY AgreementInit
<1>2. TypeInv /\ Agreement /\ [Next]_vars => Agreement'
  BY AgreementStep
<1>3. TypeInv /\ Agreement =>
          (recon.state # "NONE" => outbox.by \in Dispatchers)
  BY DEF TypeInv, RowsTyped, Outbox, Agreement, Agree
<1> QED
  BY <1>1, <1>2, <1>3, Typed, PTL DEF Spec

-----------------------------------------------------------------------------

\* The valid statuses stored with a receipt in time for the row r, and those
\* of them that had to be stored by its closure.
HeardBy(r, in) ==
    {c \in Callbacks :
        Valid(c) /\ in[c].state # "NONE" /\ in[c].received <= Deadline(r)}
InTimeFor(r, in) ==
    {c \in HeardBy(r, in) : in[c].created + AdmissionLimit <= Closure(r)}

\* A failure with this reason is what the statuses of S call for.
Supports(S, reason) ==
    /\ \A c \in S : Kind[c] # "delivered"
    /\ (reason = "FAILED") <=> LatestFailed(S)

\* The state of the row r is one the receipts call for at time t.
Verdict(r, in, t) ==
    /\ r.state = "PASSED" =>
           \E c \in HeardBy(r, in) : Kind[c] = "delivered"
    /\ r.state = "FAILED" =>
           /\ t >= Closure(r)
           /\ \E S \in SUBSET HeardBy(r, in) :
                  InTimeFor(r, in) \subseteq S /\ Supports(S, r.reason)

\* A quarantined receipt has a recorded error.
Explained(in) ==
    \A c \in Callbacks :
        in[c].state = "QUARANTINED" => in[c].error \in {"NOT_FOUND", "ERROR"}

\* The clock of a pass is not ahead.
ClockFollowed == \A w \in Workers : worker[w].stamp <= now

VerdictInv ==
    Verdict(recon, inbox, now) /\ Explained(inbox) /\ ClockFollowed

\* The same receipts are stored, with the same times.
SameReceipts(in, in2) ==
    \A c \in Callbacks :
        /\ in2[c].state = "NONE" <=> in[c].state = "NONE"
        /\ in[c].state # "NONE" =>
               /\ in2[c].received = in[c].received
               /\ in2[c].created = in[c].created

LEMMA SameHeard ==
  ASSUME NEW r, NEW in, NEW in2, SameReceipts(in, in2)
  PROVE  /\ HeardBy(r, in2) = HeardBy(r, in)
         /\ InTimeFor(r, in2) = InTimeFor(r, in)
BY DEF HeardBy, InTimeFor, SameReceipts

\* Verdict does not look at a receipt but through HeardBy and InTimeFor.
LEMMA VerdictKept ==
  ASSUME NEW r, NEW in, NEW in2, NEW t \in Nat, NEW t2 \in Nat,
         r \in Reconciliation,
         Verdict(r, in, t), t <= t2, HeardBy(r, in2) = HeardBy(r, in),
         InTimeFor(r, in2) = InTimeFor(r, in)
  PROVE  Verdict(r, in2, t2)
<1>1. Closure(r) \in Nat
  BY TimeAssumption DEF Closure, Deadline, Reconciliation
<1>2. t >= Closure(r) => t2 >= Closure(r)
  BY <1>1
<1> QED
  BY <1>2 DEF Verdict

LEMMA CorrelationKeeps ==
  ASSUME NEW in, NEW B \in SUBSET Callbacks, Explained(in),
         \A c \in B : in[c].state # "NONE"
  PROVE  SameReceipts(in, Correlated(in, B)) /\ Explained(Correlated(in, B))
<1>1. ASSUME NEW c \in Callbacks, c \in B
      PROVE  /\ Correlated(in, B)[c].state = "CORRELATED"
             /\ Correlated(in, B)[c].received = in[c].received
             /\ Correlated(in, B)[c].created = in[c].created
  BY <1>1 DEF Correlated
<1>2. ASSUME NEW c \in Callbacks, c \notin B
      PROVE  Correlated(in, B)[c] = in[c]
  BY <1>2 DEF Correlated
<1>3. SameReceipts(in, Correlated(in, B))
  BY <1>1, <1>2 DEF SameReceipts
<1>4. Explained(Correlated(in, B))
  BY <1>1, <1>2 DEF Explained
<1> QED
  BY <1>3, <1>4

LEMMA BatchStored ==
  ASSUME NEW in, NEW B \in Batches(in)
  PROVE  B \in SUBSET Callbacks /\ \A c \in B : in[c].state # "NONE"
BY DEF Batches, Backlog

\* When nothing is left to correlate and nothing is blocked, the evidence is
\* all that was heard.
LEMMA NothingLeft ==
  ASSUME NEW r, NEW in, Explained(in), Backlog(in) = {}, ~Blocked(in),
         in \in [Callbacks -> Receipt]
  PROVE  HeardBy(r, in) = {c \in Admissible(r, in) : Valid(c)}
<1>1. ASSUME NEW c \in Callbacks, Valid(c), in[c].state # "NONE"
      PROVE  in[c].state = "CORRELATED"
  <2>1. in[c].state \in {"PENDING", "QUARANTINED", "CORRELATED"}
    BY <1>1 DEF Receipt
  <2>2. in[c].state # "PENDING"
    BY DEF Backlog
  <2>3. CASE in[c].state = "QUARANTINED"
    <3>1. in[c].error = "NOT_FOUND" \/ in[c].error = "ERROR"
      BY <2>3 DEF Explained
    <3>2. in[c].error # "NOT_FOUND"
      BY <2>3 DEF Backlog
    <3>3. in[c].error # "ERROR"
      BY <1>1, <2>3 DEF Blocked
    <3> QED
      BY <3>1, <3>2, <3>3
  <2> QED
    BY <2>1, <2>2, <2>3
<1> QED
  BY <1>1 DEF HeardBy, Admissible

LEMMA JudgementFits ==
  ASSUME NEW r \in Reconciliation, NEW o, NEW ts \in Nat,
         NEW in \in [Callbacks -> Receipt],
         now \in Nat, ts <= now,
         Explained(in), Backlog(in) = {}, ~Blocked(in),
         Judged(r, o, in, ts)
  PROVE  Verdict(recon', in, now)
<1> DEFINE v == Judge(r, in, ts)
           S == Admissible(r, in)
<1>1. recon' = Concluded(r, v)
  BY DEF Judged
<1>2. v \in {"PENDING", "DELIVERED", "FAILED", "TIMEOUT", "INVALID"}
  BY JudgeTyped
<1>3. recon'.accepted = r.accepted /\ recon'.reason = v
      /\ recon'.state = (IF v = "PENDING" THEN "PENDING"
                         ELSE IF v = "DELIVERED" THEN "PASSED" ELSE "FAILED")
  BY <1>1 DEF Concluded
<1>4. Deadline(recon') = Deadline(r) /\ Closure(recon') = Closure(r)
  BY <1>3 DEF Deadline, Closure
<1>5. HeardBy(recon', in) = {c \in S : Valid(c)}
  <2>1. HeardBy(recon', in) = HeardBy(r, in)
    BY <1>4 DEF HeardBy
  <2> QED
    BY <2>1, NothingLeft
<1>6. S \subseteq Callbacks
  BY DEF Admissible
<1>7. v = "DELIVERED" => \E c \in S : Kind[c] = "delivered"
  BY DEF Judge
<1>8. v \in {"FAILED", "TIMEOUT", "INVALID"} =>
          /\ \A c \in S : Kind[c] # "delivered"
          /\ Due(r, ts)
          /\ (v = "FAILED") <=> LatestFailed(S)
  BY DEF Judge
<1>9. LatestFailed(S) <=> LatestFailed(HeardBy(recon', in))
  BY <1>5, <1>6 DEF LatestFailed, Valid
<1>10. Closure(r) \in Nat
  BY TimeAssumption DEF Closure, Deadline, Reconciliation
<1>11. Due(r, ts) => now >= Closure(recon')
  BY <1>4, <1>10 DEF Due
<1> HIDE DEF v, S
<1>12. CASE v = "PENDING"
  <2>1. recon'.state = "PENDING"
    BY <1>3, <1>12
  <2> QED
    BY <2>1 DEF Verdict
<1>13. CASE v = "DELIVERED"
  <2>1. recon'.state = "PASSED"
    BY <1>3, <1>13
  <2>2. PICK c \in S : Kind[c] = "delivered"
    BY <1>7, <1>13
  <2>3. c \in HeardBy(recon', in)
    BY <1>5, <2>2 DEF Valid
  <2> QED
    BY <2>1, <2>2, <2>3 DEF Verdict
<1>14. CASE v \in {"FAILED", "TIMEOUT", "INVALID"}
  <2>1. recon'.state = "FAILED" /\ recon'.reason = v
    BY <1>3, <1>14
  <2>2. now >= Closure(recon')
    BY <1>8, <1>11, <1>14
  <2>3. \A c \in HeardBy(recon', in) : Kind[c] # "delivered"
    BY <1>5, <1>8, <1>14
  <2>4. (recon'.reason = "FAILED") <=> LatestFailed(HeardBy(recon', in))
    BY <1>8, <1>9, <1>14, <2>1
  <2>5. Supports(HeardBy(recon', in), recon'.reason)
    BY <2>3, <2>4 DEF Supports
  <2>6. InTimeFor(recon', in) \subseteq HeardBy(recon', in)
    BY DEF InTimeFor
  <2> QED
    BY <2>1, <2>2, <2>5, <2>6 DEF Verdict
<1> QED
  BY <1>2, <1>12, <1>13, <1>14

LEMMA SettleFits ==
  ASSUME NEW r \in Reconciliation, NEW o, NEW ts \in Nat,
         NEW in \in [Callbacks -> Receipt],
         now \in Nat, ts <= now, Explained(in), Verdict(r, in, now),
         Settle(r, o, in, ts)
  PROVE  Verdict(recon', inbox', now) /\ Explained(inbox')
<1>1. inbox' = in
  BY DEF Settle
<1>2. CASE recon' = r
  BY <1>1, <1>2
<1>3. CASE r.state = "PENDING" /\ recon' = Rescheduled(r, ts)
  <2>1. recon'.state = "PENDING"
    BY <1>3 DEF Rescheduled
  <2> QED
    BY <1>1, <2>1 DEF Verdict
<1>4. CASE Backlog(in) = {} /\ ~Blocked(in) /\ Judged(r, o, in, ts)
  BY <1>1, <1>4, JudgementFits
<1> QED
  BY <1>2, <1>3, <1>4 DEF Settle

LEMMA ReconcileFits ==
  ASSUME TypeInv, VerdictInv, NEW ts \in Nat, ts <= now, Reconcile(ts)
  PROVE  Verdict(recon', inbox', now) /\ Explained(inbox')
<1>1. PICK B \in Batches(inbox) :
          Settle(recon, outbox, Correlated(inbox, B), ts)
  BY DEF Reconcile
<1> DEFINE in == Correlated(inbox, B)
<1>2. in \in [Callbacks -> Receipt] /\ recon \in Reconciliation /\ now \in Nat
  BY CorrelatedTyped DEF TypeInv, RowsTyped
<1>3. SameReceipts(inbox, in) /\ Explained(in)
  BY BatchStored, CorrelationKeeps DEF VerdictInv
<1>4. Verdict(recon, inbox, now)
  BY DEF VerdictInv
<1>5. Verdict(recon, in, now)
  BY <1>2, <1>3, <1>4, SameHeard, VerdictKept
<1> QED
  BY <1>1, <1>2, <1>3, <1>5, SettleFits

\* A step that leaves the row alone, or leaves it open, and loses no receipt.
LEMMA RowKept ==
  ASSUME TypeInv, VerdictInv, now' \in Nat, now <= now',
         SameReceipts(inbox, inbox'),
         recon' = recon \/ recon'.state \notin Terminal
  PROVE  Verdict(recon', inbox', now')
<1>1. CASE recon' = recon
  <2>1. Verdict(recon, inbox, now) /\ recon \in Reconciliation /\ now \in Nat
    BY DEF VerdictInv, TypeInv, RowsTyped
  <2>2. /\ HeardBy(recon, inbox') = HeardBy(recon, inbox)
        /\ InTimeFor(recon, inbox') = InTimeFor(recon, inbox)
    BY SameHeard
  <2>3. Verdict(recon, inbox', now')
    BY <2>1, <2>2, VerdictKept
  <2> QED
    BY <1>1, <2>3
<1>2. CASE recon'.state \notin Terminal
  BY <1>2 DEF Verdict, Terminal
<1> QED
  BY <1>1, <1>2

LEMMA SameInbox ==
  ASSUME inbox' = inbox
  PROVE  SameReceipts(inbox, inbox')
BY DEF SameReceipts

\* One receipt is rewritten and keeps its times.
LEMMA OneReceipt ==
  ASSUME inbox \in [Callbacks -> Receipt], Explained(inbox),
         NEW c \in Callbacks, NEW receipt,
         inbox' = [inbox EXCEPT ![c] = receipt],
         inbox[c].state # "NONE", receipt.state # "NONE",
         receipt.received = inbox[c].received,
         receipt.created = inbox[c].created,
         receipt.state = "QUARANTINED" =>
             receipt.error \in {"NOT_FOUND", "ERROR"}
  PROVE  SameReceipts(inbox, inbox') /\ Explained(inbox')
<1>1. \A b \in Callbacks : inbox'[b] = IF b = c THEN receipt ELSE inbox[b]
  OBVIOUS
<1> QED
  BY <1>1 DEF SameReceipts, Explained

LEMMA ClockKept ==
  ASSUME ClockFollowed, now' \in Nat, now \in Nat, now <= now',
         worker \in [Workers -> Pass], UNCHANGED worker
  PROVE  ClockFollowed'
<1>1. ASSUME NEW w \in Workers
      PROVE  worker'[w].stamp <= now'
  <2>1. worker[w].stamp \in Nat /\ worker[w].stamp <= now
    BY DEF Pass, ClockFollowed
  <2> QED
    BY <2>1
<1> QED
  BY <1>1 DEF ClockFollowed

LEMMA ClockWorker ==
  ASSUME ClockFollowed, worker \in [Workers -> Pass], now \in Nat,
         NEW w \in Workers, NEW p, p.stamp \in Nat, p.stamp <= now,
         worker' = [worker EXCEPT ![w] = p], UNCHANGED now
  PROVE  ClockFollowed'
<1>1. \A v \in Workers : worker'[v] = IF v = w THEN p ELSE worker[v]
  OBVIOUS
<1> QED
  BY <1>1 DEF ClockFollowed

LEMMA VerdictDispatch ==
  ASSUME TypeInv, VerdictInv, NEW d \in Dispatchers, Dispatch(d)
  PROVE  VerdictInv'
<1>1. UNCHANGED <<now, ingress, worker>>
  BY DEF Dispatch, Reserve, Send, Accept, ReplayAccept, DispatcherStops
<1>2. now \in Nat /\ worker \in [Workers -> Pass] /\ RowsTyped
      /\ inbox \in [Callbacks -> Receipt] /\ recon \in Reconciliation
      /\ ClockFollowed /\ Explained(inbox)
  BY DEF TypeInv, ProcessesTyped, RowsTyped, VerdictInv
<1>3. ClockFollowed'
  BY <1>1, <1>2, ClockKept
<1>4. ASSUME UNCHANGED <<recon, inbox>>
      PROVE  VerdictInv'
  BY <1>1, <1>2, <1>3, <1>4, SameInbox, RowKept DEF VerdictInv
<1>5. ASSUME NEW B \in Batches(inbox)
      PROVE  /\ Correlated(inbox, B) \in [Callbacks -> Receipt]
             /\ SameReceipts(inbox, Correlated(inbox, B))
             /\ Explained(Correlated(inbox, B))
  BY <1>2, BatchStored, CorrelatedTyped, CorrelationKeeps
<1>6. CASE Accept(d)
  <2>1. Accepted \in Reconciliation
    BY AcceptedTyped
  <2>2. PICK B \in Batches(inbox) :
           \/ recon' = Accepted /\ UNCHANGED inbox
           \/ Settle(Accepted, Awaiting, Correlated(inbox, B), now)
    BY <1>6 DEF Accept
  <2>3. ASSUME recon' = Accepted, UNCHANGED inbox
        PROVE  Verdict(recon', inbox', now) /\ Explained(inbox')
    BY <1>2, <2>3 DEF Verdict, Accepted
  <2>4. ASSUME Settle(Accepted, Awaiting, Correlated(inbox, B), now)
        PROVE  Verdict(recon', inbox', now) /\ Explained(inbox')
    <3>1. Verdict(Accepted, Correlated(inbox, B), now)
      BY DEF Verdict, Accepted
    <3> QED
      BY <1>2, <1>5, <2>1, <2>4, <3>1, SettleFits
  <2> QED
    BY <1>1, <1>3, <2>2, <2>3, <2>4 DEF VerdictInv
<1>7. CASE ReplayAccept(d)
  <2>1. PICK B \in Batches(inbox) :
           \/ Settle(recon, outbox, Correlated(inbox, B), now)
           \/ inbox' = Correlated(inbox, B) /\ UNCHANGED recon
    BY <1>7 DEF ReplayAccept
  <2>2. ASSUME Settle(recon, outbox, Correlated(inbox, B), now)
        PROVE  Verdict(recon', inbox', now) /\ Explained(inbox')
    <3>1. Verdict(recon, Correlated(inbox, B), now)
      BY <1>2, <1>5, SameHeard, VerdictKept DEF VerdictInv
    <3> QED
      BY <1>2, <1>5, <2>2, <3>1, SettleFits
  <2>3. ASSUME inbox' = Correlated(inbox, B), UNCHANGED recon
        PROVE  Verdict(recon', inbox', now) /\ Explained(inbox')
    BY <1>1, <1>2, <1>5, <2>3, RowKept
  <2> QED
    BY <1>1, <1>3, <2>1, <2>2, <2>3 DEF VerdictInv
<1>8. CASE Reserve(d) \/ Send(d) \/ DispatcherStops(d)
  BY <1>4, <1>8 DEF Reserve, Send, DispatcherStops, rows
<1> QED
  BY <1>6, <1>7, <1>8 DEF Dispatch

\* An admission ends before its limit, so one that had to end by the closure
\* of a failure already concluded cannot end now.
LEMMA VerdictAdmit ==
  ASSUME TypeInv, VerdictInv, NEW h \in Handlers, NEW c \in Callbacks,
         Admit(h, c)
  PROVE  VerdictInv'
<1>1. UNCHANGED <<now, recon, worker>>
  BY DEF Admit
<1>2. now \in Nat /\ worker \in [Workers -> Pass]
      /\ inbox \in [Callbacks -> Receipt] /\ recon \in Reconciliation
      /\ ingress \in [Handlers -> Webhook]
      /\ ClockFollowed /\ Explained(inbox) /\ Verdict(recon, inbox, now)
  BY DEF TypeInv, ProcessesTyped, RowsTyped, VerdictInv
<1>3. now < ingress[h].started + AdmissionLimit
      /\ inbox' = [inbox EXCEPT ![c] = Admitted(c, ingress[h])]
  BY DEF Admit
<1>4. ingress[h].started \in Nat
  BY <1>2 DEF Webhook
<1>5. ClockFollowed'
  BY <1>1, <1>2, ClockKept
<1>6. CASE inbox[c].state # "NONE"
  <2>1. Admitted(c, ingress[h]) = inbox[c]
    BY <1>6 DEF Admitted
  <2>2. inbox' = inbox
    BY <1>2, <1>3, <2>1
  <2> QED
    BY <1>1, <1>2, <1>5, <2>2, SameInbox, RowKept DEF VerdictInv
<1>7. CASE inbox[c].state = "NONE"
  <2> DEFINE receipt == Admitted(c, ingress[h])
  <2>1. receipt.state = "PENDING" /\ receipt.created = ingress[h].started
    BY <1>7 DEF Admitted
  <2>2. \A b \in Callbacks : inbox'[b] = IF b = c THEN receipt ELSE inbox[b]
    BY <1>2, <1>3
  <2> HIDE DEF receipt
  <2>3. Explained(inbox')
    BY <1>2, <2>1, <2>2 DEF Explained
  <2>4. HeardBy(recon, inbox) \subseteq HeardBy(recon, inbox')
    BY <1>7, <2>2 DEF HeardBy
  <2>5. ASSUME recon.state = "FAILED"
        PROVE  InTimeFor(recon, inbox') \subseteq InTimeFor(recon, inbox)
    <3>1. now >= Closure(recon)
      BY <1>2, <2>5 DEF Verdict
    <3>2. Closure(recon) \in Nat /\ AdmissionLimit \in Nat
      BY <1>2, TimeAssumption DEF Closure, Deadline, Reconciliation
    <3>3. ~(inbox'[c].created + AdmissionLimit <= Closure(recon))
      BY <1>2, <1>3, <1>4, <2>1, <2>2, <3>1, <3>2
    <3>4. c \notin InTimeFor(recon, inbox')
      BY <3>3 DEF InTimeFor
    <3> QED
      BY <2>2, <3>4 DEF InTimeFor, HeardBy
  <2>6. Verdict(recon, inbox', now)
    <3>1. ASSUME recon.state = "FAILED"
          PROVE  \E S \in SUBSET HeardBy(recon, inbox') :
                    /\ InTimeFor(recon, inbox') \subseteq S
                    /\ Supports(S, recon.reason)
      <4>1. PICK S \in SUBSET HeardBy(recon, inbox) :
                InTimeFor(recon, inbox) \subseteq S
                /\ Supports(S, recon.reason)
        BY <1>2, <3>1 DEF Verdict
      <4> QED
        BY <2>4, <2>5, <3>1, <4>1
    <3> QED
      BY <1>2, <2>4, <3>1 DEF Verdict
  <2> QED
    BY <1>1, <1>5, <2>3, <2>6 DEF VerdictInv
<1> QED
  BY <1>6, <1>7

LEMMA VerdictIngest ==
  ASSUME TypeInv, VerdictInv, NEW h \in Handlers, Ingest(h)
  PROVE  VerdictInv'
<1>1. UNCHANGED <<now, worker>>
  BY DEF Ingest, Receive, Admit, CorrelateReceipt, ReconcileReceipt,
         IngressStops
<1>2. now \in Nat /\ worker \in [Workers -> Pass]
      /\ inbox \in [Callbacks -> Receipt]
      /\ ClockFollowed /\ Explained(inbox)
  BY DEF TypeInv, ProcessesTyped, RowsTyped, VerdictInv
<1>3. ClockFollowed'
  BY <1>1, <1>2, ClockKept
<1>4. ASSUME UNCHANGED <<recon, inbox>>
      PROVE  VerdictInv'
  BY <1>1, <1>2, <1>3, <1>4, SameInbox, RowKept DEF VerdictInv
<1>5. CASE CorrelateReceipt(h)
  <2>1. ingress[h].cur \in Callbacks
    BY <1>5 DEF TypeInv, ProcessesTyped, CorrelateReceipt
  <2>2. ASSUME inbox[ingress[h].cur].state = "PENDING",
               inbox' = Correlated(inbox, {ingress[h].cur}),
               UNCHANGED recon
        PROVE  VerdictInv'
    <3>1. SameReceipts(inbox, inbox') /\ Explained(inbox')
      BY <1>2, <2>1, <2>2, CorrelationKeeps
    <3> QED
      BY <1>1, <1>2, <1>3, <2>2, <3>1, RowKept DEF VerdictInv
  <2> QED
    BY <1>4, <1>5, <2>2 DEF CorrelateReceipt
<1>6. CASE ReconcileReceipt(h)
  <2>1. ASSUME Reconcile(now)
        PROVE  VerdictInv'
    <3>1. now <= now
      BY <1>2
    <3>2. Verdict(recon', inbox', now) /\ Explained(inbox')
      BY <1>2, <2>1, <3>1, ReconcileFits
    <3> QED
      BY <1>1, <1>3, <3>2 DEF VerdictInv
  <2> QED
    BY <1>4, <1>6, <2>1 DEF ReconcileReceipt, rows
<1>7. CASE (\E W \in Webhooks : Receive(h, W)) \/ IngressStops(h)
  BY <1>4, <1>7 DEF Receive, IngressStops, rows
<1> QED
  BY <1>5, <1>6, <1>7, VerdictAdmit DEF Ingest

LEMMA VerdictWork ==
  ASSUME TypeInv, VerdictInv, NEW w \in Workers, Work(w)
  PROVE  VerdictInv'
<1>1. UNCHANGED <<now, ingress>>
  BY DEF Work, ClaimReceipt, ProcessReceipt, StartSweep, SweepRow,
         SweepFails, EndSweep, WorkerStops
<1>2. now \in Nat /\ worker \in [Workers -> Pass]
      /\ inbox \in [Callbacks -> Receipt] /\ recon \in Reconciliation
      /\ ClockFollowed /\ Explained(inbox)
  BY DEF TypeInv, ProcessesTyped, RowsTyped, VerdictInv
<1>3. worker[w].stamp \in Nat /\ worker[w].stamp <= now
  BY <1>2 DEF Pass, ClockFollowed
<1>4. NoPass.stamp \in Nat /\ NoPass.stamp <= now
  BY <1>2 DEF NoPass
<1>5. ASSUME SameReceipts(inbox, inbox'), Explained(inbox'),
             recon' = recon \/ recon'.state \notin Terminal
      PROVE  Verdict(recon', inbox', now') /\ Explained(inbox')
  BY <1>1, <1>2, <1>5, RowKept
<1>6. ASSUME UNCHANGED <<recon, inbox>>
      PROVE  Verdict(recon', inbox', now') /\ Explained(inbox')
  BY <1>2, <1>5, <1>6, SameInbox
<1>7. ASSUME worker' = [worker EXCEPT ![w] = NoPass]
      PROVE  ClockFollowed'
  BY <1>1, <1>2, <1>4, <1>7, ClockWorker
<1>8. ASSUME NEW c \in Callbacks, ClaimReceipt(w, c)
      PROVE  VerdictInv'
  <2> DEFINE p == [pc |-> "claimed", row |-> c, stamp |-> 0]
             receipt == [inbox[c] EXCEPT !.token = w]
  <2>1. p.stamp \in Nat /\ p.stamp <= now
    BY <1>2
  <2>2. worker' = [worker EXCEPT ![w] = p]
    BY <1>8 DEF ClaimReceipt
  <2>3. inbox' = [inbox EXCEPT ![c] = receipt] /\ inbox[c].state = "PENDING"
        /\ UNCHANGED recon
    BY <1>8 DEF ClaimReceipt
  <2>4. /\ receipt.state = inbox[c].state
        /\ receipt.received = inbox[c].received
        /\ receipt.created = inbox[c].created
    BY <1>2 DEF Receipt
  <2> HIDE DEF p, receipt
  <2>5. ClockFollowed'
    BY <1>1, <1>2, <2>1, <2>2, ClockWorker
  <2>6. SameReceipts(inbox, inbox') /\ Explained(inbox')
    BY <1>2, <2>3, <2>4, OneReceipt
  <2> QED
    BY <1>5, <2>3, <2>5, <2>6 DEF VerdictInv
<1>9. CASE ProcessReceipt(w)
  <2> DEFINE c == worker[w].row
  <2>1. c \in Callbacks
    BY <1>9 DEF ProcessReceipt, TypeInv, ProcessesTyped
  <2>2. ClockFollowed' /\ UNCHANGED recon
    BY <1>7, <1>9 DEF ProcessReceipt
  <2>3. \/ inbox' = inbox
        \/ /\ inbox[c].state = "PENDING"
           /\ \/ inbox' = Correlated(inbox, {c})
              \/ inbox' = [inbox EXCEPT ![c] = Attempted(c, "NOT_FOUND")]
              \/ inbox' = [inbox EXCEPT ![c] = Attempted(c, "ERROR")]
    BY <1>9 DEF ProcessReceipt
  <2>4. ASSUME NEW error \in {"NOT_FOUND", "ERROR"}
        PROVE  /\ Attempted(c, error).state # "NONE"
               /\ Attempted(c, error).received = inbox[c].received
               /\ Attempted(c, error).created = inbox[c].created
               /\ Attempted(c, error).state = "QUARANTINED" =>
                      Attempted(c, error).error \in {"NOT_FOUND", "ERROR"}
    BY DEF Attempted
  <2> HIDE DEF c
  <2>5. SameReceipts(inbox, inbox') /\ Explained(inbox')
    <3>1. CASE inbox' = inbox
      BY <1>2, <3>1, SameInbox
    <3>2. CASE inbox[c].state = "PENDING" /\ inbox' = Correlated(inbox, {c})
      BY <1>2, <2>1, <3>2, CorrelationKeeps
    <3>3. ASSUME NEW error \in {"NOT_FOUND", "ERROR"},
                 inbox[c].state = "PENDING",
                 inbox' = [inbox EXCEPT ![c] = Attempted(c, error)]
          PROVE  SameReceipts(inbox, inbox') /\ Explained(inbox')
      BY <1>2, <2>1, <2>4, <3>3, OneReceipt
    <3> QED
      BY <2>3, <3>1, <3>2, <3>3
  <2> QED
    BY <1>5, <2>2, <2>5 DEF VerdictInv
<1>10. CASE StartSweep(w)
  <2> DEFINE p == [pc |-> "sweep", row |-> None, stamp |-> now]
  <2>1. p.stamp \in Nat /\ p.stamp <= now
    BY <1>2
  <2>2. worker' = [worker EXCEPT ![w] = p]
    BY <1>10 DEF StartSweep
  <2> HIDE DEF p
  <2>3. ClockFollowed'
    BY <1>1, <1>2, <2>1, <2>2, ClockWorker
  <2> QED
    BY <1>6, <1>10, <2>3 DEF VerdictInv, StartSweep, rows
<1>11. CASE SweepRow(w)
  <2>1. Verdict(recon', inbox', now) /\ Explained(inbox') /\ UNCHANGED worker
    BY <1>3, <1>11, ReconcileFits DEF SweepRow
  <2>2. ClockFollowed'
    BY <1>1, <1>2, <2>1, ClockKept
  <2> QED
    BY <1>1, <2>1, <2>2 DEF VerdictInv
<1>12. CASE SweepFails(w)
  <2>1. recon'.state \notin Terminal /\ UNCHANGED inbox
    BY <1>12 DEF SweepFails, Selected, FailedOnce, Terminal
  <2>2. ClockFollowed'
    BY <1>7, <1>12 DEF SweepFails
  <2> QED
    BY <1>2, <1>5, <2>1, <2>2, SameInbox DEF VerdictInv
<1>13. CASE EndSweep(w)
  BY <1>6, <1>7, <1>13 DEF VerdictInv, EndSweep, rows
<1>14. CASE WorkerStops(w)
  <2>1. ASSUME NEW c \in Callbacks
        PROVE  /\ inbox'[c].state = inbox[c].state
               /\ inbox'[c].received = inbox[c].received
               /\ inbox'[c].created = inbox[c].created
               /\ inbox'[c].error = inbox[c].error
    <3>1. inbox[c] \in Receipt
      BY <1>2
    <3>2. inbox'[c] = (IF inbox[c].token = w
                      THEN [inbox[c] EXCEPT !.token = None] ELSE inbox[c])
      BY <1>14 DEF WorkerStops
    <3> QED
      BY <3>1, <3>2 DEF Receipt
  <2>2. SameReceipts(inbox, inbox') /\ Explained(inbox')
    BY <1>2, <2>1 DEF SameReceipts, Explained
  <2>3. ClockFollowed' /\ UNCHANGED recon
    BY <1>7, <1>14 DEF WorkerStops
  <2> QED
    BY <1>5, <2>2, <2>3 DEF VerdictInv
<1> QED
  BY <1>8, <1>9, <1>10, <1>11, <1>12, <1>13, <1>14 DEF Work

LEMMA VerdictStep ==
  ASSUME TypeInv, VerdictInv, [Next]_vars
  PROVE  VerdictInv'
<1>1. now \in Nat /\ worker \in [Workers -> Pass]
      /\ inbox \in [Callbacks -> Receipt]
      /\ ClockFollowed /\ Explained(inbox)
  BY DEF TypeInv, ProcessesTyped, RowsTyped, VerdictInv
<1>2. ASSUME now' \in Nat, now <= now', UNCHANGED <<ingress, worker>>,
             SameReceipts(inbox, inbox'), Explained(inbox'),
             recon' = recon \/ recon'.state \notin Terminal
      PROVE  VerdictInv'
  BY <1>1, <1>2, RowKept, ClockKept DEF VerdictInv
<1>3. CASE OutboxWorker \/ ExpireRun \/ Tick \/ UNCHANGED vars
  <2>1. UNCHANGED <<recon, inbox, ingress, worker>>
    BY <1>3 DEF OutboxWorker, MarkStale, ClaimRetry, DispatchLocally,
       ExpireRun, Tick, vars, rows
  <2>2. now' \in Nat /\ now <= now'
    BY <1>1, <1>3 DEF OutboxWorker, MarkStale, ClaimRetry, DispatchLocally,
       ExpireRun, Tick, vars
  <2> QED
    BY <1>1, <1>2, <2>1, <2>2, SameInbox
<1>4. CASE RequeueReconciliation
  <2>1. UNCHANGED <<now, inbox, ingress, worker>>
        /\ recon'.state \notin Terminal
    BY <1>4 DEF RequeueReconciliation, Terminal
  <2> QED
    BY <1>1, <1>2, <2>1, SameInbox
<1>5. ASSUME NEW c \in Callbacks, RequeueReceipt(c)
      PROVE  VerdictInv'
  <2> DEFINE receipt == [state |-> "PENDING", received |-> inbox[c].received,
                         created |-> inbox[c].created, attempts |-> 0,
                         error |-> "none", token |-> None]
  <2>1. UNCHANGED <<now, recon, ingress, worker>>
        /\ inbox[c].state = "QUARANTINED"
        /\ inbox' = [inbox EXCEPT ![c] = receipt]
    BY <1>5 DEF RequeueReceipt
  <2>2. /\ receipt.state = "PENDING"
        /\ receipt.received = inbox[c].received
        /\ receipt.created = inbox[c].created
    OBVIOUS
  <2> HIDE DEF receipt
  <2>3. SameReceipts(inbox, inbox') /\ Explained(inbox')
    BY <1>1, <2>1, <2>2, OneReceipt
  <2> QED
    BY <1>1, <1>2, <2>1, <2>3
<1> QED
  BY <1>3, <1>4, <1>5, VerdictDispatch, VerdictIngest, VerdictWork
     DEF Next, Operate

LEMMA VerdictInit ==
  ASSUME Init
  PROVE  VerdictInv
<1>1. Verdict(recon, inbox, now)
  BY DEF Init, Verdict
<1>2. Explained(inbox)
  BY DEF Init, NoReceipt, Explained
<1>3. ClockFollowed
  BY DEF Init, NoPass, ClockFollowed
<1> QED
  BY <1>1, <1>2, <1>3 DEF VerdictInv

\* However the provider puts its statuses into requests, and whatever order
\* they are stored and correlated in, the outcome is the one called for by
\* evidence of the window that leaves out none admitted in time
\* (reduce_meta_callback_evidence and its callers).
THEOREM VerdictIsSound == Spec => []VerdictFitsEvidence
<1>1. Init => VerdictInv
  BY VerdictInit
<1>2. TypeInv /\ VerdictInv /\ [Next]_vars => VerdictInv'
  BY VerdictStep
<1>3. VerdictInv => VerdictFitsEvidence
  <2>1. Heard = HeardBy(recon, inbox) /\ InTime = InTimeFor(recon, inbox)
    BY DEF Heard, HeardBy, InTime, InTimeFor
  <2> QED
    BY <2>1 DEF VerdictInv, Verdict, Supports, VerdictFitsEvidence
<1> QED
  BY <1>1, <1>2, <1>3, Typed, PTL DEF Spec
=============================================================================
