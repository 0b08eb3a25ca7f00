------------------------ MODULE ExecutionSafetyProofs ------------------------
(***************************************************************************)
(* Proofs about ExecutionSafety, for any intents, callers and windows.     *)
(***************************************************************************)
EXTENDS ExecutionSafety, FiniteSetTheorems, TLAPS

Held(state) == \E i \in Intents : cons[i] = state

\* The counters and the status of the budget, without cardinalities.
Ledger ==
    /\ budget.reserved = IF Held("RESERVED") THEN 1 ELSE 0
    /\ budget.consumed = IF Held("CONSUMED") THEN 1 ELSE 0
    /\ budget.status = "RESERVED" <=> Held("RESERVED")
    /\ budget.status = "CONSUMED" <=> Held("CONSUMED")

\* The lease names the one intent that ever had a consumption, and its status
\* tells what became of it.
Holder ==
    /\ \A i \in Intents :
          cons[i] # "NONE" => lease.claimant = i /\ Limit = 1
    /\ lease.status \in {"MISSING", "AVAILABLE"} =>
          \A i \in Intents : cons[i] = "NONE"
    /\ lease.status = "CLAIMED" =>
          lease.claimant \in Intents /\ cons[lease.claimant] = "RESERVED"
    /\ lease.status = "CONSUMED" =>
          lease.claimant \in Intents /\ cons[lease.claimant] = "CONSUMED"
    /\ lease.status = "EXPIRED" =>
          /\ now >= LeaseExpires
          /\ \A i \in Intents : cons[i] # "CONSUMED"
    /\ \A i \in Intents : cons[i] = "RELEASED" => lease.status = "EXPIRED"

\* An outbox row is bound to a consumption that is not given back, and its
\* effect is sent once, after a worker has claimed the row.
Bound ==
    \A i \in Intents :
        /\ outbox[i] # "NONE" => cons[i] \in {"RESERVED", "CONSUMED"}
        /\ outbox[i] \in {"NONE", "PENDING"} => sent[i] = 0
        /\ sent[i] <= 1

Dispatching == {"claimed", "revalidate", "send", "confirm", "finalize"}

\* What the transactions in progress still know of the rows they have read.
Remembered ==
    \A c \in Callers :
        LET s == tx[c] IN
        /\ s.op # "idle" => s.intent \in Intents
        /\ s.op = "reserve" =>
              /\ lease.status # "MISSING"
              /\ s.lease.status = "AVAILABLE" => s.budget.reserved = 0
        /\ s.op = "enqueue" => cons[s.intent] # "NONE"
        /\ s.op \in Dispatching => outbox[s.intent] \in {"PROCESSING", "RECONCILE"}
        /\ s.op \in {"claimed", "revalidate", "send"} => sent[s.intent] = 0

\* Two workers never dispatch the same effect.
Sole ==
    \A c, d \in Callers :
        tx[c].op \in Dispatching /\ tx[d].op \in Dispatching
            /\ tx[c].intent = tx[d].intent
        => c = d

IInv == TypeOK /\ Ledger /\ Holder /\ Bound /\ Remembered /\ Sole

-----------------------------------------------------------------------------

LEMMA Types ==
  ASSUME TypeOK, NEW c \in Callers
  PROVE  /\ lease.status \in
              {"MISSING", "AVAILABLE", "CLAIMED", "CONSUMED", "EXPIRED"}
         /\ lease.claimant \in Intents \cup {NoIntent} /\ lease.claims \in 0..1
         /\ budget.reserved \in Nat /\ budget.consumed \in Nat
         /\ tx[c] \in Transaction
         /\ tx[c].intent \in Intents \cup {NoIntent}
         /\ tx[c].lease \in Lease /\ tx[c].budget \in Budget
         /\ tx[c].budget.reserved \in Nat
  BY DEF TypeOK, Lease, Budget, Transaction

LEMMA SnapshotTyped ==
  ASSUME TypeOK, NEW i \in Intents,
         NEW op \in {"reserve", "enqueue", "revalidate", "finalize"}
  PROVE  Snapshot(op, i) \in Transaction
  BY DEF TypeOK, Snapshot, Transaction

LEMMA IdleTyped == Idle \in Transaction /\ NoLease \in Lease /\ NoBudget \in Budget
  BY DEF Idle, Transaction, RunStatus, Lease, NoLease, Budget, NoBudget,
         ConsumptionState

LEMMA InitHolds == Init => IInv
<1> SUFFICES ASSUME Init PROVE IInv
  OBVIOUS
<1>1. TypeOK
  BY IdleTyped DEF Init, TypeOK, RunStatus, ConsumptionState, OutboxStatus
<1>2. Ledger /\ Holder
  BY DEF Init, Ledger, Holder, Held, NoLease, NoBudget
<1>3. Bound /\ Remembered /\ Sole
  BY DEF Init, Bound, Remembered, Sole, Idle, Dispatching
<1> QED
  BY <1>1, <1>2, <1>3 DEF IInv

\* A step that leaves the transactions of the callers alone and takes no row
\* from them keeps what they remember.
LEMMA RunStepKeeps ==
  ASSUME IInv, RunStep
  PROVE  IInv'
<1> USE DEF IInv
<1>1. CASE Provision
  <2>1. TypeOK'
    BY <1>1, IdleTyped DEF Provision, TypeOK, NoLease, NoBudget, Lease, Budget
  <2>2. /\ lease'.status = "AVAILABLE" /\ budget'.status = "AVAILABLE"
        /\ budget'.reserved = 0 /\ budget'.consumed = 0
    BY <1>1 DEF Provision, NoLease, NoBudget
  <2>3. \A i \in Intents : cons[i] = "NONE"
    BY <1>1 DEF Provision, Holder
  <2>4. Ledger' /\ Holder'
    BY <1>1, <2>2, <2>3 DEF Provision, Ledger, Holder, Held
  <2>5. Bound' /\ Remembered' /\ Sole'
    BY <1>1, <2>2 DEF Provision, Bound, Remembered, Sole
  <2> QED
    BY <2>1, <2>4, <2>5
<1>2. CASE Activate \/ AbortRun \/ ExpireRun
  <2>1. /\ run' \in RunStatus
        /\ UNCHANGED <<now, lease, budget, cons, outbox, sent, tx>>
    BY <1>2 DEF Activate, AbortRun, ExpireRun, RunStatus
  <2>2. TypeOK'
    BY <2>1 DEF TypeOK
  <2>3. Ledger' /\ Holder' /\ Bound' /\ Remembered' /\ Sole'
    BY <2>1 DEF Ledger, Holder, Held, Bound, Remembered, Sole
  <2> QED
    BY <2>2, <2>3
<1> QED
  BY <1>1, <1>2 DEF RunStep

\* A claim is granted only while no intent has a consumption.
LEMMA ClaimFindsFree ==
  ASSUME IInv, NEW c \in Callers, tx[c].op = "reserve", Claimable(tx[c])
  PROVE  /\ \A i \in Intents : cons[i] = "NONE"
         /\ Limit = 1
         /\ lease.status = "AVAILABLE"
         /\ tx[c].budget.reserved = 0 /\ budget.consumed = 0
<1> DEFINE Taken == {j \in Intents : cons[j] \in {"RESERVED", "CONSUMED"}}
<1>1. Taken \subseteq {lease.claimant}
  BY DEF IInv, Holder
<1>2. IsFiniteSet({lease.claimant})
  BY FS_Singleton
<1>3. IsFiniteSet(Taken)
  BY <1>1, <1>2, FS_Subset
<1>4. Cardinality(Taken) \in Nat
  BY <1>3, FS_CardinalityType
<1>5. Cardinality(Taken) < Limit
  BY DEF Claimable, SlotsTaken
<1>6. Limit = 1 /\ Cardinality(Taken) = 0
  BY <1>4, <1>5, LimitAssumption
<1>7. Taken = {}
  BY <1>3, <1>6, FS_EmptySet
<1>8. now < LeaseExpires /\ now \in Nat /\ LeaseExpires \in Nat
  BY WindowAssumption DEF IInv, TypeOK, Claimable, StillValid
<1>9. lease.status # "EXPIRED"
  BY <1>8 DEF IInv, Holder
<1>10. cons \in [Intents -> ConsumptionState]
  BY DEF IInv, TypeOK
<1>11. \A i \in Intents : cons[i] = "NONE"
  BY <1>7, <1>9, <1>10 DEF IInv, Holder, ConsumptionState
<1>12. lease.status = "AVAILABLE"
  <2>1. lease.status # "MISSING"
    BY DEF IInv, Remembered
  <2>2. lease.status # "CONSUMED"
    BY <1>11 DEF IInv, Holder
  <2>3. lease.status # "CLAIMED"
    BY <1>11 DEF IInv, Holder
  <2> QED
    BY <2>1, <2>2, <2>3, <1>9, Types DEF IInv
<1>13. tx[c].budget.reserved = 0
  BY DEF IInv, Remembered, Claimable
<1>14. budget.consumed = 0
  BY <1>11 DEF IInv, Ledger, Held
<1> QED
  BY <1>6, <1>11, <1>12, <1>13, <1>14

LEMMA ReserveKeeps ==
  ASSUME IInv, NEW c \in Callers, Reserve(c)
  PROVE  IInv'
<1> DEFINE i == tx[c].intent
<1>1. /\ \A j \in Intents : cons[j] = "NONE"
      /\ Limit = 1 /\ lease.status = "AVAILABLE"
      /\ tx[c].budget.reserved = 0 /\ budget.consumed = 0
  BY ClaimFindsFree DEF Reserve
<1>2. i \in Intents /\ tx[c].op = "reserve"
  BY DEF Reserve, IInv, Remembered
<1>3. TypeOK
  BY DEF IInv
<1>4. tx[c].budget \in Budget /\ tx[c].lease.claims = 0
  BY <1>3, Types DEF Reserve, Claimable
<1>5. budget' = [status |-> "RESERVED", reserved |-> 1, consumed |-> 0]
  BY <1>1 DEF Reserve
<1>6. lease' = [status |-> "CLAIMED", claimant |-> i, claims |-> 1]
  BY <1>4 DEF Reserve
<1>7. cons' = [cons EXCEPT ![i] = "RESERVED"] /\ cons \in [Intents -> ConsumptionState]
  BY <1>3 DEF Reserve, TypeOK
<1>8. /\ cons'[i] = "RESERVED"
      /\ \A j \in Intents : j # i => cons'[j] = "NONE"
  BY <1>1, <1>2, <1>7
<1>9. tx' = [tx EXCEPT ![c] = Idle] /\ UNCHANGED <<now, run, outbox, sent>>
  BY DEF Reserve, Stop
<1>10. TypeOK'
  <2>1. budget' \in Budget /\ lease' \in Lease
    BY <1>2, <1>5, <1>6 DEF Budget, Lease
  <2>2. cons' \in [Intents -> ConsumptionState]
    BY <1>7 DEF ConsumptionState
  <2>3. tx' \in [Callers -> Transaction]
    BY <1>3, <1>9, IdleTyped DEF TypeOK
  <2> QED
    BY <1>3, <1>9, <2>1, <2>2, <2>3 DEF TypeOK
<1>11. Ledger'
  BY <1>2, <1>5, <1>8 DEF Ledger, Held
<1>12. Holder'
  BY <1>1, <1>2, <1>6, <1>8 DEF Holder
<1>13. Bound'
  BY <1>1, <1>9 DEF IInv, Bound
<1>14. Remembered'
  <2> SUFFICES ASSUME NEW d \in Callers PROVE Remembered!(d)'
    BY DEF Remembered
  <2>1. tx' [d] = IF d = c THEN Idle ELSE tx[d]
    BY <1>3, <1>9 DEF TypeOK
  <2>2. lease'.status = "CLAIMED"
    BY <1>6
  <2>3. tx[d].op = "enqueue" => tx[d].intent \in Intents /\ cons[tx[d].intent] # "NONE"
    BY DEF IInv, Remembered
  <2>4. tx[d].op # "enqueue"
    BY <1>1, <2>3
  <2> QED
    BY <1>9, <2>1, <2>2, <2>4 DEF IInv, Remembered, Idle, Dispatching
<1>15. Sole'
  BY <1>3, <1>9 DEF IInv, Sole, TypeOK, Idle, Dispatching
<1> QED
  BY <1>10, <1>11, <1>12, <1>13, <1>14, <1>15 DEF IInv

\* Steps that change nothing but what one caller is doing.
LEMMA QuietKeeps ==
  ASSUME IInv, NEW c \in Callers,
         UNCHANGED <<now, run, lease, budget, cons, outbox, sent>>,
         \/ \E i \in Intents : ReserveRead(c, i) \/ EnqueueRead(c, i)
         \/ RevalidateRead(c) \/ FinalizeRead(c)
         \/ tx[c].op = "revalidate" /\ Become(c, "send")
         \/ Stop(c)
  PROVE  IInv'
<1>1. TypeOK /\ tx \in [Callers -> Transaction]
  BY DEF IInv, TypeOK
<1>2. Ledger' /\ Holder' /\ Bound'
  BY DEF IInv, Ledger, Held, Holder, Bound
<1>3. ASSUME NEW i \in Intents, ReserveRead(c, i) \/ EnqueueRead(c, i)
      PROVE  TypeOK' /\ Remembered' /\ Sole'
  <2> DEFINE op == IF ReserveRead(c, i) THEN "reserve" ELSE "enqueue"
  <2>1. tx' = [tx EXCEPT ![c] = Snapshot(op, i)] /\ op \in {"reserve", "enqueue"}
    BY <1>3 DEF ReserveRead, EnqueueRead
  <2>2. TypeOK'
    BY <1>1, <2>1, SnapshotTyped DEF TypeOK
  <2>3. /\ tx'[c].op = op /\ tx'[c].intent = i
        /\ tx'[c].lease = lease /\ tx'[c].budget = budget
        /\ \A d \in Callers : d # c => tx'[d] = tx[d]
    BY <1>1, <2>1 DEF Snapshot
  <2>4. op = "reserve" => lease.status # "MISSING"
    BY <1>3 DEF ReserveRead
  <2>5. lease.status = "AVAILABLE" => budget.reserved = 0
    BY DEF IInv, Holder, Ledger, Held
  <2>6. op = "enqueue" => cons[i] # "NONE"
    BY <1>3 DEF EnqueueRead
  <2>7. Remembered'
    BY <2>1, <2>3, <2>4, <2>5, <2>6 DEF IInv, Remembered, Dispatching
  <2>8. Sole'
    BY <2>1, <2>3 DEF IInv, Sole, Dispatching
  <2> QED
    BY <2>2, <2>7, <2>8
<1>4. ASSUME \/ RevalidateRead(c) \/ FinalizeRead(c)
             \/ tx[c].op = "revalidate" /\ Become(c, "send")
      PROVE  TypeOK' /\ Remembered' /\ Sole'
  <2>1. /\ tx[c].op \in Dispatching /\ tx'[c].op \in Dispatching
        /\ tx'[c].intent = tx[c].intent
        /\ tx'[c].op \in {"claimed", "revalidate", "send"} =>
              tx[c].op \in {"claimed", "revalidate", "send"}
        /\ \A d \in Callers : d # c => tx'[d] = tx[d]
        /\ tx' \in [Callers -> Transaction]
    <3>1. CASE RevalidateRead(c) \/ FinalizeRead(c)
      <4>1. tx[c].intent \in Intents
        BY <3>1 DEF IInv, Remembered, RevalidateRead, FinalizeRead
      <4>2. PICK op \in {"revalidate", "finalize"} :
              /\ tx' = [tx EXCEPT ![c] = Snapshot(op, tx[c].intent)]
              /\ tx[c].op = IF op = "revalidate" THEN "claimed" ELSE "confirm"
        BY <3>1 DEF RevalidateRead, FinalizeRead
      <4>3. Snapshot(op, tx[c].intent) \in Transaction
        BY <1>1, <4>1, SnapshotTyped
      <4>4. tx'[c] = Snapshot(op, tx[c].intent)
        BY <1>1, <4>2
      <4>5. tx'[c].op = op /\ tx'[c].intent = tx[c].intent
        BY <4>4 DEF Snapshot
      <4>6. tx' \in [Callers -> Transaction] /\ \A d \in Callers : d # c => tx'[d] = tx[d]
        BY <1>1, <4>2, <4>3
      <4> QED
        BY <4>2, <4>5, <4>6 DEF Dispatching
    <3>2. CASE tx[c].op = "revalidate" /\ Become(c, "send")
      BY <1>1, <3>2 DEF Become, Transaction, Dispatching
    <3> QED
      BY <1>4, <3>1, <3>2
  <2>2. TypeOK'
    BY <1>1, <2>1 DEF TypeOK
  <2>3. Remembered'
    BY <2>1 DEF IInv, Remembered, Dispatching
  <2>4. Sole'
    BY <2>1 DEF IInv, Sole
  <2> QED
    BY <2>2, <2>3, <2>4
<1>5. ASSUME Stop(c) PROVE TypeOK' /\ Remembered' /\ Sole'
  <2>1. /\ tx'[c] = Idle /\ \A d \in Callers : d # c => tx'[d] = tx[d]
        /\ tx' \in [Callers -> Transaction]
    BY <1>1, <1>5, IdleTyped DEF Stop
  <2>2. TypeOK'
    BY <1>1, <2>1 DEF TypeOK
  <2>3. Remembered'
    BY <2>1 DEF IInv, Remembered, Idle, Dispatching
  <2>4. Sole'
    BY <2>1 DEF IInv, Sole, Idle, Dispatching
  <2> QED
    BY <2>2, <2>3, <2>4
<1> QED
  BY <1>2, <1>3, <1>4, <1>5 DEF IInv

LEMMA EnqueueKeeps ==
  ASSUME IInv, NEW c \in Callers, Enqueue(c)
  PROVE  IInv'
<1> DEFINE i == tx[c].intent
<1>1. TypeOK /\ tx \in [Callers -> Transaction] /\ outbox \in [Intents -> OutboxStatus]
  BY DEF IInv, TypeOK
<1>2. i \in Intents /\ cons[i] # "NONE" /\ outbox[i] = "NONE"
  BY DEF Enqueue, IInv, Remembered
<1>3. cons[i] \in {"RESERVED", "CONSUMED"}
  <2>1. now < LeaseExpires /\ now \in Nat /\ LeaseExpires \in Nat
    BY <1>1, WindowAssumption DEF Enqueue, DispatchAllowed, StillValid, TypeOK
  <2>2. lease.status # "EXPIRED"
    BY <2>1 DEF IInv, Holder
  <2>3. cons[i] # "RELEASED"
    BY <1>2, <2>2 DEF IInv, Holder
  <2> QED
    BY <1>1, <1>2, <2>3 DEF TypeOK, ConsumptionState
<1>4. /\ outbox' = [outbox EXCEPT ![i] = "PENDING"]
      /\ tx' = [tx EXCEPT ![c] = Idle]
      /\ UNCHANGED <<now, run, lease, budget, cons, sent>>
  BY DEF Enqueue, Stop
<1>5. TypeOK'
  BY <1>1, <1>4, IdleTyped DEF TypeOK, OutboxStatus
<1>6. Ledger' /\ Holder'
  BY <1>4 DEF IInv, Ledger, Held, Holder
<1>7. Bound'
  BY <1>1, <1>2, <1>3, <1>4 DEF IInv, Bound
<1>8. Remembered'
  BY <1>1, <1>2, <1>4 DEF IInv, Remembered, Idle, Dispatching
<1>9. Sole'
  BY <1>1, <1>4 DEF IInv, Sole, Idle, Dispatching
<1> QED
  BY <1>5, <1>6, <1>7, <1>8, <1>9 DEF IInv

LEMMA ClaimOutboxKeeps ==
  ASSUME IInv, NEW c \in Callers, NEW i \in Intents, ClaimOutbox(c, i)
  PROVE  IInv'
<1> DEFINE t == [Idle EXCEPT !.op = "claimed", !.intent = i]
<1>1. TypeOK /\ tx \in [Callers -> Transaction] /\ outbox \in [Intents -> OutboxStatus]
  BY DEF IInv, TypeOK
<1>2. /\ outbox[i] = "PENDING" /\ outbox' = [outbox EXCEPT ![i] = "PROCESSING"]
      /\ tx' = [tx EXCEPT ![c] = t]
      /\ UNCHANGED <<now, run, lease, budget, cons, sent>>
  BY DEF ClaimOutbox
<1>3. t \in Transaction /\ t.op = "claimed" /\ t.intent = i
  BY IdleTyped DEF Idle, Transaction
<1>4. TypeOK'
  BY <1>1, <1>2, <1>3 DEF TypeOK, OutboxStatus
<1>5. Ledger' /\ Holder'
  BY <1>2 DEF IInv, Ledger, Held, Holder
<1>6. Bound'
  BY <1>1, <1>2 DEF IInv, Bound
<1>7. sent[i] = 0
  BY <1>2 DEF IInv, Bound
<1>8. Remembered'
  BY <1>1, <1>2, <1>3, <1>7 DEF IInv, Remembered, Dispatching
<1>9. \A d \in Callers : tx[d].op \in Dispatching => tx[d].intent # i
  BY <1>2 DEF IInv, Remembered
<1>10. Sole'
  BY <1>1, <1>2, <1>3, <1>9 DEF IInv, Sole
<1> QED
  BY <1>4, <1>5, <1>6, <1>8, <1>10 DEF IInv

\* A worker that gives an outbox row its outcome.
LEMMA OutcomeKeeps ==
  ASSUME IInv, NEW c \in Callers, tx[c].op \in Dispatching,
         NEW status \in {"BLOCKED", "RECONCILE", "DONE"},
         outbox' = [outbox EXCEPT ![tx[c].intent] = status],
         Stop(c)
  PROVE  /\ tx[c].intent \in Intents
         /\ outbox' \in [Intents -> OutboxStatus]
         /\ tx' \in [Callers -> Transaction]
         /\ \A i \in Intents :
               /\ outbox'[i] # "NONE" => outbox[i] # "NONE"
               /\ outbox'[i] \in {"NONE", "PENDING"} => outbox'[i] = outbox[i]
         /\ \A d \in Callers :
               IF d = c THEN tx'[d] = Idle
               ELSE /\ tx'[d] = tx[d]
                    /\ tx[d].op \in Dispatching =>
                          /\ tx[d].intent # tx[c].intent
                          /\ outbox'[tx[d].intent] = outbox[tx[d].intent]
         /\ Sole'
<1>1. TypeOK /\ tx \in [Callers -> Transaction] /\ outbox \in [Intents -> OutboxStatus]
  BY DEF IInv, TypeOK
<1>2. /\ \A d \in Callers : tx[d].op \in Dispatching => tx[d].intent \in Intents
      /\ outbox[tx[c].intent] \in {"PROCESSING", "RECONCILE"}
  BY DEF IInv, Remembered, Dispatching
<1>3. outbox' \in [Intents -> OutboxStatus]
  BY <1>1, <1>2 DEF OutboxStatus
<1>4. \A i \in Intents : outbox'[i] = IF i = tx[c].intent THEN status ELSE outbox[i]
  BY <1>1, <1>2
<1>5. tx' \in [Callers -> Transaction]
      /\ \A d \in Callers : tx'[d] = IF d = c THEN Idle ELSE tx[d]
  BY <1>1, IdleTyped DEF Stop
<1>6. \A d \in Callers :
        d # c /\ tx[d].op \in Dispatching => tx[d].intent # tx[c].intent
  BY DEF IInv, Sole
<1>7. Sole'
  BY <1>5 DEF IInv, Sole, Idle, Dispatching
<1> QED
  BY <1>2, <1>3, <1>4, <1>5, <1>6, <1>7

LEMMA RevalidateKeeps ==
  ASSUME IInv, NEW c \in Callers, Revalidate(c)
  PROVE  IInv'
<1>1. CASE DispatchAllowed(tx[c])
  <2>1. /\ UNCHANGED <<now, run, lease, budget, cons, outbox, sent>>
        /\ tx[c].op = "revalidate" /\ Become(c, "send")
    BY <1>1 DEF Revalidate
  <2> QED
    BY <2>1, QuietKeeps
<1>2. CASE ~DispatchAllowed(tx[c])
  <2>1. /\ UNCHANGED <<now, run, lease, budget, cons, sent>>
        /\ outbox' = [outbox EXCEPT ![tx[c].intent] = "BLOCKED"] /\ Stop(c)
        /\ tx[c].op \in Dispatching
    BY <1>2 DEF Revalidate, Dispatching
  <2>2. /\ outbox' \in [Intents -> OutboxStatus]
        /\ tx' \in [Callers -> Transaction]
        /\ \A i \in Intents :
              /\ outbox'[i] # "NONE" => outbox[i] # "NONE"
              /\ outbox'[i] \in {"NONE", "PENDING"} => outbox'[i] = outbox[i]
        /\ \A d \in Callers :
              IF d = c THEN tx'[d] = Idle
              ELSE /\ tx'[d] = tx[d]
                   /\ tx[d].op \in Dispatching =>
                         outbox'[tx[d].intent] = outbox[tx[d].intent]
        /\ Sole'
    BY <2>1, OutcomeKeeps
  <2>3. TypeOK'
    BY <2>1, <2>2 DEF IInv, TypeOK
  <2>4. Ledger' /\ Holder'
    BY <2>1 DEF IInv, Ledger, Held, Holder
  <2>5. Bound'
    BY <2>1, <2>2 DEF IInv, Bound
  <2>6. Remembered'
    BY <2>1, <2>2 DEF IInv, Remembered, Idle, Dispatching
  <2> QED
    BY <2>2, <2>3, <2>4, <2>5, <2>6 DEF IInv
<1> QED
  BY <1>1, <1>2

LEMMA SendKeeps ==
  ASSUME IInv, NEW c \in Callers, Send(c)
  PROVE  IInv'
<1> DEFINE i == tx[c].intent
<1>1. TypeOK /\ tx \in [Callers -> Transaction] /\ sent \in [Intents -> Nat]
  BY DEF IInv, TypeOK
<1>2. /\ i \in Intents /\ sent[i] = 0 /\ outbox[i] \in {"PROCESSING", "RECONCILE"}
      /\ tx[c].op = "send" /\ tx[c].op \in Dispatching
  BY DEF Send, IInv, Remembered, Dispatching
<1>3. /\ sent' = [sent EXCEPT ![i] = 1]
      /\ UNCHANGED <<now, run, lease, budget, cons>>
  BY <1>2 DEF Send
<1>4. sent' \in [Intents -> Nat]
      /\ \A j \in Intents : sent'[j] = IF j = i THEN 1 ELSE sent[j]
  BY <1>1, <1>2, <1>3
<1>5. Ledger' /\ Holder'
  BY <1>3 DEF IInv, Ledger, Held, Holder
<1>6. /\ outbox' \in [Intents -> OutboxStatus]
      /\ tx' \in [Callers -> Transaction]
      /\ \A j \in Intents :
            /\ outbox'[j] # "NONE" => outbox[j] # "NONE"
            /\ outbox'[j] \in {"NONE", "PENDING"} => outbox'[j] = outbox[j]
      /\ \A d \in Callers :
            IF d = c
            THEN \/ tx'[d] = Idle
                 \/ /\ tx'[d].op = "confirm" /\ tx'[d].intent = i
                    /\ outbox'[i] = outbox[i]
            ELSE /\ tx'[d] = tx[d]
                 /\ tx[d].op \in Dispatching =>
                       /\ tx[d].intent # i
                       /\ outbox'[tx[d].intent] = outbox[tx[d].intent]
      /\ Sole'
  <2>1. CASE Become(c, "confirm") /\ UNCHANGED outbox
    <3>1. tx' = [tx EXCEPT ![c].op = "confirm"]
      BY <2>1 DEF Become
    <3>2. /\ tx' \in [Callers -> Transaction]
          /\ tx'[c].op = "confirm" /\ tx'[c].intent = i
          /\ \A d \in Callers : d # c => tx'[d] = tx[d]
      BY <1>1, <3>1 DEF Transaction
    <3>3. outbox' \in [Intents -> OutboxStatus]
      BY <1>1, <2>1 DEF TypeOK
    <3>4. \A d \in Callers : d # c /\ tx[d].op \in Dispatching => tx[d].intent # i
      BY <1>2 DEF IInv, Sole
    <3>5. Sole'
      BY <1>2, <3>2 DEF IInv, Sole, Dispatching
    <3> QED
      BY <2>1, <3>2, <3>3, <3>4, <3>5
  <2>2. CASE Stop(c) /\ outbox' = [outbox EXCEPT ![i] = "RECONCILE"]
    <3>1. outbox' = [outbox EXCEPT ![tx[c].intent] = "RECONCILE"] /\ Stop(c)
      BY <2>2
    <3>2. tx[c].op \in Dispatching
      BY <1>2
    <3>3. /\ outbox' \in [Intents -> OutboxStatus]
          /\ tx' \in [Callers -> Transaction]
          /\ \A j \in Intents :
                /\ outbox'[j] # "NONE" => outbox[j] # "NONE"
                /\ outbox'[j] \in {"NONE", "PENDING"} => outbox'[j] = outbox[j]
          /\ \A d \in Callers :
                IF d = c THEN tx'[d] = Idle
                ELSE /\ tx'[d] = tx[d]
                     /\ tx[d].op \in Dispatching =>
                           /\ tx[d].intent # tx[c].intent
                           /\ outbox'[tx[d].intent] = outbox[tx[d].intent]
          /\ Sole'
      BY <3>1, <3>2, OutcomeKeeps
    <3> QED
      BY <3>3
  <2> QED
    BY <2>1, <2>2 DEF Send
<1>7. TypeOK'
  BY <1>1, <1>3, <1>4, <1>6 DEF TypeOK
<1>8. Bound'
  BY <1>2, <1>3, <1>4, <1>6 DEF IInv, Bound
<1>9. Remembered'
  <2> SUFFICES ASSUME NEW d \in Callers PROVE Remembered!(d)'
    BY DEF Remembered
  <2>1. CASE d = c
    BY <1>2, <1>6, <2>1 DEF Remembered, Idle, Dispatching
  <2>2. CASE d # c
    <3>1. tx'[d] = tx[d] /\ Remembered!(d)
      BY <1>6, <2>2 DEF IInv, Remembered
    <3>2. tx[d].op \in Dispatching =>
             /\ tx[d].intent \in Intents /\ tx[d].intent # i
             /\ outbox'[tx[d].intent] = outbox[tx[d].intent]
             /\ sent'[tx[d].intent] = sent[tx[d].intent]
      BY <1>4, <1>6, <2>2, <3>1 DEF Dispatching
    <3> QED
      BY <1>3, <3>1, <3>2 DEF Dispatching
  <2> QED
    BY <2>1, <2>2
<1> QED
  BY <1>5, <1>6, <1>7, <1>8, <1>9 DEF IInv

\* The one consumption that a finalization spends.
LEMMA FinalizeFindsHeld ==
  ASSUME IInv, NEW c \in Callers, tx[c].op = "finalize", Finalizable(tx[c])
  PROVE  /\ tx[c].intent \in Intents /\ cons[tx[c].intent] = "RESERVED"
         /\ \A j \in Intents : j # tx[c].intent => cons[j] = "NONE"
         /\ lease.claimant = tx[c].intent
         /\ budget.reserved = 1 /\ budget.consumed = 0 /\ Limit = 1
         /\ lease.status \in {"CLAIMED", "EXPIRED"}
<1> DEFINE i == tx[c].intent
<1>1. i \in Intents /\ outbox[i] # "NONE"
  BY DEF IInv, Remembered, Dispatching
<1>2. cons[i] \in {"RESERVED", "CONSUMED"}
  BY <1>1 DEF IInv, Bound
<1>3. lease.claimant = i /\ Limit = 1 /\ \A j \in Intents : j # i => cons[j] = "NONE"
  BY <1>1, <1>2 DEF IInv, Holder
<1>4. Held("RESERVED")
  BY DEF IInv, Ledger, Finalizable
<1>5. cons[i] = "RESERVED"
  BY <1>3, <1>4 DEF Held
<1>6. budget.reserved = 1 /\ budget.consumed = 0
  BY <1>1, <1>3, <1>4, <1>5 DEF IInv, Ledger, Held
<1>7. lease.status \in {"CLAIMED", "EXPIRED"}
  BY <1>1, <1>3, <1>5, Types DEF IInv, Holder
<1> QED
  BY <1>1, <1>3, <1>5, <1>6, <1>7

LEMMA FinalizeKeeps ==
  ASSUME IInv, NEW c \in Callers, Finalize(c)
  PROVE  IInv'
<1> DEFINE i == tx[c].intent
<1>1. TypeOK
  BY DEF IInv
<1>2. /\ tx[c].op = "finalize" /\ tx[c].op \in Dispatching
      /\ UNCHANGED <<now, run, sent>>
  BY DEF Finalize, Dispatching
<1>3. /\ i \in Intents
      /\ outbox' \in [Intents -> OutboxStatus]
      /\ tx' \in [Callers -> Transaction]
      /\ \A j \in Intents :
            /\ outbox'[j] # "NONE" => outbox[j] # "NONE"
            /\ outbox'[j] \in {"NONE", "PENDING"} => outbox'[j] = outbox[j]
      /\ \A d \in Callers :
            IF d = c THEN tx'[d] = Idle
            ELSE /\ tx'[d] = tx[d]
                 /\ tx[d].op \in Dispatching =>
                       outbox'[tx[d].intent] = outbox[tx[d].intent]
      /\ Sole'
  <2>1. PICK status \in {"RECONCILE", "DONE"} :
          outbox' = [outbox EXCEPT ![i] = status] /\ Stop(c)
    BY DEF Finalize
  <2> QED
    BY <1>2, <2>1, OutcomeKeeps
<1>4. CASE Finalizable(tx[c])
  <2>1. /\ cons[i] = "RESERVED" /\ \A j \in Intents : j # i => cons[j] = "NONE"
        /\ lease.claimant = i /\ budget.reserved = 1 /\ budget.consumed = 0
        /\ Limit = 1 /\ lease.status \in {"CLAIMED", "EXPIRED"}
    BY <1>2, <1>4, FinalizeFindsHeld
  <2>2. /\ budget' = Consumed(budget)
        /\ cons' = [cons EXCEPT ![i] = "CONSUMED"]
        /\ lease' = [lease EXCEPT !.status = "CONSUMED"]
    BY <1>4 DEF Finalize
  <2>3. budget' = [reserved |-> 0, consumed |-> 1, status |-> "CONSUMED"]
    BY <2>1, <2>2 DEF Consumed
  <2>4. lease' \in Lease /\ lease'.status = "CONSUMED" /\ lease'.claimant = i
    BY <1>1, <2>1, <2>2 DEF TypeOK, Lease
  <2>5. /\ cons' \in [Intents -> ConsumptionState]
        /\ cons'[i] = "CONSUMED" /\ \A j \in Intents : j # i => cons'[j] = "NONE"
    BY <1>1, <1>3, <2>1, <2>2 DEF TypeOK, ConsumptionState
  <2>6. budget' \in Budget
    BY <2>3 DEF Budget
  <2>7. TypeOK'
    BY <1>1, <1>2, <1>3, <2>4, <2>5, <2>6 DEF TypeOK
  <2>8. Ledger'
    BY <1>3, <2>3, <2>5 DEF Ledger, Held
  <2>9. Holder'
    BY <1>3, <2>1, <2>4, <2>5 DEF Holder
  <2>10. Bound'
    BY <1>2, <1>3, <2>1, <2>5 DEF IInv, Bound
  <2>11. Remembered'
    BY <1>2, <1>3, <2>1, <2>4, <2>5 DEF IInv, Remembered, Idle, Dispatching
  <2> QED
    BY <1>3, <2>7, <2>8, <2>9, <2>10, <2>11 DEF IInv
<1>5. CASE ~Finalizable(tx[c])
  <2>1. UNCHANGED <<now, run, lease, budget, cons, sent>>
    BY <1>2, <1>5 DEF Finalize
  <2>2. TypeOK'
    BY <1>1, <1>3, <2>1 DEF TypeOK
  <2>3. Ledger' /\ Holder'
    BY <2>1 DEF IInv, Ledger, Held, Holder
  <2>4. Bound'
    BY <1>3, <2>1 DEF IInv, Bound
  <2>5. Remembered'
    BY <1>3, <2>1 DEF IInv, Remembered, Idle, Dispatching
  <2> QED
    BY <1>3, <2>2, <2>3, <2>4, <2>5 DEF IInv
<1> QED
  BY <1>4, <1>5

LEMMA ExpireKeeps ==
  ASSUME IInv, ExpireStaleLease
  PROVE  IInv'
<1>1. TypeOK /\ cons \in [Intents -> ConsumptionState]
  BY DEF IInv, TypeOK
<1>2. /\ lease.status \in {"AVAILABLE", "CLAIMED"} /\ now >= LeaseExpires
      /\ lease' = [lease EXCEPT !.status = "EXPIRED"]
      /\ cons' = [i \in Intents |-> IF Releasable(i) THEN "RELEASED" ELSE cons[i]]
      /\ budget' = IF \E i \in Intents : Releasable(i) THEN Released(budget) ELSE budget
      /\ UNCHANGED <<now, run, outbox, sent, tx>>
  BY DEF ExpireStaleLease
<1>3. lease' \in Lease /\ lease'.status = "EXPIRED" /\ lease'.claimant = lease.claimant
  BY <1>1, <1>2 DEF TypeOK, Lease
<1>4. cons' \in [Intents -> ConsumptionState]
  BY <1>1, <1>2 DEF ConsumptionState
<1>5. \A i \in Intents : cons[i] \in {"NONE", "RESERVED"}
  BY <1>1, <1>2 DEF IInv, Holder, ConsumptionState
<1>6. \A i \in Intents :
        /\ Releasable(i) => cons[i] = "RESERVED" /\ outbox[i] = "NONE"
        /\ cons'[i] = IF Releasable(i) THEN "RELEASED" ELSE cons[i]
        /\ cons'[i] # "NONE" <=> cons[i] # "NONE"
  BY <1>2, <1>5 DEF Releasable
<1>7. Holder'
  BY <1>2, <1>3, <1>5, <1>6 DEF IInv, Holder
<1>8. Bound'
  BY <1>2, <1>6 DEF IInv, Bound
<1>9. Remembered' /\ Sole'
  BY <1>2, <1>3, <1>6 DEF IInv, Remembered, Sole, Dispatching
<1>10. Ledger' /\ budget' \in Budget
  <2>1. CASE \E i \in Intents : Releasable(i)
    <3>1. PICK i \in Intents : Releasable(i)
      BY <2>1
    <3>2. cons[i] = "RESERVED" /\ \A j \in Intents : j # i => cons[j] = "NONE"
      BY <1>5, <1>6, <3>1 DEF IInv, Holder
    <3>3. budget.reserved = 1 /\ budget.consumed = 0 /\ budget.status = "RESERVED"
      BY <3>2 DEF IInv, Ledger, Held
    <3>4. budget \in Budget /\ budget' = Released(budget)
      BY <1>1, <1>2, <2>1 DEF TypeOK
    <3>5. /\ budget' \in Budget /\ budget'.reserved = 0 /\ budget'.consumed = 0
          /\ budget'.status = "AVAILABLE"
      BY <3>3, <3>4 DEF Budget, Released
    <3>6. \A j \in Intents : cons'[j] \in {"NONE", "RELEASED"}
      BY <1>6, <3>1, <3>2
    <3> QED
      BY <3>5, <3>6 DEF Ledger, Held
  <2>2. CASE ~ \E i \in Intents : Releasable(i)
    <3>1. budget' = budget /\ \A i \in Intents : cons'[i] = cons[i]
      BY <1>2, <1>6, <2>2
    <3> QED
      BY <1>1, <3>1 DEF IInv, Ledger, Held, TypeOK
  <2> QED
    BY <2>1, <2>2
<1>11. TypeOK'
  BY <1>1, <1>2, <1>3, <1>4, <1>10 DEF TypeOK
<1> QED
  BY <1>7, <1>8, <1>9, <1>10, <1>11 DEF IInv

LEMMA QuarantineKeeps ==
  ASSUME IInv, NEW i \in Intents, QuarantineStale(i)
  PROVE  IInv'
<1>1. TypeOK /\ outbox \in [Intents -> OutboxStatus]
  BY DEF IInv, TypeOK
<1>2. /\ outbox[i] = "PROCESSING" /\ outbox' = [outbox EXCEPT ![i] = "RECONCILE"]
      /\ UNCHANGED <<now, run, lease, budget, cons, sent, tx>>
  BY DEF QuarantineStale
<1>3. TypeOK' /\ Ledger' /\ Holder' /\ Sole'
  BY <1>1, <1>2 DEF IInv, TypeOK, OutboxStatus, Ledger, Held, Holder, Sole
<1>4. Bound' /\ Remembered'
  BY <1>1, <1>2 DEF IInv, Bound, Remembered, Dispatching
<1> QED
  BY <1>3, <1>4 DEF IInv

LEMMA TickKeeps ==
  ASSUME IInv, Tick
  PROVE  IInv'
<1>1. now \in Nat /\ now' = now + 1 /\ LeaseExpires \in Nat
      /\ UNCHANGED <<run, lease, budget, cons, outbox, sent, tx>>
  BY WindowAssumption DEF IInv, TypeOK, Tick
<1>2. TypeOK' /\ Holder'
  BY <1>1 DEF IInv, TypeOK, Holder
<1>3. Ledger' /\ Bound' /\ Remembered' /\ Sole'
  BY <1>1 DEF IInv, Ledger, Held, Bound, Remembered, Sole
<1> QED
  BY <1>2, <1>3 DEF IInv

LEMMA CallerStepKeeps ==
  ASSUME IInv, NEW c \in Callers, CallerStep(c)
  PROVE  IInv'
<1>1. CASE \E i \in Intents : ReserveRead(c, i) \/ EnqueueRead(c, i)
  <2>1. UNCHANGED <<now, run, lease, budget, cons, outbox, sent>>
    BY <1>1 DEF ReserveRead, EnqueueRead
  <2> QED
    BY <1>1, <2>1, QuietKeeps
<1>2. CASE \E i \in Intents : ClaimOutbox(c, i)
  BY <1>2, ClaimOutboxKeeps
<1>3. CASE ReserveDenied(c) \/ EnqueueNothing(c) \/ Crash(c)
  <2>1. UNCHANGED <<now, run, lease, budget, cons, outbox, sent>> /\ Stop(c)
    BY <1>3 DEF ReserveDenied, EnqueueNothing, Crash
  <2> QED
    BY <2>1, QuietKeeps
<1>4. CASE RevalidateRead(c) \/ FinalizeRead(c)
  <2>1. UNCHANGED <<now, run, lease, budget, cons, outbox, sent>>
    BY <1>4 DEF RevalidateRead, FinalizeRead
  <2> QED
    BY <1>4, <2>1, QuietKeeps
<1>5. CASE Reserve(c) \/ Enqueue(c) \/ Revalidate(c) \/ Send(c) \/ Finalize(c)
  BY <1>5, ReserveKeeps, EnqueueKeeps, RevalidateKeeps, SendKeeps, FinalizeKeeps
<1> QED
  BY <1>1, <1>2, <1>3, <1>4, <1>5 DEF CallerStep

LEMMA NextKeeps == IInv /\ [Next]_vars => IInv'
<1> SUFFICES ASSUME IInv, [Next]_vars PROVE IInv'
  OBVIOUS
<1>1. CASE RunStep
  BY <1>1, RunStepKeeps
<1>2. CASE \E c \in Callers : CallerStep(c)
  BY <1>2, CallerStepKeeps
<1>3. CASE ExpireStaleLease
  BY <1>3, ExpireKeeps
<1>4. CASE \E i \in Intents : QuarantineStale(i)
  BY <1>4, QuarantineKeeps
<1>5. CASE Tick
  BY <1>5, TickKeeps
<1>6. CASE UNCHANGED vars
  BY <1>6 DEF vars, IInv, TypeOK, Ledger, Held, Holder, Bound, Remembered, Sole
<1> QED
  BY <1>1, <1>2, <1>3, <1>4, <1>5, <1>6 DEF Next

LEMMA Invariant == Spec => []IInv
  BY InitHolds, NextKeeps, PTL DEF Spec

-----------------------------------------------------------------------------

\* TypeOK: the rows and the snapshots keep to their types.
THEOREM SafetyTyped == Spec => []TypeOK
<1>1. IInv => TypeOK
  BY DEF IInv
<1> QED
  BY <1>1, Invariant, PTL

\* OneEffect: claim_and_reserve, its expiry and its retries let at most one
\* effect of the run reach the provider, once.
THEOREM AtMostOneEffect == Spec => []OneEffect
<1>1. IInv => OneEffect
  <2> SUFFICES ASSUME IInv PROVE OneEffect
    OBVIOUS
  <2>1. \A i \in Intents : sent[i] \in Nat /\ sent[i] <= 1
    BY DEF IInv, TypeOK, Bound
  <2>2. ASSUME NEW i \in Intents, sent[i] > 0
        PROVE  lease.claimant = i /\ Limit = 1
    <3>1. outbox[i] # "NONE"
      BY <2>2 DEF IInv, Bound
    <3>2. cons[i] # "NONE"
      BY <3>1 DEF IInv, Bound
    <3> QED
      BY <3>2 DEF IInv, Holder
  <2>3. Limit \in Nat
    BY LimitAssumption
  <2> QED
    BY <2>1, <2>2, <2>3 DEF OneEffect
<1> QED
  BY <1>1, Invariant, PTL

\* LedgerBalances: the counters of the budget are its consumption rows.
THEOREM LedgerIsBalanced == Spec => []LedgerBalances
<1>1. IInv => LedgerBalances
  <2> SUFFICES ASSUME IInv PROVE LedgerBalances
    OBVIOUS
  <2>1. ASSUME NEW s \in {"RESERVED", "CONSUMED"}
        PROVE  Cardinality({i \in Intents : cons[i] = s}) = IF Held(s) THEN 1 ELSE 0
    <3>1. CASE Held(s)
      <4>1. {i \in Intents : cons[i] = s} = {lease.claimant}
        BY <3>1 DEF IInv, Holder, Held
      <4> QED
        BY <3>1, <4>1, FS_Singleton
    <3>2. CASE ~Held(s)
      <4>1. {i \in Intents : cons[i] = s} = {}
        BY <3>2 DEF Held
      <4> QED
        BY <3>2, <4>1, FS_EmptySet
    <3> QED
      BY <3>1, <3>2
  <2>2. /\ budget.reserved = Cardinality({i \in Intents : cons[i] = "RESERVED"})
        /\ budget.consumed = Cardinality({i \in Intents : cons[i] = "CONSUMED"})
    BY <2>1 DEF IInv, Ledger
  <2>3. /\ budget.status = "RESERVED" <=> budget.reserved > 0
        /\ budget.status = "CONSUMED" <=> budget.consumed > 0
    BY DEF IInv, Ledger
  <2> QED
    BY <2>2, <2>3 DEF LedgerBalances
<1> QED
  BY <1>1, Invariant, PTL

\* ReleasedUnsent: expire_stale_lease gives back only a reservation whose
\* effect can no longer be sent.
THEOREM ReleasesAreUnsent == Spec => []ReleasedUnsent
<1>1. IInv => ReleasedUnsent
  BY DEF IInv, Bound, ReleasedUnsent
<1> QED
  BY <1>1, Invariant, PTL

\* LeaseNeverRevived: a claim that read the lease before its expiry is denied
\* by the clock that the binding reads again.
THEOREM LeasesAreOneShot == Spec => LeaseNeverRevived
<1> DEFINE A ==
      /\ lease.status = "EXPIRED" => lease'.status \in {"EXPIRED", "CONSUMED"}
      /\ lease.status = "CONSUMED" => lease' = lease
<1>1. IInv /\ [Next]_vars => [A]_vars
  <2> SUFFICES ASSUME IInv, Next PROVE lease' = lease \/ A
    BY DEF vars
  <2>1. CASE RunStep
    BY <2>1 DEF RunStep, Provision, Activate, AbortRun, ExpireRun
  <2>2. ASSUME NEW c \in Callers, CallerStep(c) PROVE lease' = lease \/ A
    <3>1. CASE Reserve(c)
      <4>1. lease.status = "AVAILABLE"
        BY <3>1, ClaimFindsFree DEF Reserve
      <4> QED
        BY <4>1
    <3>2. CASE Finalize(c)
      <4>1. CASE Finalizable(tx[c])
        <5>1. lease.status \in {"CLAIMED", "EXPIRED"}
          BY <3>2, <4>1, FinalizeFindsHeld DEF Finalize
        <5>2. lease' = [lease EXCEPT !.status = "CONSUMED"] /\ lease \in Lease
          BY <3>2, <4>1 DEF Finalize, IInv, TypeOK
        <5>3. lease'.status = "CONSUMED"
          BY <5>2 DEF Lease
        <5> QED
          BY <5>1, <5>3
      <4>2. CASE ~Finalizable(tx[c])
        BY <3>2, <4>2 DEF Finalize
      <4> QED
        BY <4>1, <4>2
    <3>3. CASE ~Reserve(c) /\ ~Finalize(c)
      BY <2>2, <3>3
         DEF CallerStep, ReserveRead, EnqueueRead, ClaimOutbox, ReserveDenied, Enqueue,
             EnqueueNothing, RevalidateRead, Revalidate, Send, FinalizeRead, Crash
    <3> QED
      BY <3>1, <3>2, <3>3
  <2>3. CASE ExpireStaleLease
    BY <2>3 DEF ExpireStaleLease
  <2>4. CASE Tick \/ \E i \in Intents : QuarantineStale(i)
    BY <2>4 DEF Tick, QuarantineStale
  <2> QED
    BY <2>1, <2>2, <2>3, <2>4 DEF Next
<1> QED
  BY <1>1, Invariant, PTL DEF Spec, LeaseNeverRevived
=============================================================================
