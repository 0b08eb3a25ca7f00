------------------------- MODULE ReplyDeliveryProofs -------------------------
(***************************************************************************)
(* Safety of the reply pipeline for any number of conversations and        *)
(* workers.  The inductive invariant says where a claimed row can be: in   *)
(* the batch of one worker, with a status no claim looks at, and without   *)
(* an effect unless that worker's own provider call has been made.  From   *)
(* it follow the takeover, the pause and the two contracts the pipeline    *)
(* implements, ReplyVerdict and GraceWindow.                               *)
(***************************************************************************)
EXTENDS ReplyDelivery, TLAPS

\* A worker in the middle of a row has that row in cur, and only a dispatching
\* worker has a batch.
Placed ==
    \A w \in Workers :
        /\ pc[w] \in {"picked", "deciding", "listed"} => cur[w] \in Conversations
        /\ pc[w] \in DispatchPhases \ {"dispatch"} => cur[w] \in batch[w]
        /\ pc[w] \notin DispatchPhases => batch[w] = {}

TypeInv == TypeOK /\ Placed

LEMMA TypeInvInit == Init => TypeInv
<1> SUFFICES ASSUME Init PROVE TypeInv
  OBVIOUS
<1>1. TypeOK
  BY DEF Init, TypeOK, IntentStatus, OutboxStatus, Phases
<1>2. Placed
  BY DEF Init, Placed, DispatchPhases
<1> QED
  BY <1>1, <1>2 DEF TypeInv

\* Recording the outcome of the row in hand keeps the types.
LEMMA FinishRowTyped ==
  ASSUME TypeInv, NEW w \in Workers, pc[w] \in DispatchPhases \ {"dispatch"},
         NEW o \in OutboxStatus, NEW i \in IntentStatus, FinishRow(w, o, i)
  PROVE  TypeInv'
<1> USE DEF TypeInv, TypeOK, Placed, Phases, DispatchPhases, FinishRow
<1>1. "NONE" \in IntentStatus
  BY DEF IntentStatus
<1>2. TypeOK'
  BY <1>1
<1>3. Placed'
  OBVIOUS
<1> QED
  BY <1>2, <1>3

LEMMA FlushedTyped ==
  ASSUME TypeInv, NEW w \in Workers, pc[w] \in DispatchPhases \ {"dispatch"},
         NEW v \in IntentStatus
  PROVE  Flushed(w, v) \in IntentStatus /\ intent[cur[w]] \in IntentStatus
  BY DEF TypeInv, TypeOK, Placed, Flushed, DispatchPhases

\* Every step of a worker keeps the types and its place.
LEMMA TypeInvWorker ==
  ASSUME TypeInv, NEW w \in Workers, WorkerStep(w)
  PROVE  TypeInv'
<1> USE DEF TypeInv, TypeOK, Placed, rows, locals, Phases, DispatchPhases
<1>1. CASE ReleaseDueWindows(w)
  BY <1>1 DEF ReleaseDueWindows
<1>2. CASE DecidePick(w)
  BY <1>2 DEF DecidePick
<1>3. CASE DecideLock(w)
  BY <1>3 DEF DecideLock
<1>4. CASE DecideCommit(w)
  BY <1>4 DEF DecideCommit, DecidedStatus, Route, IntentStatus
<1>5. CASE EnqueuePick(w)
  BY <1>5 DEF EnqueuePick
<1>6. CASE EnqueueCommit(w)
  BY <1>6 DEF EnqueueCommit, EnqueueOutcomes, IntentStatus, OutboxStatus
<1>7. CASE ClaimOutbox(w)
  BY <1>7 DEF ClaimOutbox, Claimable, ClaimRows, UnknownOutcome, IntentStatus,
              OutboxStatus
<1>8. CASE DispatchLoad(w)
  BY <1>8 DEF DispatchLoad
<1>9. CASE DispatchDefer(w) \/ DispatchBlock(w) \/ DispatchError(w)
  <2>1. pc[w] \in DispatchPhases \ {"dispatch"}
    BY <1>9 DEF DispatchDefer, DispatchBlock, DispatchError
  <2>2. \E o \in OutboxStatus, i \in {intent[cur[w]], Flushed(w, "BLOCKED")} :
          FinishRow(w, o, i)
    BY <1>9 DEF DispatchDefer, DispatchBlock, DispatchError, OutboxStatus
  <2>3. intent[cur[w]] \in IntentStatus /\ Flushed(w, "BLOCKED") \in IntentStatus
    BY <2>1, FlushedTyped DEF IntentStatus
  <2> HIDE DEF TypeInv
  <2> QED
    BY <2>1, <2>2, <2>3, FinishRowTyped
<1>10. CASE DispatchGate(w)
  BY <1>10 DEF DispatchGate
<1>11. CASE DispatchSend(w)
  BY <1>11 DEF DispatchSend
<1>12. CASE DispatchFinish(w)
  <2>1. pc[w] \in DispatchPhases \ {"dispatch"}
    BY <1>12 DEF DispatchFinish
  <2>2. \E o \in OutboxStatus,
           i \in {"BLOCKED", Flushed(w, "SENT"), Flushed(w, "BLOCKED"),
                  Flushed(w, "FAILED")} : FinishRow(w, o, i)
    BY <1>12 DEF DispatchFinish, UnknownOutcome, OutboxStatus
  <2>3. {"BLOCKED", Flushed(w, "SENT"), Flushed(w, "BLOCKED"),
         Flushed(w, "FAILED")} \subseteq IntentStatus
    BY <2>1, FlushedTyped DEF IntentStatus
  <2> HIDE DEF TypeInv
  <2> QED
    BY <2>1, <2>2, <2>3, FinishRowTyped
<1> QED
  BY <1>1, <1>2, <1>3, <1>4, <1>5, <1>6, <1>7, <1>8, <1>9, <1>10, <1>11,
     <1>12 DEF WorkerStep

\* So does everything else.
LEMMA TypeInvStep == TypeInv /\ [Next]_vars => TypeInv'
<1> SUFFICES ASSUME TypeInv, [Next]_vars PROVE TypeInv'
  OBVIOUS
<1>1. CASE \E w \in Workers : WorkerStep(w)
  BY <1>1, TypeInvWorker
<1>2. CASE \E w \in Workers : Crash(w)
  BY <1>2, NoConversationAssumption
     DEF Crash, TypeInv, TypeOK, Placed, rows, Phases, DispatchPhases,
         IntentStatus
<1>3. CASE \E c \in Conversations : WebStep(c)
  <2> PICK c \in Conversations : WebStep(c)
    BY <1>3
  <2> USE DEF TypeInv, TypeOK, Placed, rows, locals
  <2>1. CASE ReceiveInbound(c)
    BY <2>1 DEF ReceiveInbound
  <2>2. CASE ObserveOwnerReply(c)
    BY <2>2 DEF ObserveOwnerReply
  <2>3. CASE CancelWindow(c)
    BY <2>3 DEF CancelWindow, IntentStatus, OutboxStatus
  <2>4. CASE ApproveReview(c) \/ ReleaseIntent(c)
    BY <2>4 DEF ApproveReview, ReleaseIntent, IntentStatus
  <2>5. CASE CancelIntentRead(c) \/ CancelIntentWrite(c)
    BY <2>5 DEF CancelIntentRead, CancelIntentWrite, IntentStatus
  <2> QED
    BY <2>1, <2>2, <2>3, <2>4, <2>5 DEF WebStep
<1>4. CASE \E enabled \in BOOLEAN : SetAutomaticResponses(enabled)
  BY <1>4 DEF SetAutomaticResponses, TypeInv, TypeOK, Placed, rows, locals
<1>5. CASE UNCHANGED vars
  BY <1>5 DEF vars, rows, locals, TypeInv, TypeOK, Placed
<1> QED
  BY <1>1, <1>2, <1>3, <1>4, <1>5 DEF Next

\* Every reachable state is well typed (all tables and worker locals).
THEOREM TypeCorrect == Spec => []TypeOK
<1>1. Spec => []TypeInv
  BY TypeInvInit, TypeInvStep, PTL DEF Spec
<1> QED
  BY <1>1, PTL DEF TypeInv

-----------------------------------------------------------------------------
(* At most one effect, and truthful rows.                                  *)

\* A row in a worker's hands has had no effect, except that of its own call.
Attempts ==
    \A w \in Workers : \A c \in batch[w] :
        /\ cur[w] = c /\ pc[w] = "confirmed" => delivered[c] = 1
        /\ ~(cur[w] = c /\ pc[w] \in {"confirmed", "unconfirmed"})
              => delivered[c] = 0

DeliveryInv ==
    TypeInv /\ OneHolder /\ Attempts /\ AtMostOneDelivery /\ TruthfulOutcome

LEMMA DeliveryInvInit == Init => DeliveryInv
  BY TypeInvInit
     DEF Init, DeliveryInv, OneHolder, Attempts, AtMostOneDelivery,
         TruthfulOutcome, ProvenDelivered, ProvenUndelivered

\* Recording the outcome of the row in hand: its status must agree with what
\* is known of the effect.
LEMMA FinishRowKeeps ==
  ASSUME DeliveryInv, TypeInv', NEW w \in Workers, NEW o, NEW i,
         pc[w] \in DispatchPhases \ {"dispatch"}, FinishRow(w, o, i),
         o \in ProvenDelivered => delivered[cur[w]] = 1,
         o \in ProvenUndelivered => delivered[cur[w]] = 0
  PROVE  DeliveryInv'
<1> DEFINE d == cur[w]
<1> USE DEF DeliveryInv, TypeInv, TypeOK, Placed, DispatchPhases
<1>1. /\ d \in batch[w] /\ d \in Conversations
      /\ outbox' = [outbox EXCEPT ![d] = o]
      /\ batch' = [batch EXCEPT ![w] = @ \ {d}]
      /\ pc'[w] \in {"release", "dispatch"}
      /\ \A v \in Workers \ {w} : pc'[v] = pc[v] /\ cur'[v] = cur[v]
      /\ delivered' = delivered
  BY DEF FinishRow
<1>2. \A v \in Workers : batch'[v] \subseteq batch[v] /\ d \notin batch'[v]
  BY <1>1 DEF OneHolder
<1>3. OneHolder'
  BY <1>1, <1>2 DEF OneHolder
<1>4. Attempts'
  <2> SUFFICES ASSUME NEW v \in Workers, NEW c \in batch'[v]
               PROVE  /\ cur'[v] = c /\ pc'[v] = "confirmed"
                            => delivered[c] = 1
                      /\ ~(cur'[v] = c /\ pc'[v] \in {"confirmed", "unconfirmed"})
                            => delivered[c] = 0
    BY <1>1 DEF Attempts
  <2>1. CASE v = w
    BY <1>1, <1>2, <2>1 DEF Attempts
  <2>2. CASE v # w
    BY <1>1, <1>2, <2>2 DEF Attempts
  <2> QED
    BY <2>1, <2>2
<1>5. AtMostOneDelivery' /\ TruthfulOutcome'
  BY <1>1 DEF AtMostOneDelivery, TruthfulOutcome
<1> QED
  BY <1>3, <1>4, <1>5

\* Steps that leave rows in hand, their statuses and the effects alone.
LEMMA QuietStepKeeps ==
  ASSUME DeliveryInv, TypeInv', UNCHANGED <<outbox, batch, delivered>>,
         \A w \in Workers :
            \/ pc'[w] = pc[w] /\ cur'[w] = cur[w]
            \/ {pc[w], pc'[w]} \cap {"confirmed", "unconfirmed"} = {}
  PROVE  DeliveryInv'
<1>1. OneHolder' /\ AtMostOneDelivery' /\ TruthfulOutcome'
  BY DEF DeliveryInv, OneHolder, AtMostOneDelivery, TruthfulOutcome
<1>2. Attempts'
  <2> SUFFICES ASSUME NEW w \in Workers, NEW c \in batch[w]
               PROVE  /\ cur'[w] = c /\ pc'[w] = "confirmed"
                            => delivered[c] = 1
                      /\ ~(cur'[w] = c /\ pc'[w] \in {"confirmed", "unconfirmed"})
                            => delivered[c] = 0
    BY DEF Attempts
  <2> QED
    BY DEF DeliveryInv, Attempts
<1> QED
  BY <1>1, <1>2 DEF DeliveryInv

LEMMA DeliveryInvWorker ==
  ASSUME DeliveryInv, TypeInv', NEW w \in Workers, WorkerStep(w)
  PROVE  DeliveryInv'
<1> USE DEF DeliveryInv, TypeInv, TypeOK, Placed, DispatchPhases
<1>1. CASE ReleaseDueWindows(w) \/ DecidePick(w) \/ DecideLock(w)
           \/ DecideCommit(w) \/ EnqueuePick(w)
  <2>1. /\ UNCHANGED <<outbox, batch, delivered>>
        /\ {pc[w], pc'[w]} \cap {"confirmed", "unconfirmed"} = {}
        /\ \A v \in Workers \ {w} : pc'[v] = pc[v] /\ cur'[v] = cur[v]
    BY <1>1 DEF ReleaseDueWindows, DecidePick, DecideLock, DecideCommit,
                EnqueuePick, rows
  <2> QED
    BY <2>1, QuietStepKeeps
<1>2. CASE EnqueueCommit(w)
  <2>1. /\ UNCHANGED <<batch, delivered>>
        /\ pc[w] = "listed" /\ cur[w] \in Conversations
        /\ pc' = [pc EXCEPT ![w] = "claim"]
        /\ cur' = [cur EXCEPT ![w] = NoConversation]
        /\ \/ outbox' = outbox
           \/ /\ outbox[cur[w]] = "ABSENT"
              /\ outbox' = [outbox EXCEPT ![cur[w]] = "PENDING"]
    <3>1. PICK result \in EnqueueOutcomes(cur[w]) :
            outbox' = [outbox EXCEPT ![cur[w]] = result[2]]
      BY <1>2 DEF EnqueueCommit
    <3>2. \/ result[2] = outbox[cur[w]]
          \/ outbox[cur[w]] = "ABSENT" /\ result[2] \in {"ABSENT", "PENDING"}
      BY DEF EnqueueOutcomes
    <3>3. /\ UNCHANGED <<batch, delivered>>
          /\ pc[w] = "listed" /\ cur[w] \in Conversations
          /\ pc' = [pc EXCEPT ![w] = "claim"]
          /\ cur' = [cur EXCEPT ![w] = NoConversation]
      BY <1>2 DEF EnqueueCommit
    <3>4. CASE result[2] = outbox[cur[w]]
      <4>1. outbox' = outbox
        BY <3>1, <3>3, <3>4
      <4> QED
        BY <3>3, <4>1
    <3> QED
      BY <3>1, <3>2, <3>3, <3>4
  <2>2. OneHolder'
    BY <2>1 DEF OneHolder
  <2>3. Attempts'
    BY <2>1 DEF Attempts
  <2>4. AtMostOneDelivery' /\ TruthfulOutcome'
    BY <2>1 DEF AtMostOneDelivery, TruthfulOutcome, ProvenDelivered,
                ProvenUndelivered
  <2> QED
    BY <2>2, <2>3, <2>4
<1>3. CASE ClaimOutbox(w)
  <2>1. \E unknown \in SUBSET {c \in Conversations :
                                 outbox[c] \in {"PROCESSING", "RETRY"}},
           claimed \in SUBSET {c \in Conversations : outbox[c] = "PENDING"},
           late \in SUBSET {c \in Conversations : outbox[c] = "PENDING"} :
              ClaimRows(w, unknown, claimed, late)
    BY <1>3 DEF ClaimOutbox, Claimable
  <2> PICK unknown \in SUBSET {c \in Conversations :
                                outbox[c] \in {"PROCESSING", "RETRY"}},
           claimed \in SUBSET {c \in Conversations : outbox[c] = "PENDING"},
           late \in SUBSET {c \in Conversations : outbox[c] = "PENDING"} :
              ClaimRows(w, unknown, claimed, late)
    BY <2>1
  <2>2. /\ pc[w] = "claim" /\ pc'[w] \in {"release", "dispatch"}
        /\ \A v \in Workers \ {w} : pc'[v] = pc[v]
        /\ UNCHANGED <<cur, delivered>>
    BY <1>3 DEF ClaimOutbox, Claimable, ClaimRows
  <2>3. /\ batch[w] = {} /\ batch'[w] = claimed
        /\ \A c \in claimed : /\ outbox[c] = "PENDING" /\ delivered[c] = 0
                              /\ outbox'[c] = "PROCESSING"
        /\ \A v \in Workers \ {w} : batch'[v] = batch[v]
        /\ \A v \in Workers : \A c \in batch[v] :
              outbox'[c] \in {"PROCESSING", "AMBIGUOUS"} /\ c \notin claimed
    BY <2>2 DEF ClaimRows, OneHolder, TruthfulOutcome, ProvenUndelivered,
                UnknownOutcome
  <2>4. OneHolder'
    <3> SUFFICES ASSUME NEW v \in Workers, NEW c \in batch'[v]
                 PROVE  /\ outbox'[c] \in {"PROCESSING", "AMBIGUOUS"}
                        /\ \A u \in Workers \ {v} : c \notin batch'[u]
      BY DEF OneHolder
    <3>1. CASE v = w
      BY <2>3, <3>1
    <3>2. CASE v # w
      <4>1. c \in batch[v] /\ c \notin batch'[w]
        BY <2>3, <3>2
      <4>2. \A u \in Workers \ {v, w} : c \notin batch'[u]
        BY <2>3, <4>1 DEF OneHolder
      <4> QED
        BY <2>3, <4>1, <4>2
    <3> QED
      BY <3>1, <3>2
  <2>5. Attempts'
    BY <2>2, <2>3 DEF Attempts
  <2>6. AtMostOneDelivery'
    BY <2>2 DEF AtMostOneDelivery
  <2>7. TruthfulOutcome'
    BY <2>2 DEF ClaimRows, TruthfulOutcome, ProvenDelivered,
                ProvenUndelivered, UnknownOutcome
  <2> QED
    BY <2>4, <2>5, <2>6, <2>7
<1>4. CASE DispatchLoad(w) \/ DispatchGate(w)
  <2>1. /\ UNCHANGED <<outbox, batch, delivered>>
        /\ {pc[w], pc'[w]} \cap {"confirmed", "unconfirmed"} = {}
        /\ \A v \in Workers \ {w} : pc'[v] = pc[v] /\ cur'[v] = cur[v]
    BY <1>4 DEF DispatchLoad, DispatchGate, rows
  <2> QED
    BY <2>1, QuietStepKeeps
<1>5. CASE DispatchDefer(w) \/ DispatchBlock(w) \/ DispatchError(w)
  <2>1. pc[w] = "loaded" /\ delivered[cur[w]] = 0
    BY <1>5 DEF DispatchDefer, DispatchBlock, DispatchError, Attempts
  <2>2. \E o \in {"PENDING", "BLOCKED", "RETRY"} : \E i : FinishRow(w, o, i)
    BY <1>5 DEF DispatchDefer, DispatchBlock, DispatchError
  <2> QED
    BY <2>1, <2>2, FinishRowKeeps DEF ProvenDelivered
<1>6. CASE DispatchSend(w)
  <2>1. PICK outcome \in {"confirmed", "unconfirmed", "refused"}, n \in {0, 1} :
          /\ outcome = "confirmed" => n = 1
          /\ outcome = "refused" => n = 0
          /\ delivered' = [delivered EXCEPT ![cur[w]] = @ + n]
          /\ pc' = [pc EXCEPT ![w] = outcome]
    BY <1>6 DEF DispatchSend
  <2>2. /\ pc[w] = "sending" /\ UNCHANGED <<outbox, batch, cur>>
        /\ cur[w] \in batch[w] /\ cur[w] \in Conversations
        /\ delivered[cur[w]] = 0 /\ delivered'[cur[w]] = n
        /\ outbox[cur[w]] \in {"PROCESSING", "AMBIGUOUS"}
        /\ \A v \in Workers \ {w} : cur[w] \notin batch[v]
    BY <1>6, <2>1 DEF DispatchSend, rows, Attempts, OneHolder
  <2>3. OneHolder'
    BY <2>2 DEF OneHolder
  <2>4. Attempts'
    BY <2>1, <2>2 DEF Attempts
  <2>5. AtMostOneDelivery' /\ TruthfulOutcome'
    BY <2>1, <2>2 DEF AtMostOneDelivery, TruthfulOutcome, ProvenDelivered,
                      ProvenUndelivered
  <2> QED
    BY <2>3, <2>4, <2>5
<1>7. CASE DispatchFinish(w)
  <2>1. CASE pc[w] = "confirmed"
    <3>1. delivered[cur[w]] = 1
      BY <2>1 DEF Attempts
    <3>2. \E o \in ProvenDelivered : \E i : FinishRow(w, o, i)
      BY <1>7, <2>1 DEF DispatchFinish, ProvenDelivered
    <3> QED
      BY <2>1, <3>1, <3>2, FinishRowKeeps DEF ProvenDelivered, ProvenUndelivered
  <2>2. CASE pc[w] = "unconfirmed"
    <3>1. \E i : FinishRow(w, "AMBIGUOUS", i)
      BY <1>7, <2>2 DEF DispatchFinish, UnknownOutcome
    <3> QED
      BY <2>2, <3>1, FinishRowKeeps DEF ProvenDelivered, ProvenUndelivered
  <2>3. CASE pc[w] = "refused"
    <3>0. cur[w] \in batch[w]
      BY <2>3
    <3>1. delivered[cur[w]] = 0
      BY <2>3, <3>0 DEF Attempts
    <3>2. \E i : FinishRow(w, "FAILED", i)
      BY <1>7, <2>3 DEF DispatchFinish
    <3>3. PICK i : FinishRow(w, "FAILED", i)
      BY <3>2
    <3>4. "FAILED" \notin ProvenDelivered /\ pc[w] \in DispatchPhases \ {"dispatch"}
      BY <2>3 DEF ProvenDelivered
    <3> QED
      BY <3>1, <3>3, <3>4, FinishRowKeeps
  <2> QED
    BY <1>7, <2>1, <2>2, <2>3 DEF DispatchFinish
<1> QED
  BY <1>1, <1>2, <1>3, <1>4, <1>5, <1>6, <1>7 DEF WorkerStep

LEMMA DeliveryInvStep == DeliveryInv /\ [Next]_vars => DeliveryInv'
<1> SUFFICES ASSUME DeliveryInv, [Next]_vars PROVE DeliveryInv'
  OBVIOUS
<1>0. TypeInv'
  BY TypeInvStep DEF DeliveryInv
<1> USE DEF DeliveryInv, TypeInv, TypeOK, Placed
<1>1. CASE \E w \in Workers : WorkerStep(w)
  BY <1>0, <1>1, DeliveryInvWorker
<1>2. CASE \E w \in Workers : Crash(w)
  <2> PICK w \in Workers : Crash(w)
    BY <1>2
  <2>1. /\ UNCHANGED <<outbox, delivered>>
        /\ batch'[w] = {}
        /\ \A v \in Workers \ {w} :
              batch'[v] = batch[v] /\ pc'[v] = pc[v] /\ cur'[v] = cur[v]
    BY DEF Crash, rows
  <2>2. OneHolder' /\ Attempts'
    BY <2>1 DEF OneHolder, Attempts
  <2>3. AtMostOneDelivery' /\ TruthfulOutcome'
    BY <2>1 DEF AtMostOneDelivery, TruthfulOutcome
  <2> QED
    BY <1>0, <2>2, <2>3
<1>3. CASE \E c \in Conversations : CancelWindow(c)
  <2> PICK c \in Conversations : CancelWindow(c)
    BY <1>3
  <2>1. /\ UNCHANGED <<batch, cur, pc, delivered>>
        /\ \/ outbox' = outbox
           \/ /\ outbox[c] = "PENDING"
              /\ outbox' = [outbox EXCEPT ![c] = "CANCELED"]
    BY DEF CancelWindow, locals
  <2>2. OneHolder' /\ Attempts'
    BY <2>1 DEF OneHolder, Attempts
  <2>3. AtMostOneDelivery' /\ TruthfulOutcome'
    BY <2>1 DEF AtMostOneDelivery, TruthfulOutcome, ProvenDelivered,
                ProvenUndelivered
  <2> QED
    BY <1>0, <2>2, <2>3
<1>4. CASE \/ UNCHANGED vars
           \/ \E enabled \in BOOLEAN : SetAutomaticResponses(enabled)
           \/ \E c \in Conversations :
                \/ ReceiveInbound(c) \/ ObserveOwnerReply(c)
                \/ ApproveReview(c) \/ ReleaseIntent(c)
                \/ CancelIntentRead(c) \/ CancelIntentWrite(c)
  <2>1. UNCHANGED <<outbox, locals, delivered>>
    BY <1>4 DEF vars, rows, SetAutomaticResponses, ReceiveInbound,
                ObserveOwnerReply, ApproveReview, ReleaseIntent,
                CancelIntentRead, CancelIntentWrite
  <2> QED
    BY <1>0, <2>1, QuietStepKeeps DEF locals
<1> QED
  BY <1>1, <1>2, <1>3, <1>4 DEF Next, WebStep

LEMMA DeliveryInvAlways == Spec => []DeliveryInv
  BY DeliveryInvInit, DeliveryInvStep, PTL DEF Spec

\* A reply's provider call takes effect at most once, for any number of
\* conversations and workers (process_outbox, claim_outbox).
THEOREM DeliveredAtMostOnce == Spec => []AtMostOneDelivery
  BY DeliveryInvAlways, PTL DEF DeliveryInv

\* A recorded outcome agrees with what happened on the network.
THEOREM OutcomesAreTruthful == Spec => []TruthfulOutcome
  BY DeliveryInvAlways, PTL DEF DeliveryInv

\* Two workers never hold the same claimed row (ADR 0003).
THEOREM ClaimsAreExclusive == Spec => []OneHolder
  BY DeliveryInvAlways, PTL DEF DeliveryInv

-----------------------------------------------------------------------------
(* The owner's takeover is final.                                          *)

\* A row in a worker's hands belongs to a released window nobody is taking
\* over; a takeover in progress found no irreversible row, and none appears
\* while it holds the window's lock.
TakeoverInv ==
    /\ \A w \in Workers : \A c \in batch[w] :
          window[c] = "RELEASED" /\ observing[c] = "NO"
    /\ \A c \in Conversations :
          /\ observing[c] # "NO"
                => /\ window[c] \in {"OPEN", "RELEASED"}
                   /\ outbox[c] \notin IrreversibleStatus
          /\ cancelReason[c] = "OWNER_MANUAL_REPLY" => window[c] = "CANCELED"

LEMMA TakeoverInvInit == Init => TakeoverInv
  BY DEF Init, TakeoverInv

LEMMA TakeoverInvWorker ==
  ASSUME DeliveryInv, TakeoverInv, NEW w \in Workers, WorkerStep(w)
  PROVE  TakeoverInv'
<1> USE DEF DeliveryInv, TypeInv, TypeOK, Placed, DispatchPhases, TakeoverInv
<1>1. CASE ReleaseDueWindows(w)
  <2>1. UNCHANGED <<observing, batch, outbox>>
    BY <1>1 DEF ReleaseDueWindows
  <2>2. \A c \in Conversations :
          \/ window'[c] = window[c] /\ cancelReason'[c] = cancelReason[c]
          \/ /\ window[c] = "OPEN" /\ observing[c] = "NO"
             /\ cancelReason'[c] \in {cancelReason[c], "GRACE_REVALIDATION_FAILED"}
    BY <1>1 DEF ReleaseDueWindows
  <2> QED
    BY <2>1, <2>2
<1>2. CASE DecidePick(w) \/ DecideLock(w) \/ DecideCommit(w) \/ EnqueuePick(w)
           \/ DispatchLoad(w) \/ DispatchGate(w) \/ DispatchSend(w)
  <2>1. UNCHANGED <<window, cancelReason, observing, outbox, batch>>
    BY <1>2 DEF DecidePick, DecideLock, DecideCommit, EnqueuePick,
                DispatchLoad, DispatchGate, DispatchSend, rows
  <2> QED
    BY <2>1
<1>3. CASE EnqueueCommit(w)
  <2>1. /\ UNCHANGED <<window, cancelReason, observing, batch>>
        /\ observing[cur[w]] = "NO"
        /\ \A c \in Conversations \ {cur[w]} : outbox'[c] = outbox[c]
    BY <1>3 DEF EnqueueCommit
  <2> QED
    BY <2>1
<1>4. CASE ClaimOutbox(w)
  <2>1. UNCHANGED <<window, cancelReason, observing>>
    BY <1>4 DEF ClaimOutbox, Claimable, ClaimRows
  <2>2. \A v \in Workers \ {w} : batch'[v] = batch[v]
    BY <1>4 DEF ClaimOutbox, Claimable, ClaimRows
  <2>3. \A c \in batch'[w] : window[c] = "RELEASED" /\ observing[c] = "NO"
    BY <1>4 DEF ClaimOutbox, Claimable, ClaimRows, GraceAllows
  <2>4. \A c \in Conversations : observing[c] # "NO" => outbox'[c] = outbox[c]
    BY <1>4 DEF ClaimOutbox, Claimable, ClaimRows, IrreversibleStatus
  <2> QED
    BY <2>1, <2>2, <2>3, <2>4
<1>5. CASE DispatchDefer(w) \/ DispatchBlock(w) \/ DispatchError(w)
           \/ DispatchFinish(w)
  <2>1. \E o, i : FinishRow(w, o, i)
    BY <1>5 DEF DispatchDefer, DispatchBlock, DispatchError, DispatchFinish
  <2>2. cur[w] \in batch[w]
    BY <1>5 DEF DispatchDefer, DispatchBlock, DispatchError, DispatchFinish
  <2>3. /\ UNCHANGED <<window, cancelReason, observing>>
        /\ \A v \in Workers : batch'[v] \subseteq batch[v]
        /\ \A c \in Conversations \ {cur[w]} : outbox'[c] = outbox[c]
    BY <2>1 DEF FinishRow
  <2> QED
    BY <2>2, <2>3
<1> QED
  BY <1>1, <1>2, <1>3, <1>4, <1>5 DEF WorkerStep

LEMMA TakeoverInvStep ==
  DeliveryInv /\ TakeoverInv /\ [Next]_vars => TakeoverInv'
<1> SUFFICES ASSUME DeliveryInv, TakeoverInv, [Next]_vars PROVE TakeoverInv'
  OBVIOUS
<1> USE DEF DeliveryInv, TypeInv, TypeOK, TakeoverInv
<1>1. CASE \E w \in Workers : WorkerStep(w)
  BY <1>1, TakeoverInvWorker
<1>2. CASE \E w \in Workers : Crash(w)
  BY <1>2 DEF Crash, rows
<1>3. CASE \E c \in Conversations : WebStep(c)
  <2> PICK c \in Conversations : WebStep(c)
    BY <1>3
  <2>1. CASE ReceiveInbound(c)
    BY <2>1 DEF ReceiveInbound, locals
  <2>2. CASE ObserveOwnerReply(c)
    <3>1. /\ UNCHANGED <<window, cancelReason, outbox, batch>>
          /\ window[c] \in {"OPEN", "RELEASED"}
          /\ \A d \in Conversations \ {c} : observing'[d] = observing[d]
          /\ observing'[c] # "NO" => outbox[c] \notin IrreversibleStatus
      BY <2>2 DEF ObserveOwnerReply, Irreversible, rows, locals
    <3>2. \A w \in Workers : c \in batch[w] => outbox[c] \in IrreversibleStatus
      BY DEF OneHolder, IrreversibleStatus
    <3> QED
      BY <3>1, <3>2
  <2>3. CASE CancelWindow(c)
    <3>1. \A w \in Workers : c \notin batch[w]
      BY <2>3 DEF CancelWindow
    <3> QED
      BY <2>3, <3>1 DEF CancelWindow, locals
  <2>4. CASE \/ ApproveReview(c) \/ ReleaseIntent(c)
             \/ CancelIntentRead(c) \/ CancelIntentWrite(c)
    BY <2>4 DEF ApproveReview, ReleaseIntent, CancelIntentRead,
                CancelIntentWrite, rows, locals
  <2> QED
    BY <2>1, <2>2, <2>3, <2>4 DEF WebStep
<1>4. CASE UNCHANGED vars \/ \E e \in BOOLEAN : SetAutomaticResponses(e)
  BY <1>4 DEF SetAutomaticResponses, vars, rows, locals
<1> QED
  BY <1>1, <1>2, <1>3, <1>4 DEF Next

LEMMA TakeoverInvAlways == Spec => []TakeoverInv
  BY TakeoverInvInit, TakeoverInvStep, DeliveryInvAlways, PTL DEF Spec

\* Only a provider call changes the number of effects, of the row in hand.
LEMMA EffectsAreSends ==
  ASSUME DeliveryInv, [Next]_vars, NEW c \in Conversations,
         delivered'[c] # delivered[c]
  PROVE  \E w \in Workers : DispatchSend(w) /\ cur[w] = c /\ c \in batch[w]
<1>1. \E w \in Workers : DispatchSend(w)
  <2>1. ASSUME NEW w \in Workers, WorkerStep(w), delivered' # delivered
        PROVE  DispatchSend(w)
    BY <2>1 DEF WorkerStep, ReleaseDueWindows, DecidePick, DecideLock,
                DecideCommit, EnqueuePick, EnqueueCommit, ClaimOutbox,
                ClaimRows, DispatchLoad, DispatchDefer, DispatchBlock,
                DispatchError, DispatchGate, DispatchFinish, FinishRow
  <2>2. ASSUME NEW d \in Conversations, WebStep(d)
        PROVE  delivered' = delivered
    BY <2>2 DEF WebStep, ReceiveInbound, ObserveOwnerReply, CancelWindow,
                ApproveReview, ReleaseIntent, CancelIntentRead,
                CancelIntentWrite
  <2>3. ASSUME \/ \E w \in Workers : Crash(w)
               \/ \E e \in BOOLEAN : SetAutomaticResponses(e)
               \/ UNCHANGED vars
        PROVE  delivered' = delivered
    BY <2>3 DEF Crash, SetAutomaticResponses, vars
  <2> QED
    BY <2>1, <2>2, <2>3 DEF Next
<1> PICK w \in Workers : DispatchSend(w)
  BY <1>1
<1>2. pc[w] = "sending" /\ \E n : delivered' = [delivered EXCEPT ![cur[w]] = @ + n]
  BY DEF DispatchSend
<1>3. cur[w] = c
  BY <1>2 DEF DeliveryInv, TypeInv, TypeOK
<1>4. cur[w] \in batch[w]
  BY <1>2 DEF DeliveryInv, TypeInv, Placed, DispatchPhases
<1> QED
  BY <1>3, <1>4

\* Once the owner's reply has canceled the window, no provider call of that
\* conversation takes effect (receive_owner_outbound_observation).
THEOREM TakeoverIsFinal == Spec => NoSendAfterTakeover
<1>1. DeliveryInv /\ TakeoverInv /\ [Next]_vars =>
        [\A c \in Conversations :
            delivered'[c] # delivered[c]
                => cancelReason[c] # "OWNER_MANUAL_REPLY"]_vars
  BY EffectsAreSends DEF TakeoverInv
<1> QED
  BY <1>1, TakeoverInvAlways, DeliveryInvAlways, PTL
     DEF Spec, NoSendAfterTakeover

-----------------------------------------------------------------------------
(* A pause is respected.                                                   *)

\* Whatever has an intent or an outbox row has been evaluated, which fixes its
\* authorization source; and an automatic row past its last authority read
\* keeps the pause out.
PauseInv ==
    /\ \A c \in Conversations :
          (\/ intent[c] # "NONE" \/ outbox[c] # "ABSENT"
           \/ observing[c] = "WITH_INTENT" \/ c \in canceling)
             => evaluation[c] # "NONE"
    /\ \A w \in Workers : pc[w] = "listed" => evaluation[cur[w]] # "NONE"
    /\ \A w \in Workers : pc[w] = "sending" /\ Automatic(cur[w]) => ~paused

LEMMA PauseInvInit == Init => PauseInv
  BY DEF Init, PauseInv

LEMMA PauseInvStep == DeliveryInv /\ PauseInv /\ [Next]_vars => PauseInv'
<1> SUFFICES ASSUME DeliveryInv, PauseInv, [Next]_vars PROVE PauseInv'
  OBVIOUS
<1> USE DEF DeliveryInv, TypeInv, TypeOK, Placed, DispatchPhases, PauseInv
<1>0. \A w \in Workers : \A c \in batch[w] : evaluation[c] # "NONE"
  BY DEF OneHolder
<1>1. CASE \E w \in Workers : WorkerStep(w)
  <2> PICK w \in Workers : WorkerStep(w)
    BY <1>1
  <2>1. CASE ReleaseDueWindows(w) \/ DecidePick(w) \/ DecideLock(w)
    BY <2>1 DEF ReleaseDueWindows, DecidePick, DecideLock, rows, Automatic
  <2>2. CASE DecideCommit(w)
    <3>1. /\ UNCHANGED <<outbox, paused, observing, canceling, batch>>
          /\ pc' = [pc EXCEPT ![w] = "enqueue"]
          /\ \A v \in Workers \ {w} : cur'[v] = cur[v]
      BY <2>2 DEF DecideCommit
    <3>2. \A c \in Conversations :
            /\ evaluation[c] # "NONE" => evaluation'[c] = evaluation[c]
            /\ intent'[c] = intent[c] \/ evaluation'[c] # "NONE"
      BY <2>2 DEF DecideCommit, Route
    <3> QED
      BY <1>0, <3>1, <3>2 DEF Automatic
  <2>3. CASE EnqueuePick(w) \/ DispatchLoad(w) \/ DispatchSend(w)
    BY <2>3 DEF EnqueuePick, DispatchLoad, DispatchSend, rows, Automatic
  <2>4. CASE EnqueueCommit(w)
    BY <2>4 DEF EnqueueCommit, Automatic
  <2>5. CASE ClaimOutbox(w)
    BY <2>5 DEF ClaimOutbox, Claimable, ClaimRows, Automatic
  <2>6. CASE DispatchGate(w)
    BY <2>6 DEF DispatchGate, rows, Automatic
  <2>7. CASE DispatchDefer(w) \/ DispatchBlock(w) \/ DispatchError(w)
             \/ DispatchFinish(w)
    <3>1. cur[w] \in batch[w] /\ \E o, i : FinishRow(w, o, i)
      BY <2>7 DEF DispatchDefer, DispatchBlock, DispatchError, DispatchFinish
    <3> QED
      BY <1>0, <3>1 DEF FinishRow, Automatic
  <2> QED
    BY <2>1, <2>2, <2>3, <2>4, <2>5, <2>6, <2>7 DEF WorkerStep
<1>2. CASE \E w \in Workers : Crash(w)
  BY <1>2 DEF Crash, rows, Automatic
<1>3. CASE \E c \in Conversations : WebStep(c)
  <2> PICK c \in Conversations : WebStep(c)
    BY <1>3
  <2>1. CASE ReceiveInbound(c) \/ ObserveOwnerReply(c) \/ CancelWindow(c)
    BY <2>1 DEF ReceiveInbound, ObserveOwnerReply, CancelWindow, rows, locals,
                Automatic
  <2>2. CASE \/ ApproveReview(c) \/ ReleaseIntent(c)
             \/ CancelIntentRead(c) \/ CancelIntentWrite(c)
    BY <2>2 DEF ApproveReview, ReleaseIntent, CancelIntentRead,
                CancelIntentWrite, rows, locals, Automatic
  <2> QED
    BY <2>1, <2>2 DEF WebStep
<1>4. CASE \E enabled \in BOOLEAN : SetAutomaticResponses(enabled)
  BY <1>4 DEF SetAutomaticResponses, AutomationLockShared, rows, locals,
              Automatic
<1>5. CASE UNCHANGED vars
  BY <1>5 DEF vars, rows, locals, Automatic
<1> QED
  BY <1>1, <1>2, <1>3, <1>4, <1>5 DEF Next

\* No automatic reply takes effect while a committed pause is in force
\* (lock_automation_scope and the last authority read of process_outbox).
THEOREM PauseHolds == Spec => PauseRespected
<1>1. DeliveryInv /\ PauseInv /\ [Next]_vars =>
        [\A c \in Conversations :
            delivered'[c] # delivered[c] /\ Automatic(c) => ~paused]_vars
  BY EffectsAreSends DEF PauseInv, DispatchSend
<1>2. Spec => []PauseInv
  BY PauseInvInit, PauseInvStep, DeliveryInvAlways, PTL DEF Spec
<1> QED
  BY <1>1, <1>2, DeliveryInvAlways, PTL DEF Spec, PauseRespected

-----------------------------------------------------------------------------
(* The pipeline implements the abstract verdict.                           *)

LEMMA VerdictInit == Init => Verdict!Init
  BY DEF Init, Verdict!Init, VerdictOf

LEMMA VerdictStep ==
  ASSUME DeliveryInv, TakeoverInv, [Next]_vars
  PROVE  [Verdict!Next]_([c \in Conversations |-> VerdictOf(c)])
<1> DEFINE verdict == [c \in Conversations |-> VerdictOf(c)]
<1> USE DEF DeliveryInv, TypeInv, TypeOK
<1>1. CASE \E w \in Workers : DispatchSend(w)
  <2> PICK w \in Workers : DispatchSend(w)
    BY <1>1
  <2>0. /\ pc[w] = "sending" /\ cancelReason' = cancelReason
        /\ cur[w] \in batch[w] /\ cur[w] \in Conversations
    BY DEF DispatchSend, rows, Placed, DispatchPhases
  <2> PICK c \in Conversations : c = cur[w]
    BY <2>0
  <2>1. PICK n \in {0, 1} : delivered' = [delivered EXCEPT ![c] = @ + n]
    BY DEF DispatchSend
  <2>2. delivered[c] = 0 /\ cancelReason[c] # "OWNER_MANUAL_REPLY"
    BY <2>0 DEF Attempts, TakeoverInv
  <2>3. CASE n = 0
    <3>1. delivered' = delivered
      BY <2>1, <2>2, <2>3
    <3> QED
      BY <2>0, <3>1 DEF VerdictOf
  <2>4. CASE n = 1
    <3>1. verdict[c] = "OPEN"
      BY <2>2 DEF VerdictOf
    <3>2. delivered'[c] = 1
      BY <2>1, <2>2, <2>4
    <3>3. \A d \in Conversations \ {c} : delivered'[d] = delivered[d]
      BY <2>1
    <3>4. /\ VerdictOf(c)' = "DELIVERED"
          /\ \A d \in Conversations \ {c} : VerdictOf(d)' = VerdictOf(d)
      BY <2>0, <3>2, <3>3 DEF VerdictOf
    <3>5. verdict' = [verdict EXCEPT ![c] = "DELIVERED"]
      BY <3>4
    <3> QED
      BY <3>1, <3>5 DEF Verdict!Next, Verdict!Deliver
  <2> QED
    BY <2>3, <2>4
<1>2. CASE \E c \in Conversations : CancelWindow(c)
  <2> PICK c \in Conversations : CancelWindow(c)
    BY <1>2
  <2>1. /\ delivered' = delivered
        /\ cancelReason' = [cancelReason EXCEPT ![c] = "OWNER_MANUAL_REPLY"]
        /\ cancelReason[c] # "OWNER_MANUAL_REPLY"
    BY DEF CancelWindow, TakeoverInv
  <2>2. CASE delivered[c] = 0
    <3>1. verdict[c] = "OPEN"
      BY <2>1, <2>2 DEF VerdictOf
    <3>2. /\ VerdictOf(c)' = "WITHHELD"
          /\ \A d \in Conversations \ {c} : VerdictOf(d)' = VerdictOf(d)
      BY <2>1, <2>2 DEF VerdictOf
    <3>3. verdict' = [verdict EXCEPT ![c] = "WITHHELD"]
      BY <3>2
    <3> QED
      BY <3>1, <3>3 DEF Verdict!Next, Verdict!Withhold
  <2>3. CASE delivered[c] # 0
    <3>1. delivered[c] = 1
      BY <2>3 DEF AtMostOneDelivery
    <3> QED
      BY <2>1, <3>1 DEF VerdictOf
  <2> QED
    BY <2>2, <2>3
<1>3. CASE \E w \in Workers : ReleaseDueWindows(w)
  <2>1. /\ delivered' = delivered
        /\ \A c \in Conversations :
             (cancelReason'[c] = "OWNER_MANUAL_REPLY")
                <=> (cancelReason[c] = "OWNER_MANUAL_REPLY")
    BY <1>3 DEF ReleaseDueWindows, TakeoverInv
  <2> QED
    BY <2>1 DEF VerdictOf
<1>4. CASE UNCHANGED <<delivered, cancelReason>>
  BY <1>4 DEF VerdictOf
<1>5. \/ \E w \in Workers : DispatchSend(w) \/ ReleaseDueWindows(w)
      \/ \E c \in Conversations : CancelWindow(c)
      \/ UNCHANGED <<delivered, cancelReason>>
  <2>1. ASSUME NEW w \in Workers, WorkerStep(w)
        PROVE  \/ DispatchSend(w) \/ ReleaseDueWindows(w)
               \/ UNCHANGED <<delivered, cancelReason>>
    BY <2>1 DEF WorkerStep, DecidePick, DecideLock, DecideCommit,
                EnqueuePick, EnqueueCommit, ClaimOutbox, ClaimRows,
                DispatchLoad, DispatchDefer, DispatchBlock, DispatchError,
                DispatchGate, DispatchFinish, FinishRow, rows
  <2>2. ASSUME NEW c \in Conversations, WebStep(c)
        PROVE  CancelWindow(c) \/ UNCHANGED <<delivered, cancelReason>>
    BY <2>2 DEF WebStep, ReceiveInbound, ObserveOwnerReply, ApproveReview,
                ReleaseIntent, CancelIntentRead, CancelIntentWrite, rows
  <2>3. ASSUME \/ \E w \in Workers : Crash(w)
               \/ \E e \in BOOLEAN : SetAutomaticResponses(e)
               \/ UNCHANGED vars
        PROVE  UNCHANGED <<delivered, cancelReason>>
    BY <2>3 DEF Crash, SetAutomaticResponses, vars, rows
  <2> QED
    BY <2>1, <2>2, <2>3 DEF Next
<1> QED
  BY <1>1, <1>2, <1>3, <1>4, <1>5

\* Every behaviour of the pipeline is, reply by reply, one of ReplyVerdict: a
\* reply is delivered once or withheld for good, never both.
THEOREM PipelineImplementsVerdict == Spec => ImplementsVerdict
  BY VerdictInit, VerdictStep, TakeoverInvAlways, DeliveryInvAlways, PTL
     DEF Spec, ImplementsVerdict, Verdict!Spec

-----------------------------------------------------------------------------
(* The windows lead the life their other half relies on.                   *)

\* The window has been released or canceled.
Closed(c) == window[c] \notin {"NONE", "OPEN"}

\* Nothing has been derived from an open window, no worker holds anything of
\* it, and no intent under observation becomes SENT.
ClosedInv ==
    /\ \A c \in Conversations :
          /\ \/ Closed(c)
             \/ /\ queue[c] = "ABSENT" /\ evaluation[c] = "NONE"
                /\ intent[c] = "NONE" /\ outbox[c] = "ABSENT"
                /\ c \notin canceling
          /\ observing[c] # "NO" => intent[c] # "SENT"
    /\ \A w \in Workers : cur[w] \in Conversations => Closed(cur[w])

LEMMA ClosedInvInit == Init => ClosedInv
  BY NoConversationAssumption DEF Init, ClosedInv

LEMMA ClosedInvWorker ==
  ASSUME DeliveryInv, TakeoverInv, ClosedInv, NEW w \in Workers, WorkerStep(w)
  PROVE  ClosedInv'
<1> USE DEF DeliveryInv, TypeInv, TypeOK, Placed, DispatchPhases, ClosedInv,
            Closed
<1>1. CASE ReleaseDueWindows(w)
  <2>1. UNCHANGED <<evaluation, intent, outbox, observing, canceling, cur>>
    BY <1>1 DEF ReleaseDueWindows
  <2>2. \A c \in Conversations :
          \/ window'[c] = window[c] /\ queue'[c] = queue[c]
          \/ window'[c] \in {"RELEASED", "CANCELED"}
    BY <1>1 DEF ReleaseDueWindows
  <2> QED
    BY <2>1, <2>2
<1>2. CASE DecidePick(w) \/ EnqueuePick(w)
  <2>1. UNCHANGED <<rows, observing, canceling>>
    BY <1>2 DEF DecidePick, EnqueuePick
  <2>2. \A v \in Workers :
          \/ cur'[v] = cur[v]
          \/ queue[cur'[v]] = "PENDING" \/ intent[cur'[v]] = "READY"
    BY <1>2 DEF DecidePick, EnqueuePick
  <2> QED
    BY <2>1, <2>2 DEF rows
<1>3. CASE DecideLock(w) \/ DecideCommit(w) \/ EnqueueCommit(w)
  <2>1. /\ UNCHANGED <<window, observing, canceling>>
        /\ cur[w] \in Conversations
        /\ \A v \in Workers : cur'[v] \in {cur[v], NoConversation}
    BY <1>3 DEF DecideLock, DecideCommit, EnqueueCommit
  <2>2. \A c \in Conversations \ {cur[w]} :
          /\ queue'[c] = queue[c] /\ evaluation'[c] = evaluation[c]
          /\ intent'[c] = intent[c] /\ outbox'[c] = outbox[c]
    BY <1>3 DEF DecideLock, DecideCommit, Route, EnqueueCommit
  <2>3. intent'[cur[w]] \in {intent[cur[w]], "READY", "CANCELLED", "BLOCKED",
                             "QUEUED"}
    BY <1>3 DEF DecideLock, DecideCommit, Route, EnqueueCommit, EnqueueOutcomes
  <2> QED
    BY <2>1, <2>2, <2>3, NoConversationAssumption
<1>4. CASE ClaimOutbox(w)
  <2>1. UNCHANGED <<window, queue, evaluation, observing, canceling, cur>>
    BY <1>4 DEF ClaimOutbox, ClaimRows
  <2>2. \A c \in Conversations :
          \/ outbox'[c] = outbox[c] /\ intent'[c] = intent[c]
          \/ /\ outbox[c] # "ABSENT"
             /\ intent'[c] \in {intent[c], "BLOCKED", "CANCELLED"}
    BY <1>4 DEF ClaimOutbox, Claimable, ClaimRows
  <2> QED
    BY <2>1, <2>2
<1>5. CASE DispatchLoad(w) \/ DispatchGate(w) \/ DispatchSend(w)
  <2>1. UNCHANGED <<rows, observing, canceling>>
    BY <1>5 DEF DispatchLoad, DispatchGate, DispatchSend
  <2>2. \A v \in Workers : cur'[v] = cur[v] \/ cur'[v] \in batch[v]
    BY <1>5 DEF DispatchLoad, DispatchGate, DispatchSend
  <2> QED
    BY <2>1, <2>2 DEF rows, TakeoverInv
<1>6. CASE DispatchDefer(w) \/ DispatchBlock(w) \/ DispatchError(w)
           \/ DispatchFinish(w)
  <2>1. \E o, i : FinishRow(w, o, i)
    BY <1>6 DEF DispatchDefer, DispatchBlock, DispatchError, DispatchFinish
  <2>2. cur[w] \in batch[w]
    BY <1>6 DEF DispatchDefer, DispatchBlock, DispatchError, DispatchFinish
  <2>3. window[cur[w]] = "RELEASED" /\ observing[cur[w]] = "NO"
    BY <2>2 DEF TakeoverInv
  <2>4. /\ UNCHANGED <<window, queue, evaluation, observing, canceling>>
        /\ \A v \in Workers : cur'[v] \in {cur[v], NoConversation}
        /\ \A c \in Conversations \ {cur[w]} :
              outbox'[c] = outbox[c] /\ intent'[c] = intent[c]
    BY <2>1 DEF FinishRow
  <2> QED
    BY <2>3, <2>4, NoConversationAssumption
<1> QED
  BY <1>1, <1>2, <1>3, <1>4, <1>5, <1>6 DEF WorkerStep

LEMMA ClosedInvStep ==
  DeliveryInv /\ TakeoverInv /\ ClosedInv /\ [Next]_vars => ClosedInv'
<1> SUFFICES ASSUME DeliveryInv, TakeoverInv, ClosedInv, [Next]_vars
             PROVE  ClosedInv'
  OBVIOUS
<1> USE DEF DeliveryInv, TypeInv, TypeOK, ClosedInv, Closed
<1>1. CASE \E w \in Workers : WorkerStep(w)
  BY <1>1, ClosedInvWorker
<1>2. CASE \E w \in Workers : Crash(w)
  BY <1>2, NoConversationAssumption DEF Crash, rows
<1>3. CASE \E c \in Conversations : WebStep(c)
  <2> PICK c \in Conversations : WebStep(c)
    BY <1>3
  <2>1. CASE ReceiveInbound(c) \/ CancelWindow(c)
    BY <2>1 DEF ReceiveInbound, CancelWindow, locals, TakeoverInv
  <2>2. CASE ObserveOwnerReply(c)
    BY <2>2 DEF ObserveOwnerReply, Irreversible, rows, locals
  <2>3. CASE \/ ApproveReview(c) \/ ReleaseIntent(c)
             \/ CancelIntentRead(c) \/ CancelIntentWrite(c)
    BY <2>3 DEF ApproveReview, ReleaseIntent, CancelIntentRead,
                CancelIntentWrite, rows, locals
  <2> QED
    BY <2>1, <2>2, <2>3 DEF WebStep
<1>4. CASE UNCHANGED vars \/ \E e \in BOOLEAN : SetAutomaticResponses(e)
  BY <1>4 DEF SetAutomaticResponses, vars, rows, locals
<1> QED
  BY <1>1, <1>2, <1>3, <1>4 DEF Next

LEMMA LifecycleInit == Init => Lifecycle!Init
  BY DEF Init, Lifecycle!Init, PhaseOf

\* What a step does to one window.
LEMMA WindowMoves ==
  ASSUME DeliveryInv, TakeoverInv, ClosedInv, [Next]_vars,
         NEW c \in Conversations
  PROVE  \/ window'[c] = window[c]
         \/ window[c] = "NONE" /\ window'[c] = "OPEN"
         \/ /\ window[c] = "OPEN" /\ window'[c] \in {"RELEASED", "CANCELED"}
            /\ ~Irreversible(c)'
         \/ /\ window[c] \in {"OPEN", "RELEASED"} /\ window'[c] = "CANCELED"
            /\ ~Irreversible(c)
<1> USE DEF DeliveryInv, TypeInv, TypeOK
<1>1. CASE \E d \in Conversations : ReceiveInbound(d) \/ CancelWindow(d)
  BY <1>1 DEF ReceiveInbound, CancelWindow, TakeoverInv, ClosedInv, Irreversible
<1>2. CASE \E w \in Workers : ReleaseDueWindows(w)
  <2>1. \/ window'[c] = window[c]
        \/ window[c] = "OPEN" /\ window'[c] \in {"RELEASED", "CANCELED"}
    BY <1>2 DEF ReleaseDueWindows
  <2>2. outbox' = outbox /\ intent' = intent
    BY <1>2 DEF ReleaseDueWindows
  <2>3. window[c] = "OPEN" => intent[c] = "NONE" /\ outbox[c] = "ABSENT"
    BY DEF ClosedInv, Closed
  <2> QED
    BY <2>1, <2>2, <2>3 DEF Irreversible, IrreversibleStatus
<1>3. CASE UNCHANGED window
  BY <1>3
<1>4. \/ \E w \in Workers : ReleaseDueWindows(w)
      \/ \E d \in Conversations : ReceiveInbound(d) \/ CancelWindow(d)
      \/ UNCHANGED window
  <2>1. ASSUME NEW w \in Workers, WorkerStep(w)
        PROVE  ReleaseDueWindows(w) \/ UNCHANGED window
    BY <2>1 DEF WorkerStep, DecidePick, DecideLock, DecideCommit,
                EnqueuePick, EnqueueCommit, ClaimOutbox, ClaimRows,
                DispatchLoad, DispatchDefer, DispatchBlock, DispatchError,
                DispatchGate, DispatchSend, DispatchFinish, FinishRow, rows
  <2>2. ASSUME NEW d \in Conversations, WebStep(d)
        PROVE  ReceiveInbound(d) \/ CancelWindow(d) \/ UNCHANGED window
    BY <2>2 DEF WebStep, ObserveOwnerReply, ApproveReview, ReleaseIntent,
                CancelIntentRead, CancelIntentWrite, rows
  <2>3. ASSUME \/ \E w \in Workers : Crash(w)
               \/ \E e \in BOOLEAN : SetAutomaticResponses(e)
               \/ UNCHANGED vars
        PROVE  UNCHANGED window
    BY <2>3 DEF Crash, SetAutomaticResponses, vars, rows
  <2> QED
    BY <2>1, <2>2, <2>3 DEF Next
<1> QED
  BY <1>1, <1>2, <1>3, <1>4

\* The pipeline keeps the windows' contract with module OwnerReplyGrace: a
\* takeover that found its window in time still is when it commits, whatever
\* workers claim, send, defer or quarantine meanwhile (claim_outbox locks the
\* window before the row, _cancel_window the window before the rows).
THEOREM PipelineImplementsLifecycle == Spec => ImplementsLifecycle
<1> DEFINE phase == [c \in Conversations |-> PhaseOf(c)]
<1>1. ASSUME DeliveryInv, DeliveryInv', TakeoverInv, ClosedInv, [Next]_vars
      PROVE  [Lifecycle!Next]_phase
  <2>1. ASSUME NEW c \in Conversations
        PROVE  \/ PhaseOf(c)' = PhaseOf(c)
               \/ <<PhaseOf(c), PhaseOf(c)'>> \in Lifecycle!Moves
    BY <1>1, WindowMoves DEF PhaseOf, Lifecycle!Moves
  <2>2. phase' \in [Conversations -> Lifecycle!Phases]
    <3>1. \A c \in Conversations :
            window'[c] \in {"NONE", "OPEN", "RELEASED", "CANCELED"}
      BY <1>1 DEF DeliveryInv, TypeInv, TypeOK
    <3>2. \A c \in Conversations : PhaseOf(c)' \in Lifecycle!Phases
      BY <3>1 DEF PhaseOf, Lifecycle!Phases
    <3> QED
      BY <3>2
  <2> QED
    BY <2>1, <2>2 DEF Lifecycle!Next
<1>2. Spec => []ClosedInv
  BY ClosedInvInit, ClosedInvStep, TakeoverInvAlways, DeliveryInvAlways, PTL
     DEF Spec
<1> QED
  BY <1>1, <1>2, LifecycleInit, TakeoverInvAlways, DeliveryInvAlways, PTL
     DEF Spec, ImplementsLifecycle, Lifecycle!Spec
=============================================================================
