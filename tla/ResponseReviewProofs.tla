------------------------ MODULE ResponseReviewProofs ------------------------
(* Proofs about ResponseReview, for any callers and texts.  The invariant   *)
(* says that an intent exists only once the review has been decided, that   *)
(* it never disappears under a transaction that loaded it, and that its     *)
(* response has one row of the outbox, which is never dispatched again.     *)
(* The three action properties need only that and the types.                *)
EXTENDS ResponseReview, SequenceTheorems, TLAPS

\* An intent is the consequence of an approval, a row that of an intent.
Ordered ==
    /\ intent.status # "NONE" => review.status # "PENDING"
    /\ outbox # <<>> => intent.status # "NONE"

\* What a transaction loaded of the intent still exists, and only the
\* transactions of an existing intent have loaded one.
Loaded ==
    \A c \in Callers :
        /\ tx[c].intent.status # "NONE" => intent.status # "NONE"
        /\ tx[c].op \in {"cancel", "gate", "fill", "send"} =>
              tx[c].intent.status # "NONE"

\* The response has one row at most, and once dispatched it does not wait.
Single ==
    /\ Len(outbox) <= 1
    /\ calls \in 0..1
    /\ calls = 1 => outbox # <<>> /\ outbox[1].status # "PENDING"

ReviewInv == TypeOK /\ Ordered /\ Loaded /\ Single

-----------------------------------------------------------------------------
(* Opening, closing and writing.                                            *)

\* A transaction opens with the rows as they are.
LEMMA OpenTyped ==
    ASSUME TypeOK, NEW c \in Callers, NEW op \in Operations, Open(c, op)
    PROVE  /\ tx' \in [Callers -> Transaction]
           /\ tx'[c] = [op |-> op, review |-> review, intent |-> intent]
           /\ \A d \in Callers : d # c => tx'[d] = tx[d]
  BY DEF TypeOK, Open, Transaction

\* A transaction closes and leaves the others alone.
LEMMA CloseTyped ==
    ASSUME TypeOK, NEW c \in Callers, Close(c)
    PROVE  /\ tx' \in [Callers -> Transaction]
           /\ tx'[c] = NoTransaction
           /\ \A d \in Callers : d # c => tx'[d] = tx[d]
<1>1. NoTransaction \in Transaction
  BY ProposedAssumption DEF NoTransaction, Unreviewed, NoIntent, Transaction,
     Operations, Review, Intent
<1> QED
  BY <1>1 DEF TypeOK, Close

\* A write of the intent keeps its type, and the status is the new one unless
\* that is the one loaded.
LEMMA WriteTyped ==
    ASSUME TypeOK, NEW c \in Callers,
           NEW status \in {"BLOCKED", "READY", "QUEUED", "SENT", "FAILED",
                           "CANCELLED"},
           NEW release \in {"HELD", "RELEASED"}, WriteIntent(c, status, release)
    PROVE  /\ intent' \in Intent
           /\ intent'.status \in {status, intent.status}
           /\ tx[c].intent.status # status => intent'.status = status
  BY DEF TypeOK, WriteIntent, Written, Intent, Transaction

\* A change of status leaves a row a row, with its text.
LEMMA RowTyped ==
    ASSUME TypeOK, NEW i \in DOMAIN outbox,
           NEW status \in {"PROCESSING", "DONE", "AMBIGUOUS", "FAILED",
                           "RECONCILIATION_REQUIRED", "CANCELED"},
           outbox' = [outbox EXCEPT ![i].status = status]
    PROVE  /\ outbox' \in Seq(Row)
           /\ Len(outbox') = Len(outbox)
           /\ DOMAIN outbox' = DOMAIN outbox
           /\ \A j \in DOMAIN outbox : outbox'[j].text = outbox[j].text
           /\ outbox'[i].status = status
<1>1. outbox[i] \in Row /\ DOMAIN outbox = 1..Len(outbox)
  BY DEF TypeOK
<1>2. [outbox[i] EXCEPT !.status = status] \in Row
  BY <1>1 DEF Row
<1> QED
  BY <1>1, <1>2 DEF TypeOK

\* A row that is dispatched, or whose dispatch ends, does not wait any more.
LEMMA SingleKept ==
    ASSUME TypeOK, Single, NEW i \in DOMAIN outbox,
           NEW status \in {"PROCESSING", "DONE", "AMBIGUOUS", "FAILED",
                           "RECONCILIATION_REQUIRED", "CANCELED"},
           outbox' = [outbox EXCEPT ![i].status = status],
           calls' \in 0..1
    PROVE  Single'
<1>1. i = 1 /\ Len(outbox) = 1
  <2>1. DOMAIN outbox = 1..Len(outbox) /\ Len(outbox) \in Nat
    BY DEF TypeOK
  <2>2. Len(outbox) <= 1
    BY DEF Single
  <2>3. i \in 1..Len(outbox)
    BY <2>1
  <2> QED
    BY <2>1, <2>2, <2>3
<1>2. outbox' \in Seq(Row) /\ Len(outbox') = 1
  BY <1>1, RowTyped
<1>3. outbox'[i].status = status
  BY RowTyped
<1>4. outbox'[1].status = status
  BY <1>1, <1>3
<1>5. outbox' # <<>>
  BY <1>2, EmptySeq
<1> QED
  BY <1>2, <1>4, <1>5 DEF Single

\* A row is empty or not by its length.
LEMMA EmptyRows == TypeOK => (outbox = <<>> <=> Len(outbox) = 0)
  BY EmptySeq DEF TypeOK

-----------------------------------------------------------------------------
(* The invariant.                                                           *)

\* A transaction that opens changes no row.
LEMMA OpenInv ==
    ASSUME ReviewInv, NEW c \in Callers, NEW op \in Operations, Open(c, op),
           UNCHANGED <<review, intent>>, outbox' \in Seq(Row),
           Len(outbox') = Len(outbox), Single',
           op \in {"cancel", "gate", "fill", "send"} => intent.status # "NONE"
    PROVE  ReviewInv'
<1>0. TypeOK /\ calls' \in Nat
  BY DEF ReviewInv, Single
<1>1. TypeOK /\ TypeOK'
  BY <1>0, OpenTyped DEF TypeOK
<1>2. outbox' = <<>> <=> outbox = <<>>
  BY <1>1, EmptySeq DEF TypeOK
<1>3. /\ tx'[c] = [op |-> op, review |-> review, intent |-> intent]
      /\ \A d \in Callers : d # c => tx'[d] = tx[d]
  BY <1>1, OpenTyped
<1>4. tx'[c].op = op /\ tx'[c].intent = intent
  BY <1>3
<1>5. Loaded'
  BY <1>3, <1>4 DEF ReviewInv, Loaded
<1> QED
  BY <1>1, <1>2, <1>5 DEF ReviewInv, Ordered

\* A transaction that closes may write an intent that exists.
LEMMA CloseInv ==
    ASSUME ReviewInv, NEW c \in Callers, Close(c), review' \in Review,
           intent' \in Intent, outbox' \in Seq(Row), Single',
           review.status # "PENDING" => review'.status # "PENDING",
           intent.status # "NONE" => intent'.status # "NONE",
           intent'.status # "NONE" => review'.status # "PENDING",
           outbox' # <<>> => intent'.status # "NONE"
    PROVE  ReviewInv'
<1>1. TypeOK /\ TypeOK'
  BY CloseTyped DEF ReviewInv, TypeOK, Single
<1>2. Loaded'
  BY <1>1, CloseTyped DEF ReviewInv, Loaded, NoTransaction, NoIntent
<1> QED
  BY <1>1, <1>2 DEF ReviewInv, Ordered

\* The operators' and the owner's steps keep the invariant.
LEMMA DecidingInv ==
    ASSUME ReviewInv, NEW c \in Callers, Deciding(c)
    PROVE  ReviewInv'
<1> USE DEF ReviewInv
<1>0. TypeOK /\ review \in Review /\ intent \in Intent /\ tx[c] \in Transaction
  BY DEF TypeOK
<1>1. CASE OpenEdit(c)
  BY <1>1, OpenInv, <1>0 DEF OpenEdit, rows, Operations, TypeOK, Single
<1>2. CASE OpenReject(c)
  BY <1>2, OpenInv, <1>0 DEF OpenReject, rows, Operations, TypeOK, Single
<1>3. CASE OpenOwnerApproval(c)
  BY <1>3, OpenInv, <1>0 DEF OpenOwnerApproval, rows, Operations, TypeOK, Single
<1>4. CASE OpenCancel(c)
  BY <1>4, OpenInv, <1>0 DEF OpenCancel, rows, Operations, TypeOK, Single
<1>5. ASSUME NEW text \in Texts, CommitEdit(c, text)
      PROVE  ReviewInv'
  <2>1. review' \in Review /\ review'.status = review.status
    BY <1>0, <1>5 DEF CommitEdit, Written, Review
  <2> QED
    BY <2>1, <1>0, <1>5, CloseInv DEF CommitEdit, TypeOK, Ordered, Single
<1>6. CASE CommitReject(c)
  <2>1. review' \in Review /\ review'.status = "REJECTED"
    BY <1>0, <1>6 DEF CommitReject, Review
  <2> QED
    BY <2>1, <1>0, <1>6, CloseInv DEF CommitReject, TypeOK, Ordered, Single
<1>7. CASE OwnerApproves(c)
  <2>1. review' \in Review /\ review'.status = "APPROVED"
    BY <1>0, <1>7 DEF OwnerApproves, Review
  <2>2. intent' \in Intent /\ intent'.status # "NONE"
    BY <1>7 DEF OwnerApproves, Held, Intent
  <2> QED
    BY <2>1, <2>2, <1>0, <1>7, CloseInv DEF OwnerApproves, TypeOK, Ordered, Single
<1>8. CASE OwnerReleases(c)
  <2>1. PICK status \in {"READY", "BLOCKED"} : WriteIntent(c, status, "RELEASED")
    BY <1>8 DEF OwnerReleases
  <2>2. intent.status # "NONE"
    BY <1>8 DEF OwnerReleases, Releasable, Loaded
  <2>3. intent' \in Intent /\ intent'.status # "NONE"
    BY <2>1, <2>2, <1>0, WriteTyped
  <2> QED
    BY <2>2, <2>3, <1>0, <1>8, CloseInv DEF OwnerReleases, TypeOK, Ordered, Single
<1>9. CASE CommitCancel(c)
  <2>1. intent.status # "NONE" /\ tx[c].intent.release \in {"HELD", "RELEASED"}
    BY <1>0, <1>9 DEF CommitCancel, Loaded, Transaction, Intent
  <2>2. intent' \in Intent /\ intent'.status # "NONE"
    BY <2>1, <1>0, <1>9, WriteTyped DEF CommitCancel
  <2> QED
    BY <2>1, <2>2, <1>0, <1>9, CloseInv DEF CommitCancel, TypeOK, Ordered, Single
<1> QED
  BY <1>1, <1>2, <1>3, <1>4, <1>5, <1>6, <1>7, <1>8, <1>9 DEF Deciding

\* The worker's steps keep it: the key admits one row.
LEMMA WorkingInv ==
    ASSUME ReviewInv, NEW c \in Callers, Working(c)
    PROVE  ReviewInv'
<1> USE DEF ReviewInv
<1>0. /\ TypeOK /\ review \in Review /\ intent \in Intent
      /\ tx[c] \in Transaction /\ outbox \in Seq(Row)
  BY DEF TypeOK
<1>1. CASE OpenEnqueue(c)
  BY <1>1, OpenInv, <1>0 DEF OpenEnqueue, rows, Operations, TypeOK, Single
<1>2. tx[c].op \in {"gate", "fill", "send"} =>
          /\ intent.status # "NONE"
          /\ tx[c].intent.release \in {"HELD", "RELEASED"}
  BY <1>0 DEF Loaded, Transaction, Intent
<1>3. CASE GateStops(c)
  <2>1. PICK status \in {"BLOCKED", "CANCELLED"} :
            WriteIntent(c, status, tx[c].intent.release)
    BY <1>3 DEF GateStops
  <2>2. tx[c].op = "gate"
    BY <1>3 DEF GateStops
  <2>3. intent' \in Intent /\ intent'.status # "NONE"
    BY <2>1, <2>2, <1>0, <1>2, WriteTyped
  <2> QED
    BY <2>2, <2>3, <1>0, <1>2, <1>3, CloseInv DEF GateStops, Ordered, Single
<1>4. CASE PassGate(c)
  <2>1. /\ tx' \in [Callers -> Transaction]
        /\ \A d \in Callers : tx'[d].intent = tx[d].intent
        /\ \A d \in Callers : d # c => tx'[d].op = tx[d].op
    BY <1>0, <1>4 DEF PassGate, Transaction, Operations, TypeOK
  <2>2. tx[c].intent.status # "NONE"
    BY <1>4 DEF PassGate, Loaded
  <2> QED
    BY <2>1, <2>2, <1>4 DEF PassGate, rows, TypeOK, Ordered, Loaded, Single
<1>5. CASE CommitEnqueue(c)
  <2>1. tx[c].op = "fill" /\ WriteIntent(c, "QUEUED", tx[c].intent.release)
    BY <1>5 DEF CommitEnqueue
  <2>2. intent' \in Intent /\ intent'.status # "NONE"
    BY <2>1, <1>0, <1>2, WriteTyped
  <2>3. outbox' \in Seq(Row) /\ Single'
    <3>1. [status |-> "PENDING", text |-> tx[c].review.text] \in Row
      BY <1>0 DEF Row, Transaction, Review
    <3>2. CASE outbox # <<>>
      BY <3>2, <1>0, <1>5 DEF CommitEnqueue, KeyTaken, Single
    <3>3. CASE outbox = <<>>
      BY <3>1, <3>3, <1>0, <1>5, EmptyRows DEF CommitEnqueue, KeyTaken, Single
    <3> QED
      BY <3>2, <3>3
  <2> QED
    BY <2>1, <2>2, <2>3, <1>0, <1>2, <1>5, CloseInv DEF CommitEnqueue, Ordered
<1>6. ASSUME NEW i \in DOMAIN outbox, Claim(c, i)
      PROVE  ReviewInv'
  <2>1. outbox' \in Seq(Row) /\ Len(outbox') = Len(outbox)
    BY <1>0, <1>6, RowTyped DEF Claim
  <2>2. intent.status # "NONE"
    BY <1>0, <1>6 DEF Ordered
  <2>3. calls' \in 0..1
    BY <1>0, <1>6 DEF Claim, Single, TypeOK
  <2>4. Single'
    BY <2>3, <1>0, <1>6, SingleKept DEF Claim
  <2> QED
    BY <2>1, <2>2, <2>4, <1>0, <1>6, OpenInv DEF Claim, Operations
<1>7. ASSUME NEW i \in DOMAIN outbox, CommitSend(c, i)
      PROVE  ReviewInv'
  <2>1. PICK o \in Outcomes :
            /\ outbox' = [outbox EXCEPT ![i].status = o[1]]
            /\ \/ WriteIntent(c, o[2], tx[c].intent.release)
               \/ o[2] = "BLOCKED" /\ intent' = [intent EXCEPT !.status = "BLOCKED"]
    BY <1>7 DEF CommitSend
  <2>2. /\ o[1] \in {"DONE", "AMBIGUOUS", "RECONCILIATION_REQUIRED", "FAILED",
                     "CANCELED"}
        /\ o[2] \in {"SENT", "BLOCKED", "FAILED", "CANCELLED"}
    BY DEF Outcomes
  <2>3. outbox' \in Seq(Row) /\ Len(outbox') = Len(outbox)
    BY <2>1, <2>2, <1>0, RowTyped
  <2>4. tx[c].op = "send"
    BY <1>7 DEF CommitSend
  <2>5. intent' \in Intent /\ intent'.status # "NONE"
    <3>1. CASE WriteIntent(c, o[2], tx[c].intent.release)
      BY <3>1, <2>2, <2>4, <1>0, <1>2, WriteTyped
    <3>2. CASE intent' = [intent EXCEPT !.status = "BLOCKED"]
      BY <3>2, <1>0 DEF Intent
    <3> QED
      BY <2>1, <3>1, <3>2
  <2>6. calls' \in 0..1
    BY <1>7 DEF CommitSend, Single
  <2>7. Single'
    BY <2>1, <2>2, <2>6, <1>0, SingleKept
  <2> QED
    BY <2>3, <2>4, <2>5, <2>7, <1>0, <1>2, <1>7, CloseInv DEF CommitSend, Ordered
<1> QED
  BY <1>1, <1>3, <1>4, <1>5, <1>6, <1>7 DEF Working

\* Every step keeps the invariant.
LEMMA ReviewStep ==
    ASSUME ReviewInv, [Next]_vars
    PROVE  ReviewInv'
<1>0. /\ TypeOK /\ review \in Review /\ intent \in Intent
      /\ outbox \in Seq(Row)
  BY DEF ReviewInv, TypeOK
<1>1. CASE Approve
  <2>1. review' \in Review /\ intent' \in Intent /\ intent'.status # "NONE"
        /\ review'.status = "APPROVED"
    BY <1>0, <1>1 DEF Approve, Review, Intent, Held
  <2> QED
    BY <2>1, <1>1 DEF Approve, ReviewInv, TypeOK, Ordered, Loaded, Single
<1>2. CASE Release
  <2>1. intent' \in Intent /\ intent'.status # "NONE" /\ intent.status # "NONE"
    BY <1>2 DEF Release, Releasable, Intent
  <2> QED
    BY <2>1, <1>2 DEF Release, ReviewInv, TypeOK, Ordered, Loaded, Single
<1>3. ASSUME NEW c \in Callers, Rollback(c)
      PROVE  ReviewInv'
  BY <1>0, <1>3, CloseInv DEF Rollback, rows, ReviewInv, Ordered, Single
<1>4. ASSUME NEW i \in DOMAIN outbox, Quarantine(i)
      PROVE  ReviewInv'
  <2>1. outbox' \in Seq(Row) /\ Len(outbox') = Len(outbox)
    BY <1>0, <1>4, RowTyped DEF Quarantine
  <2>2. intent.status # "NONE"
    BY <1>0, <1>4 DEF ReviewInv, Ordered
  <2>3. intent' \in Intent /\ intent'.status # "NONE"
    BY <1>0, <1>4 DEF Quarantine, Intent
  <2>4. Single'
    BY <1>0, <1>4, SingleKept DEF Quarantine, ReviewInv, Single
  <2> QED
    BY <2>1, <2>2, <2>3, <2>4, <1>4 DEF Quarantine, ReviewInv, TypeOK, Ordered,
       Loaded
<1>5. CASE UNCHANGED vars
  BY <1>5 DEF vars, rows, ReviewInv, TypeOK, Ordered, Loaded, Single
<1> QED
  BY <1>1, <1>2, <1>3, <1>4, <1>5, DecidingInv, WorkingInv DEF Next

\* The invariant holds initially.
LEMMA ReviewInit == Init => ReviewInv
<1> SUFFICES ASSUME Init PROVE ReviewInv
  OBVIOUS
<1>1. TypeOK
  BY ProposedAssumption DEF Init, TypeOK, Unreviewed, NoIntent, NoTransaction,
     Review, Intent, Transaction, Operations
<1> QED
  BY <1>1 DEF Init, ReviewInv, Ordered, Loaded, Single, Unreviewed, NoIntent,
     NoTransaction

LEMMA ReviewAlways == Spec => []ReviewInv
  BY ReviewInit, ReviewStep, PTL DEF Spec

\* Every row and every loaded copy of one has its columns' domains.
THEOREM ReviewTyped == Spec => []TypeOK
  BY ReviewAlways, PTL DEF ReviewInv

\* However approvals, releases, cancellations, expired claims and crashes
\* interleave, the provider is called once for a reviewed response.
THEOREM CalledOnce == Spec => []OneCall
<1>1. ReviewInv => OneCall
  BY DEF ReviewInv, Single, OneCall
<1> QED
  BY <1>1, ReviewAlways, PTL

-----------------------------------------------------------------------------
(* What is final.                                                           *)

\* What the steps of one transaction cannot change of the others.
Others(c) == \A d \in Callers : d # c => tx'[d] = tx[d]

\* Who undid the rejection, if anyone did, began before it.
RejectionHeld ==
    /\ UnawareOfRejection' \subseteq UnawareOfRejection
    /\ Rejected' \/ \E c \in UnawareOfRejection : Close(c)

\* No step lets anyone new undo a rejection.
LEMMA RejectedStep ==
    ASSUME ReviewInv, Rejected, [Next]_vars
    PROVE  RejectionHeld
<1>0. /\ TypeOK /\ tx \in [Callers -> Transaction] /\ DOMAIN outbox = {}
      /\ review.status = "REJECTED" /\ outbox = <<>>
  BY DEF ReviewInv, TypeOK, Rejected
\* A transaction that ends, or begins now, is not unaware.
<1>1. ASSUME NEW c \in Callers, Others(c),
             \/ tx'[c].op = "none"
             \/ tx'[c].op \in {"cancel", "gate"} /\ tx'[c].review = review
             \/ c \in UnawareOfRejection
      PROVE  UnawareOfRejection' \subseteq UnawareOfRejection
  BY <1>0, <1>1 DEF UnawareOfRejection, Others
<1>2. ASSUME NEW c \in Callers, Close(c)
      PROVE  UnawareOfRejection' \subseteq UnawareOfRejection
  BY <1>0, <1>1, <1>2, CloseTyped DEF NoTransaction, Others
<1>3. CASE Approve \/ Release
  BY <1>0, <1>3 DEF Approve, Release
<1>4. ASSUME NEW c \in Callers, OpenReject(c) \/ OpenOwnerApproval(c) \/ OpenEdit(c)
      PROVE  FALSE
  BY <1>0, <1>4 DEF OpenReject, OpenOwnerApproval, OpenEdit, Editable
<1>5. ASSUME NEW c \in Callers, OpenCancel(c) \/ OpenEnqueue(c)
      PROVE  RejectionHeld
  <2>1. PICK op \in {"cancel", "gate"} : Open(c, op)
    BY <1>5 DEF OpenCancel, OpenEnqueue
  <2>2. tx'[c] = [op |-> op, review |-> review, intent |-> intent] /\ Others(c)
    BY <2>1, <1>0, OpenTyped DEF Operations, Others
  <2>3. Rejected'
    BY <1>0, <1>5 DEF OpenCancel, OpenEnqueue, rows, Rejected
  <2> QED
    BY <2>2, <2>3, <1>1 DEF RejectionHeld
<1>6. ASSUME NEW c \in Callers,
             \/ \E text \in Texts : CommitEdit(c, text)
             \/ CommitReject(c) \/ OwnerReleases(c) \/ CommitCancel(c)
             \/ GateStops(c) \/ Rollback(c)
      PROVE  RejectionHeld
  <2>1. Close(c) /\ UNCHANGED outbox
    BY <1>6 DEF CommitEdit, CommitReject, OwnerReleases, CommitCancel, GateStops,
       Rollback, rows
  <2>2. review'.status = "REJECTED"
    BY <1>0, <1>6 DEF CommitEdit, CommitReject, OwnerReleases, CommitCancel,
       GateStops, Rollback, rows, TypeOK, Review
  <2> QED
    BY <2>1, <2>2, <1>0, <1>2 DEF RejectionHeld, Rejected
<1>7. ASSUME NEW c \in Callers, OwnerApproves(c) \/ CommitEnqueue(c)
      PROVE  RejectionHeld
  <2>1. c \in UnawareOfRejection /\ Close(c)
    BY <1>7 DEF OwnerApproves, CommitEnqueue, UnawareOfRejection
  <2> QED
    BY <2>1, <1>2 DEF RejectionHeld
<1>8. ASSUME NEW c \in Callers, PassGate(c)
      PROVE  RejectionHeld
  <2>1. c \in UnawareOfRejection /\ Others(c) /\ UNCHANGED rows
    BY <1>0, <1>8 DEF PassGate, GatePasses, UnawareOfRejection, Others
  <2> QED
    BY <2>1, <1>0, <1>1 DEF RejectionHeld, Rejected, rows
<1>9. CASE UNCHANGED vars
  BY <1>0, <1>9 DEF vars, rows, RejectionHeld, Rejected, UnawareOfRejection
<1> QED
  BY <1>0, <1>3, <1>4, <1>5, <1>6, <1>7, <1>8, <1>9 DEF Next, Deciding, Working

\* Nobody who began after a rejection undoes it or queues the response.
THEOREM RejectionHolds == Spec => RejectionIsFinal
  BY ReviewAlways, RejectedStep, PTL DEF Spec, RejectionIsFinal, RejectionHeld

\* Who used the canceled intent again, if anyone did, began before it was.
CancellationHeld ==
    /\ UnawareOfCancellation' \subseteq UnawareOfCancellation
    /\ Canceled' \/ \E c \in UnawareOfCancellation : Close(c)

\* No step lets anyone new use a canceled intent.
LEMMA CanceledStep ==
    ASSUME ReviewInv, Canceled, [Next]_vars
    PROVE  CancellationHeld
<1>0. /\ TypeOK /\ tx \in [Callers -> Transaction] /\ DOMAIN outbox = {}
      /\ intent.status = "CANCELLED" /\ outbox = <<>>
      /\ review.status # "PENDING" /\ intent \in Intent
  BY DEF ReviewInv, TypeOK, Ordered, Canceled
<1>1. ASSUME NEW c \in Callers, Others(c),
             \/ tx'[c].op = "none"
             \/ tx'[c] = [op |-> "approve", review |-> review, intent |-> intent]
             \/ c \in UnawareOfCancellation
      PROVE  UnawareOfCancellation' \subseteq UnawareOfCancellation
  BY <1>0, <1>1 DEF UnawareOfCancellation, Others
<1>2. ASSUME NEW c \in Callers, Close(c)
      PROVE  UnawareOfCancellation' \subseteq UnawareOfCancellation
  BY <1>0, <1>1, <1>2, CloseTyped DEF NoTransaction, Others
<1>3. CASE Approve \/ Release
  BY <1>0, <1>3 DEF Approve, Release, Releasable
<1>4. ASSUME NEW c \in Callers,
             OpenReject(c) \/ OpenEdit(c) \/ OpenCancel(c) \/ OpenEnqueue(c)
      PROVE  FALSE
  BY <1>0, <1>4 DEF OpenReject, OpenEdit, Editable, OpenCancel, OpenEnqueue
<1>5. ASSUME NEW c \in Callers, OpenOwnerApproval(c)
      PROVE  CancellationHeld
  <2>1. tx'[c] = [op |-> "approve", review |-> review, intent |-> intent]
        /\ Others(c)
    BY <1>0, <1>5, OpenTyped DEF OpenOwnerApproval, Operations, Others
  <2>2. Canceled'
    BY <1>0, <1>5 DEF OpenOwnerApproval, rows, Canceled
  <2> QED
    BY <2>1, <2>2, <1>1 DEF CancellationHeld
<1>6. ASSUME NEW c \in Callers,
             \/ \E text \in Texts : CommitEdit(c, text)
             \/ CommitReject(c) \/ CommitCancel(c) \/ Rollback(c)
      PROVE  CancellationHeld
  <2>1. Close(c) /\ UNCHANGED outbox
    BY <1>6 DEF CommitEdit, CommitReject, CommitCancel, Rollback, rows
  <2>2. intent'.status = "CANCELLED"
    BY <1>0, <1>6 DEF CommitEdit, CommitReject, CommitCancel, Rollback, rows,
       WriteIntent, Written
  <2> QED
    BY <2>1, <2>2, <1>0, <1>2 DEF CancellationHeld, Canceled
<1>7. ASSUME NEW c \in Callers,
             \/ OwnerApproves(c) \/ OwnerReleases(c) \/ GateStops(c)
             \/ CommitEnqueue(c)
      PROVE  CancellationHeld
  <2>1. c \in UnawareOfCancellation /\ Close(c)
    BY <1>7 DEF OwnerApproves, OwnerReleases, Releasable, GateStops,
       CommitEnqueue, UnawareOfCancellation
  <2> QED
    BY <2>1, <1>2 DEF CancellationHeld
<1>8. ASSUME NEW c \in Callers, PassGate(c)
      PROVE  CancellationHeld
  <2>1. c \in UnawareOfCancellation /\ Others(c) /\ UNCHANGED rows
    BY <1>0, <1>8 DEF PassGate, UnawareOfCancellation, Others
  <2> QED
    BY <2>1, <1>0, <1>1 DEF CancellationHeld, Canceled, rows
<1>9. CASE UNCHANGED vars
  BY <1>0, <1>9 DEF vars, rows, CancellationHeld, Canceled, UnawareOfCancellation
<1> QED
  BY <1>0, <1>3, <1>4, <1>5, <1>6, <1>7, <1>8, <1>9 DEF Next, Deciding, Working

\* Nobody who began after a cancellation uses the intent again.
THEOREM CancellationHolds == Spec => CancellationIsFinal
  BY ReviewAlways, CanceledStep, PTL DEF Spec, CancellationIsFinal,
     CancellationHeld

\* The texts that may be queued are no more, and no other has been queued.
TextHeld ==
    /\ review'.status # "PENDING"
    /\ Sayable' \subseteq Sayable
    /\ \A i \in DOMAIN outbox' \ DOMAIN outbox : outbox'[i].text \in Sayable

\* Whatever may be queued is a text.
LEMMA SayableTyped == TypeOK => Sayable \subseteq Texts
  BY DEF TypeOK, Sayable, Review, Transaction

\* A decided review stays decided.
LEMMA DecidedStep ==
    ASSUME ReviewInv, review.status # "PENDING", [Next]_vars
    PROVE  review'.status # "PENDING"
<1>0. review \in Review
  BY DEF ReviewInv, TypeOK
<1>1. CASE Approve \/ Release
  BY <1>0, <1>1 DEF Approve, Release, Review
<1>2. ASSUME NEW c \in Callers, Deciding(c)
      PROVE  review'.status # "PENDING"
  BY <1>0, <1>2 DEF Deciding, OpenEdit, CommitEdit, OpenReject, CommitReject,
     OpenOwnerApproval, OwnerApproves, OwnerReleases, OpenCancel, CommitCancel,
     Review, rows
<1>3. ASSUME NEW c \in Callers, Working(c) \/ Rollback(c)
      PROVE  review' = review
  BY <1>3 DEF Working, OpenEnqueue, GateStops, PassGate, CommitEnqueue, Claim,
     CommitSend, Rollback, rows
<1>4. ASSUME NEW i \in DOMAIN outbox, Quarantine(i)
      PROVE  review' = review
  BY <1>4 DEF Quarantine
<1> QED
  BY <1>1, <1>2, <1>3, <1>4 DEF Next, vars, rows

\* Only the end of an enqueue makes a row, with the text the worker has read.
LEMMA RowsQueued ==
    ASSUME ReviewInv, [Next]_vars
    PROVE  \/ DOMAIN outbox' = DOMAIN outbox
           \/ \E c \in Callers :
                 /\ tx[c].op = "fill"
                 /\ \A i \in DOMAIN outbox' \ DOMAIN outbox :
                       outbox'[i].text = tx[c].review.text
<1>0. TypeOK /\ outbox \in Seq(Row)
  BY DEF ReviewInv, TypeOK
<1>1. CASE Approve \/ Release
  BY <1>1 DEF Approve, Release
<1>2. ASSUME NEW c \in Callers, Deciding(c) \/ Rollback(c)
      PROVE  outbox' = outbox
  BY <1>2 DEF Deciding, OpenEdit, CommitEdit, OpenReject, CommitReject,
     OpenOwnerApproval, OwnerApproves, OwnerReleases, OpenCancel, CommitCancel,
     Rollback, rows
<1>3. ASSUME NEW c \in Callers, OpenEnqueue(c) \/ GateStops(c) \/ PassGate(c)
      PROVE  outbox' = outbox
  BY <1>3 DEF OpenEnqueue, GateStops, PassGate, rows
<1>4. ASSUME NEW c \in Callers, CommitEnqueue(c)
      PROVE  /\ tx[c].op = "fill"
             /\ \A i \in DOMAIN outbox' \ DOMAIN outbox :
                   outbox'[i].text = tx[c].review.text
  BY <1>0, <1>4 DEF CommitEnqueue
<1>5. ASSUME NEW c \in Callers, NEW i \in DOMAIN outbox,
             Claim(c, i) \/ CommitSend(c, i)
      PROVE  DOMAIN outbox' = DOMAIN outbox
  BY <1>0, <1>5 DEF Claim, CommitSend
<1>6. ASSUME NEW i \in DOMAIN outbox, Quarantine(i)
      PROVE  DOMAIN outbox' = DOMAIN outbox
  BY <1>0, <1>6 DEF Quarantine
<1> QED
  BY <1>1, <1>2, <1>3, <1>4, <1>5, <1>6 DEF Next, Working, vars, rows

\* With the review decided and no edit under way, no text is added.
LEMMA SayableStep ==
    ASSUME ReviewInv, review.status # "PENDING",
           \A c \in Callers : tx[c].op # "edit", [Next]_vars
    PROVE  Sayable' \subseteq Sayable
<1>0. TypeOK /\ tx \in [Callers -> Transaction] /\ review \in Review
  BY DEF ReviewInv, TypeOK
\* What a step of one transaction must leave.
<1>1. ASSUME review'.text = review.text, NEW c \in Callers, Others(c),
             tx'[c].op # "edit", tx'[c].op = "fill" => tx'[c].review = review
      PROVE  Sayable' \subseteq Sayable
  <2>1. \A d \in Callers : tx'[d].op # "edit"
    BY <1>1 DEF Others
  <2>2. ASSUME NEW d \in Callers, tx'[d].op = "fill"
        PROVE  tx'[d].review.text \in Sayable
    BY <1>1, <2>2 DEF Others, Sayable
  <2> QED
    BY <2>1, <2>2, <1>1 DEF Sayable
<1>2. ASSUME UNCHANGED tx, review'.text = review.text
      PROVE  Sayable' \subseteq Sayable
  BY <1>2 DEF Sayable
<1>3. CASE Approve \/ Release
  BY <1>2, <1>3 DEF Approve, Release
<1>4. ASSUME NEW c \in Callers,
             OpenReject(c) \/ OpenEdit(c) \/ \E t \in Texts : CommitEdit(c, t)
      PROVE  FALSE
  BY <1>4 DEF OpenReject, OpenEdit, Editable, CommitEdit
<1>5. ASSUME NEW c \in Callers,
             \/ OpenOwnerApproval(c) \/ OpenCancel(c) \/ OpenEnqueue(c)
             \/ \E i \in DOMAIN outbox : Claim(c, i)
      PROVE  Sayable' \subseteq Sayable
  <2>1. PICK op \in {"approve", "cancel", "gate", "send"} : Open(c, op)
    BY <1>5 DEF OpenOwnerApproval, OpenCancel, OpenEnqueue, Claim
  <2>2. review' = review
    BY <1>5 DEF OpenOwnerApproval, OpenCancel, OpenEnqueue, Claim, rows
  <2>3. tx'[c].op = op /\ Others(c)
    BY <2>1, <1>0, OpenTyped DEF Operations, Others
  <2> QED
    BY <2>2, <2>3, <1>1
<1>6. ASSUME NEW c \in Callers,
             \/ CommitReject(c) \/ OwnerApproves(c) \/ OwnerReleases(c)
             \/ CommitCancel(c) \/ GateStops(c) \/ CommitEnqueue(c)
             \/ Rollback(c) \/ \E i \in DOMAIN outbox : CommitSend(c, i)
      PROVE  Sayable' \subseteq Sayable
  <2>1. Close(c)
    BY <1>6 DEF CommitReject, OwnerApproves, OwnerReleases, CommitCancel,
       GateStops, CommitEnqueue, Rollback, CommitSend
  <2>2. review'.text = review.text
    BY <1>0, <1>6 DEF CommitReject, OwnerApproves, OwnerReleases, CommitCancel,
       GateStops, CommitEnqueue, Rollback, CommitSend, rows, Review
  <2>3. tx'[c].op = "none" /\ Others(c)
    BY <2>1, <1>0, CloseTyped DEF NoTransaction, Others
  <2> QED
    BY <2>2, <2>3, <1>1
<1>7. ASSUME NEW c \in Callers, PassGate(c)
      PROVE  Sayable' \subseteq Sayable
  <2>1. /\ tx'[c].op = "fill" /\ tx'[c].review = review /\ Others(c)
        /\ review' = review
    BY <1>0, <1>7 DEF PassGate, rows, Transaction, Others
  <2> QED
    BY <2>1, <1>1
<1>8. CASE (\E i \in DOMAIN outbox : Quarantine(i)) \/ UNCHANGED vars
  BY <1>2, <1>8 DEF Quarantine, vars, rows
<1> QED
  BY <1>3, <1>4, <1>5, <1>6, <1>7, <1>8 DEF Next, Deciding, Working

\* After the decision only the edits that began before it add to what is sent.
LEMMA TextStep ==
    ASSUME ReviewInv, review.status # "PENDING", [Next]_vars
    PROVE  TextHeld
<1>1. ReviewInv' /\ TypeOK /\ TypeOK'
  BY ReviewStep DEF ReviewInv
<1>2. Sayable' \subseteq Sayable
  <2>1. CASE \E c \in Callers : tx[c].op = "edit"
    <3>1. Sayable = Texts
      BY <2>1 DEF Sayable
    <3>2. Sayable' \subseteq Texts
      BY <1>1 DEF TypeOK, Sayable, Review, Transaction
    <3> QED
      BY <3>1, <3>2
  <2> QED
    BY <2>1, SayableStep
<1>3. ASSUME NEW c \in Callers, tx[c].op = "fill"
      PROVE  tx[c].review.text \in Sayable
  BY <1>1, <1>3 DEF Sayable, TypeOK, Transaction, Review
<1>4. \A i \in DOMAIN outbox' \ DOMAIN outbox : outbox'[i].text \in Sayable
  BY <1>3, RowsQueued
<1> QED
  BY <1>2, <1>4, DecidedStep DEF TextHeld

\* Once decided, the texts that may be queued are those that the edits under
\* way, the review and the workers hold, and they grow no more.
THEOREM TextHolds == Spec => TextIsFinal
  BY ReviewAlways, TextStep, PTL DEF Spec, TextIsFinal, TextHeld
=============================================================================
