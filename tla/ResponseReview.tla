--------------------------- MODULE ResponseReview ---------------------------
(* The review of one proposed response by operators (web/app.py) and by the *)
(* owner in the own chat (owner_response_review_control.py), and the        *)
(* worker's enqueue and dispatch of the intent an approval creates.         *)
(* Rows are read without a lock, except by the API's approve and release;   *)
(* the owner's approval locks a row it has loaded before, which refreshes   *)
(* nothing.  A commit writes the columns that differ from the loaded row.   *)
EXTENDS Sequences, Naturals

CONSTANTS
    Callers,   \* requests, chat commands and workers: one open transaction each
    Texts,     \* what a response may say
    Proposed   \* the decision's proposed response

ASSUME ProposedAssumption == Proposed \in Texts

VARIABLES
    review,    \* the row of agent_response_reviews
    intent,    \* the row of agent_execution_intents; "NONE" before approval
    outbox,    \* the rows of outbox_messages that carry the response
    calls,     \* dispatches begun, each of them a call of the provider
    tx         \* the open transactions and the rows they have loaded

rows == <<review, intent, outbox, calls>>
vars == <<rows, tx>>

Review == [status : {"PENDING", "APPROVED", "REJECTED"}, text : Texts]
Intent == [status : {"NONE", "BLOCKED", "READY", "QUEUED", "SENT", "FAILED",
                     "CANCELLED"},
           release : {"HELD", "RELEASED"}]
Row == [status : {"PENDING", "PROCESSING", "DONE", "AMBIGUOUS", "FAILED",
                  "RECONCILIATION_REQUIRED", "CANCELED"},
        text : Texts]
Operations == {"none", "edit", "reject", "approve", "cancel", "gate", "fill",
               "send"}
Transaction == [op : Operations, review : Review, intent : Intent]

Held == [status |-> "BLOCKED", release |-> "HELD"]
Unreviewed == [status |-> "PENDING", text |-> Proposed]
NoIntent == [status |-> "NONE", release |-> "HELD"]
NoTransaction == [op |-> "none", review |-> Unreviewed, intent |-> NoIntent]

\* create_review_for_decision: PENDING, with the proposed response; creating it
\* again finds it.  No transaction is open.
Init ==
    /\ review = Unreviewed
    /\ intent = NoIntent
    /\ outbox = <<>>
    /\ calls = 0
    /\ tx = [c \in Callers |-> NoTransaction]

-----------------------------------------------------------------------------
(* Transactions.                                                            *)

Open(c, op) ==
    /\ tx[c].op = "none"
    /\ tx' = [tx EXCEPT ![c] = [op |-> op, review |-> review, intent |-> intent]]

Close(c) == tx' = [tx EXCEPT ![c] = NoTransaction]

\* A column set to the value it was loaded with is not written.
Written(loaded, new, current) == IF new = loaded THEN current ELSE new

WriteIntent(c, status, release) ==
    intent' = [status |-> Written(tx[c].intent.status, status, intent.status),
               release |-> Written(tx[c].intent.release, release, intent.release)]

\* An exception, a lost connection or a dead process.  A claimed row stays so.
Rollback(c) ==
    /\ tx[c].op # "none"
    /\ Close(c)
    /\ UNCHANGED rows

-----------------------------------------------------------------------------
(* Edits and verdicts.                                                      *)

\* Mutation: only a rejected review is closed to edits.
EditableUntilRejected(status) == status # "REJECTED"

Editable(status) == status = "PENDING"

OpenEdit(c) ==
    /\ Editable(review.status)
    /\ Open(c, "edit")
    /\ UNCHANGED rows

\* edit_review: the status it read is not checked again.
CommitEdit(c, text) ==
    /\ tx[c].op = "edit"
    /\ review' = [review EXCEPT !.text = Written(tx[c].review.text, text, @)]
    /\ Close(c)
    /\ UNCHANGED <<intent, outbox, calls>>

\* reject_review, for an operator or the owner.
OpenReject(c) ==
    /\ review.status = "PENDING"
    /\ Open(c, "reject")
    /\ UNCHANGED rows

CommitReject(c) ==
    /\ tx[c].op = "reject"
    /\ review' = [review EXCEPT !.status = "REJECTED"]
    /\ Close(c)
    /\ UNCHANGED <<intent, outbox, calls>>

\* approve_review in a request, which loads the row when it locks it.
Approve ==
    /\ review.status = "PENDING"
    /\ review' = [review EXCEPT !.status = "APPROVED"]
    /\ intent' = Held
    /\ UNCHANGED <<outbox, calls, tx>>

\* apply_owner_response_review loads the review and its intent first.
OpenOwnerApproval(c) ==
    /\ review.status \in {"PENDING", "APPROVED"}
    /\ Open(c, "approve")
    /\ UNCHANGED rows

\* A review loaded as PENDING is approved whatever it is by now: a canceled
\* intent is used again, another violates uq_agent_execution_intents_review
\* (Rollback).  The release may be denied, pass, or be stopped by a gate.
OwnerApproves(c) ==
    /\ tx[c].op = "approve"
    /\ tx[c].review.status = "PENDING"
    /\ intent.status \in {"NONE", "CANCELLED"}
    /\ review' = [review EXCEPT !.status = "APPROVED"]
    /\ intent' \in {Held, [Held EXCEPT !.release = "RELEASED"],
                    [status |-> "READY", release |-> "RELEASED"]}
    /\ Close(c)
    /\ UNCHANGED <<outbox, calls>>

\* Mutation: a canceled intent can be released.
ReleasableIfUnsent(status) == status \notin {"NONE", "SENT"}

\* release_intent denies the other statuses.
Releasable(status) == status \notin {"NONE", "SENT", "CANCELLED"}

\* A review loaded as APPROVED: its intent is released by what was loaded of it.
OwnerReleases(c) ==
    /\ tx[c].op = "approve"
    /\ tx[c].review.status = "APPROVED"
    /\ Releasable(tx[c].intent.status)
    /\ ~(tx[c].intent.status = "READY" /\ tx[c].intent.release = "RELEASED")
    /\ \E status \in {"READY", "BLOCKED"} : WriteIntent(c, status, "RELEASED")
    /\ Close(c)
    /\ UNCHANGED <<review, outbox, calls>>

-----------------------------------------------------------------------------
(* The intent.                                                              *)

\* release_intent in a request; where a gate blocks, the request fails and
\* nothing is written.
Release ==
    /\ Releasable(intent.status)
    /\ review.status = "APPROVED"
    /\ intent' = [status |-> "READY", release |-> "RELEASED"]
    /\ UNCHANGED <<review, outbox, calls, tx>>

OpenCancel(c) ==
    /\ intent.status \notin {"NONE", "SENT", "CANCELLED"}
    /\ Open(c, "cancel")
    /\ UNCHANGED rows

\* cancel_intent: the status it read is not checked again.
CommitCancel(c) ==
    /\ tx[c].op = "cancel"
    /\ WriteIntent(c, "CANCELLED", tx[c].intent.release)
    /\ Close(c)
    /\ UNCHANGED <<review, outbox, calls>>

\* enqueue_ready_intents selects the intent and execution_gate reads the review.
OpenEnqueue(c) ==
    /\ intent = [status |-> "READY", release |-> "RELEASED"]
    /\ Open(c, "gate")
    /\ UNCHANGED rows

\* A human reply or a repetition cancels the intent, any other gate blocks it.
GateStops(c) ==
    /\ tx[c].op = "gate"
    /\ \E status \in {"BLOCKED", "CANCELLED"} :
          WriteIntent(c, status, tx[c].intent.release)
    /\ Close(c)
    /\ UNCHANGED <<review, outbox, calls>>

\* Mutation: the verdict is not read again when the intent is enqueued.
GateIgnoresReview(row) == row \in Review

\* REVIEW_NOT_APPROVED otherwise.
GatePasses(row) == row.status = "APPROVED"

\* The gate is passed; the text of the message is read after it.
PassGate(c) ==
    /\ tx[c].op = "gate"
    /\ GatePasses(tx[c].review)
    /\ tx' = [tx EXCEPT ![c].op = "fill", ![c].review = review]
    /\ UNCHANGED rows

\* A row has the key execution:{intent.id}, which is unique.
KeyTaken == outbox # <<>>

\* With the key taken nothing is inserted (or, inserted, rolled back).
CommitEnqueue(c) ==
    /\ tx[c].op = "fill"
    /\ outbox' = IF KeyTaken THEN outbox
                 ELSE Append(outbox, [status |-> "PENDING",
                                      text |-> tx[c].review.text])
    /\ WriteIntent(c, "QUEUED", tx[c].intent.release)
    /\ Close(c)
    /\ UNCHANGED <<review, calls>>

-----------------------------------------------------------------------------
(* Dispatch: a reply a person approved meets no further gate.               *)

Claim(c, i) ==
    /\ outbox[i].status = "PENDING"
    /\ Open(c, "send")
    /\ outbox' = [outbox EXCEPT ![i].status = "PROCESSING"]
    /\ calls' = calls + 1
    /\ UNCHANGED <<review, intent>>

\* The end of the provider call, or of the claim if the owner has replied: the
\* statuses of the row and of the intent, which a failure may have read again.
Outcomes == {<<"DONE", "SENT">>, <<"AMBIGUOUS", "BLOCKED">>,
             <<"RECONCILIATION_REQUIRED", "BLOCKED">>,
             <<"FAILED", "FAILED">>, <<"CANCELED", "CANCELLED">>}

CommitSend(c, i) ==
    /\ tx[c].op = "send"
    /\ \E o \in Outcomes :
          /\ outbox' = [outbox EXCEPT ![i].status = o[1]]
          /\ \/ WriteIntent(c, o[2], tx[c].intent.release)
             \/ o[2] = "BLOCKED" /\ intent' = [intent EXCEPT !.status = "BLOCKED"]
    /\ Close(c)
    /\ UNCHANGED <<review, calls>>

\* Mutation: a dispatch whose claim has expired is made again.
DispatchedAgain(i) ==
    /\ outbox[i].status = "PROCESSING"
    /\ outbox' = [outbox EXCEPT ![i].status = "PENDING"]
    /\ UNCHANGED <<review, intent, calls, tx>>

\* claim_outbox, once the lease of the claim has expired: its sender may be gone,
\* or only slow, and then writes its outcome over this one.
Quarantine(i) ==
    /\ outbox[i].status = "PROCESSING"
    /\ outbox' = [outbox EXCEPT ![i].status = "AMBIGUOUS"]
    /\ intent' = [intent EXCEPT !.status = "BLOCKED"]
    /\ UNCHANGED <<review, calls, tx>>

-----------------------------------------------------------------------------
Deciding(c) ==
    \/ OpenEdit(c) \/ \E text \in Texts : CommitEdit(c, text)
    \/ OpenReject(c) \/ CommitReject(c)
    \/ OpenOwnerApproval(c) \/ OwnerApproves(c) \/ OwnerReleases(c)
    \/ OpenCancel(c) \/ CommitCancel(c)

Working(c) ==
    \/ OpenEnqueue(c) \/ GateStops(c) \/ PassGate(c) \/ CommitEnqueue(c)
    \/ \E i \in DOMAIN outbox : Claim(c, i) \/ CommitSend(c, i)

Next ==
    \/ Approve \/ Release
    \/ \E c \in Callers : Deciding(c) \/ Working(c) \/ Rollback(c)
    \/ \E i \in DOMAIN outbox : Quarantine(i)

Spec == Init /\ [][Next]_vars

-----------------------------------------------------------------------------
(* Properties.                                                              *)

\* Every row and every loaded copy has its type (the columns' domains).
TypeOK ==
    /\ review \in Review
    /\ intent \in Intent
    /\ outbox \in Seq(Row)
    /\ calls \in Nat
    /\ tx \in [Callers -> Transaction]

\* However approvals, releases after a failure or an unknown outcome,
\* cancellations over SENT, the reuse of a canceled intent and slow senders
\* follow each other, the provider is called once for the response.  Neither
\* the intent nor the review prevents it, whose statuses stale writes undo:
\* only the key of the outbox row, which is never PENDING again
\* (enqueue_ready_intents, claim_outbox).
OneCall == calls <= 1

\* The rejection of a response that is not queued, and the transactions that
\* have loaded the review as it was before.
Rejected == review.status = "REJECTED" /\ outbox = <<>>
UnawareOfRejection ==
    {c \in Callers :
        \/ tx[c].op = "approve" /\ tx[c].review.status = "PENDING"
        \/ tx[c].op = "gate" /\ tx[c].review.status # "REJECTED"
        \/ tx[c].op = "fill"}

\* A rejection writes over an approval without a lock and leaves its intent
\* READY, and an approval writes over a rejection.  Still only transactions
\* that began before the rejection can undo it or queue the response: their
\* number never grows, and it is undone by the commit of one of them
\* (reject_review, approve_review, execution_gate).
RejectionIsFinal ==
    [][Rejected =>
          /\ UnawareOfRejection' \subseteq UnawareOfRejection
          /\ Rejected' \/ \E c \in UnawareOfRejection : Close(c)]_vars

\* The same of a canceled intent that is not queued.
Canceled == intent.status = "CANCELLED" /\ outbox = <<>>
UnawareOfCancellation ==
    {c \in Callers :
        \/ tx[c].op \in {"gate", "fill"}
        \/ /\ tx[c].op = "approve"
           /\ \/ tx[c].review.status = "PENDING"
              \/ tx[c].intent.status # "CANCELLED"}

\* A canceled intent is used again by an approval, released, blocked or queued
\* only by transactions that began before the cancellation
\* (cancel_intent, release_intent, apply_owner_response_review).
CancellationIsFinal ==
    [][Canceled =>
          /\ UnawareOfCancellation' \subseteq UnawareOfCancellation
          /\ Canceled' \/ \E c \in UnawareOfCancellation : Close(c)]_vars

\* What may yet be queued: the text of the review or the one a worker has read,
\* and anything while an edit is under way.
Sayable ==
    IF \E c \in Callers : tx[c].op = "edit" THEN Texts
    ELSE {review.text}
             \cup {tx[c].review.text : c \in {d \in Callers : tx[d].op = "fill"}}

\* An edit may be written over the text after its approval, even after a worker
\* has read it.  Still, once the review is decided, only the edits that began
\* before the decision add to what may be queued, and nothing else is
\* (edit_review, enqueue_ready_intents).
TextIsFinal ==
    [][review.status # "PENDING" =>
          /\ review'.status # "PENDING"
          /\ Sayable' \subseteq Sayable
          /\ \A i \in DOMAIN outbox' \ DOMAIN outbox :
                outbox'[i].text \in Sayable]_vars
=============================================================================
