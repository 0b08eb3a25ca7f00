----------------------------- MODULE MailIntake -----------------------------
(***************************************************************************)
(* How mail reaches the timeline: the incremental Gmail runs that read a   *)
(* mailbox's history after a durable cursor (application/gmail_history.py, *)
(* infrastructure/gmail_scheduler.py), the neutral ingress that admits     *)
(* each message once (integrations/admission.py), the worker that turns an *)
(* admitted row into a canonical event (integrations/dispatch.py), and     *)
(* what changes the authority under them: connect, disconnect, a disabled  *)
(* binding and the hand-over of the cursor to another tenant               *)
(* (application/gmail_connection.py, gmail_cursor_handoff.py).             *)
(*                                                                         *)
(* The tenants are installations of one human and one mailbox.  A history  *)
(* id is the length of the mailbox's history.  An admission commits by     *)
(* itself, through HTTP; the cursor and the archived text commit together  *)
(* at the end of the run, which holds the installation's slot until then.  *)
(***************************************************************************)
EXTENDS Integers, Sequences, FiniteSets

CONSTANTS
    Tenants,      \* installations of the mailbox, one per tenant
    NoTenant,     \* the scheduler runs no installation
    Schedulers,   \* processes of gmail_scheduler.run_forever
    Messages,     \* provider message ids
    Modes,        \* granted profiles a tenant may connect with
    Limit,        \* gmail_product_runner_max_results: messages of one run
    PageSize,     \* records of one page of the history
    MaxPages,     \* gmail_product_scheduler_max_pages
    MaxHistory,   \* bound on the records of the mailbox
    MaxFaults     \* bound on what goes wrong: failures, restarts, losses of mail

ASSUME IntakeAssumption ==
    /\ NoTenant \notin Tenants
    /\ Modes \subseteq {"metadata", "readonly"}
    /\ Limit \in Nat \ {0} /\ PageSize \in Nat \ {0} /\ MaxPages \in Nat \ {0}
    /\ MaxHistory \in Nat /\ MaxFaults \in Nat
    /\ IsFiniteSet(Messages)

VARIABLES
    history,      \* provider: the messages added to INBOX by each record
    kept,         \* provider: the oldest history id it still serves
    deleted,      \* provider: messages that can no longer be read
    auth,         \* provider_authorizations: status, cursor, granted profile
    bound,        \* what is live of an installation's binding and credential
    inbox,        \* integration_inbox: state and body of each message's row
    archive,      \* messages whose text is in the conversation archive
    run,          \* a scheduler's run of one installation
    stale,        \* a scheduler's stale_installations
    faults,       \* what has gone wrong so far
    origin        \* history: where each installation's cursor comes from

vars == <<history, kept, deleted, auth, bound, inbox, archive, run, stale,
          faults, origin>>
mailbox == <<history, kept, deleted>>
authority == <<auth, bound, origin>>
stored == <<inbox, archive>>

NoCursor == -1
Bodies == Modes \cup {"poll"}
Cursors == {NoCursor} \cup 0..MaxHistory
RunPhases == {"idle", "baseline", "page", "records", "finish"}
\* own: the cursor the installation began with; first: the one its line of
\* hand-overs began with; line: the installations the cursor came through.
NoOrigin == [own |-> NoCursor, first |-> NoCursor, line |-> {}]
\* integration_bindings.active, with its tenant; integration_credentials.revoked.
Grants == {"binding", "credential"}
Absent == [state |-> "NONE", body |-> "poll"]
NoRun == [pc |-> "idle", tenant |-> NoTenant, at |-> 0, last |-> 0, end |-> 0,
          pages |-> 0, seen |-> {}]

Init ==
    /\ history = <<>> /\ kept = 0 /\ deleted = {}
    /\ auth \in [Tenants -> [status : {"NONE"}, cursor : {NoCursor}, mode : Modes]]
    /\ bound = [i \in Tenants |-> {}]
    /\ inbox = [i \in Tenants |-> [m \in Messages |-> Absent]]
    /\ archive = [i \in Tenants |-> {}]
    /\ run = [w \in Schedulers |-> NoRun]
    /\ stale = [w \in Schedulers |-> {}]
    /\ faults = 0
    /\ origin = [i \in Tenants |-> NoOrigin]

\* The messages of the records after one history id, up to another.
Mail(from, to) == UNION {history[r] : r \in (from + 1)..to}

\* Mutant: nobody waits for the slot.
SlotIgnored(i) == TRUE

\* acquire_gmail_slot: the advisory lock of an installation's slot is free.
SlotFree(i) == \A w \in Schedulers : run[w].tenant # i

\* _load_governed_authorization, and check_inbound_binding at the ingress.
Authorized(i) == auth[i].status = "ACTIVE" /\ bound[i] = Grants

-----------------------------------------------------------------------------
(* The ingress: _admit under the locks of tenant, binding and credential.  *)

\* The body is sent again byte for byte, so the answer is ACCEPTED or DUPLICATE.
Admissible(i, m, body) ==
    /\ Authorized(i)
    /\ inbox[i][m].state = "NONE" \/ inbox[i][m].body = body

Admitted(i, m, body) ==
    IF inbox[i][m].state = "NONE"
    THEN [inbox EXCEPT ![i][m] = [state |-> "PENDING", body |-> body]]
    ELSE inbox

\* process_integration_inbox: the row becomes an event, or is blocked for good.
\* The binding decides, whatever became of the credential.  The rows of a batch
\* commit together; a batch that raises rolls back and leaves all of them PENDING.
Dispatch(i, m) ==
    /\ inbox[i][m].state = "PENDING"
    /\ inbox' = [inbox EXCEPT ![i][m].state =
                     IF "binding" \in bound[i] THEN "PROCESSED" ELSE "BLOCKED"]
    /\ UNCHANGED <<mailbox, authority, archive, run, stale, faults>>

-----------------------------------------------------------------------------
(* One run of one installation: run_incremental and _cycle.                *)

\* The scheduler reaches installation i and gets its slot without waiting.
StartRun(w, i) ==
    /\ run[w].pc = "idle" /\ i \notin stale[w]
    /\ SlotFree(i) /\ Authorized(i)
    /\ LET start == auth[i].cursor IN
       run' = [run EXCEPT ![w] =
           [pc |-> IF start = NoCursor THEN "baseline" ELSE "page",
            tenant |-> i, at |-> start, last |-> start, end |-> start,
            pages |-> 0, seen |-> {}]]
    /\ UNCHANGED <<mailbox, authority, stored, stale, faults>>

\* A first run only takes the mailbox's present history id.
ReadBaseline(w) ==
    /\ run[w].pc = "baseline"
    /\ run' = [run EXCEPT ![w].pc = "finish", ![w].at = Len(history)]
    /\ UNCHANGED <<mailbox, authority, stored, stale, faults>>

PageEnd(from) ==
    IF from + PageSize < Len(history) THEN from + PageSize ELSE Len(history)

FetchPage(w) ==
    /\ run[w].pc = "page"
    /\ auth[run[w].tenant].cursor >= kept
    /\ run' = [run EXCEPT ![w].pc = "records",
                          ![w].last = PageEnd(run[w].last),
                          ![w].end = Len(history),
                          ![w].pages = @ + 1]
    /\ UNCHANGED <<mailbox, authority, stored, stale, faults>>

\* History 404: the installation is left alone until the process restarts.
HistoryStale(w) ==
    /\ run[w].pc = "page"
    /\ auth[run[w].tenant].cursor < kept
    /\ stale' = [stale EXCEPT ![w] = @ \cup {run[w].tenant}]
    /\ run' = [run EXCEPT ![w] = NoRun]
    /\ UNCHANGED <<mailbox, authority, stored, faults>>

\* The record the run examines, and its messages not yet seen by the run.
Reading(w) == run[w].pc = "records" /\ run[w].at < run[w].last
Record(w) == history[run[w].at + 1]
\* Mutant: a message known from an earlier run is not read again.
FreshUnknown(w) == {m \in Record(w) \ run[w].seen :
                       inbox[run[w].tenant][m].state = "NONE"}
Fresh(w) == Record(w) \ run[w].seen
TooLarge(w) == Cardinality(Record(w)) > Limit
OverBudget(w) == Cardinality(run[w].seen \cup Record(w)) > Limit

Ingest(w, m) ==
    LET i == run[w].tenant IN
    /\ Reading(w) /\ ~OverBudget(w)
    /\ m \in Fresh(w) \ deleted
    /\ Admissible(i, m, auth[i].mode)
    /\ inbox' = Admitted(i, m, auth[i].mode)
    /\ run' = [run EXCEPT ![w].seen = @ \cup {m}]
    /\ UNCHANGED <<mailbox, authority, archive, stale, faults>>

AdvanceRecord(w) ==
    /\ Reading(w) /\ ~TooLarge(w) /\ Fresh(w) = {}
    /\ run' = [run EXCEPT ![w].at = @ + 1]
    /\ UNCHANGED <<mailbox, authority, stored, stale, faults>>

\* Mutant: a run that stops early commits the mailbox's history id.
StopsAtEnd(w) == run[w].end
\* Mutant: a run that stops early keeps the cursor it began with.
StopsAtStart(w) ==
    IF run[w].at = run[w].end THEN run[w].at ELSE auth[run[w].tenant].cursor

\* The cursor a run that stops here commits, _cycle's finish(cursor): the last
\* record it has done with.  After the last page that is the page's history id.
StopsAt(w) == run[w].at

MorePages(w) == run[w].at = run[w].last /\ run[w].last < run[w].end

NextPage(w) ==
    /\ run[w].pc = "records" /\ MorePages(w) /\ run[w].pages < MaxPages
    /\ run' = [run EXCEPT ![w].pc = "page"]
    /\ UNCHANGED <<mailbox, authority, stored, stale, faults>>

StopReading(w) ==
    /\ run[w].pc = "records"
    /\ \/ Reading(w) /\ ~TooLarge(w) /\ OverBudget(w)
       \/ run[w].at = run[w].end
       \/ MorePages(w) /\ run[w].pages >= MaxPages
    /\ run' = [run EXCEPT ![w].pc = "finish", ![w].at = StopsAt(w)]
    /\ UNCHANGED <<mailbox, authority, stored, stale, faults>>

\* The messages the run observes at its end, accepted and duplicate alike.
Observed(w) == run[w].seen

\* observe_message and the cursor commit in one transaction.
Finish(w) ==
    LET i == run[w].tenant IN
    /\ run[w].pc = "finish"
    /\ auth' = [auth EXCEPT ![i].cursor = run[w].at]
    /\ origin' = IF origin[i].own = NoCursor
                 THEN [origin EXCEPT ![i] = [own |-> run[w].at, first |-> run[w].at,
                                             line |-> {}]]
                 ELSE origin
    /\ archive' = [archive EXCEPT ![i] =
                       IF auth[i].mode = "readonly" THEN @ \cup Observed(w) ELSE @]
    /\ run' = [run EXCEPT ![w] = NoRun]
    /\ UNCHANGED <<mailbox, bound, inbox, stale, faults>>

\* The record cannot be ingested as it is: the run fails and rolls back.
Refuse(w) ==
    LET i == run[w].tenant IN
    /\ Reading(w)
    /\ \/ TooLarge(w)
       \/ ~OverBudget(w) /\ \E m \in Fresh(w) :
              m \in deleted \/ ~Admissible(i, m, auth[i].mode)
    /\ run' = [run EXCEPT ![w] = NoRun]
    /\ UNCHANGED <<mailbox, authority, stored, stale, faults>>

\* A transient failure rolls the run back: the provider or the ingress does
\* not answer, or the answer to an admission that was committed is lost.
Fault(w) ==
    /\ run[w].pc # "idle" /\ faults < MaxFaults
    /\ faults' = faults + 1
    /\ run' = [run EXCEPT ![w] = NoRun]
    /\ UNCHANGED <<mailbox, authority, stored, stale>>

\* The process dies and a new one knows no stale installation.
Restart(w) ==
    /\ faults < MaxFaults
    /\ faults' = faults + 1
    /\ run' = [run EXCEPT ![w] = NoRun]
    /\ stale' = [stale EXCEPT ![w] = {}]
    /\ UNCHANGED <<mailbox, authority, stored>>

\* run_once, the operator's poll, reads the newest messages: no slot, no cursor.
\* It stamps the wall clock in the body, so a known message is a conflict.  What
\* it archives is rolled back: its one caller closes the session uncommitted.
Poll(i, m) ==
    /\ Authorized(i) /\ inbox[i][m].state = "NONE"
    /\ m \in Mail(0, Len(history)) \ deleted
    /\ inbox' = Admitted(i, m, "poll")
    /\ UNCHANGED <<mailbox, authority, archive, run, stale, faults>>

-----------------------------------------------------------------------------
(* The owner and the operator.                                             *)

\* GmailConnectionService.connect, for the same account: the cursor is kept.
Connect(i, mode) ==
    /\ SlotFree(i)
    /\ auth' = [auth EXCEPT ![i].status = "ACTIVE", ![i].mode = mode]
    /\ bound' = [bound EXCEPT ![i] = Grants]
    /\ UNCHANGED <<mailbox, stored, run, stale, faults, origin>>

Disconnect(i) ==
    /\ SlotFree(i) /\ auth[i].status = "ACTIVE"
    /\ auth' = [auth EXCEPT ![i].status = "REVOKED"]
    /\ bound' = [bound EXCEPT ![i] = {}]
    /\ UNCHANGED <<mailbox, stored, run, stale, faults, origin>>

\* disable_binding and revoke_credential take no slot.
Withdraw(i, grant) ==
    /\ grant \in bound[i]
    /\ bound' = [bound EXCEPT ![i] = @ \ {grant}]
    /\ UNCHANGED <<mailbox, auth, stored, run, stale, faults, origin>>

\* handoff_gmail_history_cursor with apply, under both slots.
Handoff(i, j) ==
    /\ i # j /\ SlotFree(i) /\ SlotFree(j)
    /\ auth[i].status = "REVOKED" /\ bound[i] = {} /\ auth[i].cursor # NoCursor
    /\ Authorized(j) /\ auth[j].cursor = NoCursor
    /\ auth' = [auth EXCEPT ![j].cursor = auth[i].cursor]
    /\ origin' = [origin EXCEPT ![j] =
                      [own |-> auth[i].cursor, first |-> origin[i].first,
                       line |-> origin[i].line \cup {i}]]
    /\ UNCHANGED <<mailbox, bound, stored, run, stale, faults>>

-----------------------------------------------------------------------------
(* The provider.                                                           *)

Arrive(ms) ==
    /\ Len(history) < MaxHistory
    /\ history' = Append(history, ms)
    /\ UNCHANGED <<kept, deleted, authority, stored, run, stale, faults>>

Delete(m) ==
    /\ faults < MaxFaults /\ faults' = faults + 1
    /\ m \in Mail(0, Len(history)) \ deleted
    /\ deleted' = deleted \cup {m}
    /\ UNCHANGED <<history, kept, authority, stored, run, stale>>

Expire ==
    /\ faults < MaxFaults /\ faults' = faults + 1
    /\ kept' \in (kept + 1)..Len(history)
    /\ UNCHANGED <<history, deleted, authority, stored, run, stale>>

-----------------------------------------------------------------------------
RunStep(w) ==
    \/ ReadBaseline(w) \/ FetchPage(w) \/ HistoryStale(w)
    \/ \E m \in Messages : Ingest(w, m)
    \/ AdvanceRecord(w) \/ NextPage(w) \/ StopReading(w) \/ Finish(w) \/ Refuse(w)

Environment ==
    \/ \E ms \in SUBSET Messages : Arrive(ms)
    \/ \E m \in Messages : Delete(m)
    \/ Expire
    \/ \E w \in Schedulers : Fault(w) \/ Restart(w)

People ==
    \E i \in Tenants :
        \/ \E mode \in Modes : Connect(i, mode)
        \/ Disconnect(i)
        \/ \E grant \in Grants : Withdraw(i, grant)
        \/ \E j \in Tenants : Handoff(i, j)
        \/ \E m \in Messages : Poll(i, m)

Next ==
    \/ \E w \in Schedulers : RunStep(w) \/ \E i \in Tenants : StartRun(w, i)
    \/ \E i \in Tenants, m \in Messages : Dispatch(i, m)
    \/ People \/ Environment

Spec == Init /\ [][Next]_vars

\* run_forever polls every installation in turn; the worker dispatches the
\* inbox on every loop.
Fairness ==
    /\ \A w \in Schedulers : WF_vars(RunStep(w))
    /\ \A w \in Schedulers, i \in Tenants : SF_vars(StartRun(w, i))
    /\ \A i \in Tenants, m \in Messages : WF_vars(Dispatch(i, m))

FairSpec == Spec /\ Fairness

-----------------------------------------------------------------------------
(* Properties.                                                             *)

\* Every variable has its type, a run ingests at most Limit messages, and
\* only a tenant whose cursor was set has an origin.
TypeOK ==
    /\ history \in Seq(SUBSET Messages) /\ Len(history) <= MaxHistory
    /\ kept \in 0..Len(history) /\ deleted \subseteq Messages
    /\ auth \in [Tenants -> [status : {"NONE", "ACTIVE", "REVOKED"},
                             cursor : Cursors, mode : Modes]]
    /\ bound \in [Tenants -> SUBSET Grants]
    /\ inbox \in [Tenants -> [Messages ->
                     [state : {"NONE", "PENDING", "PROCESSED", "BLOCKED"},
                      body : Bodies]]]
    /\ archive \in [Tenants -> SUBSET Messages]
    /\ run \in [Schedulers ->
                   [pc : RunPhases, tenant : Tenants \cup {NoTenant},
                    at : Cursors, last : Cursors, end : Cursors,
                    pages : 0..MaxPages, seen : SUBSET Messages]]
    /\ \A w \in Schedulers : Cardinality(run[w].seen) <= Limit
    /\ stale \in [Schedulers -> SUBSET Tenants]
    /\ faults \in 0..MaxFaults
    /\ origin \in [Tenants -> [own : Cursors, first : Cursors,
                               line : SUBSET Tenants]]

Known(i, m) == inbox[i][m].state # "NONE"

\* The cursor never passes a message that was not admitted: what it passed
\* while the installation read the mailbox is in its inbox, and what it had
\* passed before it was handed over is in the inbox of one of the installations
\* it came through (run_incremental, _cycle's finish, the cursor hand-over).
NothingSkipped ==
    \A i \in Tenants : auth[i].cursor # NoCursor =>
        /\ \A m \in Mail(origin[i].own, auth[i].cursor) : Known(i, m)
        /\ \A m \in Mail(origin[i].first, origin[i].own) :
              \E t \in origin[i].line : Known(t, m)

\* A message admitted with its text, once the cursor has passed it, has its
\* text in the archive: a run that fails after the admission, or whose answer
\* is lost, leaves it to the run that reads the record again, which observes
\* duplicates too (_cycle's observed, _live_body_observer).
ArchiveFollows ==
    \A i \in Tenants : auth[i].cursor # NoCursor =>
        \A m \in Mail(origin[i].own, auth[i].cursor) :
            inbox[i][m].body = "readonly" => m \in archive[i]

\* The cursor of an installation never goes back, whatever runs, connections
\* and hand-overs of it meet (gmail_history_id under the slot).
CursorMonotone ==
    [][\A i \in Tenants : auth[i].cursor <= auth'[i].cursor]_vars

\* What an installation cannot pass without the owner: history the provider no
\* longer serves, a record beyond the limit, a message that is gone, or one
\* admitted with another body.
Stuck(i) ==
    \/ auth[i].cursor < kept
    \/ \E r \in (auth[i].cursor + 1)..Len(history) :
          \/ Cardinality(history[r]) > Limit
          \/ \E m \in history[r] :
                m \in deleted \/ (Known(i, m) /\ inbox[i][m].body # auth[i].mode)

Settled(i, m) == inbox[i][m].state \in {"PROCESSED", "BLOCKED"}

\* The mail of a connected installation reaches the timeline: each record after
\* its cursor is passed and its messages dispatched, unless the authority is
\* withdrawn or the mailbox holds what a run cannot pass.  Limits on messages
\* and pages, failed runs and a second scheduler only delay it.
MailReachesTimeline ==
    \A i \in Tenants, r \in 1..MaxHistory :
        (auth[i].cursor # NoCursor /\ auth[i].cursor < r /\ r <= Len(history)) ~>
            \/ ~Authorized(i) \/ Stuck(i)
            \/ r <= auth[i].cursor /\ \A m \in history[r] : Settled(i, m)
=============================================================================
