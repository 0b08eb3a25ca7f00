---- MODULE OwnerClarification ----
(* The clarifying questions of one conversation between the owner and the     *)
(* router.  An ambiguous command of the owner becomes a question with closed  *)
(* options, a row of pending_intents; the owner's next message may pick one,  *)
(* refuse them all, or command something else.  Messages are handled by       *)
(* concurrent requests, each one transaction:                                 *)
(* services._handle_owner_control_command for the owner's own chat,           *)
(* ClientCommandService._submit_with_authority for the client application.    *)
(*                                                                            *)
(* What decides the races is how a row is read and written.  A handler finds  *)
(* the open question without a lock and locks it later, but its session keeps *)
(* the copy it loaded (PENDING), so what another handler committed in between *)
(* is seen by the table's constraints only.                                   *)
EXTENDS Integers

CONSTANTS
    Messages,        \* the owner's messages of the conversation
    NoMessage,
    Lifetime,        \* how long a question stays open
    Horizon,         \* bound on the clock
    MaxCrashes       \* bound on the transactions lost for another reason

ASSUME NoMessageIsNone == NoMessage \notin Messages
ASSUME LifetimeIsPositive == Lifetime \in Nat \ {0}
ASSUME BoundsAreNatural == Horizon \in Nat /\ MaxCrashes \in Nat

VARIABLES
    channel,    \* where the conversation takes place
    now,        \* the clock
    state,      \* state[q]: the committed row of the question that q caused
    expires,    \* expires[q]: its expires_at
    draft,      \* draft[m][q]: the state m's transaction has written to q
    pc,         \* pc[m]: what m's handler does next
    start,      \* start[m]: when it began
    seen,       \* seen[m]: the open question it found, of which it keeps a copy
    due,        \* due[m]: expired rows it has read, still unlocked, to close
    chosen,     \* chosen[m]: the question whose option it has dispatched
    acted,      \* acted[m]: the same, committed
    before,     \* before[m]: the messages whose handling had ended as m's began
    crashes

vars == <<channel, now, state, expires, draft, pc, start, seen, due, chosen,
          acted, before, crashes>>

\* "NONE": no row, or (in a draft) not written.
States == {"NONE", "PENDING", "RESOLVED", "CANCELED", "SUPERSEDED", "EXPIRED"}
Open == {"select", "cancel", "supersede", "ask", "create", "commit"}
Phases == {"new", "done"} \cup Open
Untouched == [q \in Messages |-> "NONE"]

TypeOK ==
    /\ channel \in {"chat", "client"}
    /\ now \in 0..Horizon
    /\ state \in [Messages -> States]
    /\ expires \in [Messages -> Nat]
    /\ draft \in [Messages -> [Messages -> States]]
    /\ pc \in [Messages -> Phases]
    /\ start \in [Messages -> 0..Horizon]
    /\ seen \in [Messages -> Messages \cup {NoMessage}]
    /\ due \in [Messages -> SUBSET Messages]
    /\ chosen \in [Messages -> Messages \cup {NoMessage}]
    /\ acted \in [Messages -> Messages \cup {NoMessage}]
    /\ before \in [Messages -> SUBSET Messages]
    /\ crashes \in 0..MaxCrashes

Init ==
    /\ channel \in {"chat", "client"}
    /\ now = 0
    /\ state = Untouched
    /\ expires = [q \in Messages |-> 0]
    /\ draft = [m \in Messages |-> Untouched]
    /\ pc = [m \in Messages |-> "new"]
    /\ start = [m \in Messages |-> 0]
    /\ seen = [m \in Messages |-> NoMessage]
    /\ due = [m \in Messages |-> {}]
    /\ chosen = [m \in Messages |-> NoMessage]
    /\ acted = [m \in Messages |-> NoMessage]
    /\ before = [m \in Messages |-> {}]
    /\ crashes = 0

----------------------------------------------------------------------------
(* Rows and transactions.                                                     *)

\* Nobody else has written q, so m gets its row lock.
Free(m, q) == \A n \in Messages \ {m} : draft[n][q] = "NONE"

\* What m's own transaction sees of q.
Visible(m, q) == IF draft[m][q] # "NONE" THEN draft[m][q] ELSE state[q]

AdmittedAlways(q, s) == TRUE

\* A RESOLVED row holds the selected option, which a stale writer of another
\* state does not know of and leaves in place: the check constraint
\* ck_pending_intent_selected_only_when_resolved rejects the UPDATE.
Admitted(q, s) == state[q] = "RESOLVED" => s = "RESOLVED"

\* The stamp of a call: the request's own (client), or the time of the call.
Stamps(m) == IF channel = "client" THEN {start[m]} ELSE start[m]..now

\* The UPDATE of one row: it waits for the lock, and is admitted.
Write(m, q, s) ==
    /\ Free(m, q)
    /\ Admitted(q, s)
    /\ draft' = [draft EXCEPT ![m][q] = s]

Goto(m, p) == pc' = [pc EXCEPT ![m] = p]

RollbackKeepsLocks(m) ==
    /\ Goto(m, "new")
    /\ seen' = [seen EXCEPT ![m] = NoMessage]
    /\ due' = [due EXCEPT ![m] = {}]
    /\ chosen' = [chosen EXCEPT ![m] = NoMessage]
    /\ UNCHANGED <<channel, now, state, expires, draft, start, acted, before>>

\* An exception that no handler catches: the transaction is lost and the
\* message will be delivered again.
Rollback(m) ==
    /\ Goto(m, "new")
    /\ draft' = [draft EXCEPT ![m] = Untouched]
    /\ seen' = [seen EXCEPT ![m] = NoMessage]
    /\ due' = [due EXCEPT ![m] = {}]
    /\ chosen' = [chosen EXCEPT ![m] = NoMessage]
    /\ UNCHANGED <<channel, now, state, expires, start, acted, before>>

----------------------------------------------------------------------------
(* The handler.                                                               *)

AnswerableUnlessExpired(q) == state[q] # "NONE" /\ expires[q] > now

\* find_active_pending_intent, an unlocked read.
Answerable(q) == state[q] = "PENDING" /\ expires[q] > now

\* expire_due_pending_intents, which skips locked rows.
Lapsed(m, q) == state[q] = "PENDING" /\ expires[q] <= now /\ Free(m, q)

\* The request begins; the text of the message decides what it does next.
Begin(m) ==
    /\ pc[m] = "new"
    /\ draft' = [draft EXCEPT ![m] =
                   [q \in Messages |-> IF Lapsed(m, q) THEN "EXPIRED" ELSE "NONE"]]
    /\ \/ /\ \A q \in Messages : ~Answerable(q)
          /\ UNCHANGED seen
          /\ \E p \in {"ask", "commit"} : Goto(m, p)
       \/ \E q \in Messages :
             /\ Answerable(q)
             /\ seen' = [seen EXCEPT ![m] = q]
             /\ \E p \in {"select", "cancel", "supersede", "commit"} : Goto(m, p)
    /\ start' = [start EXCEPT ![m] = now]
    /\ before' = [before EXCEPT ![m] = {n \in Messages : pc[n] = "done"}]
    /\ UNCHANGED <<channel, now, state, expires, due, chosen, acted, crashes>>

\* resolve_pending_intent on the copy, then the dispatch of the option, unless
\* it has no capability or the command is refused.
Select(m) ==
    /\ pc[m] = "select"
    /\ \E s \in Stamps(m) :
          \/ /\ expires[seen[m]] > s
             /\ Write(m, seen[m], "RESOLVED")
             /\ \E c \in {seen[m], NoMessage} : chosen' = [chosen EXCEPT ![m] = c]
          \/ /\ expires[seen[m]] <= s
             /\ Write(m, seen[m], "EXPIRED")
             /\ UNCHANGED chosen
    /\ Goto(m, "commit")
    /\ UNCHANGED <<channel, now, state, expires, start, seen, due, acted, before,
                   crashes>>

\* cancel_pending_intent: the owner refuses every option.
Cancel(m) ==
    /\ pc[m] = "cancel"
    /\ Write(m, seen[m], "CANCELED")
    /\ Goto(m, "commit")
    /\ UNCHANGED <<channel, now, state, expires, start, seen, due, chosen, acted,
                   before, crashes>>

\* supersede_pending_intent: a newer command, which in the chat may need a
\* clarification of its own.
Supersede(m) ==
    /\ pc[m] = "supersede"
    /\ Write(m, seen[m], "SUPERSEDED")
    /\ \/ Goto(m, "commit")
       \/ channel = "chat" /\ Goto(m, "ask")
    /\ UNCHANGED <<channel, now, state, expires, start, seen, due, chosen, acted,
                   before, crashes>>

\* The reads of create_pending_intent: expired rows of the conversation, and
\* PENDING_INTENT_ACTIVE_SCOPE_CONFLICT if a question is open.
CreateRead(m) ==
    /\ pc[m] = "ask"
    /\ \E s \in Stamps(m) :
          LET pending == {q \in Messages : Visible(m, q) = "PENDING"}
          IN  \/ /\ \E q \in pending : expires[q] > s
                 /\ Goto(m, "commit")
                 /\ UNCHANGED <<due, expires>>
              \/ /\ \A q \in pending : expires[q] <= s
                 /\ due' = [due EXCEPT ![m] = pending]
                 /\ expires' = [expires EXCEPT ![m] = s + Lifetime]
                 /\ Goto(m, "create")
    /\ UNCHANGED <<channel, now, state, draft, start, seen, chosen, acted, before,
                   crashes>>

\* The unique index on the PENDING rows of a conversation makes an insert wait
\* for any transaction that is inserting or changing such a row.
IndexSettled(m) ==
    \A n \in Messages \ {m} :
       /\ draft[n][n] # "PENDING"
       /\ \A q \in Messages : state[q] = "PENDING" => draft[n][q] = "NONE"

\* Its writes: the expired rows are closed, then the question is inserted,
\* unless the index finds another; then the chat undoes its savepoint, and the
\* client keeps the rows closed.
CreateWrite(m) ==
    LET closed == [q \in Messages |-> IF q \in due[m] THEN "EXPIRED" ELSE draft[m][q]]
        taken == \E q \in Messages \ due[m] : Visible(m, q) = "PENDING"
    IN  /\ pc[m] = "create"
        /\ \A q \in due[m] : Free(m, q) /\ Admitted(q, "EXPIRED")
        /\ IndexSettled(m)
        /\ \/ /\ ~taken
              /\ draft' = [draft EXCEPT ![m] = [closed EXCEPT ![m] = "PENDING"]]
           \/ /\ taken /\ channel = "client"
              /\ draft' = [draft EXCEPT ![m] = closed]
           \/ /\ taken /\ channel = "chat"
              /\ UNCHANGED draft
        /\ Goto(m, "commit")
        /\ UNCHANGED <<channel, now, state, expires, start, seen, due, chosen, acted,
                       before, crashes>>

\* A stale write over a RESOLVED row fails, and the request with it.
Rejected(m) ==
    /\ \/ /\ pc[m] \in {"cancel", "supersede"}
          /\ Free(m, seen[m]) /\ state[seen[m]] = "RESOLVED"
       \/ /\ pc[m] = "select"
          /\ Free(m, seen[m]) /\ state[seen[m]] = "RESOLVED"
          /\ \E s \in Stamps(m) : expires[seen[m]] <= s
       \/ /\ pc[m] = "create"
          /\ \E q \in due[m] : Free(m, q) /\ state[q] = "RESOLVED"
    /\ Rollback(m)
    /\ UNCHANGED crashes

Commit(m) ==
    /\ pc[m] = "commit"
    /\ Goto(m, "done")
    /\ state' = [q \in Messages |-> Visible(m, q)]
    /\ draft' = [draft EXCEPT ![m] = Untouched]
    /\ acted' = [acted EXCEPT ![m] = chosen[m]]
    /\ UNCHANGED <<channel, now, expires, start, seen, due, chosen, before, crashes>>

\* Any other loss of an open transaction.
Crash(m) ==
    /\ pc[m] \in Open
    /\ crashes < MaxCrashes
    /\ crashes' = crashes + 1
    /\ Rollback(m)

Tick ==
    /\ now < Horizon
    /\ now' = now + 1
    /\ UNCHANGED <<channel, state, expires, draft, pc, start, seen, due, chosen, acted,
                   before, crashes>>

Step(m) ==
    \/ Select(m) \/ Cancel(m) \/ Supersede(m)
    \/ CreateRead(m) \/ CreateWrite(m)
    \/ Rejected(m) \/ Commit(m)

Next ==
    \/ Tick
    \/ \E m \in Messages : Begin(m) \/ Step(m) \/ Crash(m)

Spec == Init /\ [][Next]_vars

\* A transaction that has begun goes on as soon as the locks let it.
FairSpec == Spec /\ \A m \in Messages : WF_vars(Step(m))
----------------------------------------------------------------------------
(* Properties.                                                                *)

\* One question at a time is open in a conversation, though two handlers may
\* ask at once and expired rows are closed from unlocked reads
\* (create_pending_intent, uq_pending_intent_active_scope).
OneOpenQuestion ==
    \A p, q \in Messages : state[p] = "PENDING" /\ state[q] = "PENDING" => p = q

\* A question whose option was dispatched stays recorded as RESOLVED, whatever
\* stale copies other handlers go on to write: nothing the router did on the
\* owner's word is recorded as canceled, superseded or expired.
ActedIsResolved ==
    \A m \in Messages : acted[m] # NoMessage => state[acted[m]] = "RESOLVED"

\* Two replies dispatch options of one question only if their handlers
\* overlapped: once a handler has acted on a question, one that begins later
\* never does.
LaterReplyIsTooLate ==
    \A m, n \in Messages :
       m \in before[n] /\ acted[m] # NoMessage => acted[n] # acted[m]

\* At most one reply to a question wins, as the contract of pending intents has
\* it (docs/architecture/pending-intent-v1-contract.md).  The code does not
\* keep it.
OneWinner ==
    \A m, n \in Messages : acted[m] # NoMessage /\ acted[m] = acted[n] => m = n

\* Handlers never wait for each other in a circle: an open transaction ends.
TransactionsEnd ==
    \A m \in Messages : pc[m] \in Open ~> pc[m] \notin Open
====
