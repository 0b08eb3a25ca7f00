--------------------------- MODULE OwnerReplyGrace ---------------------------
(***************************************************************************)
(* The owner-reply grace of one direct conversation: which messages a      *)
(* window gathers, when it is due, which owner replies cancel it and how   *)
(* the owner's operational control moves it (owner_reply_grace.py,         *)
(* owner_operational_control.py).                                          *)
(*                                                                         *)
(* An event, the contact's message or the owner's own reply, carries the   *)
(* time it occurred on the phone and the time the transport received it;   *)
(* the router handles received events in any order.  Inbound messages,     *)
(* owner replies and control changes exclude one another through advisory  *)
(* locks and rows FOR UPDATE, so each is one step here.  What follows the  *)
(* release of a window is module ReplyDelivery.                            *)
(***************************************************************************)
EXTENDS Naturals

CONSTANTS
    Messages,        \* the contact's messages
    Replies,         \* the owner's manual replies, observed by the transport
    NoEvent,         \* the absence of an event
    GraceSeconds,    \* the delays the owner may ask for
    DefaultSeconds,  \* GLOBAL_GRACE_DEFAULT_SECONDS
    LastArrival,     \* bound: no event is received after this time
    Horizon,         \* bound: the clock stops here
    MaxRevision,     \* bound: how often the control changes
    MaxPolicy        \* bound: the policy's versions are 0 to this one

Events == Messages \cup Replies
Time == 0..Horizon

ASSUME EventsAssumption ==
    Messages \cap Replies = {} /\ NoEvent \notin Events
ASSUME TimesAssumption ==
    /\ LastArrival \in Nat /\ Horizon \in Nat
    /\ MaxRevision \in Nat /\ MaxPolicy \in Nat
    /\ GraceSeconds \subseteq Nat /\ DefaultSeconds \in GraceSeconds

VARIABLES
    now,          \* the clock of the router's processes
    arrived,      \* events the transport has received
    occurred,     \* payload.occurred_at of an arrived event
    received,     \* inbound_events.received_at of an arrived event
    handled,      \* events whose transaction has committed
    interaction,  \* interactions.state of each message
    window,       \* the grace window each message opened, if it opened one
    decisions,    \* messages with a "decision:" queue row
    irreversible, \* released windows that cannot be canceled now
    control,      \* the GLOBAL owner_operational_controls row
    policy        \* the current policy version

clocks == <<now, arrived, occurred, received>>
vars == <<clocks, handled, interaction, window, decisions, irreversible,
          control, policy>>

WindowStates == {"NONE", "OPEN", "RELEASED", "CANCELED"}
Window ==
    [state : WindowStates, members : SUBSET Messages,
     anchor : Messages \cup {NoEvent}, created : Nat, lastInbound : Nat,
     due : Nat, enabled : BOOLEAN, seconds : GraceSeconds, revision : Nat,
     policy : Nat]

TypeOK ==
    /\ now \in Time
    /\ arrived \subseteq Events
    /\ occurred \in [Events -> Nat]
    /\ received \in [Events -> Nat]
    /\ handled \subseteq arrived
    /\ interaction \in
         [Messages -> {"NONE", "WAITING", "CANCELED_BY_HUMAN_REPLY"}]
    /\ window \in [Messages -> Window]
    /\ \A w \in Messages : window[w].due >= window[w].lastInbound
    /\ decisions \subseteq Messages
    /\ irreversible \subseteq Messages
    /\ control \in
         [enabled : BOOLEAN, seconds : GraceSeconds, revision : 0..MaxRevision]
    /\ policy \in 0..MaxPolicy

NoWindow ==
    [state |-> "NONE", members |-> {}, anchor |-> NoEvent, created |-> 0,
     lastInbound |-> 0, due |-> 0, enabled |-> FALSE,
     seconds |-> DefaultSeconds, revision |-> 0, policy |-> 0]

\* Without a control row the global default applies, with no revision.
Init ==
    /\ now = 0
    /\ arrived = {} /\ handled = {}
    /\ occurred = [e \in Events |-> 0]
    /\ received = [e \in Events |-> 0]
    /\ interaction = [m \in Messages |-> "NONE"]
    /\ window = [m \in Messages |-> NoWindow]
    /\ decisions = {}
    /\ irreversible = {}
    /\ control = [enabled |-> TRUE, seconds |-> DefaultSeconds, revision |-> 0]
    /\ policy = 0

-----------------------------------------------------------------------------
(* The two orders the code compares by.                                    *)

\* _event_causal_key: by occurrence, then by receipt.
CausallyUpTo(e, f) ==
    \/ occurred[e] < occurred[f]
    \/ occurred[e] = occurred[f] /\ received[e] <= received[f]

\* A window as old as another, or older, by its last message and its creation.
NotNewer(v, w) ==
    \/ window[v].lastInbound < window[w].lastInbound
    \/ /\ window[v].lastInbound = window[w].lastInbound
       /\ window[v].created <= window[w].created

Existing == {w \in Messages : window[w].state # "NONE"}

\* Mutation: a window that is already due is not looked up any more.
OpenNotDue == {w \in Messages : window[w].state = "OPEN" /\ window[w].due > now}

\* The windows a message may join and a control change reaches.
OpenWindows == {w \in Messages : window[w].state = "OPEN"}

\* The barrier of the conversation: its newest window, none when two tie.
IsNewest(w) ==
    /\ w \in Existing
    /\ \A v \in Existing \ {w} : NotNewer(v, w) /\ ~NotNewer(w, v)

\* An owner reply already handled answers everything up to it.
AnsweredBy(r, m) == r \in handled /\ CausallyUpTo(m, r)

-----------------------------------------------------------------------------
(* The outside world: time, events reaching the transport, the policy.      *)

Tick ==
    /\ now < Horizon
    /\ now' = now + 1
    /\ UNCHANGED <<arrived, occurred, received, handled, interaction, window,
                   decisions, irreversible, control, policy>>

\* The phones' clocks are not the router's: any time of occurrence.
Arrive(e, t) ==
    /\ e \notin arrived
    /\ now <= LastArrival
    /\ arrived' = arrived \cup {e}
    /\ occurred' = [occurred EXCEPT ![e] = t]
    /\ received' = [received EXCEPT ![e] = now]
    /\ UNCHANGED <<now, handled, interaction, window, decisions, irreversible,
                   control, policy>>

\* update_policy and activate_policy_version: an older version may come back.
ActivatePolicy(version) ==
    /\ version # policy
    /\ policy' = version
    /\ UNCHANGED <<clocks, handled, interaction, window, decisions,
                   irreversible, control>>

-----------------------------------------------------------------------------
(* defer_decision_for_grace, under the control lock and the conversation's. *)

\* _manual_observation_at_or_after: a handled reply is at or after the message.
Preempted(m) == \E r \in Replies : AnsweredBy(r, m)

\* A message the owner has already answered waits for nothing.
PreemptInbound(m) ==
    /\ m \in arrived \ handled
    /\ Preempted(m)
    /\ handled' = handled \cup {m}
    /\ interaction' = [interaction EXCEPT ![m] = "CANCELED_BY_HUMAN_REPLY"]
    /\ UNCHANGED <<clocks, window, decisions, irreversible, control, policy>>

\* The first message of an open window fixes its clock and its control.
OpenWindow(m) ==
    /\ m \in arrived \ handled
    /\ ~Preempted(m)
    /\ OpenWindows = {}
    /\ window' = [window EXCEPT ![m] =
           [state |-> "OPEN", members |-> {m}, anchor |-> m,
            created |-> received[m], lastInbound |-> received[m],
            due |-> received[m] + control.seconds,
            enabled |-> control.enabled, seconds |-> control.seconds,
            revision |-> control.revision, policy |-> policy]]
    /\ handled' = handled \cup {m}
    /\ interaction' = [interaction EXCEPT ![m] = "WAITING"]
    /\ UNCHANGED <<clocks, decisions, irreversible, control, policy>>

\* Mutation: the message handled last is taken for the latest.
AlwaysAnchor(w, m) == TRUE

\* An out-of-order message does not displace a later anchor.
BecomesAnchor(w, m) == received[m] >= window[w].lastInbound

\* Mutation: a further message does not move the deadline.
DueNotExtended(w, last) == window[w].due

\* The deadline trails the last message and never comes closer.
ExtendedDue(w, last) ==
    IF window[w].due >= last + control.seconds
    THEN window[w].due ELSE last + control.seconds

\* The open window with one more message, and the control brought up to date.
Extended(w, m) ==
    LET last == IF BecomesAnchor(w, m) THEN received[m]
                ELSE window[w].lastInbound
    IN [window[w] EXCEPT
           !.members = window[w].members \cup {m},
           !.anchor = IF BecomesAnchor(w, m) THEN m ELSE window[w].anchor,
           !.lastInbound = last,
           !.due = ExtendedDue(w, last),
           !.enabled = control.enabled, !.seconds = control.seconds,
           !.revision = control.revision, !.policy = policy]

\* A further message joins the open window.
ExtendWindow(w, m) ==
    /\ m \in arrived \ handled
    /\ ~Preempted(m)
    /\ w \in OpenWindows
    /\ window' = [window EXCEPT ![w] = Extended(w, m)]
    /\ handled' = handled \cup {m}
    /\ interaction' = [interaction EXCEPT ![m] = "WAITING"]
    /\ UNCHANGED <<clocks, decisions, irreversible, control, policy>>

-----------------------------------------------------------------------------
(* process_due_grace_windows and release_grace_window.                     *)

\* _routing_still_valid, read without the control's lock.
RoutingStillValid(w) ==
    /\ policy = window[w].policy
    /\ control.enabled
    /\ control.revision = window[w].revision
    /\ control.seconds = window[w].seconds

\* A due window enqueues the decision on its anchor, unless its routing or its
\* control is no longer the one it was opened under: then it is canceled.
ReleaseDue(w) ==
    /\ window[w].state = "OPEN"
    /\ window[w].enabled
    /\ window[w].due <= now
    /\ IF RoutingStillValid(w)
       THEN /\ window' = [window EXCEPT ![w].state = "RELEASED"]
            /\ decisions' = decisions \cup {window[w].anchor}
       ELSE /\ window' = [window EXCEPT ![w].state = "CANCELED"]
            /\ UNCHANGED decisions
    /\ UNCHANGED <<clocks, handled, interaction, irreversible, control, policy>>

\* The reply of a released window is claimed: see ReplyDelivery!Irreversible.
BecomeIrreversible(w) ==
    /\ window[w].state = "RELEASED"
    /\ w \notin irreversible
    /\ irreversible' = irreversible \cup {w}
    /\ UNCHANGED <<clocks, handled, interaction, window, decisions, control,
                   policy>>

\* The reply goes back before any effect, to be sent again later or never.
BecomeReversible(w) ==
    /\ w \in irreversible
    /\ irreversible' = irreversible \ {w}
    /\ UNCHANGED <<clocks, handled, interaction, window, decisions, control,
                   policy>>

-----------------------------------------------------------------------------
(* receive_owner_outbound_observation of a manual reply.                   *)

\* Mutation: only the anchor is compared with the reply.
CoversAnchor(r, w) == CausallyUpTo(window[w].anchor, r)

\* The reply is not older than any message of the window's lineage.
CoversLineage(r, w) == \A m \in window[w].members : CausallyUpTo(m, r)

\* Mutation: a reply on the way does not keep the window from being canceled.
CanCancelLate(r, w) ==
    /\ IsNewest(w)
    /\ CoversLineage(r, w)
    /\ window[w].state \in {"OPEN", "RELEASED"}

\* The reply cancels the barrier window: it is in a cancelable state, the reply
\* is not stale for it, and its own reply is not on the way already.
CanCancel(r, w) ==
    /\ IsNewest(w)
    /\ CoversLineage(r, w)
    /\ window[w].state \in {"OPEN", "RELEASED"}
    /\ w \notin irreversible

CancelByReply(r, w) ==
    /\ r \in arrived \ handled
    /\ CanCancel(r, w)
    /\ handled' = handled \cup {r}
    /\ window' = [window EXCEPT ![w].state = "CANCELED"]
    /\ interaction' = [m \in Messages |->
           IF m \in window[w].members THEN "CANCELED_BY_HUMAN_REPLY"
           ELSE interaction[m]]
    /\ UNCHANGED <<clocks, decisions, irreversible, control, policy>>

\* No window, an ambiguous, stale or terminal barrier, or too late: the reply
\* is only recorded.
RecordReply(r) ==
    /\ r \in arrived \ handled
    /\ \A w \in Messages : ~CanCancel(r, w)
    /\ handled' = handled \cup {r}
    /\ UNCHANGED <<clocks, interaction, window, decisions, irreversible,
                   control, policy>>

-----------------------------------------------------------------------------
(* set_owner_reply_grace_seconds and set_owner_reply_grace_enabled.        *)

\* Mutation: the deadline moves, and the window keeps the old revision.
RecalculatedDueOnly(w, new) ==
    [window[w] EXCEPT !.due = window[w].lastInbound + new.seconds]

\* Mutation: a window disabled once is not enabled again.
RecalculatedNotEnabled(w, new) ==
    [window[w] EXCEPT !.revision = new.revision,
                      !.enabled = window[w].enabled /\ new.enabled,
                      !.seconds = new.seconds,
                      !.due = window[w].lastInbound + new.seconds]

\* _recalculate_open_windows, of one open window under the new control.
Recalculated(w, new) ==
    [window[w] EXCEPT !.revision = new.revision, !.enabled = new.enabled,
                      !.seconds = new.seconds,
                      !.due = window[w].lastInbound + new.seconds]

\* A change of the control, or its first row, reaches every open window in the
\* same transaction.
SetControl(enabled, seconds) ==
    LET new == [enabled |-> enabled, seconds |-> seconds,
                revision |-> control.revision + 1]
    IN
    /\ control.revision < MaxRevision
    /\ enabled = control.enabled \/ seconds = control.seconds
    /\ \/ control.revision = 0
       \/ enabled # control.enabled \/ seconds # control.seconds
    /\ control' = new
    /\ window' = [w \in Messages |->
           IF w \in OpenWindows THEN Recalculated(w, new) ELSE window[w]]
    /\ UNCHANGED <<clocks, handled, interaction, decisions, irreversible,
                   policy>>

-----------------------------------------------------------------------------

Next ==
    \/ Tick
    \/ \E version \in 0..MaxPolicy : ActivatePolicy(version)
    \/ \E e \in Events, t \in 0..LastArrival : Arrive(e, t)
    \/ \E m \in Messages : PreemptInbound(m) \/ OpenWindow(m)
    \/ \E w \in Messages, m \in Messages : ExtendWindow(w, m)
    \/ \E w \in Messages :
         ReleaseDue(w) \/ BecomeIrreversible(w) \/ BecomeReversible(w)
    \/ \E r \in Replies, w \in Messages : CancelByReply(r, w)
    \/ \E r \in Replies : RecordReply(r)
    \/ \E enabled \in BOOLEAN, seconds \in GraceSeconds :
         SetControl(enabled, seconds)

Spec == Init /\ [][Next]_vars

\* Time passes, and run_forever polls process_due_grace_windows for ever.
FairSpec ==
    /\ Spec
    /\ WF_vars(Tick)
    /\ \A w \in Messages : WF_vars(ReleaseDue(w))

-----------------------------------------------------------------------------
(* Safety.                                                                 *)

\* The anchor, the message the reply will answer (anchor_event_id), is the
\* window's latest by receipt, whatever order its messages were handled in.
AnchorIsLatest ==
    \A w \in Existing :
        /\ window[w].anchor \in window[w].members
        /\ received[window[w].anchor] = window[w].lastInbound
        /\ \A m \in window[w].members : received[m] <= window[w].lastInbound

\* An open window always carries the control in force, so release_grace_window
\* never drops the contact's messages because the owner moved the delay while
\* the window waited (_recalculate_open_windows, defer_decision_for_grace).
WindowsFollowControl ==
    \A w \in OpenWindows :
        /\ window[w].enabled = control.enabled
        /\ window[w].seconds = control.seconds
        /\ window[w].revision = control.revision

\* A window is released only while grace is enabled and when none of its
\* messages is more recent than the delay in force at that moment, whatever
\* extensions and control changes it went through (release_grace_window).
QuietPeriod ==
    [][\A w \in Messages :
          window[w].state = "OPEN" /\ window'[w].state = "RELEASED"
              => /\ control.enabled
                 /\ \A m \in window[w].members :
                        received[m] + control.seconds <= now]_vars

\* An interaction is canceled by a human reply only when a reply the router has
\* handled is at or after that very message: a delayed or stale reply never
\* silences a message it does not answer (human_cancel.stale_observation).
HumanCanceledIsAnswered ==
    \A m \in Messages :
        interaction[m] = "CANCELED_BY_HUMAN_REPLY"
            => \E r \in Replies : AnsweredBy(r, m)

\* While the newest window is open, each reply handled so far leaves one of its
\* messages unanswered, whether the reply came before the message or after it:
\* the router never goes on to answer what the owner has answered.
Answered(w) ==
    \E r \in Replies : \A m \in window[w].members : AnsweredBy(r, m)
OpenAwaitsOwner == \A w \in OpenWindows : IsNewest(w) => ~Answered(w)

\* No two windows of the conversation are open (the unique index), and a
\* handled message belongs to one window or was preempted, never to two.
OneLineage ==
    /\ \A v, w \in Existing :
         window[v].state = "OPEN" /\ window[w].state = "OPEN" => v = w
    /\ \A v, w \in Existing :
         v # w => window[v].members \cap window[w].members = {}
    /\ \A m \in Messages : m \in handled
         => \/ \E w \in Existing : m \in window[w].members
            \/ Preempted(m)

\* A window leads the life its other half relies on: released or canceled
\* once, never canceled while its reply is on the way, never revived
\* (release_grace_window, _cancel_window).
PhaseOf(w) ==
    IF window[w].state = "RELEASED" /\ w \in irreversible THEN "LATE"
    ELSE window[w].state
Lifecycle == INSTANCE GraceWindow WITH
    Windows <- Messages,
    phase <- [w \in Messages |-> PhaseOf(w)]
ImplementsLifecycle == Lifecycle!Spec

-----------------------------------------------------------------------------
(* Liveness.                                                               *)

\* A window does not stay open for ever while grace is enabled: messages and
\* control changes being finitely many, the worker releases or cancels it,
\* however often the policy changes.
OpenWindowsClose ==
    \A w \in Messages :
        window[w].state = "OPEN"
            ~> (window[w].state # "OPEN" \/ ~control.enabled)
=============================================================================
