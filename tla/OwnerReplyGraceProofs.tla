------------------------ MODULE OwnerReplyGraceProofs ------------------------
(***************************************************************************)
(* Proofs about OwnerReplyGrace, for any messages, owner replies, delays   *)
(* and clock bounds.                                                       *)
(***************************************************************************)
EXTENDS OwnerReplyGrace, TLAPS

(* What the handlers maintain about a window's messages.                   *)

\* Only handled messages are in windows, and every window has its opener.
Membership ==
    /\ \A w \in Messages : window[w].members \subseteq handled
    /\ Existing \subseteq handled
    /\ \A m \in Messages : interaction[m] # "NONE" => m \in handled

\* One window of the conversation is open at a time, and only a released
\* window's reply can be on its way.
OneOpen ==
    /\ \A v, w \in OpenWindows : v = w
    /\ \A w \in irreversible : window[w].state = "RELEASED"

\* The deadline of an open window leaves its full delay after its last message.
DueTrails ==
    \A w \in OpenWindows :
        window[w].due >= window[w].lastInbound + window[w].seconds

WindowInv == TypeOK /\ AnchorIsLatest /\ Membership /\ OneOpen

-----------------------------------------------------------------------------

LEMMA WindowInvInit == Init => WindowInv
  BY EventsAssumption, TimesAssumption
     DEF Init, WindowInv, TypeOK, AnchorIsLatest, Membership, OneOpen,
         Existing, OpenWindows, NoWindow, Window, WindowStates, Time, Events

\* What the type invariant says of the values a handler reads.
LEMMA ReadTypes ==
  ASSUME TypeOK
  PROVE  /\ \A m \in Messages : received[m] \in Nat
         /\ control.seconds \in Nat /\ control.seconds \in GraceSeconds
         /\ control.enabled \in BOOLEAN /\ control.revision \in 0..MaxRevision
         /\ control.revision \in Nat /\ policy \in Nat
         /\ \A w \in Messages : window[w] \in Window
<1>1. received \in [Events -> Nat] /\ Messages \subseteq Events
  BY DEF TypeOK, Events
<1>2. control \in [enabled : BOOLEAN, seconds : GraceSeconds,
                   revision : 0..MaxRevision]
  BY DEF TypeOK
<1>3. \A m \in Messages : received[m] \in Nat
  BY <1>1
<1>4. /\ control.seconds \in GraceSeconds /\ control.enabled \in BOOLEAN
      /\ control.revision \in 0..MaxRevision
  BY <1>2
<1>5. control.seconds \in Nat /\ control.revision \in Nat
  <2>1. GraceSeconds \subseteq Nat /\ MaxRevision \in Nat
    BY TimesAssumption
  <2>2. control.seconds \in Nat
    BY <1>4, <2>1, Zenon
  <2>3. control.revision \in Nat
    BY <1>4, <2>1
  <2> QED
    BY <2>2, <2>3
<1>6. policy \in Nat
  BY TimesAssumption DEF TypeOK
<1>7. \A w \in Messages : window[w] \in Window
  BY DEF TypeOK
<1> QED
  BY <1>3, <1>4, <1>5, <1>6, <1>7

\* A window that is replaced by one of the right shape leaves the others alone.
LEMMA WindowType ==
  ASSUME TypeOK, NEW w \in Messages, NEW r \in Window,
         window' = [window EXCEPT ![w] = r]
  PROVE  /\ window' \in [Messages -> Window]
         /\ window'[w] = r
         /\ \A v \in Messages \ {w} : window'[v] = window[v]
  BY DEF TypeOK

\* What opening a window leaves of the others.
LEMMA OpenWindowRecord ==
  ASSUME WindowInv, NEW m \in Messages, OpenWindow(m)
  PROVE  /\ window' \in [Messages -> Window]
         /\ window'[m].state = "OPEN" /\ window'[m].members = {m}
         /\ window'[m].anchor = m
         /\ window'[m].created = received[m]
         /\ window'[m].lastInbound = received[m]
         /\ window'[m].due = received[m] + control.seconds
         /\ window'[m].enabled = control.enabled
         /\ window'[m].seconds = control.seconds
         /\ window'[m].revision = control.revision
         /\ window[m].state = "NONE"
         /\ \A v \in Messages \ {m} : window'[v] = window[v]
<1> DEFINE r == [state |-> "OPEN", members |-> {m}, anchor |-> m,
                 created |-> received[m], lastInbound |-> received[m],
                 due |-> received[m] + control.seconds,
                 enabled |-> control.enabled, seconds |-> control.seconds,
                 revision |-> control.revision, policy |-> policy]
<1>1. received[m] \in Nat /\ control.seconds \in Nat /\ policy \in Nat
      /\ control.revision \in Nat /\ control.enabled \in BOOLEAN
      /\ control.seconds \in GraceSeconds
  BY ReadTypes DEF WindowInv
<1>2. r \in Window
  BY <1>1 DEF Window, WindowStates
<1>3. window' = [window EXCEPT ![m] = r]
  BY DEF OpenWindow
<1>4. window[m].state = "NONE"
  BY DEF OpenWindow, WindowInv, Membership, Existing
<1> HIDE DEF r
<1>5. /\ window' \in [Messages -> Window] /\ window'[m] = r
      /\ \A v \in Messages \ {m} : window'[v] = window[v]
  BY <1>2, <1>3, WindowType DEF WindowInv
<1> QED
  BY <1>4, <1>5 DEF r

\* What a further message does to the open window it joins.
LEMMA ExtendWindowRecord ==
  ASSUME WindowInv, NEW w \in Messages, NEW m \in Messages, ExtendWindow(w, m)
  PROVE  /\ window' \in [Messages -> Window]
         /\ window[w].state = "OPEN" /\ window'[w].state = "OPEN"
         /\ window'[w].members = window[w].members \cup {m}
         /\ window'[w].anchor =
              IF BecomesAnchor(w, m) THEN m ELSE window[w].anchor
         /\ window'[w].lastInbound =
              IF BecomesAnchor(w, m) THEN received[m]
              ELSE window[w].lastInbound
         /\ window'[w].due >= window'[w].lastInbound + control.seconds
         /\ window'[w].created = window[w].created
         /\ window'[w].enabled = control.enabled
         /\ window'[w].seconds = control.seconds
         /\ window'[w].revision = control.revision
         /\ \A v \in Messages \ {w} : window'[v] = window[v]
<1> DEFINE last == IF BecomesAnchor(w, m) THEN received[m]
                   ELSE window[w].lastInbound
<1> DEFINE r == Extended(w, m)
<1>1. /\ received[m] \in Nat /\ control.seconds \in Nat /\ policy \in Nat
      /\ control.revision \in Nat /\ control.enabled \in BOOLEAN
      /\ control.seconds \in GraceSeconds
      /\ window[w] \in Window
  BY ReadTypes DEF WindowInv
<1>2. last \in Nat /\ window[w].due \in Nat
  BY <1>1 DEF Window
<1>3. ExtendedDue(w, last) \in Nat /\ ExtendedDue(w, last) >= last + control.seconds
  BY <1>1, <1>2 DEF ExtendedDue
<1>4. r = [window[w] EXCEPT
             !.members = window[w].members \cup {m},
             !.anchor = IF BecomesAnchor(w, m) THEN m ELSE window[w].anchor,
             !.lastInbound = last,
             !.due = ExtendedDue(w, last),
             !.enabled = control.enabled, !.seconds = control.seconds,
             !.revision = control.revision, !.policy = policy]
  BY DEF Extended
<1>5. window' = [window EXCEPT ![w] = r] /\ window[w].state = "OPEN"
  BY DEF ExtendWindow, OpenWindows
<1> HIDE DEF last, r
<1>6. /\ r \in Window
      /\ r.state = window[w].state
      /\ r.members = window[w].members \cup {m}
      /\ r.anchor = IF BecomesAnchor(w, m) THEN m ELSE window[w].anchor
      /\ r.lastInbound = last /\ r.due = ExtendedDue(w, last)
      /\ r.created = window[w].created
      /\ r.enabled = control.enabled /\ r.seconds = control.seconds
      /\ r.revision = control.revision
  BY <1>1, <1>2, <1>3, <1>4 DEF Window
<1>7. /\ window' \in [Messages -> Window] /\ window'[w] = r
      /\ \A v \in Messages \ {w} : window'[v] = window[v]
  BY <1>5, <1>6, WindowType DEF WindowInv
<1> QED
  BY <1>3, <1>5, <1>6, <1>7 DEF last

\* An extended window stays open, and so does every other open window.
LEMMA ExtendKeepsOpen ==
  ASSUME WindowInv, NEW w \in Messages, NEW m \in Messages, ExtendWindow(w, m)
  PROVE  OpenWindows' = OpenWindows
<1>1. window[w].state = "OPEN" /\ window'[w].state = "OPEN"
  BY ExtendWindowRecord
<1>2. \A v \in Messages \ {w} : window'[v] = window[v]
  BY ExtendWindowRecord
<1>3. \A v \in Messages : window'[v].state = "OPEN" <=> window[v].state = "OPEN"
  BY <1>1, <1>2
<1> QED
  BY <1>3 DEF OpenWindows

\* Releasing or canceling one window changes its state and nothing else.
LEMMA StateChange ==
  ASSUME WindowInv, NEW w \in Messages, NEW s \in WindowStates,
         window' = [window EXCEPT ![w].state = s]
  PROVE  /\ window' \in [Messages -> Window]
         /\ window'[w] = [window[w] EXCEPT !.state = s]
         /\ window'[w].state = s
         /\ window'[w].members = window[w].members
         /\ window'[w].anchor = window[w].anchor
         /\ window'[w].created = window[w].created
         /\ window'[w].lastInbound = window[w].lastInbound
         /\ window'[w].due = window[w].due
         /\ \A v \in Messages \ {w} : window'[v] = window[v]
  BY DEF WindowInv, TypeOK, Window

\* The control reaches the open windows and leaves what they have gathered.
LEMMA ControlChange ==
  ASSUME WindowInv, NEW e \in BOOLEAN, NEW s \in GraceSeconds, SetControl(e, s)
  PROVE  /\ window' \in [Messages -> Window]
         /\ control' \in [enabled : BOOLEAN, seconds : GraceSeconds,
                          revision : 0..MaxRevision]
         /\ \A w \in Messages :
              /\ window'[w].state = window[w].state
              /\ window'[w].members = window[w].members
              /\ window'[w].anchor = window[w].anchor
              /\ window'[w].created = window[w].created
              /\ window'[w].lastInbound = window[w].lastInbound
         /\ \A w \in OpenWindows :
              /\ window'[w].due = window[w].lastInbound + control'.seconds
              /\ window'[w].enabled = control'.enabled
              /\ window'[w].seconds = control'.seconds
              /\ window'[w].revision = control'.revision
         /\ \A w \in Messages \ OpenWindows : window'[w] = window[w]
<1> DEFINE new == [enabled |-> e, seconds |-> s,
                   revision |-> control.revision + 1]
<1>1. /\ s \in Nat /\ control.revision + 1 \in 0..MaxRevision
      /\ \A w \in Messages : window[w] \in Window
  BY ReadTypes, TimesAssumption DEF WindowInv, SetControl
<1>2. /\ control' = new
      /\ window' = [w \in Messages |->
             IF w \in OpenWindows THEN Recalculated(w, new) ELSE window[w]]
  BY DEF SetControl
<1>3. \A w \in OpenWindows : w \in Messages
  BY DEF OpenWindows
<1>a. new.enabled = e /\ new.seconds = s /\ new.revision = control.revision + 1
  OBVIOUS
<1>5. control' \in [enabled : BOOLEAN, seconds : GraceSeconds,
                    revision : 0..MaxRevision]
  BY <1>1, <1>2
<1> HIDE DEF new
<1>4. ASSUME NEW w \in Messages
      PROVE  /\ Recalculated(w, new) \in Window
             /\ Recalculated(w, new).state = window[w].state
             /\ Recalculated(w, new).members = window[w].members
             /\ Recalculated(w, new).anchor = window[w].anchor
             /\ Recalculated(w, new).created = window[w].created
             /\ Recalculated(w, new).lastInbound = window[w].lastInbound
             /\ Recalculated(w, new).due = window[w].lastInbound + s
             /\ Recalculated(w, new).enabled = e
             /\ Recalculated(w, new).seconds = s
             /\ Recalculated(w, new).revision = control.revision + 1
  <2>1. window[w] \in Window /\ window[w].lastInbound + s \in Nat
        /\ control.revision + 1 \in Nat
    BY <1>1 DEF Window
  <2>2. Recalculated(w, new) =
          [window[w] EXCEPT !.revision = control.revision + 1, !.enabled = e,
                            !.seconds = s, !.due = window[w].lastInbound + s]
    BY <1>a DEF Recalculated
  <2> QED
    BY <2>1, <2>2 DEF Window
<1>6. /\ control'.enabled = e /\ control'.seconds = s
      /\ control'.revision = control.revision + 1
  BY <1>a, <1>2
<1> QED
  BY <1>1, <1>2, <1>3, <1>4, <1>5, <1>6

-----------------------------------------------------------------------------
(* The base invariant, one step per handler.                               *)

LEMMA ArrivalKeepsHandled ==
  ASSUME WindowInv, NEW e \in Events, NEW t \in 0..LastArrival, Arrive(e, t)
  PROVE  /\ \A f \in handled : occurred'[f] = occurred[f]
                               /\ received'[f] = received[f]
         /\ occurred' \in [Events -> Nat] /\ received' \in [Events -> Nat]
<1>1. e \notin handled /\ handled \subseteq Events
  BY DEF Arrive, WindowInv, TypeOK
<1>2. now \in Nat /\ t \in Nat
  BY TimesAssumption DEF WindowInv, TypeOK, Time
<1> QED
  BY <1>1, <1>2 DEF Arrive, WindowInv, TypeOK

LEMMA TypeStep ==
  ASSUME WindowInv, [Next]_vars
  PROVE  TypeOK'
<1> USE DEF WindowInv
<1>1. CASE Tick
  BY <1>1, TimesAssumption DEF Tick, TypeOK, Time
<1>2. CASE \E version \in 0..MaxPolicy : ActivatePolicy(version)
  BY <1>2, TimesAssumption DEF ActivatePolicy, TypeOK, clocks
<1>3. CASE \E e \in Events, t \in 0..LastArrival : Arrive(e, t)
  <2> PICK e \in Events, t \in 0..LastArrival : Arrive(e, t)
    BY <1>3
  <2> QED
    BY ArrivalKeepsHandled DEF Arrive, TypeOK
<1>4. CASE \E m \in Messages : PreemptInbound(m)
  BY <1>4 DEF PreemptInbound, TypeOK, clocks
<1>5. CASE \E m \in Messages : OpenWindow(m)
  <2> PICK m \in Messages : OpenWindow(m)
    BY <1>5
  <2>1. /\ window' \in [Messages -> Window]
        /\ \A w \in Messages : window'[w].due >= window'[w].lastInbound
    BY OpenWindowRecord, ReadTypes DEF TypeOK
  <2> QED
    BY <2>1 DEF OpenWindow, TypeOK, clocks
<1>6. CASE \E w \in Messages, m \in Messages : ExtendWindow(w, m)
  <2> PICK w \in Messages, m \in Messages : ExtendWindow(w, m)
    BY <1>6
  <2>0. window' \in [Messages -> Window]
    BY ExtendWindowRecord
  <2>1. window'[w].due >= window'[w].lastInbound
    <3>1. window'[w].due \in Nat /\ window'[w].lastInbound \in Nat
      BY <2>0 DEF Window
    <3> QED
      BY <3>1, ExtendWindowRecord, ReadTypes
  <2>2. \A v \in Messages : window'[v].due >= window'[v].lastInbound
    BY <2>1, ExtendWindowRecord DEF TypeOK
  <2> QED
    BY <2>0, <2>2 DEF ExtendWindow, TypeOK, clocks
<1>7. CASE \E w \in Messages : ReleaseDue(w)
  <2> PICK w \in Messages : ReleaseDue(w)
    BY <1>7
  <2>1. PICK s \in WindowStates : window' = [window EXCEPT ![w].state = s]
    BY DEF ReleaseDue, WindowStates
  <2>2. /\ window' \in [Messages -> Window]
        /\ \A v \in Messages : window'[v].due >= window'[v].lastInbound
    BY <2>1, StateChange DEF TypeOK
  <2>3. decisions' \subseteq Messages
    BY DEF ReleaseDue, TypeOK, AnchorIsLatest, Existing, Window
  <2> QED
    BY <2>2, <2>3 DEF ReleaseDue, TypeOK, clocks
<1>8. CASE \E w \in Messages : BecomeIrreversible(w) \/ BecomeReversible(w)
  BY <1>8 DEF BecomeIrreversible, BecomeReversible, TypeOK, clocks
<1>9. CASE \E r \in Replies, w \in Messages : CancelByReply(r, w)
  <2> PICK r \in Replies, w \in Messages : CancelByReply(r, w)
    BY <1>9
  <2>1. /\ window' \in [Messages -> Window]
        /\ \A v \in Messages : window'[v].due >= window'[v].lastInbound
    BY StateChange DEF CancelByReply, WindowStates, TypeOK
  <2> QED
    BY <2>1 DEF CancelByReply, TypeOK, clocks
<1>10. CASE \E r \in Replies : RecordReply(r)
  BY <1>10 DEF RecordReply, TypeOK, clocks
<1>11. CASE \E e \in BOOLEAN, s \in GraceSeconds : SetControl(e, s)
  <2> PICK e \in BOOLEAN, s \in GraceSeconds : SetControl(e, s)
    BY <1>11
  <2>1. window' \in [Messages -> Window] /\ control'.seconds \in Nat
    BY ControlChange, TimesAssumption
  <2>2. ASSUME NEW w \in Messages
        PROVE  window'[w].due >= window'[w].lastInbound
    <3>1. window'[w].lastInbound \in Nat
      BY <2>1 DEF Window
    <3>2. CASE w \in OpenWindows
      BY <2>1, <3>1, <3>2, ControlChange
    <3>3. CASE w \notin OpenWindows
      BY <3>3, ControlChange DEF TypeOK
    <3> QED
      BY <3>2, <3>3
  <2> QED
    BY <2>1, <2>2, ControlChange DEF SetControl, TypeOK, clocks
<1>12. CASE UNCHANGED vars
  BY <1>12 DEF vars, clocks, TypeOK
<1> QED
  BY <1>1, <1>2, <1>3, <1>4, <1>5, <1>6, <1>7, <1>8, <1>9, <1>10, <1>11, <1>12
     DEF Next

\* What a step leaves of the windows: one is opened, extended or changes state,
\* or the control reaches the open ones, or none is touched.
LEMMA WindowSteps ==
  ASSUME WindowInv, [Next]_vars
  PROVE  \/ \E m \in Messages : OpenWindow(m)
         \/ \E w \in Messages, m \in Messages : ExtendWindow(w, m)
         \/ \E w \in Messages : ReleaseDue(w)
         \/ \E r \in Replies, w \in Messages : CancelByReply(r, w)
         \/ \E e \in BOOLEAN, s \in GraceSeconds : SetControl(e, s)
         \/ \E e \in Events, t \in 0..LastArrival : Arrive(e, t)
         \/ \E m \in Messages : PreemptInbound(m)
         \/ \E r \in Replies : RecordReply(r)
         \/ \E w \in Messages : BecomeIrreversible(w) \/ BecomeReversible(w)
         \/ /\ \/ Tick \/ UNCHANGED vars
               \/ \E version \in 0..MaxPolicy : ActivatePolicy(version)
            /\ UNCHANGED <<handled, interaction, window, irreversible, control,
                           arrived, occurred, received>>
  BY DEF Next, vars, clocks, Tick, ActivatePolicy

LEMMA AnchorStep ==
  ASSUME WindowInv, [Next]_vars
  PROVE  AnchorIsLatest'
<1> USE DEF WindowInv
<1>1. CASE \E m \in Messages : OpenWindow(m)
  <2> PICK m \in Messages : OpenWindow(m)
    BY <1>1
  <2>1. received' = received /\ received[m] \in Nat
    BY ReadTypes DEF OpenWindow, clocks
  <2> QED
    BY <2>1, OpenWindowRecord DEF AnchorIsLatest, Existing
<1>2. CASE \E w \in Messages, m \in Messages : ExtendWindow(w, m)
  <2> PICK w \in Messages, m \in Messages : ExtendWindow(w, m)
    BY <1>2
  <2>1. /\ received' = received /\ received[m] \in Nat
        /\ window[w].lastInbound \in Nat
        /\ \A k \in window[w].members : received[k] \in Nat
    BY ReadTypes DEF ExtendWindow, clocks, Window
  <2>2. /\ w \in Existing
        /\ \A v \in Messages \ {w} : v \in Existing' <=> v \in Existing
    BY ExtendWindowRecord DEF Existing
  <2>3. /\ window'[w].anchor \in window'[w].members
        /\ received[window'[w].anchor] = window'[w].lastInbound
        /\ \A k \in window'[w].members : received[k] <= window'[w].lastInbound
    <3>1. CASE BecomesAnchor(w, m)
      BY <2>1, <2>2, <3>1, ExtendWindowRecord
         DEF AnchorIsLatest, BecomesAnchor
    <3>2. CASE ~BecomesAnchor(w, m)
      BY <2>1, <2>2, <3>2, ExtendWindowRecord
         DEF AnchorIsLatest, BecomesAnchor
    <3> QED
      BY <3>1, <3>2
  <2>4. \A v \in Existing' : v # w => v \in Existing /\ window'[v] = window[v]
    BY <2>2, ExtendWindowRecord DEF Existing
  <2> QED
    BY <2>1, <2>3, <2>4 DEF AnchorIsLatest
<1>3. CASE \/ \E w \in Messages : ReleaseDue(w)
           \/ \E r \in Replies, w \in Messages : CancelByReply(r, w)
  <2>1. PICK w \in Messages, s \in WindowStates :
          /\ window' = [window EXCEPT ![w].state = s]
          /\ w \in Existing /\ received' = received
    BY <1>3 DEF ReleaseDue, CancelByReply, CanCancel, Existing, WindowStates,
                clocks
  <2> QED
    BY <2>1, StateChange DEF AnchorIsLatest, Existing
<1>4. CASE \E e \in BOOLEAN, s \in GraceSeconds : SetControl(e, s)
  <2> PICK e \in BOOLEAN, s \in GraceSeconds : SetControl(e, s)
    BY <1>4
  <2>1. received' = received
    BY DEF SetControl, clocks
  <2> QED
    BY <2>1, ControlChange DEF AnchorIsLatest, Existing
<1>5. CASE \E e \in Events, t \in 0..LastArrival : Arrive(e, t)
  <2> PICK e \in Events, t \in 0..LastArrival : Arrive(e, t)
    BY <1>5
  <2>1. window' = window /\ \A f \in handled : received'[f] = received[f]
    BY ArrivalKeepsHandled DEF Arrive
  <2> QED
    BY <2>1 DEF AnchorIsLatest, Membership, Existing
<1>6. CASE \/ \E m \in Messages : PreemptInbound(m)
           \/ \E r \in Replies : RecordReply(r)
           \/ \E w \in Messages : BecomeIrreversible(w) \/ BecomeReversible(w)
  BY <1>6 DEF PreemptInbound, RecordReply, BecomeIrreversible,
              BecomeReversible, clocks, AnchorIsLatest, Existing
<1>7. CASE UNCHANGED <<handled, interaction, window, irreversible, control,
                       arrived, occurred, received>>
  BY <1>7 DEF AnchorIsLatest, Existing
<1> QED
  BY <1>1, <1>2, <1>3, <1>4, <1>5, <1>6, <1>7, WindowSteps

LEMMA MembershipStep ==
  ASSUME WindowInv, [Next]_vars
  PROVE  Membership'
<1> USE DEF WindowInv, Membership
<1>1. CASE \E m \in Messages : OpenWindow(m)
  <2> PICK m \in Messages : OpenWindow(m)
    BY <1>1
  <2>1. handled' = handled \cup {m}
    BY DEF OpenWindow
  <2>2. \A k \in Messages : interaction'[k] # "NONE" => k \in handled'
    BY <2>1 DEF OpenWindow, TypeOK
  <2>3. \A w \in Messages : window'[w].members \subseteq handled'
    BY <2>1, OpenWindowRecord
  <2> QED
    BY <2>1, <2>2, <2>3, OpenWindowRecord DEF Existing
<1>2. CASE \E w \in Messages, m \in Messages : ExtendWindow(w, m)
  <2> PICK w \in Messages, m \in Messages : ExtendWindow(w, m)
    BY <1>2
  <2>1. handled' = handled \cup {m}
    BY DEF ExtendWindow
  <2>2. \A k \in Messages : interaction'[k] # "NONE" => k \in handled'
    BY <2>1 DEF ExtendWindow, TypeOK
  <2>3. \A v \in Messages : window'[v].members \subseteq handled'
    BY <2>1, ExtendWindowRecord
  <2>4. Existing' = Existing
    BY ExtendWindowRecord DEF Existing
  <2> QED
    BY <2>1, <2>2, <2>3, <2>4
<1>3. CASE \E w \in Messages : ReleaseDue(w)
  <2>1. PICK w \in Messages, s \in WindowStates :
          /\ window' = [window EXCEPT ![w].state = s]
          /\ w \in Existing /\ UNCHANGED <<handled, interaction>>
    BY <1>3 DEF ReleaseDue, Existing, WindowStates
  <2>2. Existing' \subseteq Existing
    BY <2>1, StateChange DEF Existing
  <2>3. \A v \in Messages : window'[v].members = window[v].members
    BY <2>1, StateChange
  <2> QED
    BY <2>1, <2>2, <2>3
<1>4. CASE \E r \in Replies, w \in Messages : CancelByReply(r, w)
  <2> PICK r \in Replies, w \in Messages : CancelByReply(r, w)
    BY <1>4
  <2>1. /\ window' = [window EXCEPT ![w].state = "CANCELED"]
        /\ w \in Existing /\ handled \subseteq handled'
    BY DEF CancelByReply, CanCancel, Existing
  <2>2. Existing' \subseteq Existing
    BY <2>1, StateChange DEF Existing, WindowStates
  <2>3. \A v \in Messages : window'[v].members = window[v].members
    BY <2>1, StateChange DEF WindowStates
  <2>4. \A k \in Messages : interaction'[k] # "NONE" => k \in handled'
    BY <2>1 DEF CancelByReply
  <2> QED
    BY <2>1, <2>2, <2>3, <2>4
<1>5. CASE \E e \in BOOLEAN, s \in GraceSeconds : SetControl(e, s)
  <2> PICK e \in BOOLEAN, s \in GraceSeconds : SetControl(e, s)
    BY <1>5
  <2>1. UNCHANGED <<handled, interaction>>
    BY DEF SetControl
  <2> QED
    BY <2>1, ControlChange DEF Existing
<1>6. CASE \/ \E e \in Events, t \in 0..LastArrival : Arrive(e, t)
           \/ \E r \in Replies : RecordReply(r)
           \/ \E w \in Messages : BecomeIrreversible(w) \/ BecomeReversible(w)
  BY <1>6 DEF Arrive, RecordReply, BecomeIrreversible, BecomeReversible,
              Existing
<1>7. CASE \E m \in Messages : PreemptInbound(m)
  BY <1>7 DEF PreemptInbound, Existing, TypeOK
<1>8. CASE UNCHANGED <<handled, interaction, window, irreversible, control,
                       arrived, occurred, received>>
  BY <1>8 DEF Existing
<1> QED
  BY <1>1, <1>2, <1>3, <1>4, <1>5, <1>6, <1>7, <1>8, WindowSteps

LEMMA OneOpenStep ==
  ASSUME WindowInv, [Next]_vars
  PROVE  OneOpen'
<1> USE DEF WindowInv, OneOpen
<1>1. CASE \E m \in Messages : OpenWindow(m)
  <2> PICK m \in Messages : OpenWindow(m)
    BY <1>1
  <2>1. OpenWindows = {} /\ irreversible' = irreversible /\ m \notin irreversible
    BY OpenWindowRecord DEF OpenWindow
  <2>2. OpenWindows' = {m}
    BY <2>1, OpenWindowRecord DEF OpenWindows
  <2> QED
    BY <2>1, <2>2, OpenWindowRecord DEF TypeOK
<1>2. CASE \E w \in Messages, m \in Messages : ExtendWindow(w, m)
  <2> PICK w \in Messages, m \in Messages : ExtendWindow(w, m)
    BY <1>2
  <2>1. irreversible' = irreversible
    BY DEF ExtendWindow
  <2>2. window[w].state = "OPEN"
    BY ExtendWindowRecord
  <2>3. irreversible \subseteq Messages /\ w \notin irreversible
    BY <2>2 DEF TypeOK
  <2>4. \A v \in Messages \ {w} : window'[v] = window[v]
    BY ExtendWindowRecord
  <2>5. \A v \in irreversible' : window'[v].state = "RELEASED"
    BY <2>1, <2>3, <2>4
  <2>6. \A u, v \in OpenWindows' : u = v
    BY ExtendKeepsOpen
  <2> QED
    BY <2>5, <2>6
<1>3. CASE \E w \in Messages : ReleaseDue(w)
  <2>1. PICK w \in Messages, s \in {"RELEASED", "CANCELED"} :
          /\ window' = [window EXCEPT ![w].state = s]
          /\ window[w].state = "OPEN" /\ irreversible' = irreversible
    BY <1>3 DEF ReleaseDue
  <2>2. s \in WindowStates
    BY DEF WindowStates
  <2>3. OpenWindows' \subseteq OpenWindows /\ w \notin irreversible
    BY <2>1, <2>2, StateChange DEF OpenWindows
  <2> QED
    BY <2>1, <2>2, <2>3, StateChange DEF TypeOK
<1>4. CASE \E r \in Replies, w \in Messages : CancelByReply(r, w)
  <2> PICK r \in Replies, w \in Messages : CancelByReply(r, w)
    BY <1>4
  <2>1. /\ window' = [window EXCEPT ![w].state = "CANCELED"]
        /\ w \notin irreversible /\ irreversible' = irreversible
    BY DEF CancelByReply, CanCancel
  <2>2. OpenWindows' \subseteq OpenWindows
    BY <2>1, StateChange DEF OpenWindows, WindowStates
  <2>3. \A v \in irreversible : window'[v].state = window[v].state
    BY <2>1, StateChange DEF TypeOK, WindowStates
  <2> QED
    BY <2>1, <2>2, <2>3
<1>5. CASE \E e \in BOOLEAN, s \in GraceSeconds : SetControl(e, s)
  <2> PICK e \in BOOLEAN, s \in GraceSeconds : SetControl(e, s)
    BY <1>5
  <2>1. irreversible' = irreversible /\ irreversible \subseteq Messages
    BY DEF SetControl, TypeOK
  <2>2. OpenWindows' = OpenWindows
    BY ControlChange DEF OpenWindows
  <2> QED
    BY <2>1, <2>2, ControlChange
<1>6. CASE \/ \E e \in Events, t \in 0..LastArrival : Arrive(e, t)
           \/ \E r \in Replies : RecordReply(r)
           \/ \E w \in Messages : BecomeIrreversible(w) \/ BecomeReversible(w)
           \/ \E m \in Messages : PreemptInbound(m)
  BY <1>6 DEF Arrive, RecordReply, BecomeIrreversible, BecomeReversible,
              PreemptInbound, OpenWindows
<1>7. CASE UNCHANGED <<handled, interaction, window, irreversible, control,
                       arrived, occurred, received>>
  BY <1>7 DEF OpenWindows
<1> QED
  BY <1>1, <1>2, <1>3, <1>4, <1>5, <1>6, <1>7, WindowSteps

LEMMA WindowInvAlways == Spec => []WindowInv
<1>1. WindowInv /\ [Next]_vars => WindowInv'
  BY TypeStep, AnchorStep, MembershipStep, OneOpenStep DEF WindowInv
<1> QED
  BY <1>1, WindowInvInit, PTL DEF Spec

\* Every variable keeps its type, and a deadline never precedes its window's
\* last message (the table's check constraint ck_response_grace_due_after_inbound).
THEOREM TypeCorrect == Spec => []TypeOK
<1>1. WindowInv => TypeOK
  BY DEF WindowInv
<1> QED
  BY <1>1, WindowInvAlways, PTL

\* The message a released window is answered on is the latest it holds by
\* receipt, in whatever order the messages were handled (becomes_anchor).
THEOREM AnchorIsTheLatest == Spec => []AnchorIsLatest
<1>1. WindowInv => AnchorIsLatest
  BY DEF WindowInv
<1> QED
  BY <1>1, WindowInvAlways, PTL

-----------------------------------------------------------------------------
(* The control and the quiet period.                                       *)

ControlInv == WindowsFollowControl /\ DueTrails

LEMMA ControlInvStep ==
  ASSUME WindowInv, ControlInv, [Next]_vars
  PROVE  ControlInv'
<1> USE DEF WindowInv, ControlInv, WindowsFollowControl, DueTrails
<1>1. CASE \E m \in Messages : OpenWindow(m)
  <2> PICK m \in Messages : OpenWindow(m)
    BY <1>1
  <2>a. OpenWindows = {} /\ control' = control
    BY DEF OpenWindow
  <2>1. OpenWindows' = {m} /\ control' = control
    BY <2>a, OpenWindowRecord DEF OpenWindows
  <2>2. received[m] + control.seconds >= received[m] + control.seconds
    BY ReadTypes
  <2>3. window'[m].due >= window'[m].lastInbound + window'[m].seconds
    BY <2>2, OpenWindowRecord
  <2>4. /\ window'[m].enabled = control.enabled
        /\ window'[m].seconds = control.seconds
        /\ window'[m].revision = control.revision
    BY OpenWindowRecord
  <2> QED
    BY <2>1, <2>3, <2>4
<1>2. CASE \E w \in Messages, m \in Messages : ExtendWindow(w, m)
  <2> PICK w \in Messages, m \in Messages : ExtendWindow(w, m)
    BY <1>2
  <2>0. control' = control
    BY DEF ExtendWindow
  <2>1. OpenWindows' = OpenWindows
    BY ExtendKeepsOpen
  <2>2. \A v \in OpenWindows' : v \in Messages
    BY DEF OpenWindows
  <2> QED
    BY <2>0, <2>1, <2>2, ExtendWindowRecord
<1>3. CASE \/ \E w \in Messages : ReleaseDue(w)
           \/ \E r \in Replies, w \in Messages : CancelByReply(r, w)
  <2>1. PICK w \in Messages, s \in {"RELEASED", "CANCELED"} :
          window' = [window EXCEPT ![w].state = s] /\ control' = control
    BY <1>3 DEF ReleaseDue, CancelByReply
  <2>2. s \in WindowStates /\ s # "OPEN"
    BY DEF WindowStates
  <2>3. OpenWindows' \subseteq OpenWindows \ {w}
    BY <2>1, <2>2, StateChange DEF OpenWindows
  <2>4. \A v \in OpenWindows' : v \in Messages \ {w}
    BY <2>3 DEF OpenWindows
  <2> QED
    BY <2>1, <2>2, <2>3, <2>4, StateChange
<1>4. CASE \E e \in BOOLEAN, s \in GraceSeconds : SetControl(e, s)
  <2> PICK e \in BOOLEAN, s \in GraceSeconds : SetControl(e, s)
    BY <1>4
  <2>1. OpenWindows' = OpenWindows /\ \A w \in OpenWindows : w \in Messages
    BY ControlChange DEF OpenWindows
  <2>2. control'.seconds \in Nat
    BY ControlChange, TimesAssumption
  <2>3. \A w \in OpenWindows : window'[w].lastInbound \in Nat
    BY <2>1, ControlChange DEF Window
  <2> QED
    BY <2>1, <2>2, <2>3, ControlChange
<1>5. CASE \/ \E e \in Events, t \in 0..LastArrival : Arrive(e, t)
           \/ \E r \in Replies : RecordReply(r)
           \/ \E w \in Messages : BecomeIrreversible(w) \/ BecomeReversible(w)
           \/ \E m \in Messages : PreemptInbound(m)
  BY <1>5 DEF Arrive, RecordReply, BecomeIrreversible, BecomeReversible,
              PreemptInbound, OpenWindows
<1>6. CASE UNCHANGED <<handled, interaction, window, irreversible, control,
                       arrived, occurred, received>>
  BY <1>6 DEF OpenWindows
<1> QED
  BY <1>1, <1>2, <1>3, <1>4, <1>5, <1>6, WindowSteps

LEMMA ControlInvAlways == Spec => []ControlInv
<1>1. Init => ControlInv
  BY DEF Init, ControlInv, WindowsFollowControl, DueTrails, OpenWindows,
         NoWindow
<1> QED
  BY <1>1, ControlInvStep, WindowInvAlways, PTL DEF Spec

\* An open window always carries the control in force: a change of the delay
\* never makes release_grace_window drop the contact's messages.
THEOREM WindowsKeepTheControl == Spec => []WindowsFollowControl
<1>1. ControlInv => WindowsFollowControl
  BY DEF ControlInv
<1> QED
  BY <1>1, ControlInvAlways, PTL

LEMMA ReleaseIsQuiet ==
  ASSUME WindowInv, ControlInv, [Next]_vars, NEW w \in Messages,
         window[w].state = "OPEN", window'[w].state = "RELEASED"
  PROVE  /\ control.enabled
         /\ \A m \in window[w].members : received[m] + control.seconds <= now
<1> USE DEF WindowInv
<1>1. ReleaseDue(w) /\ RoutingStillValid(w)
  <2>1. CASE \E m \in Messages : OpenWindow(m)
    BY <2>1, OpenWindowRecord
  <2>2. CASE \E v \in Messages, m \in Messages : ExtendWindow(v, m)
    BY <2>2, ExtendWindowRecord
  <2>3. CASE \E v \in Messages : ReleaseDue(v)
    <3> PICK v \in Messages : ReleaseDue(v)
      BY <2>3
    <3>1. PICK s \in {"RELEASED", "CANCELED"} :
            /\ window' = [window EXCEPT ![v].state = s]
            /\ s = "RELEASED" => RoutingStillValid(v)
      BY DEF ReleaseDue
    <3>2. v = w /\ s = "RELEASED"
      BY <3>1, StateChange DEF WindowStates
    <3> QED
      BY <3>1, <3>2
  <2>4. CASE \E r \in Replies, v \in Messages : CancelByReply(r, v)
    <3> PICK r \in Replies, v \in Messages : CancelByReply(r, v)
      BY <2>4
    <3>1. window' = [window EXCEPT ![v].state = "CANCELED"]
      BY DEF CancelByReply
    <3> QED
      BY <3>1, StateChange DEF WindowStates
  <2>5. CASE \E e \in BOOLEAN, s \in GraceSeconds : SetControl(e, s)
    BY <2>5, ControlChange
  <2>6. CASE window' = window
    BY <2>6
  <2> QED
    BY <2>1, <2>2, <2>3, <2>4, <2>5, <2>6, WindowSteps
       DEF Arrive, PreemptInbound, RecordReply, BecomeIrreversible,
           BecomeReversible
<1>2. /\ control.enabled /\ control.seconds = window[w].seconds
      /\ window[w].due <= now
      /\ window[w].due >= window[w].lastInbound + window[w].seconds
  BY <1>1 DEF ReleaseDue, RoutingStillValid, ControlInv, DueTrails, OpenWindows
<1>3. ASSUME NEW m \in window[w].members
      PROVE  received[m] + control.seconds <= now
  <2>1. received[m] <= window[w].lastInbound
    BY DEF AnchorIsLatest, Existing
  <2>2. /\ received[m] \in Nat /\ window[w].lastInbound \in Nat
        /\ window[w].due \in Nat /\ control.seconds \in Nat /\ now \in Nat
    <3>1. window[w] \in Window /\ m \in Messages
      BY ReadTypes DEF Membership, Window
    <3>2. window[w].lastInbound \in Nat /\ window[w].due \in Nat
      BY <3>1 DEF Window
    <3>3. now \in Nat
      BY TimesAssumption DEF TypeOK, Time
    <3> QED
      BY <3>1, <3>2, <3>3, ReadTypes
  <2> QED
    BY <1>2, <2>1, <2>2
<1> QED
  BY <1>2, <1>3

\* No window is released while grace is disabled, or less than the delay in
\* force after the last of its messages (release_grace_window).
THEOREM ReleasesAreQuiet == Spec => QuietPeriod
<1>1. WindowInv /\ ControlInv /\ [Next]_vars =>
        [\A w \in Messages :
            window[w].state = "OPEN" /\ window'[w].state = "RELEASED"
                => /\ control.enabled
                   /\ \A m \in window[w].members :
                          received[m] + control.seconds <= now]_vars
  BY ReleaseIsQuiet
<1> QED
  BY <1>1, WindowInvAlways, ControlInvAlways, PTL DEF Spec, QuietPeriod

-----------------------------------------------------------------------------
(* Owner replies: what they cancel, and what they never miss.              *)

\* Handling an event or receiving another keeps what handled replies answer.
LEMMA AnswersPersist ==
  ASSUME WindowInv, [Next]_vars
  PROVE  /\ handled \subseteq handled'
         /\ \A r \in Replies, m \in handled : AnsweredBy(r, m) => AnsweredBy(r, m)'
         /\ \A r \in handled, m \in handled : AnsweredBy(r, m)' => AnsweredBy(r, m)
<1>1. handled \subseteq handled'
  BY DEF Next, Tick, ActivatePolicy, Arrive, PreemptInbound, OpenWindow,
         ExtendWindow, ReleaseDue, BecomeIrreversible, BecomeReversible,
         CancelByReply, RecordReply, SetControl, vars
<1>2. \A f \in handled : occurred'[f] = occurred[f] /\ received'[f] = received[f]
  <2>1. CASE \E e \in Events, t \in 0..LastArrival : Arrive(e, t)
    BY <2>1, ArrivalKeepsHandled
  <2>2. CASE ~ \E e \in Events, t \in 0..LastArrival : Arrive(e, t)
    BY <2>2 DEF Next, Tick, ActivatePolicy, PreemptInbound, OpenWindow,
         ExtendWindow, ReleaseDue, BecomeIrreversible, BecomeReversible,
         CancelByReply, RecordReply, SetControl, vars, clocks
  <2> QED
    BY <2>1, <2>2
<1> QED
  BY <1>1, <1>2 DEF AnsweredBy, CausallyUpTo

LEMMA HumanCanceledStep ==
  ASSUME WindowInv, HumanCanceledIsAnswered, [Next]_vars
  PROVE  HumanCanceledIsAnswered'
<1> SUFFICES ASSUME NEW m \in Messages,
                    interaction'[m] = "CANCELED_BY_HUMAN_REPLY"
             PROVE  \E r \in Replies : AnsweredBy(r, m)'
  BY DEF HumanCanceledIsAnswered
<1>1. CASE interaction[m] = "CANCELED_BY_HUMAN_REPLY"
  <2>1. m \in handled
    BY <1>1 DEF WindowInv, Membership
  <2> QED
    BY <1>1, <2>1, AnswersPersist DEF HumanCanceledIsAnswered
<1>2. CASE interaction[m] # "CANCELED_BY_HUMAN_REPLY"
  <2>1. \/ PreemptInbound(m)
        \/ \E r \in Replies, w \in Messages :
             CancelByReply(r, w) /\ m \in window[w].members
    BY <1>2 DEF Next, vars, clocks, Tick, ActivatePolicy, Arrive,
         PreemptInbound, OpenWindow, ExtendWindow, ReleaseDue,
         BecomeIrreversible, BecomeReversible, CancelByReply, RecordReply,
         SetControl, WindowInv, TypeOK
  <2>2. CASE PreemptInbound(m)
    BY <2>2 DEF PreemptInbound, Preempted, AnsweredBy, CausallyUpTo, clocks
  <2>3. CASE \E r \in Replies, w \in Messages :
               CancelByReply(r, w) /\ m \in window[w].members
    BY <2>3 DEF CancelByReply, CanCancel, CoversLineage, AnsweredBy,
                CausallyUpTo, clocks
  <2> QED
    BY <2>1, <2>2, <2>3
<1> QED
  BY <1>1, <1>2

\* No interaction is canceled by a human reply without a handled reply at or
\* after that message, however late or out of order the replies come.
THEOREM HumanCanceledMeansAnswered == Spec => []HumanCanceledIsAnswered
<1>1. Init => HumanCanceledIsAnswered
  BY DEF Init, HumanCanceledIsAnswered
<1> QED
  BY <1>1, HumanCanceledStep, WindowInvAlways, PTL DEF Spec

\* Only a reply can answer what was not answered: the events handled before.
LEMMA AnsweredOnlyByNewReply ==
  ASSUME WindowInv, [Next]_vars, handled' \cap Replies = handled \cap Replies,
         NEW w \in OpenWindows, ~Answered(w),
         window'[w].members = window[w].members
  PROVE  ~Answered(w)'
<1>1. window[w].members \subseteq handled
  BY DEF WindowInv, Membership, OpenWindows
<1> QED
  BY <1>1, AnswersPersist DEF Answered, AnsweredBy

LEMMA OpenAwaitsOwnerStep ==
  ASSUME WindowInv, OpenAwaitsOwner, [Next]_vars
  PROVE  OpenAwaitsOwner'
<1> USE DEF WindowInv
<1>1. CASE \E m \in Messages : OpenWindow(m)
  <2> PICK m \in Messages : OpenWindow(m)
    BY <1>1
  <2>a. OpenWindows = {} /\ ~Preempted(m) /\ handled' = handled \cup {m}
        /\ UNCHANGED clocks
    BY DEF OpenWindow
  <2>1. OpenWindows' = {m} /\ window'[m].members = {m}
    BY <2>a, OpenWindowRecord DEF OpenWindows
  <2>2. ~Answered(m)'
    BY <2>a, <2>1, EventsAssumption
       DEF Answered, AnsweredBy, CausallyUpTo, Preempted, clocks
  <2> QED
    BY <2>1, <2>2 DEF OpenAwaitsOwner
<1>2. CASE \E w \in Messages, m \in Messages : ExtendWindow(w, m)
  <2> PICK w \in Messages, m \in Messages : ExtendWindow(w, m)
    BY <1>2
  <2>a. /\ w \in OpenWindows /\ ~Preempted(m) /\ handled' = handled \cup {m}
        /\ UNCHANGED clocks
    BY DEF ExtendWindow
  <2>1. OpenWindows' = OpenWindows /\ m \in window'[w].members
    BY ExtendWindowRecord DEF OpenWindows
  <2>2. ~Answered(w)'
    BY <2>a, <2>1, EventsAssumption
       DEF Answered, AnsweredBy, CausallyUpTo, Preempted, clocks
  <2>3. \A v \in OpenWindows' : v = w
    BY <2>a, <2>1 DEF OneOpen
  <2> QED
    BY <2>2, <2>3 DEF OpenAwaitsOwner
<1>3. CASE \E w \in Messages : ReleaseDue(w)
  <2>1. PICK w \in Messages, s \in {"RELEASED", "CANCELED"} :
          /\ window' = [window EXCEPT ![w].state = s]
          /\ window[w].state = "OPEN"
    BY <1>3 DEF ReleaseDue
  <2>2. s \in WindowStates /\ s # "OPEN"
    BY DEF WindowStates
  <2>3. OpenWindows' \subseteq OpenWindows \ {w} /\ w \in OpenWindows
    BY <2>1, <2>2, StateChange DEF OpenWindows
  <2>4. OpenWindows' = {}
    BY <2>3 DEF OneOpen
  <2> QED
    BY <2>4 DEF OpenAwaitsOwner
<1>4. CASE \E r \in Replies, w \in Messages : CancelByReply(r, w)
  <2> PICK r \in Replies, w \in Messages : CancelByReply(r, w)
    BY <1>4
  <2>1. /\ window' = [window EXCEPT ![w].state = "CANCELED"]
        /\ IsNewest(w)
    BY DEF CancelByReply, CanCancel
  <2>a. /\ window'[w].state = "CANCELED"
        /\ window'[w].lastInbound = window[w].lastInbound
        /\ window'[w].created = window[w].created
        /\ \A v \in Messages \ {w} : window'[v] = window[v]
    BY <2>1, StateChange DEF WindowStates
  <2>b. window[w].state # "NONE"
    BY <2>1 DEF IsNewest, Existing
  <2>c. Existing' = Existing
    BY <2>a, <2>b DEF Existing
  <2>d. w \notin OpenWindows'
    BY <2>a DEF OpenWindows
  <2>2. /\ Existing' = Existing /\ w \notin OpenWindows'
        /\ \A v \in Messages : /\ window'[v].lastInbound = window[v].lastInbound
                               /\ window'[v].created = window[v].created
    BY <2>a, <2>c, <2>d
  <2>3. \A v \in OpenWindows' : ~IsNewest(v)'
    BY <2>1, <2>2 DEF IsNewest, NotNewer, OpenWindows, Existing
  <2> QED
    BY <2>3 DEF OpenAwaitsOwner
<1>5. CASE \E r \in Replies : RecordReply(r)
  <2> PICK r \in Replies : RecordReply(r)
    BY <1>5
  <2>1. /\ UNCHANGED <<window, clocks>> /\ handled' = handled \cup {r}
        /\ \A w \in Messages : ~CanCancel(r, w)
    BY DEF RecordReply
  <2>2. ASSUME NEW w \in OpenWindows, IsNewest(w)
        PROVE  ~Answered(w)'
    <3>1. ~Answered(w)
      BY <2>2 DEF OpenAwaitsOwner
    <3>2. ~CoversLineage(r, w)
      BY <2>1, <2>2 DEF CanCancel, OpenWindows, OneOpen
    <3> QED
      BY <2>1, <3>1, <3>2
         DEF Answered, AnsweredBy, CausallyUpTo, CoversLineage, clocks
  <2>3. /\ OpenWindows' = OpenWindows
        /\ \A w \in OpenWindows : IsNewest(w)' <=> IsNewest(w)
    BY <2>1 DEF OpenWindows, IsNewest, Existing, NotNewer
  <2> QED
    BY <2>2, <2>3 DEF OpenAwaitsOwner
<1>6. CASE \E e \in BOOLEAN, s \in GraceSeconds : SetControl(e, s)
  <2> PICK e \in BOOLEAN, s \in GraceSeconds : SetControl(e, s)
    BY <1>6
  <2>1. handled' = handled
    BY DEF SetControl
  <2>2. OpenWindows' = OpenWindows /\ Existing' = Existing
    BY ControlChange DEF OpenWindows, Existing
  <2>3. \A w \in OpenWindows : IsNewest(w)' => IsNewest(w)
    BY <2>2, ControlChange DEF IsNewest, NotNewer, Existing, OpenWindows
  <2>4. \A w \in OpenWindows : window'[w].members = window[w].members
    BY ControlChange DEF OpenWindows
  <2> QED
    BY <2>1, <2>2, <2>3, <2>4, AnsweredOnlyByNewReply DEF OpenAwaitsOwner
<1>7. CASE \/ \E e \in Events, t \in 0..LastArrival : Arrive(e, t)
           \/ \E m \in Messages : PreemptInbound(m)
           \/ \E w \in Messages : BecomeIrreversible(w) \/ BecomeReversible(w)
           \/ UNCHANGED <<handled, interaction, window, irreversible, control,
                          arrived, occurred, received>>
  <2>1. window' = window
    BY <1>7 DEF Arrive, PreemptInbound, BecomeIrreversible, BecomeReversible
  <2>2. handled' \cap Replies = handled \cap Replies
    BY <1>7, EventsAssumption
       DEF Arrive, PreemptInbound, BecomeIrreversible, BecomeReversible
  <2>3. /\ OpenWindows' = OpenWindows
        /\ \A w \in OpenWindows : IsNewest(w)' <=> IsNewest(w)
    BY <2>1 DEF OpenWindows, IsNewest, Existing, NotNewer
  <2> QED
    BY <2>1, <2>2, <2>3, AnsweredOnlyByNewReply DEF OpenAwaitsOwner
<1> QED
  BY <1>1, <1>2, <1>3, <1>4, <1>5, <1>6, <1>7, WindowSteps

\* While the conversation's newest window is open, no reply handled so far
\* answers all of it: neither one handled before its messages nor one after.
THEOREM NewestOpenAwaitsOwner == Spec => []OpenAwaitsOwner
<1>1. Init => OpenAwaitsOwner
  BY DEF Init, OpenAwaitsOwner, OpenWindows, NoWindow
<1> QED
  BY <1>1, OpenAwaitsOwnerStep, WindowInvAlways, PTL DEF Spec

-----------------------------------------------------------------------------
(* The lineage of a handled message.                                       *)

\* Messages are in one window at most, and a handled one is in a window or was
\* answered when it came.
Lineage ==
    /\ \A v, w \in Existing :
         v # w => window[v].members \cap window[w].members = {}
    /\ \A m \in Messages : m \in handled
         => \/ \E w \in Existing : m \in window[w].members
            \/ Preempted(m)

\* What was answered when it came stays answered.
LEMMA PreemptionPersists ==
  ASSUME WindowInv, [Next]_vars, NEW m \in handled, Preempted(m)
  PROVE  Preempted(m)'
  BY AnswersPersist DEF Preempted

\* A step that leaves the windows their messages, and handles no message that
\* is not answered already, leaves the lineage.
LEMMA LineageKept ==
  ASSUME WindowInv, Lineage, [Next]_vars, Existing' = Existing,
         \A w \in Messages : window'[w].members = window[w].members,
         \A m \in Messages : m \in handled' => m \in handled \/ Preempted(m)'
  PROVE  Lineage'
<1>1. \A w \in Existing : w \in Messages
  BY DEF Existing
<1>2. \A v, w \in Existing' : v # w => window'[v].members \cap window'[w].members = {}
  BY <1>1 DEF Lineage
<1>3. ASSUME NEW m \in Messages, m \in handled'
      PROVE  \/ \E w \in Existing' : m \in window'[w].members
             \/ Preempted(m)'
  <2>1. CASE m \in handled
    BY <1>1, <2>1, PreemptionPersists DEF Lineage
  <2>2. CASE m \notin handled
    BY <1>3, <2>2
  <2> QED
    BY <2>1, <2>2
<1> QED
  BY <1>2, <1>3 DEF Lineage

\* A message that opens a window or joins one was in none.
LEMMA LineageGains ==
  ASSUME WindowInv, Lineage, [Next]_vars,
         NEW w \in Messages, NEW m \in Messages, m \notin handled,
         handled' = handled \cup {m},
         Existing' = Existing \cup {w},
         \/ window'[w].members = {m} /\ w \notin Existing
         \/ window'[w].members = window[w].members \cup {m} /\ w \in Existing,
         \A v \in Messages \ {w} : window'[v] = window[v]
  PROVE  Lineage'
<1>1. \A v \in Existing : v \in Messages /\ m \notin window[v].members
  BY DEF Existing, WindowInv, Membership
<1>2. ASSUME NEW v \in Existing, v # w
      PROVE  window'[v].members \cap window'[w].members = {}
  <2>1. window'[v] = window[v] /\ m \notin window[v].members
    BY <1>1, <1>2
  <2>2. CASE window'[w].members = {m}
    BY <2>1, <2>2
  <2>3. CASE window'[w].members = window[w].members \cup {m} /\ w \in Existing
    <3>1. window[v].members \cap window[w].members = {}
      BY <1>2, <2>3 DEF Lineage
    <3> QED
      BY <2>1, <2>3, <3>1
  <2> QED
    BY <2>2, <2>3
<1>3. ASSUME NEW u \in Existing', NEW v \in Existing', u # v
      PROVE  window'[u].members \cap window'[v].members = {}
  <2>1. CASE u = w
    BY <1>2, <1>3, <2>1
  <2>2. CASE v = w
    BY <1>2, <1>3, <2>2
  <2>3. CASE u # w /\ v # w
    <3>1. u \in Existing /\ v \in Existing /\ window'[u] = window[u]
          /\ window'[v] = window[v]
      BY <1>1, <2>3
    <3> QED
      BY <1>3, <3>1 DEF Lineage
  <2> QED
    BY <2>1, <2>2, <2>3
<1>4. ASSUME NEW k \in Messages, k \in handled'
      PROVE  \/ \E v \in Existing' : k \in window'[v].members
             \/ Preempted(k)'
  <2>1. CASE k = m
    BY <2>1
  <2>2. CASE k \in handled /\ Preempted(k)
    BY <2>2, PreemptionPersists
  <2>3. CASE \E v \in Existing : k \in window[v].members
    <3>1. PICK v \in Existing : k \in window[v].members
      BY <2>3
    <3>2. k \in window'[v].members
      BY <1>1, <3>1
    <3> QED
      BY <3>2
  <2> QED
    BY <1>4, <2>1, <2>2, <2>3 DEF Lineage
<1> QED
  BY <1>3, <1>4 DEF Lineage

LEMMA LineageStep ==
  ASSUME WindowInv, Lineage, [Next]_vars
  PROVE  Lineage'
<1> USE DEF WindowInv
<1>1. CASE \E m \in Messages : OpenWindow(m)
  <2> PICK m \in Messages : OpenWindow(m)
    BY <1>1
  <2>1. m \notin handled /\ handled' = handled \cup {m}
    BY DEF OpenWindow
  <2>2. m \notin Existing /\ Existing' = Existing \cup {m}
    BY OpenWindowRecord DEF Existing
  <2> QED
    BY <2>1, <2>2, OpenWindowRecord, LineageGains
<1>2. CASE \E w \in Messages, m \in Messages : ExtendWindow(w, m)
  <2> PICK w \in Messages, m \in Messages : ExtendWindow(w, m)
    BY <1>2
  <2>1. m \notin handled /\ handled' = handled \cup {m}
    BY DEF ExtendWindow
  <2>2. w \in Existing /\ Existing' = Existing \cup {w}
    BY ExtendWindowRecord DEF Existing
  <2> QED
    BY <2>1, <2>2, ExtendWindowRecord, LineageGains
<1>3. CASE \/ \E w \in Messages : ReleaseDue(w)
           \/ \E r \in Replies, w \in Messages : CancelByReply(r, w)
  <2>1. PICK w \in Messages, s \in {"RELEASED", "CANCELED"} :
          /\ window' = [window EXCEPT ![w].state = s]
          /\ w \in Existing
    BY <1>3 DEF ReleaseDue, CancelByReply, CanCancel, Existing
  <2>2. s \in WindowStates /\ s # "NONE"
    BY DEF WindowStates
  <2>3. /\ Existing' = Existing
        /\ \A v \in Messages : window'[v].members = window[v].members
    BY <2>1, <2>2, StateChange DEF Existing
  <2>4. \A m \in Messages : m \in handled' => m \in handled
    BY <1>3, EventsAssumption DEF ReleaseDue, CancelByReply
  <2> QED
    BY <2>3, <2>4, LineageKept
<1>4. CASE \E e \in BOOLEAN, s \in GraceSeconds : SetControl(e, s)
  <2> PICK e \in BOOLEAN, s \in GraceSeconds : SetControl(e, s)
    BY <1>4
  <2>1. handled' = handled
    BY DEF SetControl
  <2>2. /\ Existing' = Existing
        /\ \A v \in Messages : window'[v].members = window[v].members
    BY ControlChange DEF Existing
  <2> QED
    BY <2>1, <2>2, LineageKept
<1>5. CASE \E m \in Messages : PreemptInbound(m)
  <2> PICK m \in Messages : PreemptInbound(m)
    BY <1>5
  <2>1. handled' = handled \cup {m} /\ window' = window /\ Preempted(m)'
    BY DEF PreemptInbound, Preempted, AnsweredBy, CausallyUpTo, clocks
  <2>2. \A k \in Messages : k \in handled' => k \in handled \/ Preempted(k)'
    <3> TAKE k \in Messages
    <3>1. CASE k = m
      BY <2>1, <3>1
    <3>2. CASE k # m
      BY <2>1, <3>2
    <3> QED
      BY <3>1, <3>2
  <2>3. Existing' = Existing
    BY <2>1 DEF Existing
  <2> QED
    BY <2>1, <2>2, <2>3, LineageKept
<1>6. CASE \/ \E e \in Events, t \in 0..LastArrival : Arrive(e, t)
           \/ \E r \in Replies : RecordReply(r)
           \/ \E w \in Messages : BecomeIrreversible(w) \/ BecomeReversible(w)
           \/ UNCHANGED <<handled, interaction, window, irreversible, control,
                          arrived, occurred, received>>
  <2>1. window' = window
    BY <1>6 DEF Arrive, RecordReply, BecomeIrreversible, BecomeReversible
  <2>2. \A m \in Messages : m \in handled' => m \in handled
    BY <1>6, EventsAssumption
       DEF Arrive, RecordReply, BecomeIrreversible, BecomeReversible
  <2>3. Existing' = Existing
    BY <2>1 DEF Existing
  <2> QED
    BY <2>1, <2>2, <2>3, LineageKept
<1> QED
  BY <1>1, <1>2, <1>3, <1>4, <1>5, <1>6, WindowSteps

\* One window of the conversation is open at a time, and every message handled
\* is in exactly one window or was answered when it came: handling never loses
\* a message and never puts it in two replies (defer_decision_for_grace).
THEOREM LineageIsSingle == Spec => []OneLineage
<1>1. Init => Lineage
  BY DEF Init, Lineage, Existing, NoWindow
<1>2. Spec => []Lineage
  BY <1>1, LineageStep, WindowInvAlways, PTL DEF Spec
<1>3. WindowInv /\ Lineage => OneLineage
  BY DEF WindowInv, OneOpen, OpenWindows, Existing, Lineage, OneLineage
<1> QED
  BY <1>2, <1>3, WindowInvAlways, PTL

-----------------------------------------------------------------------------
(* The windows lead the life their other half relies on.                   *)

LEMMA LifecycleInit == Init => Lifecycle!Init
  BY DEF Init, Lifecycle!Init, PhaseOf, NoWindow

LEMMA PhaseMoves ==
  ASSUME WindowInv, WindowInv', [Next]_vars, NEW v \in Messages
  PROVE  \/ PhaseOf(v)' = PhaseOf(v)
         \/ <<PhaseOf(v), PhaseOf(v)'>> \in Lifecycle!Moves
<1>0. /\ v \notin irreversible => PhaseOf(v) = window[v].state
      /\ v \notin irreversible' => PhaseOf(v)' = window'[v].state
      /\ v \in irreversible => PhaseOf(v) = "LATE" /\ window[v].state = "RELEASED"
      /\ v \in irreversible' => PhaseOf(v)' = "LATE"
  BY DEF PhaseOf, WindowInv, OneOpen
<1> USE DEF Lifecycle!Moves
<1>1. CASE \E m \in Messages : OpenWindow(m)
  <2> PICK m \in Messages : OpenWindow(m)
    BY <1>1
  <2>1. irreversible' = irreversible
    BY DEF OpenWindow
  <2> QED
    BY <1>0, <2>1, OpenWindowRecord
<1>2. CASE \E w \in Messages, m \in Messages : ExtendWindow(w, m)
  <2> PICK w \in Messages, m \in Messages : ExtendWindow(w, m)
    BY <1>2
  <2>1. irreversible' = irreversible
    BY DEF ExtendWindow
  <2> QED
    BY <1>0, <2>1, ExtendWindowRecord
<1>3. CASE \E w \in Messages : ReleaseDue(w)
  <2>1. PICK w \in Messages, s \in {"RELEASED", "CANCELED"} :
          /\ window' = [window EXCEPT ![w].state = s]
          /\ window[w].state = "OPEN" /\ irreversible' = irreversible
    BY <1>3 DEF ReleaseDue
  <2>2. s \in WindowStates
    BY DEF WindowStates
  <2> QED
    BY <1>0, <2>1, <2>2, StateChange
<1>4. CASE \E r \in Replies, w \in Messages : CancelByReply(r, w)
  <2> PICK r \in Replies, w \in Messages : CancelByReply(r, w)
    BY <1>4
  <2>1. /\ window' = [window EXCEPT ![w].state = "CANCELED"]
        /\ window[w].state \in {"OPEN", "RELEASED"}
        /\ w \notin irreversible /\ irreversible' = irreversible
    BY DEF CancelByReply, CanCancel
  <2>2. /\ window'[w].state = "CANCELED"
        /\ \A u \in Messages \ {w} : window'[u] = window[u]
    BY <2>1, StateChange DEF WindowStates
  <2> QED
    BY <1>0, <2>1, <2>2
<1>5. CASE \E e \in BOOLEAN, s \in GraceSeconds : SetControl(e, s)
  <2> PICK e \in BOOLEAN, s \in GraceSeconds : SetControl(e, s)
    BY <1>5
  <2>1. irreversible' = irreversible
    BY DEF SetControl
  <2> QED
    BY <1>0, <2>1, ControlChange
<1>6. CASE \E w \in Messages : BecomeIrreversible(w) \/ BecomeReversible(w)
  <2> PICK w \in Messages : BecomeIrreversible(w) \/ BecomeReversible(w)
    BY <1>6
  <2>1. /\ window' = window
        /\ v # w => (v \in irreversible' <=> v \in irreversible)
        /\ window[w].state = "RELEASED"
    BY DEF BecomeIrreversible, BecomeReversible, WindowInv, OneOpen
  <2> QED
    BY <1>0, <2>1
<1>7. CASE UNCHANGED <<window, irreversible>>
  BY <1>0, <1>7
<1>8. CASE \/ \E e \in Events, t \in 0..LastArrival : Arrive(e, t)
           \/ \E m \in Messages : PreemptInbound(m)
           \/ \E r \in Replies : RecordReply(r)
  BY <1>7, <1>8 DEF Arrive, PreemptInbound, RecordReply
<1> QED
  BY <1>1, <1>2, <1>3, <1>4, <1>5, <1>6, <1>7, <1>8, WindowSteps

\* Whatever order messages, replies, deadlines and control changes come in, each
\* window is released or canceled at most once, and an owner's reply never
\* cancels one whose reply is on the way (release_grace_window, _cancel_window).
THEOREM GraceImplementsLifecycle == Spec => ImplementsLifecycle
<1>1. ASSUME WindowInv, WindowInv', [Next]_vars
      PROVE  [Lifecycle!Next]_([w \in Messages |-> PhaseOf(w)])
  <2>1. [w \in Messages |-> PhaseOf(w)]' \in [Messages -> Lifecycle!Phases]
    <3>1. \A w \in Messages : window'[w].state \in WindowStates
      BY <1>1 DEF WindowInv, TypeOK, Window
    <3>2. \A w \in Messages : PhaseOf(w)' \in Lifecycle!Phases
      BY <3>1 DEF PhaseOf, WindowStates, Lifecycle!Phases
    <3> QED
      BY <3>2
  <2> QED
    BY <1>1, <2>1, PhaseMoves DEF Lifecycle!Next
<1> QED
  BY <1>1, LifecycleInit, WindowInvAlways, PTL
     DEF Spec, ImplementsLifecycle, Lifecycle!Spec
=============================================================================
