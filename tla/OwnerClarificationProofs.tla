---- MODULE OwnerClarificationProofs ----
(* What OwnerClarification keeps for every set of messages, lifetime and     *)
(* bound: types, the single open question, what the record of an answered    *)
(* question says, and that its handlers do not wait in a circle.             *)
EXTENDS OwnerClarification, TLAPS

\* Where a handler stands and what it may have read.  A question is written
\* only by its asker until it is committed.
Placed ==
    /\ \A m, q \in Messages : pc[m] \notin Open => draft[m][q] = "NONE"
    /\ \A m \in Messages : pc[m] \in {"select", "cancel", "supersede"} => seen[m] # NoMessage
    /\ \A m \in Messages : pc[m] = "new" => seen[m] = NoMessage
    /\ \A m \in Messages : pc[m] # "done" => state[m] = "NONE" /\ acted[m] = NoMessage
    /\ \A m \in Messages : draft[m][m] # "NONE" => pc[m] = "commit"
    /\ \A m \in Messages : seen[m] # NoMessage => state[seen[m]] # "NONE"
    /\ \A m \in Messages : \A q \in due[m] : state[q] # "NONE"

\* A row has one writer at a time, and a RESOLVED row none that would undo it.
Locks ==
    /\ \A m, n, q \in Messages : draft[m][q] # "NONE" /\ draft[n][q] # "NONE" => m = n
    /\ \A m, q \in Messages :
          draft[m][q] # "NONE" /\ state[q] = "RESOLVED" => draft[m][q] = "RESOLVED"
    /\ \A m, q \in Messages : draft[m][q] = "PENDING" => q = m
    /\ \A m, q \in Messages : draft[m][q] # "NONE" /\ q # m => state[q] # "NONE"

\* A dispatched option belongs to a question that is, or is about to be,
\* recorded as RESOLVED.
Acting ==
    /\ ActedIsResolved
    /\ \A m \in Messages : chosen[m] # NoMessage => pc[m] \in {"commit", "done"}
    /\ \A m \in Messages :
          pc[m] = "commit" /\ chosen[m] # NoMessage => draft[m][chosen[m]] = "RESOLVED"
    /\ \A m \in Messages : chosen[m] \in {seen[m], NoMessage}
    /\ \A m \in Messages : acted[m] \in {chosen[m], NoMessage}

\* A handler found none of the questions that were acted on before it began.
Late ==
    /\ \A m, n \in Messages : m \in before[n] => pc[m] = "done"
    /\ \A m, n \in Messages :
          m \in before[n] /\ acted[m] # NoMessage => seen[n] # acted[m]

\* The question being inserted replaces every one that is still open.
Single ==
    /\ OneOpenQuestion
    /\ \A m \in Messages : draft[m][m] = "PENDING" =>
          \A q \in Messages : state[q] = "PENDING" => draft[m][q] # "NONE"
    /\ \A m, n \in Messages :
          draft[m][m] = "PENDING" /\ draft[n][n] = "PENDING" => m = n

RowInv == TypeOK /\ Placed /\ Locks
ClarificationInv == RowInv /\ Acting /\ Late /\ Single

LEMMA InitInv == Init => ClarificationInv
  BY NoMessageIsNone, BoundsAreNatural DEF Init, ClarificationInv, RowInv, TypeOK,
     Placed, Locks, Acting, Late, Single, ActedIsResolved, OneOpenQuestion,
     Untouched, States, Open, Phases

\* A write of one row leaves the drafts typed.
LEMMA WriteTyped ==
  ASSUME draft \in [Messages -> [Messages -> States]],
         NEW m \in Messages, NEW q, NEW s \in States, Write(m, q, s)
  PROVE  draft' \in [Messages -> [Messages -> States]]
<1>1. [draft[m] EXCEPT ![q] = s] \in [Messages -> States]
  OBVIOUS
<1> QED
  BY <1>1 DEF Write

LEMMA TypeStep == TypeOK /\ [Next]_vars => TypeOK'
<1> SUFFICES ASSUME TypeOK, [Next]_vars PROVE TypeOK'
  OBVIOUS
<1> USE NoMessageIsNone, LifetimeIsPositive, BoundsAreNatural
       DEF TypeOK
<1>0. {"new", "done", "select", "cancel", "supersede", "ask", "create", "commit"}
         \subseteq Phases
  BY DEF Phases, Open
<1>1. CASE UNCHANGED vars
  BY <1>1 DEF vars
<1>2. CASE Tick
  BY <1>2 DEF Tick
<1>3. ASSUME NEW m \in Messages, Begin(m) PROVE TypeOK'
  <2>1. draft' \in [Messages -> [Messages -> States]]
    BY <1>3 DEF Begin, States
  <2>2. /\ pc' \in [Messages -> Phases]
        /\ seen' \in [Messages -> Messages \cup {NoMessage}]
    <3>1. CASE UNCHANGED seen /\ \E p \in {"ask", "commit"} : Goto(m, p)
      BY <1>0, <3>1 DEF Goto
    <3>2. ASSUME NEW q \in Messages, seen' = [seen EXCEPT ![m] = q],
                 NEW p \in {"select", "cancel", "supersede", "commit"}, Goto(m, p)
          PROVE  /\ pc' \in [Messages -> Phases]
                 /\ seen' \in [Messages -> Messages \cup {NoMessage}]
      <4>1. pc' \in [Messages -> Phases]
        BY <1>0, <3>2 DEF Goto
      <4>2. seen' \in [Messages -> Messages \cup {NoMessage}]
        BY <3>2
      <4> QED
        BY <4>1, <4>2
    <3> QED
      BY <1>3, <3>1, <3>2 DEF Begin
  <2>3. start' \in [Messages -> 0..Horizon] /\ before' \in [Messages -> SUBSET Messages]
    BY <1>3 DEF Begin
  <2> QED
    BY <1>3, <2>1, <2>2, <2>3 DEF Begin
<1>4. ASSUME NEW m \in Messages, Select(m) \/ Cancel(m) \/ Supersede(m) PROVE TypeOK'
  <2>1. CASE Select(m)
    <3>1. draft' \in [Messages -> [Messages -> States]]
      BY <2>1, WriteTyped DEF Select, States
    <3>2. pc' \in [Messages -> Phases]
      BY <2>1 DEF Select, Goto, Phases, Open
    <3>3. chosen' \in [Messages -> Messages \cup {NoMessage}]
      BY <2>1 DEF Select
    <3> QED
      BY <2>1, <3>1, <3>2, <3>3 DEF Select
  <2>2. CASE Cancel(m) \/ Supersede(m)
    <3>1. draft' \in [Messages -> [Messages -> States]]
      BY <2>2, WriteTyped DEF Cancel, Supersede, States
    <3>2. pc' \in [Messages -> Phases]
      BY <2>2 DEF Cancel, Supersede, Goto, Phases, Open
    <3> QED
      BY <2>2, <3>1, <3>2 DEF Cancel, Supersede
  <2> QED
    BY <1>4, <2>1, <2>2
<1>5. ASSUME NEW m \in Messages, CreateRead(m) PROVE TypeOK'
  <2>1. PICK s \in Stamps(m) :
           \/ Goto(m, "commit") /\ UNCHANGED <<due, expires>>
           \/ /\ due' = [due EXCEPT ![m] = {q \in Messages : Visible(m, q) = "PENDING"}]
              /\ expires' = [expires EXCEPT ![m] = s + Lifetime]
              /\ Goto(m, "create")
    BY <1>5 DEF CreateRead
  <2>2. s \in Nat
    BY <2>1 DEF Stamps
  <2>3. pc' \in [Messages -> Phases]
    BY <2>1 DEF Goto, Phases, Open
  <2>4. due' \in [Messages -> SUBSET Messages] /\ expires' \in [Messages -> Nat]
    <3>1. {q \in Messages : Visible(m, q) = "PENDING"} \in SUBSET Messages /\ s + Lifetime \in Nat
      BY <2>2
    <3> QED
      BY <2>1, <3>1
  <2> QED
    BY <1>5, <2>3, <2>4 DEF CreateRead
<1>6. ASSUME NEW m \in Messages, CreateWrite(m) PROVE TypeOK'
  <2>1. [q \in Messages |-> IF q \in due[m] THEN "EXPIRED" ELSE draft[m][q]]
          \in [Messages -> States]
    BY DEF States
  <2> DEFINE closed == [q \in Messages |-> IF q \in due[m] THEN "EXPIRED" ELSE draft[m][q]]
  <2>4. [closed EXCEPT ![m] = "PENDING"] \in [Messages -> States]
    BY <2>1 DEF States
  <2>5. \/ draft' = [draft EXCEPT ![m] = [closed EXCEPT ![m] = "PENDING"]]
        \/ draft' = [draft EXCEPT ![m] = closed]
        \/ UNCHANGED draft
    BY <1>6 DEF CreateWrite
  <2>2. draft' \in [Messages -> [Messages -> States]]
    <3> HIDE DEF closed
    <3> QED
      BY <2>1, <2>4, <2>5 DEF closed
  <2>3. pc' \in [Messages -> Phases]
    BY <1>6 DEF CreateWrite, Goto, Phases, Open
  <2> QED
    BY <1>6, <2>2, <2>3 DEF CreateWrite
<1>7. ASSUME NEW m \in Messages, Rejected(m) \/ Crash(m) PROVE TypeOK'
  <2>1. draft' \in [Messages -> [Messages -> States]]
    BY <1>7 DEF Rejected, Crash, Rollback, Untouched, States
  <2>0. Rollback(m)
    BY <1>7 DEF Rejected, Crash
  <2>2. /\ pc' \in [Messages -> Phases]
        /\ seen' \in [Messages -> Messages \cup {NoMessage}]
        /\ due' \in [Messages -> SUBSET Messages]
        /\ chosen' \in [Messages -> Messages \cup {NoMessage}]
    BY <1>0, <2>0 DEF Rollback, Goto
  <2>3. crashes' \in 0..MaxCrashes
    BY <1>7 DEF Rejected, Crash
  <2> QED
    BY <1>7, <2>1, <2>2, <2>3 DEF Rejected, Crash, Rollback
<1>8. ASSUME NEW m \in Messages, Commit(m) PROVE TypeOK'
  <2>1. draft' \in [Messages -> [Messages -> States]]
    BY <1>8 DEF Commit, Untouched, States
  <2>2. state' \in [Messages -> States]
    BY <1>8 DEF Commit, Visible
  <2>3. pc' \in [Messages -> Phases] /\ acted' \in [Messages -> Messages \cup {NoMessage}]
    BY <1>8 DEF Commit, Goto, Phases
  <2> QED
    BY <1>8, <2>1, <2>2, <2>3 DEF Commit
<1> QED
  BY <1>1, <1>2, <1>3, <1>4, <1>5, <1>6, <1>7, <1>8 DEF Next, Step

----------------------------------------------------------------------------
(* One lemma for each kind of step: what it does to the drafts, row by row,   *)
(* and then each part of the invariant.                                       *)

\* Begin: locks expired rows nobody holds, finds at most an open question.
LEMMA BeginStep ==
  ASSUME ClarificationInv, TypeOK', NEW m \in Messages, Begin(m)
  PROVE  ClarificationInv'
<1> USE NoMessageIsNone DEF ClarificationInv, RowInv
<1>1. /\ pc[m] = "new" /\ seen[m] = NoMessage
      /\ UNCHANGED <<state, due, chosen, acted>>
      /\ \A q \in Messages : draft[m][q] = "NONE"
  BY DEF Begin, Placed, Open
<1>2. \A n, q \in Messages :
        draft'[n][q] = IF n = m THEN IF Lapsed(m, q) THEN "EXPIRED" ELSE "NONE"
                       ELSE draft[n][q]
  BY DEF Begin, TypeOK
<1>3. \A n \in Messages : n # m => pc'[n] = pc[n] /\ seen'[n] = seen[n] /\ before'[n] = before[n]
  BY DEF Begin, Goto, TypeOK
<1>4. pc'[m] \in {"select", "cancel", "supersede", "ask", "commit"}
  BY DEF Begin, Goto, TypeOK
<1>5. \/ seen'[m] = NoMessage /\ pc'[m] \in {"ask", "commit"}
      \/ seen'[m] \in Messages /\ state[seen'[m]] = "PENDING"
  BY <1>1 DEF Begin, Goto, TypeOK, Answerable
<1>6. \A n \in Messages : n \in before'[m] <=> pc[n] = "done"
  BY DEF Begin, TypeOK
<1>7. \A n, q \in Messages : Lapsed(m, q) => state[q] = "PENDING" /\ (n # m => draft[n][q] = "NONE")
  BY DEF Lapsed, Free
<1>8. state[m] = "NONE" /\ chosen[m] = NoMessage
  BY <1>1 DEF Placed, Acting
<1>9. pc'[m] \in Open /\ pc'[m] \notin {"new", "done"}
  BY <1>4 DEF Open
<1>p. Placed'
  <2>1. \A n, q \in Messages : pc'[n] \notin Open => draft'[n][q] = "NONE"
    BY <1>2, <1>3, <1>9 DEF Placed
  <2>2. \A n \in Messages : pc'[n] \in {"select", "cancel", "supersede"} => seen'[n] # NoMessage
    BY <1>3, <1>5 DEF Placed
  <2>3. \A n \in Messages : pc'[n] = "new" => seen'[n] = NoMessage
    BY <1>3, <1>9 DEF Placed
  <2>4. \A n \in Messages : pc'[n] # "done" => state'[n] = "NONE" /\ acted'[n] = NoMessage
    BY <1>1, <1>3 DEF Placed
  <2>5. \A n \in Messages : draft'[n][n] # "NONE" => pc'[n] = "commit"
    BY <1>2, <1>3, <1>7, <1>8 DEF Placed
  <2>6. \A n \in Messages : seen'[n] # NoMessage => state'[seen'[n]] # "NONE"
    BY <1>1, <1>3, <1>5 DEF Placed
  <2>7. \A n \in Messages : \A q \in due'[n] : state'[q] # "NONE"
    BY <1>1 DEF Placed
  <2> QED
    BY <2>1, <2>2, <2>3, <2>4, <2>5, <2>6, <2>7 DEF Placed
<1>l. Locks'
  BY <1>1, <1>2, <1>7, <1>8 DEF Locks
<1>a. Acting'
  <2>1. \A n \in Messages : n # m /\ chosen[n] # NoMessage => chosen[n] \in Messages
    BY DEF TypeOK
  <2>2. acted[m] = NoMessage
    BY <1>1 DEF Placed
  <2>3. ActedIsResolved'
    BY <1>1 DEF Acting, ActedIsResolved
  <2>4. \A n \in Messages : chosen'[n] # NoMessage => n # m /\ pc'[n] \in {"commit", "done"}
    BY <1>1, <1>3, <1>8 DEF Acting
  <2>5. \A n \in Messages :
           pc'[n] = "commit" /\ chosen'[n] # NoMessage => draft'[n][chosen'[n]] = "RESOLVED"
    BY <1>1, <1>2, <1>3, <2>1, <2>4 DEF Acting
  <2>6. \A n \in Messages : chosen'[n] \in {seen'[n], NoMessage}
    BY <1>1, <1>3, <1>8 DEF Acting
  <2> QED
    BY <1>1, <2>3, <2>4, <2>5, <2>6 DEF Acting
<1>t. Late'
  <2>1. \A k, n \in Messages : k \in before'[n] => pc[k] = "done"
    BY <1>3, <1>6 DEF Late
  <2>2. \A k, n \in Messages : k \in before'[n] => pc'[k] = "done"
    BY <2>1, <1>1, <1>3
  <2>3. \A k \in Messages : acted[k] # NoMessage => seen'[m] # acted[k]
    BY <1>5 DEF Acting, ActedIsResolved
  <2> QED
    BY <1>1, <1>3, <2>2, <2>3 DEF Late
<1>s. Single'
  BY <1>1, <1>2, <1>7, <1>8 DEF Single, OneOpenQuestion
<1> QED
  BY <1>p, <1>l, <1>a, <1>t, <1>s

\* Select, Cancel, Supersede: one UPDATE of the row the handler keeps a copy of.
LEMMA ReplyStep ==
  ASSUME ClarificationInv, TypeOK', NEW m \in Messages,
         Select(m) \/ Cancel(m) \/ Supersede(m)
  PROVE  ClarificationInv'
<1> USE NoMessageIsNone DEF ClarificationInv, RowInv
<1>1. /\ pc[m] \in {"select", "cancel", "supersede"}
      /\ UNCHANGED <<state, seen, due, acted, before>>
  BY DEF Select, Cancel, Supersede
<1>2. PICK q \in Messages, s \in {"RESOLVED", "CANCELED", "SUPERSEDED", "EXPIRED"} :
        /\ q = seen[m] /\ Write(m, q, s)
        /\ \/ UNCHANGED chosen
           \/ s = "RESOLVED" /\ chosen' = [chosen EXCEPT ![m] = q] /\ pc'[m] = "commit"
  <2>1. seen[m] \in Messages
    BY <1>1 DEF Placed, TypeOK
  <2>2. CASE Select(m)
    <3>1. pc'[m] = "commit"
      BY <2>2 DEF Select, Goto, TypeOK
    <3>2. \/ Write(m, seen[m], "RESOLVED") /\ UNCHANGED chosen
          \/ Write(m, seen[m], "RESOLVED") /\ chosen' = [chosen EXCEPT ![m] = seen[m]]
          \/ Write(m, seen[m], "EXPIRED") /\ UNCHANGED chosen
      <4>1. chosen[m] = NoMessage
        BY <1>1 DEF Acting
      <4>2. [chosen EXCEPT ![m] = NoMessage] = chosen
        BY <4>1 DEF TypeOK
      <4> QED
        BY <2>2, <4>2 DEF Select
    <3> QED
      BY <2>1, <3>1, <3>2
  <2>3. CASE Cancel(m)
    BY <2>1, <2>3 DEF Cancel
  <2>4. CASE Supersede(m)
    BY <2>1, <2>4 DEF Supersede
  <2> QED
    BY <2>2, <2>3, <2>4
<1>3. \A n, r \in Messages : draft'[n][r] = IF n = m /\ r = q THEN s ELSE draft[n][r]
  BY <1>2 DEF Write, TypeOK
<1>4. /\ \A n \in Messages : n # m => pc'[n] = pc[n]
      /\ pc'[m] \in {"commit", "ask"}
  BY DEF Select, Cancel, Supersede, Goto, TypeOK
<1>5. /\ \A n \in Messages : n # m => draft[n][q] = "NONE"
      /\ state[q] = "RESOLVED" => s = "RESOLVED"
  BY <1>2 DEF Write, Free, Admitted
<1>6. /\ state[q] # "NONE" /\ state[m] = "NONE" /\ q # m
      /\ acted[m] = NoMessage /\ chosen[m] = NoMessage
      /\ draft[m][m] = "NONE"
  BY <1>1, <1>2 DEF Placed, Acting
<1>p. Placed'
  <2>1. pc'[m] \in Open /\ pc'[m] \notin {"new", "done", "select", "cancel", "supersede"}
    BY <1>4 DEF Open
  <2> QED
    BY <1>1, <1>3, <1>4, <1>6, <2>1 DEF Placed
<1>l. Locks'
  BY <1>1, <1>3, <1>5, <1>6 DEF Locks
<1>a. Acting'
  <2>1. \A n \in Messages : n # m => chosen'[n] = chosen[n]
    BY <1>2 DEF TypeOK
  <2>2. \/ chosen'[m] = NoMessage
        \/ chosen'[m] = q /\ s = "RESOLVED" /\ pc'[m] = "commit"
    BY <1>2, <1>6 DEF TypeOK
  <2>3. ActedIsResolved'
    BY <1>1 DEF Acting, ActedIsResolved
  <2>4. \A n \in Messages : chosen'[n] # NoMessage => pc'[n] \in {"commit", "done"}
    BY <1>4, <2>1, <2>2 DEF Acting
  <2>5. \A n \in Messages :
           pc'[n] = "commit" /\ chosen'[n] # NoMessage => draft'[n][chosen'[n]] = "RESOLVED"
    <3>1. \A n \in Messages : n # m /\ chosen[n] # NoMessage => chosen[n] \in Messages
      BY DEF TypeOK
    <3> QED
      BY <1>3, <1>4, <2>1, <2>2, <3>1 DEF Acting
  <2>6. \A n \in Messages : chosen'[n] \in {seen'[n], NoMessage}
    BY <1>1, <1>2, <2>1, <2>2 DEF Acting
  <2>7. \A n \in Messages : acted'[n] \in {chosen'[n], NoMessage}
    BY <1>1, <1>6, <2>1 DEF Acting
  <2> QED
    BY <2>3, <2>4, <2>5, <2>6, <2>7 DEF Acting
<1>t. Late'
  BY <1>1, <1>4 DEF Late
<1>s. Single'
  BY <1>1, <1>3, <1>6 DEF Single, OneOpenQuestion
<1> QED
  BY <1>p, <1>l, <1>a, <1>t, <1>s

\* CreateRead: what it reads was committed PENDING.
LEMMA CreateReadStep ==
  ASSUME ClarificationInv, TypeOK', NEW m \in Messages, CreateRead(m)
  PROVE  ClarificationInv'
<1> USE NoMessageIsNone DEF ClarificationInv, RowInv
<1>1. /\ pc[m] = "ask"
      /\ UNCHANGED <<state, draft, seen, chosen, acted, before>>
  BY DEF CreateRead
<1>2. /\ \A n \in Messages : n # m => pc'[n] = pc[n] /\ due'[n] = due[n]
      /\ pc'[m] \in {"commit", "create"}
      /\ due'[m] = due[m] \/ due'[m] = {q \in Messages : Visible(m, q) = "PENDING"}
  BY DEF CreateRead, Goto, TypeOK
<1>3. \A q \in Messages : Visible(m, q) = "PENDING" => state[q] = "PENDING"
  BY <1>1 DEF Visible, Locks, Placed
<1>4. chosen[m] = NoMessage
  BY <1>1 DEF Acting
<1>p. Placed'
  <2>1. pc'[m] \in Open /\ pc'[m] \notin {"new", "done", "select", "cancel", "supersede"}
    BY <1>2 DEF Open
  <2>2. \A n \in Messages : \A q \in due'[n] : state'[q] # "NONE"
    BY <1>1, <1>2, <1>3 DEF Placed
  <2> QED
    BY <1>1, <1>2, <2>1, <2>2 DEF Placed
<1>l. Locks'
  BY <1>1 DEF Locks
<1>a. Acting'
  BY <1>1, <1>2, <1>4 DEF Acting, ActedIsResolved
<1>t. Late'
  BY <1>1, <1>2 DEF Late
<1>s. Single'
  BY <1>1 DEF Single, OneOpenQuestion
<1> QED
  BY <1>p, <1>l, <1>a, <1>t, <1>s

\* CreateWrite: locks the rows it closes, and the index admits the question
\* only if it closes every other that is open.
LEMMA CreateWriteStep ==
  ASSUME ClarificationInv, TypeOK', NEW m \in Messages, CreateWrite(m)
  PROVE  ClarificationInv'
<1> USE NoMessageIsNone DEF ClarificationInv, RowInv
<1>1. /\ pc[m] = "create"
      /\ UNCHANGED <<state, seen, due, chosen, acted, before>>
  BY DEF CreateWrite
<1>2. /\ \A n \in Messages : n # m => pc'[n] = pc[n]
      /\ pc'[m] = "commit"
  BY DEF CreateWrite, Goto, TypeOK
<1>3. /\ state[m] = "NONE" /\ chosen[m] = NoMessage /\ draft[m][m] = "NONE"
      /\ due[m] \subseteq Messages
      /\ \A q \in due[m] : state[q] # "NONE"
      /\ m \notin due[m]
  BY <1>1 DEF Placed, Acting, TypeOK
<1>4. \A q \in due[m] : /\ state[q] # "RESOLVED"
                        /\ \A n \in Messages : n # m => draft[n][q] = "NONE"
  BY DEF CreateWrite, Free, Admitted
<1>5. \A n \in Messages : n # m =>
        /\ draft[n][n] # "PENDING"
        /\ \A q \in Messages : state[q] = "PENDING" => draft[n][q] = "NONE"
  BY DEF CreateWrite, IndexSettled
<1>6. \A n, q \in Messages : n # m => draft'[n][q] = draft[n][q]
  BY DEF CreateWrite, TypeOK
<1>7. PICK inserted \in BOOLEAN, closing \in BOOLEAN :
        /\ \A q \in Messages :
              draft'[m][q] = IF q = m THEN IF inserted THEN "PENDING" ELSE "NONE"
                             ELSE IF closing /\ q \in due[m] THEN "EXPIRED"
                             ELSE draft[m][q]
        /\ inserted => /\ closing
                       /\ \A q \in Messages \ due[m] : Visible(m, q) # "PENDING"
  <2> DEFINE closed == [q \in Messages |-> IF q \in due[m] THEN "EXPIRED" ELSE draft[m][q]]
  <2>1. CASE /\ draft' = [draft EXCEPT ![m] = [closed EXCEPT ![m] = "PENDING"]]
             /\ ~\E q \in Messages \ due[m] : Visible(m, q) = "PENDING"
    <3>1. \A q \in Messages :
            draft'[m][q] = IF q = m THEN "PENDING"
                           ELSE IF q \in due[m] THEN "EXPIRED" ELSE draft[m][q]
      BY <2>1 DEF TypeOK
    <3> WITNESS TRUE \in BOOLEAN, TRUE \in BOOLEAN
    <3> QED
      BY <2>1, <3>1
  <2>2. CASE draft' = [draft EXCEPT ![m] = closed]
    <3>1. \A q \in Messages :
            draft'[m][q] = IF q \in due[m] THEN "EXPIRED" ELSE draft[m][q]
      BY <2>2 DEF TypeOK
    <3> WITNESS FALSE \in BOOLEAN, TRUE \in BOOLEAN
    <3> QED
      BY <1>3, <3>1
  <2>3. CASE UNCHANGED draft
    <3> WITNESS FALSE \in BOOLEAN, FALSE \in BOOLEAN
    <3> QED
      BY <1>3, <2>3
  <2> QED
    BY <2>1, <2>2, <2>3 DEF CreateWrite
<1>p. Placed'
  <2>1. pc'[m] \in Open /\ pc'[m] \notin {"new", "done", "select", "cancel", "supersede"}
    BY <1>2 DEF Open
  <2> QED
    BY <1>1, <1>2, <1>3, <1>6, <2>1 DEF Placed
<1>l. Locks'
  <2>1. \A k, n, q \in Messages : draft'[k][q] # "NONE" /\ draft'[n][q] # "NONE" => k = n
    <3>1. \A n \in Messages : n # m => draft[n][m] = "NONE"
      BY <1>3 DEF Locks
    <3> QED
      BY <1>4, <1>6, <1>7, <3>1 DEF Locks
  <2>2. \A n, q \in Messages :
           draft'[n][q] # "NONE" /\ state'[q] = "RESOLVED" => draft'[n][q] = "RESOLVED"
    BY <1>1, <1>3, <1>4, <1>6, <1>7 DEF Locks
  <2>3. \A n, q \in Messages : draft'[n][q] = "PENDING" => q = n
    BY <1>6, <1>7 DEF Locks
  <2>4. \A n, q \in Messages : draft'[n][q] # "NONE" /\ q # n => state'[q] # "NONE"
    BY <1>1, <1>3, <1>6, <1>7 DEF Locks
  <2> QED
    BY <2>1, <2>2, <2>3, <2>4 DEF Locks
<1>a. Acting'
  <2>1. \A n \in Messages : n # m /\ chosen[n] # NoMessage => chosen[n] \in Messages
    BY DEF TypeOK
  <2> QED
    BY <1>1, <1>2, <1>3, <1>6, <2>1 DEF Acting, ActedIsResolved
<1>t. Late'
  BY <1>1, <1>2 DEF Late
<1>s. Single'
  <2>1. draft'[m][m] = "PENDING" =>
           \A q \in Messages : state[q] = "PENDING" => draft'[m][q] # "NONE"
    BY <1>3, <1>7 DEF Visible
  <2> QED
    BY <1>1, <1>5, <1>6, <2>1 DEF Single, OneOpenQuestion
<1> QED
  BY <1>p, <1>l, <1>a, <1>t, <1>s

\* Rejected, Crash: the drafts of a lost transaction are gone.
LEMMA RollbackStep ==
  ASSUME ClarificationInv, TypeOK', NEW m \in Messages, Rejected(m) \/ Crash(m)
  PROVE  ClarificationInv'
<1> USE NoMessageIsNone DEF ClarificationInv, RowInv
<1>1. /\ pc[m] \in Open /\ pc[m] # "done"
      /\ UNCHANGED <<state, acted, before>>
  BY DEF Rejected, Crash, Rollback, Open
<1>2. \A n, q \in Messages : draft'[n][q] = IF n = m THEN "NONE" ELSE draft[n][q]
  BY DEF Rejected, Crash, Rollback, Untouched, TypeOK
<1>3. \A n \in Messages : n # m => /\ pc'[n] = pc[n] /\ seen'[n] = seen[n]
                                  /\ due'[n] = due[n] /\ chosen'[n] = chosen[n]
  BY DEF Rejected, Crash, Rollback, Goto, TypeOK
<1>4. pc'[m] = "new" /\ seen'[m] = NoMessage /\ due'[m] = {} /\ chosen'[m] = NoMessage
  BY DEF Rejected, Crash, Rollback, Goto, TypeOK
<1>p. Placed'
  BY <1>1, <1>2, <1>3, <1>4 DEF Placed, Open
<1>l. Locks'
  BY <1>1, <1>2 DEF Locks
<1>a. Acting'
  <2>1. \A n \in Messages : n # m /\ chosen[n] # NoMessage => chosen[n] \in Messages
    BY DEF TypeOK
  <2>2. acted[m] = NoMessage
    BY <1>1 DEF Placed
  <2> QED
    BY <1>1, <1>2, <1>3, <1>4, <2>1, <2>2 DEF Acting, ActedIsResolved
<1>t. Late'
  BY <1>1, <1>3, <1>4 DEF Late
<1>s. Single'
  BY <1>1, <1>2 DEF Single, OneOpenQuestion
<1> QED
  BY <1>p, <1>l, <1>a, <1>t, <1>s

\* Commit: the drafts of the transaction become the rows.
LEMMA CommitStep ==
  ASSUME ClarificationInv, TypeOK', NEW m \in Messages, Commit(m)
  PROVE  ClarificationInv'
<1> USE NoMessageIsNone DEF ClarificationInv, RowInv
<1>1. pc[m] = "commit" /\ UNCHANGED <<seen, due, chosen, before>>
  BY DEF Commit
<1>2. \A n, q \in Messages : draft'[n][q] = IF n = m THEN "NONE" ELSE draft[n][q]
  BY DEF Commit, Untouched, TypeOK
<1>3. \A q \in Messages :
        state'[q] = IF draft[m][q] # "NONE" THEN draft[m][q] ELSE state[q]
  BY DEF Commit, Visible
<1>4. /\ \A n \in Messages : n # m => pc'[n] = pc[n] /\ acted'[n] = acted[n]
      /\ pc'[m] = "done" /\ acted'[m] = chosen[m]
  BY DEF Commit, Goto, TypeOK
<1>5. \A n \in Messages :
        /\ acted[n] # NoMessage => acted[n] \in Messages
        /\ chosen[n] # NoMessage => chosen[n] \in Messages
        /\ seen[n] # NoMessage => seen[n] \in Messages
        /\ due[n] \subseteq Messages
  BY DEF TypeOK
<1>6. \A q \in Messages : state[q] # "NONE" => state'[q] # "NONE"
  BY <1>3
<1>p. Placed'
  <2>1. \A n \in Messages : pc'[n] # "done" => state'[n] = "NONE" /\ acted'[n] = NoMessage
    BY <1>3, <1>4 DEF Placed, Locks
  <2>2. \A n \in Messages : seen'[n] # NoMessage => state'[seen'[n]] # "NONE"
    BY <1>1, <1>5, <1>6 DEF Placed
  <2>3. \A n \in Messages : \A q \in due'[n] : state'[q] # "NONE"
    BY <1>1, <1>5, <1>6 DEF Placed
  <2> QED
    BY <1>1, <1>2, <1>4, <2>1, <2>2, <2>3 DEF Placed
<1>l. Locks'
  <2>1. \A n, q \in Messages : n # m /\ draft[n][q] # "NONE" => state'[q] = state[q]
    BY <1>3 DEF Locks
  <2> QED
    BY <1>2, <2>1 DEF Locks
<1>a. Acting'
  <2>1. ActedIsResolved'
    <3>1. chosen[m] # NoMessage => state'[chosen[m]] = "RESOLVED"
      BY <1>1, <1>3, <1>5 DEF Acting
    <3>2. \A n \in Messages : acted[n] # NoMessage => state'[acted[n]] = "RESOLVED"
      BY <1>3, <1>5 DEF Acting, ActedIsResolved, Locks
    <3> QED
      BY <1>4, <3>1, <3>2 DEF ActedIsResolved
  <2>2. \A n \in Messages :
           pc'[n] = "commit" /\ chosen'[n] # NoMessage => draft'[n][chosen'[n]] = "RESOLVED"
    BY <1>1, <1>2, <1>4, <1>5 DEF Acting
  <2> QED
    BY <1>1, <1>4, <2>1, <2>2 DEF Acting
<1>t. Late'
  <2>1. \A k, n \in Messages : k \in before[n] => k # m /\ pc'[k] = "done"
    BY <1>1, <1>4 DEF Late
  <2> QED
    BY <1>1, <1>4, <2>1 DEF Late
<1>s. Single'
  <2>1. CASE draft[m][m] = "PENDING"
    <3>1. \A q \in Messages : state'[q] = "PENDING" => q = m
      BY <1>3, <2>1 DEF Single, Locks
    <3>2. \A n \in Messages : draft'[n][n] # "PENDING"
      BY <1>2, <2>1 DEF Single
    <3> QED
      BY <3>1, <3>2 DEF Single, OneOpenQuestion
  <2>2. CASE draft[m][m] # "PENDING"
    <3>1. \A q \in Messages : state'[q] = "PENDING" => state[q] = "PENDING"
      BY <1>3, <2>2 DEF Locks
    <3> QED
      BY <1>2, <3>1 DEF Single, OneOpenQuestion
  <2> QED
    BY <2>1, <2>2
<1> QED
  BY <1>p, <1>l, <1>a, <1>t, <1>s

LEMMA InvStep == ClarificationInv /\ [Next]_vars => ClarificationInv'
<1> SUFFICES ASSUME ClarificationInv, [Next]_vars PROVE ClarificationInv'
  OBVIOUS
<1>0. TypeOK'
  BY TypeStep DEF ClarificationInv, RowInv
<1>1. CASE UNCHANGED vars \/ Tick
  <2>1. UNCHANGED <<state, draft, pc, seen, due, chosen, acted, before>>
    BY <1>1 DEF vars, Tick
  <2> QED
    BY <1>0, <2>1 DEF ClarificationInv, RowInv, Placed, Locks, Acting, Late, Single,
       ActedIsResolved, OneOpenQuestion
<1>2. ASSUME NEW m \in Messages, Begin(m) \/ Step(m) \/ Crash(m)
      PROVE  ClarificationInv'
  BY <1>0, <1>2, BeginStep, ReplyStep, CreateReadStep, CreateWriteStep, RollbackStep,
     CommitStep DEF Step
<1> QED
  BY <1>1, <1>2 DEF Next

LEMMA Invariance == Spec => []ClarificationInv
  BY InitInv, InvStep, PTL DEF Spec

----------------------------------------------------------------------------
\* Every reachable state has its type, for any messages, lifetime and bounds.
THEOREM ClarificationTyped == Spec => []TypeOK
  BY Invariance, PTL DEF ClarificationInv, RowInv

\* What the router did on a reply stays recorded as RESOLVED: stale copies
\* overwrite every other end of a question, never that one (Admitted, Commit).
THEOREM ActedStaysResolved == Spec => []ActedIsResolved
  BY Invariance, PTL DEF ClarificationInv, Acting

\* Two questions are never open at once, whoever asks, expires and supersedes
\* concurrently (create_pending_intent and its unique index).
THEOREM QuestionsAreSingle == Spec => []OneOpenQuestion
  BY Invariance, PTL DEF ClarificationInv, Single

\* A reply whose handling begins after another was acted on finds nothing to
\* act on (find_active_pending_intent).
THEOREM LaterRepliesLose == Spec => []LaterReplyIsTooLate
<1>1. ClarificationInv => LaterReplyIsTooLate
  <2> SUFFICES ASSUME ClarificationInv, NEW m \in Messages, NEW n \in Messages,
                      m \in before[n], acted[m] # NoMessage
               PROVE  acted[n] # acted[m]
    BY DEF LaterReplyIsTooLate
  <2>1. seen[n] # acted[m]
    BY DEF ClarificationInv, Late
  <2>2. acted[n] \in {seen[n], NoMessage}
    BY DEF ClarificationInv, Acting
  <2> QED
    BY <2>1, <2>2
<1> QED
  BY <1>1, Invariance, PTL

----------------------------------------------------------------------------
(* Nobody waits in a circle.                                                  *)

Replying == {"select", "cancel", "supersede"}

\* Whose transaction must end before m's next write goes on: one that has
\* written the row m keeps a copy of, or a row m is to close, or that inserts
\* or changes a row of the index of open questions.
WaitsFor(m, n) ==
    \/ pc[m] \in Replying /\ draft[n][seen[m]] # "NONE"
    \/ /\ pc[m] = "create"
       /\ \/ \E q \in due[m] : draft[n][q] # "NONE"
          \/ draft[n][n] = "PENDING"
          \/ \E q \in Messages : state[q] = "PENDING" /\ draft[n][q] # "NONE"

\* In every group of handlers one waits for nobody of the group.
NoCircularWait ==
    \A S \in SUBSET Messages :
       S # {} => \E m \in S : \A n \in S \ {m} : ~WaitsFor(m, n)

\* A handler that has found a question has written nothing before its reply:
\* the question was the only open one, and it had not expired.
Unwritten ==
    \A m, q \in Messages : pc[m] \in Replying => draft[m][q] = "NONE"

\* A handler that asks and has closed the open question itself has no expired
\* row to close.
Sole ==
    \A m, q \in Messages :
       pc[m] = "create" /\ draft[m][q] # "NONE" /\ state[q] = "PENDING" => due[m] = {}

\* m is to close a row that was open when m read it and that has been closed
\* since; n has written it again from a copy.
WaitsForClosed(m, n) ==
    \E q \in due[m] : draft[n][q] # "NONE" /\ state[q] # "PENDING"

\* Such waits follow the order in which the handlers read: of any that are
\* about to insert, the last to have read waits so for none of them.
ReadInOrder ==
    \A S \in SUBSET {m \in Messages : pc[m] = "create"} :
       S # {} => \E m \in S : \A n \in S : ~WaitsForClosed(m, n)

WaitInv == ClarificationInv /\ Unwritten /\ Sole /\ ReadInOrder

\* A step after which no handler has come to read, and no row was closed under
\* one that is about to insert, leaves the order.
LEMMA OrderKept ==
  ASSUME ReadInOrder,
         \A m \in Messages : pc'[m] = "create" => pc[m] = "create" /\ due'[m] = due[m],
         \A m, n \in Messages :
            pc'[m] = "create" /\ pc'[n] = "create" =>
               \A q \in due[m] : draft'[n][q] # "NONE" /\ state'[q] # "PENDING"
                                    => draft[n][q] # "NONE" /\ state[q] # "PENDING"
  PROVE  ReadInOrder'
<1> SUFFICES ASSUME NEW S \in SUBSET {m \in Messages : pc'[m] = "create"}, S # {}
             PROVE  \E m \in S : \A n \in S : ~WaitsForClosed(m, n)'
  BY DEF ReadInOrder
<1>1. S \in SUBSET {m \in Messages : pc[m] = "create"}
  OBVIOUS
<1>2. PICK m \in S : \A n \in S : ~WaitsForClosed(m, n)
  BY <1>1 DEF ReadInOrder
<1>3. \A n \in S : ~WaitsForClosed(m, n)'
  BY <1>2 DEF WaitsForClosed
<1> QED
  BY <1>3

LEMMA WaitBegin ==
  ASSUME WaitInv, NEW m \in Messages, Begin(m)
  PROVE  Unwritten' /\ Sole' /\ ReadInOrder'
<1> USE DEF WaitInv, ClarificationInv, RowInv
<1>1. /\ pc[m] = "new" /\ UNCHANGED <<state, due>>
      /\ \A n \in Messages : n # m => pc'[n] = pc[n]
      /\ \A n, q \in Messages : n # m => draft'[n][q] = draft[n][q]
  BY DEF Begin, Goto, TypeOK
<1>2. pc'[m] \in {"select", "cancel", "supersede", "ask", "commit"}
  BY DEF Begin, Goto, TypeOK
<1>3. pc'[m] \in Replying => \A q \in Messages : draft'[m][q] = "NONE"
  <2> SUFFICES ASSUME pc'[m] \in Replying, NEW q \in Messages
               PROVE  draft'[m][q] = "NONE"
    OBVIOUS
  <2>1. PICK r \in Messages : Answerable(r)
    BY DEF Begin, Goto, TypeOK, Replying
  <2>2. ~Lapsed(m, q)
    <3> SUFFICES ASSUME Lapsed(m, q) PROVE FALSE
      OBVIOUS
    <3>1. q = r
      BY <2>1 DEF Lapsed, Answerable, Single, OneOpenQuestion
    <3>2. expires[q] \in Nat /\ now \in Int
      BY BoundsAreNatural DEF TypeOK
    <3> QED
      BY <2>1, <3>1, <3>2 DEF Lapsed, Answerable
  <2> QED
    BY <2>2 DEF Begin, TypeOK
<1>4. Unwritten' /\ Sole'
  BY <1>1, <1>2, <1>3 DEF Unwritten, Sole, Replying
<1>5. ReadInOrder'
  <2>1. \A n \in Messages : pc'[n] = "create" => n # m
    BY <1>2
  <2> QED
    BY <1>1, <2>1, OrderKept DEF TypeOK
<1> QED
  BY <1>4, <1>5

\* Select, Cancel, Supersede, CreateWrite: the handler goes on to commit or ask.
LEMMA WaitWrite ==
  ASSUME WaitInv, NEW m \in Messages,
         Select(m) \/ Cancel(m) \/ Supersede(m) \/ CreateWrite(m)
  PROVE  Unwritten' /\ Sole' /\ ReadInOrder'
<1> USE DEF WaitInv, ClarificationInv, RowInv
<1>1. UNCHANGED <<state, due>>
  BY DEF Select, Cancel, Supersede, CreateWrite
<1>2. pc' = [pc EXCEPT ![m] = "commit"] \/ pc' = [pc EXCEPT ![m] = "ask"]
  BY DEF Select, Cancel, Supersede, CreateWrite, Goto
<1>3. \A n \in Messages : n # m => draft'[n] = draft[n]
  <2>1. CASE Select(m) \/ Cancel(m) \/ Supersede(m)
    BY <2>1 DEF Select, Cancel, Supersede, Write, TypeOK
  <2>2. CASE CreateWrite(m)
    BY <2>2 DEF CreateWrite, TypeOK
  <2> QED
    BY <2>1, <2>2
<1>4. /\ pc'[m] \in {"commit", "ask"}
      /\ \A n \in Messages : n # m => pc'[n] = pc[n]
  BY <1>2 DEF TypeOK
<1>5. Unwritten' /\ Sole'
  BY <1>1, <1>3, <1>4 DEF Unwritten, Sole, Replying
<1>6. ReadInOrder'
  <2>1. \A n \in Messages : pc'[n] = "create" => n # m
    BY <1>4
  <2> QED
    BY <1>1, <1>3, <1>4, <2>1, OrderKept DEF TypeOK
<1> QED
  BY <1>5, <1>6

\* The rows a handler reads are open: it is the last of the order.
LEMMA WaitCreateRead ==
  ASSUME WaitInv, NEW m \in Messages, CreateRead(m)
  PROVE  Unwritten' /\ Sole' /\ ReadInOrder'
<1> USE DEF WaitInv, ClarificationInv, RowInv
<1>1. pc[m] = "ask" /\ UNCHANGED <<state, draft>>
  BY DEF CreateRead
<1>2. /\ pc'[m] \in {"commit", "create"}
      /\ \A n \in Messages : n # m => pc'[n] = pc[n] /\ due'[n] = due[n]
  BY DEF CreateRead, Goto, TypeOK
<1>3. draft[m][m] = "NONE" /\ state[m] = "NONE"
  BY <1>1 DEF Placed
<1>4. ASSUME pc'[m] = "create"
      PROVE  \A q \in due'[m] : state[q] = "PENDING" /\ draft[m][q] = "NONE"
  <2>1. due' = [due EXCEPT ![m] = {q \in Messages : Visible(m, q) = "PENDING"}]
    BY <1>4 DEF CreateRead, Goto, TypeOK
  <2>2. due'[m] = {q \in Messages : Visible(m, q) = "PENDING"}
    BY <2>1 DEF TypeOK
  <2>3. \A q \in Messages : draft[m][q] # "PENDING"
    BY <1>3 DEF Locks
  <2> QED
    BY <2>2, <2>3 DEF Visible
<1>5. Unwritten'
  BY <1>1, <1>2 DEF Unwritten, Replying
<1>6. Sole'
  <2> SUFFICES ASSUME NEW n \in Messages, NEW q \in Messages, pc'[n] = "create",
                      draft[n][q] # "NONE", state[q] = "PENDING"
               PROVE  due'[n] = {}
    BY <1>1 DEF Sole
  <2>1. CASE n # m
    BY <1>2, <2>1 DEF Sole
  <2>2. CASE n = m
    <3>1. \A r \in due'[m] : r = q
      <4>1. due'[m] \subseteq Messages
        BY <2>2 DEF CreateRead, Goto, TypeOK
      <4> QED
        BY <1>4, <2>2, <4>1 DEF Single, OneOpenQuestion
    <3> QED
      BY <1>4, <2>2, <3>1
  <2> QED
    BY <2>1, <2>2
<1>7. ReadInOrder'
  <2> SUFFICES ASSUME NEW S \in SUBSET {n \in Messages : pc'[n] = "create"}, S # {}
               PROVE  \E k \in S : \A n \in S : ~WaitsForClosed(k, n)'
    BY DEF ReadInOrder
  <2>1. CASE m \in S
    <3>1. \A n \in S : ~WaitsForClosed(m, n)'
      BY <1>1, <1>4, <2>1 DEF WaitsForClosed
    <3> QED
      BY <2>1, <3>1
  <2>2. CASE m \notin S
    <3>1. S \in SUBSET {n \in Messages : pc[n] = "create"}
      BY <1>2, <2>2
    <3>2. PICK k \in S : \A n \in S : ~WaitsForClosed(k, n)
      BY <3>1 DEF ReadInOrder
    <3>3. due'[k] = due[k]
      BY <1>2, <2>2, <3>2
    <3>4. \A n \in S : ~WaitsForClosed(k, n)'
      BY <1>1, <3>2, <3>3 DEF WaitsForClosed
    <3> QED
      BY <3>4
  <2> QED
    BY <2>1, <2>2
<1> QED
  BY <1>5, <1>6, <1>7

\* Commit, Rejected, Crash: the locks are released; a row another handler has
\* written keeps its state.
LEMMA WaitEnd ==
  ASSUME WaitInv, NEW m \in Messages, Commit(m) \/ Rejected(m) \/ Crash(m)
  PROVE  Unwritten' /\ Sole' /\ ReadInOrder'
<1> USE DEF WaitInv, ClarificationInv, RowInv
<1>1. \A n, q \in Messages : draft'[n][q] = IF n = m THEN "NONE" ELSE draft[n][q]
  BY DEF Commit, Rejected, Crash, Rollback, Untouched, TypeOK
<1>2. /\ pc'[m] \in {"new", "done"}
      /\ \A n \in Messages : n # m => pc'[n] = pc[n] /\ due'[n] = due[n]
  <2>1. CASE Commit(m)
    BY <2>1 DEF Commit, Goto, TypeOK
  <2>2. CASE Rejected(m) \/ Crash(m)
    BY <2>2 DEF Rejected, Crash, Rollback, Goto, TypeOK
  <2> QED
    BY <2>1, <2>2
<1>3. \A n, q \in Messages : n # m /\ draft[n][q] # "NONE" => state'[q] = state[q]
  <2>1. CASE Commit(m)
    <3>1. \A q \in Messages : draft[m][q] = "NONE" => state'[q] = state[q]
      BY <2>1 DEF Commit, Visible
    <3> QED
      BY <3>1 DEF Locks
  <2>2. CASE Rejected(m) \/ Crash(m)
    BY <2>2 DEF Rejected, Crash, Rollback
  <2> QED
    BY <2>1, <2>2
<1>4. Unwritten' /\ Sole'
  BY <1>1, <1>2, <1>3 DEF Unwritten, Sole, Replying
<1>5. ReadInOrder'
  <2>1. \A n \in Messages : pc'[n] = "create" => n # m
    BY <1>2
  <2>2. \A n \in Messages : due[n] \subseteq Messages
    BY DEF TypeOK
  <2> QED
    BY <1>1, <1>2, <1>3, <2>1, <2>2, OrderKept
<1> QED
  BY <1>4, <1>5

LEMMA WaitInvAlways == Spec => []WaitInv
<1>1. Init => WaitInv
  <2> SUFFICES ASSUME Init PROVE WaitInv
    OBVIOUS
  <2>1. \A m \in Messages : pc[m] = "new"
    BY DEF Init
  <2> QED
    BY <2>1, InitInv DEF WaitInv, Unwritten, Sole, ReadInOrder, Replying
<1>2. WaitInv /\ [Next]_vars => WaitInv'
  <2> SUFFICES ASSUME WaitInv, [Next]_vars PROVE WaitInv'
    OBVIOUS
  <2>0. ClarificationInv'
    BY InvStep DEF WaitInv
  <2>1. CASE UNCHANGED vars \/ Tick
    <3>1. UNCHANGED <<state, draft, pc, due>>
      BY <2>1 DEF vars, Tick
    <3>2. Unwritten' /\ Sole'
      BY <3>1 DEF WaitInv, Unwritten, Sole
    <3>3. ReadInOrder'
      BY <3>1, OrderKept DEF WaitInv
    <3> QED
      BY <2>0, <3>2, <3>3 DEF WaitInv
  <2>2. ASSUME NEW m \in Messages, Begin(m) \/ Step(m) \/ Crash(m)
        PROVE  Unwritten' /\ Sole' /\ ReadInOrder'
    BY <2>2, WaitBegin, WaitWrite, WaitCreateRead, WaitEnd DEF Step
  <2> QED
    BY <2>0, <2>1, <2>2 DEF Next, WaitInv
<1> QED
  BY <1>1, <1>2, PTL DEF Spec

\* A handler that waits and holds a row of the index waits for nobody that
\* waits.
LEMMA HolderIsNext ==
  ASSUME WaitInv, NEW n \in Messages, NEW q \in Messages, pc[n] = "create",
         draft[n][q] # "NONE", state[q] = "PENDING",
         NEW k \in Messages, k # n, pc[k] # "commit"
  PROVE  ~WaitsFor(n, k)
<1> USE DEF WaitInv, ClarificationInv, RowInv
<1>1. due[n] = {}
  BY DEF Sole
<1>2. draft[k][k] = "NONE"
  BY DEF Placed
<1>3. \A r \in Messages : state[r] = "PENDING" => draft[k][r] = "NONE"
  <2>1. draft[k][q] = "NONE"
    BY DEF Locks
  <2> QED
    BY <2>1 DEF Single, OneOpenQuestion
<1> QED
  BY <1>1, <1>2, <1>3 DEF WaitsFor, Replying

\* However many handlers of a conversation lock its rows and wait for the index
\* of its open questions, no group of them waits in a circle: in each, one goes
\* on (pending_intent.py _lock_row, create_pending_intent).
THEOREM NobodyWaitsInACircle == Spec => []NoCircularWait
<1>1. WaitInv => NoCircularWait
  <2> USE DEF WaitInv, ClarificationInv, RowInv
  <2> SUFFICES ASSUME WaitInv, NEW S \in SUBSET Messages, S # {}
               PROVE  \E m \in S : \A n \in S \ {m} : ~WaitsFor(m, n)
    BY DEF NoCircularWait
  <2> DEFINE C == {m \in S : pc[m] = "create"}
  <2>1. CASE \E m \in S : pc[m] \notin Replying /\ pc[m] # "create"
    BY <2>1 DEF WaitsFor
  <2>2. CASE (\A m \in S : pc[m] \in Replying \/ pc[m] = "create") /\ C # {}
    <3>1. C \in SUBSET {m \in Messages : pc[m] = "create"}
      OBVIOUS
    <3>2. PICK m \in C : \A n \in C : ~WaitsForClosed(m, n)
      BY <2>2, <3>1 DEF ReadInOrder
    <3>3. \A n \in S : pc[n] # "commit"
      BY <2>2 DEF Replying
    <3>4. CASE \A n \in S \ {m} : ~WaitsFor(m, n)
      BY <3>4
    <3>5. ASSUME NEW n \in S, n # m, WaitsFor(m, n)
          PROVE  \E k \in S : \A l \in S \ {k} : ~WaitsFor(k, l)
      <4>1. due[m] \subseteq Messages
        BY DEF TypeOK
      <4>2. draft[n][n] = "NONE"
        BY <3>3 DEF Placed
      <4>3. PICK q \in Messages :
              draft[n][q] # "NONE" /\ (q \in due[m] \/ state[q] = "PENDING")
        BY <3>5, <4>1, <4>2 DEF WaitsFor, Replying
      <4>4. n \in C
        BY <2>2, <4>3 DEF Unwritten
      <4>5. state[q] = "PENDING"
        BY <3>2, <4>3, <4>4 DEF WaitsForClosed
      <4>6. \A l \in S \ {n} : ~WaitsFor(n, l)
        BY <3>3, <4>3, <4>4, <4>5, HolderIsNext
      <4> QED
        BY <3>5, <4>6
    <3> QED
      BY <3>4, <3>5
  <2>3. CASE (\A m \in S : pc[m] \in Replying) /\ C = {}
    <3>1. ASSUME NEW m \in S, NEW n \in S
          PROVE  ~WaitsFor(m, n)
      <4>1. pc[m] \in Replying /\ pc[n] \in Replying /\ pc[m] # "create"
        BY <2>3 DEF Replying
      <4>2. seen[m] \in Messages
        BY <4>1 DEF Placed, TypeOK, Replying
      <4>3. draft[n][seen[m]] = "NONE"
        BY <4>1, <4>2 DEF Unwritten
      <4> QED
        BY <4>1, <4>3 DEF WaitsFor
    <3> QED
      BY <3>1
  <2> QED
    BY <2>1, <2>2, <2>3
<1> QED
  BY <1>1, WaitInvAlways, PTL
====
