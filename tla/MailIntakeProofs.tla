-------------------------- MODULE MailIntakeProofs --------------------------
(***************************************************************************)
(* Proofs about MailIntake, for any tenants, schedulers, messages and      *)
(* limits.                                                                 *)
(***************************************************************************)
EXTENDS MailIntake, FiniteSetTheorems, TLAPS

Cur(i) == auth[i].cursor

\* A slot is held by one run.
Slots ==
    \A w \in Schedulers :
        /\ run[w].pc = "idle" <=> run[w].tenant = NoTenant
        /\ \A v \in Schedulers :
              run[w].pc # "idle" /\ run[w].tenant = run[v].tenant => w = v

\* The positions of a run lie in order in the history, and a page is still due.
Positions ==
    \A w \in Schedulers :
        /\ run[w].pc \in {"page", "records"} =>
              /\ 0 <= run[w].at /\ run[w].at <= run[w].last
              /\ run[w].last <= run[w].end /\ run[w].end <= Len(history)
        /\ run[w].pc = "page" => run[w].pages < MaxPages
        /\ run[w].pc = "finish" => 0 <= run[w].at /\ run[w].at <= Len(history)

\* The cursor of an installation, where it came from, and the history's end.
Origins ==
    \A i \in Tenants :
        /\ Cur(i) = NoCursor <=> origin[i].own = NoCursor
        /\ Cur(i) # NoCursor =>
              /\ 0 <= origin[i].first /\ origin[i].first <= origin[i].own
              /\ origin[i].own <= Cur(i) /\ Cur(i) <= Len(history)

\* What a run has done since the cursor it began with.
Done(w) ==
    LET i == run[w].tenant IN
    /\ run[w].pc = "baseline" => Cur(i) = NoCursor
    /\ run[w].pc \in {"page", "records"} => Cur(i) # NoCursor
    /\ run[w].pc \in {"page", "records", "finish"} =>
          /\ Cur(i) <= run[w].at
          /\ Cur(i) # NoCursor =>
                \A r \in (Cur(i) + 1)..run[w].at : history[r] \subseteq run[w].seen
    /\ run[w].pc # "idle" =>
          \A m \in run[w].seen : Known(i, m) /\ inbox[i][m].body = auth[i].mode

Read(i) ==
    Cur(i) # NoCursor =>
        \A r \in (origin[i].own + 1)..Cur(i) : \A m \in history[r] :
            Known(i, m) /\ (inbox[i][m].body = "readonly" => m \in archive[i])

Inherited(i) ==
    Cur(i) # NoCursor =>
        \A r \in (origin[i].first + 1)..origin[i].own : \A m \in history[r] :
            \E t \in origin[i].line : Known(t, m)

Progress == \A w \in Schedulers : Done(w)
Admission == \A i \in Tenants : Read(i) /\ Inherited(i)

TypeInv == TypeOK /\ Slots /\ Positions /\ Origins
IntakeInv == TypeInv /\ Progress /\ Admission

-----------------------------------------------------------------------------
LEMMA Constants ==
    /\ NoTenant \notin Tenants
    /\ Limit \in Nat \ {0} /\ PageSize \in Nat \ {0} /\ MaxPages \in Nat \ {0}
    /\ MaxHistory \in Nat /\ MaxFaults \in Nat
    /\ IsFiniteSet(Messages)
  BY IntakeAssumption

LEMMA RunTyped ==
    ASSUME TypeOK, NEW w \in Schedulers
    PROVE  /\ run[w].pc \in RunPhases
           /\ run[w].tenant \in Tenants \cup {NoTenant}
           /\ run[w].at \in Int /\ run[w].last \in Int /\ run[w].end \in Int
           /\ run[w].at \in Cursors /\ run[w].last \in Cursors
           /\ run[w].end \in Cursors
           /\ run[w].pages \in 0..MaxPages /\ run[w].seen \subseteq Messages
  <1>1. run[w] \in [pc : RunPhases, tenant : Tenants \cup {NoTenant},
                    at : Cursors, last : Cursors, end : Cursors,
                    pages : 0..MaxPages, seen : SUBSET Messages]
    BY DEF TypeOK
  <1>2. Cursors \subseteq Int
    BY Constants DEF Cursors, NoCursor
  <1> QED BY <1>1, <1>2

LEMMA HistoryTyped ==
    ASSUME TypeOK
    PROVE  /\ Len(history) \in Nat /\ Len(history) <= MaxHistory
           /\ \A r \in 1..Len(history) : history[r] \subseteq Messages
  BY DEF TypeOK

LEMMA RowTyped ==
    ASSUME TypeOK, NEW i \in Tenants
    PROVE  /\ Cur(i) \in Int /\ Cur(i) \in Cursors /\ auth[i].mode \in Modes
           /\ auth[i].status \in {"NONE", "ACTIVE", "REVOKED"}
           /\ origin[i].own \in Int /\ origin[i].first \in Int
           /\ origin[i].line \subseteq Tenants
           /\ \A m \in Messages : inbox[i][m].body \in Bodies
  <1>1. auth[i] \in [status : {"NONE", "ACTIVE", "REVOKED"},
                     cursor : Cursors, mode : Modes]
    BY DEF TypeOK
  <1>2. origin[i] \in [own : Cursors, first : Cursors, line : SUBSET Tenants]
    BY DEF TypeOK
  <1>3. inbox[i] \in [Messages -> [state : {"NONE", "PENDING", "PROCESSED", "BLOCKED"},
                                   body : Bodies]]
    BY DEF TypeOK
  <1>4. Cursors \subseteq Int
    BY Constants DEF Cursors, NoCursor
  <1> QED BY <1>1, <1>2, <1>3, <1>4 DEF Cur

\* The type of a run's record, and where its positions may lie.
RunRecord == [pc : RunPhases, tenant : Tenants \cup {NoTenant},
              at : Cursors, last : Cursors, end : Cursors,
              pages : 0..MaxPages, seen : SUBSET Messages]

Located(s) ==
    /\ s.pc \in {"page", "records"} =>
          /\ 0 <= s.at /\ s.at <= s.last
          /\ s.last <= s.end /\ s.end <= Len(history)
    /\ s.pc = "page" => s.pages < MaxPages
    /\ s.pc = "finish" => 0 <= s.at /\ s.at <= Len(history)

\* What MoveTyped shows of the runs after such a step.
RunsFit ==
    /\ run' \in [Schedulers -> RunRecord]
    /\ \A v \in Schedulers : Cardinality(run'[v].seen) <= Limit
    /\ \A v \in Schedulers :
          /\ run'[v].pc = "idle" <=> run'[v].tenant = NoTenant
          /\ \A x \in Schedulers :
                run'[v].pc # "idle" /\ run'[v].tenant = run'[x].tenant => v = x
    /\ \A v \in Schedulers : run'[v].pc \in {"page", "records"} =>
          /\ 0 <= run'[v].at /\ run'[v].at <= run'[v].last
          /\ run'[v].last <= run'[v].end /\ run'[v].end <= Len(history)
    /\ \A v \in Schedulers : run'[v].pc = "page" => run'[v].pages < MaxPages
    /\ \A v \in Schedulers : run'[v].pc = "finish" =>
          0 <= run'[v].at /\ run'[v].at <= Len(history)

\* A step that moves one scheduler's run keeps the types and the slots, when the
\* run's new record has its type and its slot is free or its own.
LEMMA MoveTyped ==
    ASSUME TypeInv, NEW w \in Schedulers, NEW s \in RunRecord,
           run' = [run EXCEPT ![w] = s],
           Cardinality(s.seen) <= Limit,
           Located(s),
           s.pc = "idle" <=> s.tenant = NoTenant,
           s.tenant # NoTenant => s.tenant = run[w].tenant \/ SlotFree(s.tenant)
    PROVE  RunsFit
  <1>1. run \in [Schedulers -> RunRecord]
    BY DEF TypeInv, TypeOK, RunRecord
  <1>2. run' \in [Schedulers -> RunRecord]
    BY <1>1
  <1>3. run'[w] = s /\ \A v \in Schedulers \ {w} : run'[v] = run[v]
    BY <1>1
  <1>4. \A v \in Schedulers : Cardinality(run[v].seen) <= Limit
    BY DEF TypeInv, TypeOK
  <1>5. \A v \in Schedulers : Cardinality(run'[v].seen) <= Limit
    BY <1>3, <1>4
  <1>6. \A v \in Schedulers : run'[v].pc = "idle" <=> run'[v].tenant = NoTenant
    BY <1>3 DEF TypeInv, Slots
  <1>7. ASSUME NEW v \in Schedulers, NEW x \in Schedulers,
               run'[v].pc # "idle", run'[v].tenant = run'[x].tenant
        PROVE  v = x
    <2>1. CASE v # w /\ x # w
      BY <2>1, <1>3, <1>7 DEF TypeInv, Slots
    <2>2. CASE v = w /\ x # w
      <3>1. s.tenant # NoTenant /\ run[x].tenant = s.tenant
        BY <2>2, <1>3, <1>7
      <3>2. s.tenant = run[w].tenant
        BY <3>1 DEF SlotFree
      <3>3. run[w].pc # "idle"
        BY <3>1, <3>2 DEF TypeInv, Slots
      <3> QED BY <3>1, <3>2, <3>3, <2>2 DEF TypeInv, Slots
    <2>3. CASE v # w /\ x = w
      <3>1. run[v].pc # "idle" /\ run[v].tenant = s.tenant
        BY <2>3, <1>3, <1>7
      <3>2. s.tenant # NoTenant
        BY <3>1 DEF TypeInv, Slots
      <3>3. s.tenant = run[w].tenant
        BY <3>1, <3>2 DEF SlotFree
      <3> QED BY <3>1, <3>3, <2>3 DEF TypeInv, Slots
    <2> QED BY <2>1, <2>2, <2>3
  <1>8. \A v \in Schedulers : Located(run[v])
    BY DEF TypeInv, Positions, Located
  <1>9. \A v \in Schedulers : Located(run'[v])
    BY <1>3, <1>8
  <1> HIDE DEF RunRecord
  <1> QED BY <1>2, <1>5, <1>6, <1>7, <1>9 DEF Located, RunsFit

LEMMA MoveKeeps ==
    ASSUME TypeInv, NEW w \in Schedulers, NEW s \in RunRecord,
           run' = [run EXCEPT ![w] = s],
           Cardinality(s.seen) <= Limit,
           Located(s),
           s.pc = "idle" <=> s.tenant = NoTenant,
           s.tenant # NoTenant => s.tenant = run[w].tenant \/ SlotFree(s.tenant),
           UNCHANGED <<mailbox, authority, stored>>,
           stale' \in [Schedulers -> SUBSET Tenants],
           faults' \in 0..MaxFaults
    PROVE  TypeInv'
  <1>1. RunsFit
    BY MoveTyped
  <1>2. /\ history' = history /\ kept' = kept /\ deleted' = deleted
        /\ auth' = auth /\ bound' = bound /\ origin' = origin
        /\ inbox' = inbox /\ archive' = archive
    BY DEF mailbox, authority, stored
  <1>3. TypeOK'
    BY <1>1, <1>2 DEF TypeInv, TypeOK, RunRecord, RunsFit
  <1>4. Slots'
    BY <1>1 DEF Slots, RunsFit
  <1>5. Positions'
    BY <1>1, <1>2 DEF Positions, RunsFit
  <1>6. Origins'
    BY <1>2 DEF TypeInv, Origins, Cur
  <1> QED BY <1>3, <1>4, <1>5, <1>6 DEF TypeInv

LEMMA NoRunTyped ==
    NoRun \in RunRecord /\ Located(NoRun) /\ NoRun.pc = "idle"
        /\ NoRun.tenant = NoTenant /\ NoRun.seen = {} /\ Cardinality(NoRun.seen) <= Limit
  <1>1. Cardinality({}) = 0
    BY FS_EmptySet
  <1>2. 0 \in Cursors /\ 0 \in 0..MaxPages
    BY Constants DEF Cursors
  <1>3. NoRun.seen = {} /\ NoRun.pc = "idle" /\ NoRun.tenant = NoTenant
    BY DEF NoRun
  <1>4. NoRun \in RunRecord
    BY <1>2 DEF NoRun, RunRecord, RunPhases
  <1>5. Located(NoRun)
    BY <1>3 DEF Located
  <1> QED BY <1>1, <1>3, <1>4, <1>5, Constants

LEMMA PageEndBounded ==
    ASSUME TypeOK, NEW from \in Int, 0 <= from, from <= Len(history)
    PROVE  /\ PageEnd(from) \in Int /\ from <= PageEnd(from)
           /\ PageEnd(from) <= Len(history)
  BY HistoryTyped, Constants DEF PageEnd

LEMMA StartRunTyped ==
    ASSUME TypeInv, NEW w \in Schedulers, NEW i \in Tenants, StartRun(w, i)
    PROVE  TypeInv'
  <1> DEFINE start == Cur(i)
             s == [pc |-> IF start = NoCursor THEN "baseline" ELSE "page",
                   tenant |-> i, at |-> start, last |-> start, end |-> start,
                   pages |-> 0, seen |-> {}]
  <1>0. TypeOK /\ Origins
    BY DEF TypeInv
  <1>1. run' = [run EXCEPT ![w] = s]
    BY DEF StartRun, Cur
  <1>2. start \in Int /\ start \in Cursors
    BY <1>0, RowTyped
  <1>3. s \in RunRecord
    BY <1>2, Constants DEF RunRecord, RunPhases
  <1>4. Cardinality(s.seen) <= Limit
    BY FS_EmptySet, Constants
  <1>5. start # NoCursor => 0 <= start /\ start <= Len(history)
    BY <1>0, RowTyped, HistoryTyped DEF Origins
  <1>6. Located(s)
    <2>1. CASE start = NoCursor
      BY <2>1 DEF Located
    <2>2. CASE start # NoCursor
      BY <2>2, <1>2, <1>5, Constants DEF Located
    <2> QED BY <2>1, <2>2
  <1>7. s.pc # "idle" /\ s.tenant # NoTenant /\ SlotFree(s.tenant)
    BY Constants DEF StartRun
  <1>8. stale' \in [Schedulers -> SUBSET Tenants] /\ faults' \in 0..MaxFaults
    BY <1>0 DEF StartRun, TypeOK
  <1>9. UNCHANGED <<mailbox, authority, stored>>
    BY DEF StartRun
  <1> HIDE DEF s
  <1> QED BY <1>1, <1>3, <1>4, <1>6, <1>7, <1>8, <1>9, MoveKeeps

\* A run that ends without a result gives its slot back.
Dropped(w) == run' = [run EXCEPT ![w] = NoRun]

LEMMA DropTyped ==
    ASSUME TypeInv, NEW w \in Schedulers, Dropped(w),
           UNCHANGED <<mailbox, authority, stored>>,
           stale' \in [Schedulers -> SUBSET Tenants], faults' \in 0..MaxFaults
    PROVE  TypeInv'
  BY NoRunTyped, MoveKeeps DEF Dropped

LEMMA Drops ==
    ASSUME TypeInv, NEW w \in Schedulers,
           HistoryStale(w) \/ Refuse(w) \/ Fault(w) \/ Restart(w)
    PROVE  /\ Dropped(w) /\ UNCHANGED <<mailbox, authority, stored>>
           /\ stale' \in [Schedulers -> SUBSET Tenants] /\ faults' \in 0..MaxFaults
  <1>0. TypeOK /\ Slots
    BY DEF TypeInv
  <1>1. stale \in [Schedulers -> SUBSET Tenants] /\ faults \in 0..MaxFaults
    BY <1>0 DEF TypeOK
  <1>2. CASE HistoryStale(w)
    <2>1. run[w].tenant \in Tenants
      BY <1>0, <1>2, RunTyped DEF HistoryStale, Slots
    <2> QED BY <1>1, <1>2, <2>1 DEF HistoryStale, Dropped
  <1>3. CASE Refuse(w)
    BY <1>1, <1>3 DEF Refuse, Dropped
  <1>4. CASE Fault(w)
    BY <1>1, <1>4, Constants DEF Fault, Dropped
  <1>5. CASE Restart(w)
    BY <1>1, <1>5, Constants DEF Restart, Dropped
  <1> QED BY <1>2, <1>3, <1>4, <1>5

\* The other steps of a run keep its tenant.
Stepped(w, s) ==
    /\ run' = [run EXCEPT ![w] = s]
    /\ s.tenant = run[w].tenant /\ s.pc # "idle"

LEMMA StepKeeps ==
    ASSUME TypeInv, NEW w \in Schedulers, NEW s \in RunRecord, Stepped(w, s),
           run[w].pc # "idle", Located(s), s.seen = run[w].seen,
           UNCHANGED <<mailbox, authority, stored, stale, faults>>
    PROVE  TypeInv'
  <1>1. s.tenant # NoTenant
    BY DEF TypeInv, Slots, Stepped
  <1>2. Cardinality(s.seen) <= Limit
    BY DEF TypeInv, TypeOK
  <1>3. stale' \in [Schedulers -> SUBSET Tenants] /\ faults' \in 0..MaxFaults
    BY DEF TypeInv, TypeOK
  <1> QED BY <1>1, <1>2, <1>3, MoveKeeps DEF Stepped

\* The run's record after each of those steps.
AfterBaseline(w) == [run[w] EXCEPT !.pc = "finish", !.at = Len(history)]
AfterPage(w) == [run[w] EXCEPT !.pc = "records", !.last = PageEnd(run[w].last),
                               !.end = Len(history), !.pages = run[w].pages + 1]
AfterRecord(w) == [run[w] EXCEPT !.at = run[w].at + 1]
AfterPhase(w, pc) == [run[w] EXCEPT !.pc = pc]

LEMMA PhaseUpdate ==
    ASSUME NEW r \in RunRecord, NEW pc \in RunPhases
    PROVE  [r EXCEPT !.pc = pc] \in RunRecord
  BY DEF RunRecord

LEMMA AtUpdate ==
    ASSUME NEW r \in RunRecord, NEW at \in Cursors
    PROVE  [r EXCEPT !.at = at] \in RunRecord
  BY DEF RunRecord

LEMMA BaselineUpdate ==
    ASSUME NEW r \in RunRecord, NEW at \in Cursors
    PROVE  [r EXCEPT !.pc = "finish", !.at = at] \in RunRecord
  BY DEF RunRecord, RunPhases

LEMMA PageUpdate ==
    ASSUME NEW r \in RunRecord, NEW last \in Cursors, NEW end \in Cursors,
           NEW pages \in 0..MaxPages
    PROVE  [r EXCEPT !.pc = "records", !.last = last, !.end = end,
                     !.pages = pages] \in RunRecord
  BY DEF RunRecord, RunPhases

LEMMA RecordFields ==
    ASSUME TypeOK, NEW w \in Schedulers, NEW pc
    PROVE  /\ LET s == AfterBaseline(w) IN
              /\ s.pc = "finish" /\ s.at = Len(history)
              /\ s.tenant = run[w].tenant /\ s.seen = run[w].seen
           /\ LET s == AfterPage(w) IN
              /\ s.pc = "records" /\ s.at = run[w].at
              /\ s.last = PageEnd(run[w].last) /\ s.end = Len(history)
              /\ s.pages = run[w].pages + 1
              /\ s.tenant = run[w].tenant /\ s.seen = run[w].seen
           /\ LET s == AfterRecord(w) IN
              /\ s.pc = run[w].pc /\ s.at = run[w].at + 1
              /\ s.last = run[w].last /\ s.end = run[w].end
              /\ s.pages = run[w].pages
              /\ s.tenant = run[w].tenant /\ s.seen = run[w].seen
           /\ LET s == AfterPhase(w, pc) IN
              /\ s.pc = pc /\ s.at = run[w].at
              /\ s.last = run[w].last /\ s.end = run[w].end
              /\ s.pages = run[w].pages
              /\ s.tenant = run[w].tenant /\ s.seen = run[w].seen
  <1>1. run[w] \in RunRecord
    BY DEF TypeOK, RunRecord
  <1>2. LET s == AfterBaseline(w) IN
              /\ s.pc = "finish" /\ s.at = Len(history)
              /\ s.tenant = run[w].tenant /\ s.seen = run[w].seen
    BY <1>1 DEF AfterBaseline, RunRecord
  <1>3. LET s == AfterPage(w) IN
              /\ s.pc = "records" /\ s.at = run[w].at
              /\ s.last = PageEnd(run[w].last) /\ s.end = Len(history)
              /\ s.pages = run[w].pages + 1
              /\ s.tenant = run[w].tenant /\ s.seen = run[w].seen
    BY <1>1 DEF AfterPage, RunRecord
  <1>4. LET s == AfterRecord(w) IN
              /\ s.pc = run[w].pc /\ s.at = run[w].at + 1
              /\ s.last = run[w].last /\ s.end = run[w].end
              /\ s.pages = run[w].pages
              /\ s.tenant = run[w].tenant /\ s.seen = run[w].seen
    BY <1>1 DEF AfterRecord, RunRecord
  <1>5. LET s == AfterPhase(w, pc) IN
              /\ s.pc = pc /\ s.at = run[w].at
              /\ s.last = run[w].last /\ s.end = run[w].end
              /\ s.pages = run[w].pages
              /\ s.tenant = run[w].tenant /\ s.seen = run[w].seen
    BY <1>1 DEF AfterPhase, RunRecord
  <1> QED BY <1>2, <1>3, <1>4, <1>5

LEMMA RunFunction ==
    ASSUME TypeOK
    PROVE  run \in [Schedulers -> RunRecord]
  BY DEF TypeOK, RunRecord

LEMMA ReadBaselineTyped ==
    ASSUME TypeInv, NEW w \in Schedulers, ReadBaseline(w)
    PROVE  TypeInv' /\ Stepped(w, AfterBaseline(w))
  <1> DEFINE s == AfterBaseline(w)
  <1>0. TypeOK
    BY DEF TypeInv
  <1>1. run' = [run EXCEPT ![w] = s]
    BY <1>0, RunFunction DEF ReadBaseline, AfterBaseline
  <1>2. Len(history) \in Cursors /\ Len(history) \in Nat
    BY <1>0, HistoryTyped, Constants DEF Cursors
  <1>3. s \in RunRecord
    BY <1>0, <1>2, RunFunction, BaselineUpdate DEF AfterBaseline, RunPhases
  <1>4. Located(s)
    BY <1>2, <1>0, RecordFields DEF Located
  <1>5. s.seen = run[w].seen /\ s.tenant = run[w].tenant /\ s.pc # "idle"
    BY <1>0, RecordFields
  <1>6. Stepped(w, s)
    BY <1>1, <1>5 DEF Stepped
  <1>7. run[w].pc # "idle" /\ UNCHANGED <<mailbox, authority, stored, stale, faults>>
    BY DEF ReadBaseline
  <1> HIDE DEF s
  <1>8. TypeInv'
    BY <1>3, <1>4, <1>5, <1>6, <1>7, StepKeeps
  <1> QED BY <1>6, <1>8 DEF s

LEMMA FetchPageTyped ==
    ASSUME TypeInv, NEW w \in Schedulers, FetchPage(w)
    PROVE  TypeInv' /\ Stepped(w, AfterPage(w))
  <1> DEFINE s == AfterPage(w)
  <1>0. TypeOK /\ Positions
    BY DEF TypeInv
  <1>a. run[w].pc = "page"
    BY DEF FetchPage
  <1>1. run' = [run EXCEPT ![w] = s]
    BY <1>0, RunFunction DEF FetchPage, AfterPage
  <1>2. Len(history) \in Cursors /\ Len(history) \in Nat
    BY <1>0, HistoryTyped, Constants DEF Cursors
  <1>b. /\ 0 <= run[w].at /\ run[w].at <= run[w].last
        /\ run[w].last <= run[w].end /\ run[w].end <= Len(history)
        /\ run[w].pages < MaxPages
    BY <1>0, <1>a DEF Positions
  <1>c. /\ run[w].last \in Int /\ run[w].at \in Int /\ run[w].end \in Int
        /\ run[w].pages \in 0..MaxPages
    BY <1>0, RunTyped
  <1>3. 0 <= run[w].last /\ run[w].last <= Len(history)
    BY <1>b, <1>c, <1>2
  <1>4. /\ PageEnd(run[w].last) \in Int /\ run[w].last <= PageEnd(run[w].last)
        /\ PageEnd(run[w].last) <= Len(history)
    BY <1>0, <1>3, <1>c, PageEndBounded
  <1>5. PageEnd(run[w].last) \in Cursors
    BY <1>0, <1>2, <1>3, <1>4, <1>c, HistoryTyped, Constants DEF Cursors
  <1>6. run[w].pages + 1 \in 0..MaxPages
    BY <1>b, <1>c, Constants
  <1>7. s \in RunRecord
    BY <1>0, <1>2, <1>5, <1>6, RunFunction, PageUpdate DEF AfterPage, RunPhases
  <1>8. Located(s)
    <2>1. run[w].at <= PageEnd(run[w].last)
      BY <1>b, <1>c, <1>4
    <2> QED BY <1>2, <1>b, <1>4, <2>1, <1>0, RecordFields DEF Located
  <1>9. s.seen = run[w].seen /\ s.tenant = run[w].tenant /\ s.pc # "idle"
    BY <1>0, RecordFields
  <1>10. Stepped(w, s)
    BY <1>1, <1>9 DEF Stepped
  <1>11. run[w].pc # "idle" /\ UNCHANGED <<mailbox, authority, stored, stale, faults>>
    BY DEF FetchPage
  <1> HIDE DEF s
  <1>12. TypeInv'
    BY <1>7, <1>8, <1>9, <1>10, <1>11, StepKeeps
  <1> QED BY <1>10, <1>12 DEF s

LEMMA AdvanceRecordTyped ==
    ASSUME TypeInv, NEW w \in Schedulers, AdvanceRecord(w)
    PROVE  TypeInv' /\ Stepped(w, AfterRecord(w))
  <1> DEFINE s == AfterRecord(w)
  <1>0. TypeOK /\ Positions
    BY DEF TypeInv
  <1>a. run[w].pc = "records" /\ run[w].at < run[w].last
    BY DEF AdvanceRecord, Reading
  <1>1. run' = [run EXCEPT ![w] = s]
    BY <1>0, RunFunction DEF AdvanceRecord, AfterRecord
  <1>2. /\ 0 <= run[w].at /\ run[w].last <= run[w].end /\ run[w].end <= Len(history)
        /\ run[w].at \in Int /\ run[w].last \in Int /\ run[w].end \in Int
    BY <1>0, <1>a, RunTyped DEF Positions
  <1>3. Len(history) \in Nat /\ Len(history) <= MaxHistory
    BY <1>0, HistoryTyped
  <1>4. /\ run[w].at + 1 \in Cursors /\ 0 <= run[w].at + 1
        /\ run[w].at + 1 <= run[w].last
    BY <1>a, <1>2, <1>3, Constants DEF Cursors
  <1>5. s \in RunRecord
    BY <1>0, <1>4, RunFunction, AtUpdate DEF AfterRecord
  <1>6. Located(s)
    BY <1>a, <1>2, <1>4, <1>0, RecordFields DEF Located
  <1>7. s.seen = run[w].seen /\ s.tenant = run[w].tenant /\ s.pc # "idle"
    BY <1>a, <1>0, RecordFields
  <1>8. Stepped(w, s)
    BY <1>1, <1>7 DEF Stepped
  <1>9. UNCHANGED <<mailbox, authority, stored, stale, faults>>
    BY DEF AdvanceRecord
  <1> HIDE DEF s
  <1>10. TypeInv'
    BY <1>a, <1>5, <1>6, <1>7, <1>8, <1>9, StepKeeps
  <1> QED BY <1>8, <1>10 DEF s

LEMMA NextPageTyped ==
    ASSUME TypeInv, NEW w \in Schedulers, NextPage(w)
    PROVE  TypeInv' /\ Stepped(w, AfterPhase(w, "page"))
  <1> DEFINE s == AfterPhase(w, "page")
  <1>0. TypeOK /\ Positions
    BY DEF TypeInv
  <1>a. run[w].pc = "records" /\ run[w].pages < MaxPages
    BY DEF NextPage
  <1>1. run' = [run EXCEPT ![w] = s]
    BY <1>0, RunFunction DEF NextPage, AfterPhase
  <1>2. s \in RunRecord
    BY <1>0, RunFunction, PhaseUpdate DEF AfterPhase, RunPhases
  <1>3. Located(s)
    BY <1>0, <1>a, RecordFields DEF Positions, Located
  <1>4. s.seen = run[w].seen /\ s.tenant = run[w].tenant /\ s.pc # "idle"
    BY <1>0, RecordFields
  <1>5. Stepped(w, s)
    BY <1>1, <1>4 DEF Stepped
  <1>6. UNCHANGED <<mailbox, authority, stored, stale, faults>>
    BY DEF NextPage
  <1> HIDE DEF s
  <1>7. TypeInv'
    BY <1>a, <1>2, <1>3, <1>4, <1>5, <1>6, StepKeeps
  <1> QED BY <1>5, <1>7 DEF s

LEMMA StopReadingTyped ==
    ASSUME TypeInv, NEW w \in Schedulers, StopReading(w)
    PROVE  TypeInv' /\ Stepped(w, AfterPhase(w, "finish"))
  <1> DEFINE s == AfterPhase(w, "finish")
  <1>0. TypeOK /\ Positions
    BY DEF TypeInv
  <1>a. run[w].pc = "records"
    BY DEF StopReading
  <1>1. run' = [run EXCEPT ![w] = s]
    BY <1>0, RunFunction DEF StopReading, StopsAt, AfterPhase
  <1>2. s \in RunRecord
    BY <1>0, RunFunction, PhaseUpdate DEF AfterPhase, RunPhases
  <1>b. /\ 0 <= run[w].at /\ run[w].at <= run[w].last
        /\ run[w].last <= run[w].end /\ run[w].end <= Len(history)
        /\ run[w].at \in Int /\ run[w].last \in Int /\ run[w].end \in Int
        /\ Len(history) \in Nat
    BY <1>0, <1>a, RunTyped, HistoryTyped DEF Positions
  <1>c. 0 <= run[w].at /\ run[w].at <= Len(history)
    BY <1>b
  <1>3. Located(s)
    BY <1>c, <1>0, RecordFields DEF Located
  <1>4. s.seen = run[w].seen /\ s.tenant = run[w].tenant /\ s.pc # "idle"
    BY <1>0, RecordFields
  <1>5. Stepped(w, s)
    BY <1>1, <1>4 DEF Stepped
  <1>6. UNCHANGED <<mailbox, authority, stored, stale, faults>>
    BY DEF StopReading
  <1> HIDE DEF s
  <1>7. TypeInv'
    BY <1>a, <1>2, <1>3, <1>4, <1>5, <1>6, StepKeeps
  <1> QED BY <1>5, <1>7 DEF s

-----------------------------------------------------------------------------
\* The inbox only grows, and a row keeps its body.
InboxType == [Tenants -> [Messages ->
                 [state : {"NONE", "PENDING", "PROCESSED", "BLOCKED"}, body : Bodies]]]

InboxGrows ==
    \A i \in Tenants, m \in Messages :
        Known(i, m) => inbox'[i][m].state # "NONE" /\ inbox'[i][m].body = inbox[i][m].body

LEMMA AdmittedGrows ==
    ASSUME inbox \in InboxType, NEW i \in Tenants, NEW m \in Messages,
           NEW body \in Bodies, inbox' = Admitted(i, m, body)
    PROVE  /\ inbox' \in InboxType /\ InboxGrows /\ inbox'[i][m].state # "NONE"
           /\ inbox[i][m].state = "NONE" => inbox'[i][m].body = body
  <1> DEFINE row == [state |-> "PENDING", body |-> body]
  <1>1. CASE inbox[i][m].state = "NONE"
    <2>1. inbox' = [inbox EXCEPT ![i][m] = row]
      BY <1>1 DEF Admitted
    <2>2. row \in [state : {"NONE", "PENDING", "PROCESSED", "BLOCKED"}, body : Bodies]
      OBVIOUS
    <2>3. row.state = "PENDING" /\ row.body = body
      OBVIOUS
    <2> HIDE DEF row
    <2>4. inbox' \in InboxType
      BY <2>1, <2>2 DEF InboxType
    <2>5. inbox'[i][m] = row
      BY <2>1 DEF InboxType
    <2>6. \A j \in Tenants, n \in Messages :
             j # i \/ n # m => inbox'[j][n] = inbox[j][n]
      BY <2>1 DEF InboxType
    <2>7. InboxGrows
      BY <1>1, <2>6 DEF InboxGrows, Known
    <2> QED BY <2>3, <2>4, <2>5, <2>7 DEF Known
  <1>2. CASE inbox[i][m].state # "NONE"
    <2>1. inbox' = inbox
      BY <1>2 DEF Admitted
    <2> QED BY <1>2, <2>1 DEF InboxGrows, Known
  <1> QED BY <1>1, <1>2

LEMMA DispatchGrows ==
    ASSUME inbox \in InboxType, NEW i \in Tenants, NEW m \in Messages, Dispatch(i, m)
    PROVE  inbox' \in InboxType /\ InboxGrows
  <1> DEFINE done == IF "binding" \in bound[i] THEN "PROCESSED" ELSE "BLOCKED"
  <1>1. inbox' = [inbox EXCEPT ![i][m].state = done]
    BY DEF Dispatch
  <1>2. done \in {"PROCESSED", "BLOCKED"}
    OBVIOUS
  <1> HIDE DEF done
  <1>3. inbox' \in InboxType
    BY <1>1, <1>2 DEF InboxType
  <1>4. inbox'[i][m].state = done /\ inbox'[i][m].body = inbox[i][m].body
    BY <1>1 DEF InboxType
  <1>5. \A j \in Tenants, n \in Messages :
           j # i \/ n # m => inbox'[j][n] = inbox[j][n]
    BY <1>1 DEF InboxType
  <1> QED BY <1>2, <1>3, <1>4, <1>5 DEF InboxGrows, Known

LEMMA SameInbox ==
    ASSUME inbox' = inbox
    PROVE  InboxGrows
  BY DEF InboxGrows, Known

\* A step that only changes rows of the inbox.
LEMMA StillTyped ==
    ASSUME TypeInv, inbox' \in InboxType,
           UNCHANGED <<mailbox, authority, archive, run, stale, faults>>
    PROVE  TypeInv'
  <1>1. /\ history' = history /\ kept' = kept /\ deleted' = deleted
        /\ auth' = auth /\ bound' = bound /\ origin' = origin
        /\ archive' = archive /\ run' = run /\ stale' = stale /\ faults' = faults
    BY DEF mailbox, authority
  <1>2. TypeOK'
    BY <1>1 DEF TypeInv, TypeOK, InboxType
  <1>3. Slots' /\ Positions'
    BY <1>1 DEF TypeInv, Slots, Positions
  <1>4. Origins'
    BY <1>1 DEF TypeInv, Origins, Cur
  <1> QED BY <1>2, <1>3, <1>4 DEF TypeInv

LEMMA InboxTyped ==
    ASSUME TypeOK
    PROVE  inbox \in InboxType
  BY DEF TypeOK, InboxType

LEMMA DispatchTyped ==
    ASSUME TypeInv, NEW i \in Tenants, NEW m \in Messages, Dispatch(i, m)
    PROVE  TypeInv' /\ InboxGrows
  <1>1. inbox \in InboxType
    BY InboxTyped DEF TypeInv
  <1>2. inbox' \in InboxType /\ InboxGrows
    BY <1>1, DispatchGrows
  <1>3. UNCHANGED <<mailbox, authority, archive, run, stale, faults>>
    BY DEF Dispatch
  <1> QED BY <1>2, <1>3, StillTyped

LEMMA PollTyped ==
    ASSUME TypeInv, NEW i \in Tenants, NEW m \in Messages, Poll(i, m)
    PROVE  TypeInv' /\ InboxGrows
  <1>1. inbox \in InboxType
    BY InboxTyped DEF TypeInv
  <1>2. "poll" \in Bodies
    BY DEF Bodies
  <1>3. inbox' = Admitted(i, m, "poll")
    BY DEF Poll
  <1>4. inbox' \in InboxType /\ InboxGrows
    BY <1>1, <1>2, <1>3, AdmittedGrows
  <1>5. UNCHANGED <<mailbox, authority, archive, run, stale, faults>>
    BY DEF Poll
  <1> QED BY <1>4, <1>5, StillTyped

\* The messages of a record within the limit can all be ingested by one run.
LEMMA IngestTyped ==
    ASSUME TypeInv, NEW w \in Schedulers, NEW m \in Messages, Ingest(w, m)
    PROVE  /\ TypeInv' /\ InboxGrows
           /\ run[w].tenant \in Tenants
           /\ inbox'[run[w].tenant][m].state # "NONE"
           /\ inbox'[run[w].tenant][m].body = auth[run[w].tenant].mode
           /\ \A v \in Schedulers \ {w} : run'[v] = run[v]
           /\ run'[w].pc = run[w].pc /\ run'[w].tenant = run[w].tenant
           /\ run'[w].at = run[w].at /\ run'[w].seen = run[w].seen \cup {m}
  <1> DEFINE i == run[w].tenant
             s == [run[w] EXCEPT !.seen = run[w].seen \cup {m}]
  <1>0. TypeOK /\ Slots /\ Positions
    BY DEF TypeInv
  <1>1. run[w].pc = "records" /\ ~OverBudget(w) /\ m \in Fresh(w)
        /\ Admissible(i, m, auth[i].mode) /\ inbox' = Admitted(i, m, auth[i].mode)
        /\ run' = [run EXCEPT ![w].seen = @ \cup {m}]
        /\ run[w].at < run[w].last
    BY DEF Ingest, Reading
  <1>2. i \in Tenants
    BY <1>0, <1>1, RunTyped DEF Slots
  <1>3. auth[i].mode \in Bodies
    BY <1>0, <1>2, RowTyped DEF Bodies
  <1>4. inbox \in InboxType
    BY <1>0, InboxTyped
  <1>5. inbox' \in InboxType /\ InboxGrows /\ inbox'[i][m].state # "NONE"
        /\ (inbox[i][m].state = "NONE" => inbox'[i][m].body = auth[i].mode)
    BY <1>1, <1>2, <1>3, <1>4, AdmittedGrows
  <1>6. inbox'[i][m].body = auth[i].mode
    <2>1. CASE inbox[i][m].state = "NONE"
      BY <2>1, <1>5
    <2>2. CASE inbox[i][m].state # "NONE"
      BY <2>2, <1>1, <1>2, <1>5 DEF InboxGrows, Known, Admissible
    <2> QED BY <2>1, <2>2
  <1>7. run \in [Schedulers -> RunRecord]
    BY <1>0, RunFunction
  <1>8. run[w].seen \cup {m} \in SUBSET Messages
    BY <1>0, RunTyped
  <1>9. run' = [run EXCEPT ![w] = s]
    BY <1>1, <1>7
  <1>10. s \in RunRecord
    BY <1>7, <1>8 DEF RunRecord
  <1>11. s.pc = "records" /\ s.tenant = i /\ s.at = run[w].at
         /\ s.last = run[w].last /\ s.end = run[w].end
         /\ s.seen = run[w].seen \cup {m}
    BY <1>1, <1>7 DEF RunRecord
  <1>12. Cardinality(run[w].seen \cup {m}) <= Limit
    <2>1. run[w].seen \cup Record(w) \subseteq Messages
      <3>1. run[w].at + 1 \in 1..Len(history)
        <4>1. 0 <= run[w].at /\ run[w].last <= run[w].end /\ run[w].end <= Len(history)
          BY <1>0, <1>1 DEF Positions
        <4>2. run[w].at \in Int /\ run[w].last \in Int /\ run[w].end \in Int
              /\ Len(history) \in Nat
          BY <1>0, RunTyped, HistoryTyped
        <4> QED BY <4>1, <4>2, <1>1
      <3> QED BY <3>1, <1>0, HistoryTyped, RunTyped DEF Record
    <2>2. IsFiniteSet(run[w].seen \cup Record(w))
      BY <2>1, Constants, FS_Subset
    <2>3. run[w].seen \cup {m} \subseteq run[w].seen \cup Record(w)
      BY <1>1 DEF Fresh
    <2>4. /\ IsFiniteSet(run[w].seen \cup {m})
          /\ Cardinality(run[w].seen \cup {m}) <= Cardinality(run[w].seen \cup Record(w))
      BY <2>2, <2>3, FS_Subset
    <2>5. /\ Cardinality(run[w].seen \cup {m}) \in Nat
          /\ Cardinality(run[w].seen \cup Record(w)) \in Nat
      BY <2>2, <2>4, FS_CardinalityType
    <2>6. ~(Cardinality(run[w].seen \cup Record(w)) > Limit)
      BY <1>1 DEF OverBudget
    <2> QED BY <2>4, <2>5, <2>6, Constants
  <1>13. Located(s)
    BY <1>0, <1>1, <1>11 DEF Positions, Located
  <1>14. s.tenant # NoTenant /\ s.pc # "idle"
    BY <1>2, <1>11, Constants
  <1>15. Cardinality(s.seen) <= Limit
    BY <1>11, <1>12
  <1> HIDE DEF s
  <1>16. RunsFit
    BY <1>9, <1>10, <1>11, <1>13, <1>14, <1>15, MoveTyped
  <1>17. /\ history' = history /\ kept' = kept /\ deleted' = deleted
         /\ auth' = auth /\ bound' = bound /\ origin' = origin
         /\ archive' = archive /\ stale' = stale /\ faults' = faults
    BY DEF Ingest, mailbox, authority
  <1>18. TypeOK'
    BY <1>0, <1>5, <1>16, <1>17 DEF TypeOK, RunRecord, RunsFit, InboxType
  <1>19. Slots' /\ Positions'
    BY <1>16, <1>17 DEF Slots, Positions, RunsFit
  <1>20. Origins'
    BY <1>17 DEF TypeInv, Origins, Cur
  <1>21. run'[w] = s /\ \A v \in Schedulers \ {w} : run'[v] = run[v]
    BY <1>7, <1>9
  <1> QED BY <1>1, <1>2, <1>5, <1>6, <1>11, <1>18, <1>19, <1>20, <1>21 DEF TypeInv

-----------------------------------------------------------------------------
\* The steps that change an authorization, the mailbox or where a cursor is from.
AuthType == [Tenants -> [status : {"NONE", "ACTIVE", "REVOKED"},
                         cursor : Cursors, mode : Modes]]
OriginType == [Tenants -> [own : Cursors, first : Cursors, line : SUBSET Tenants]]

LEMMA Functions ==
    ASSUME TypeOK
    PROVE  auth \in AuthType /\ origin \in OriginType
           /\ bound \in [Tenants -> SUBSET Grants] /\ archive \in [Tenants -> SUBSET Messages]
  BY DEF TypeOK, AuthType, OriginType

LEMMA FinishTyped ==
    ASSUME TypeInv, Progress, NEW w \in Schedulers, Finish(w)
    PROVE  /\ TypeInv' /\ Dropped(w)
           /\ run[w].tenant \in Tenants
           /\ auth'[run[w].tenant].cursor = run[w].at
           /\ \A j \in Tenants \ {run[w].tenant} :
                 Cur(j)' = Cur(j) /\ origin'[j] = origin[j] /\ archive'[j] = archive[j]
           /\ \A j \in Tenants : auth'[j].mode = auth[j].mode
           /\ Cur(run[w].tenant) # NoCursor =>
                 origin'[run[w].tenant] = origin[run[w].tenant]
           /\ Cur(run[w].tenant) = NoCursor =>
                 /\ origin'[run[w].tenant].own = run[w].at
                 /\ origin'[run[w].tenant].first = run[w].at
           /\ archive[run[w].tenant] \subseteq archive'[run[w].tenant]
           /\ auth[run[w].tenant].mode = "readonly" =>
                 run[w].seen \subseteq archive'[run[w].tenant]
  <1> DEFINE i == run[w].tenant
             c == run[w].at
             newborn == [own |-> c, first |-> c, line |-> {}]
  <1>0. TypeOK /\ Slots /\ Positions /\ Origins
    BY DEF TypeInv
  <1>1. /\ run[w].pc = "finish"
        /\ auth' = [auth EXCEPT ![i].cursor = c]
        /\ origin' = IF origin[i].own = NoCursor
                     THEN [origin EXCEPT ![i] = newborn] ELSE origin
        /\ archive' = [archive EXCEPT ![i] =
                           IF auth[i].mode = "readonly" THEN @ \cup run[w].seen ELSE @]
        /\ run' = [run EXCEPT ![w] = NoRun]
        /\ history' = history /\ kept' = kept /\ deleted' = deleted
        /\ bound' = bound /\ inbox' = inbox /\ stale' = stale /\ faults' = faults
    BY DEF Finish, Observed, mailbox
  <1>2. i \in Tenants
    BY <1>0, <1>1, RunTyped DEF Slots
  <1>3. c \in Cursors /\ c \in Int /\ 0 <= c /\ c <= Len(history)
        /\ run[w].seen \subseteq Messages
    BY <1>0, <1>1, RunTyped DEF Positions
  <1>4. auth \in AuthType /\ origin \in OriginType /\ archive \in [Tenants -> SUBSET Messages]
    BY <1>0, Functions
  <1>5. auth' \in AuthType
    BY <1>1, <1>2, <1>3, <1>4 DEF AuthType
  <1>6. auth'[i].cursor = c /\ auth'[i].mode = auth[i].mode
        /\ \A j \in Tenants \ {i} : auth'[j] = auth[j]
    BY <1>1, <1>2, <1>4 DEF AuthType
  <1>7. newborn \in [own : Cursors, first : Cursors, line : SUBSET Tenants]
        /\ newborn.own = c /\ newborn.first = c
    BY <1>3
  <1> HIDE DEF newborn
  <1>8. /\ origin' \in OriginType
        /\ \A j \in Tenants \ {i} : origin'[j] = origin[j]
        /\ origin[i].own # NoCursor => origin'[i] = origin[i]
        /\ origin[i].own = NoCursor => origin'[i] = newborn
    BY <1>1, <1>2, <1>4, <1>7 DEF OriginType
  <1>9. /\ archive' \in [Tenants -> SUBSET Messages]
        /\ \A j \in Tenants \ {i} : archive'[j] = archive[j]
        /\ archive[i] \subseteq archive'[i]
        /\ auth[i].mode = "readonly" => run[w].seen \subseteq archive'[i]
    <2>1. CASE auth[i].mode = "readonly"
      <3>1. archive' = [archive EXCEPT ![i] = archive[i] \cup run[w].seen]
        BY <2>1, <1>1, <1>2, <1>4
      <3> QED BY <3>1, <1>2, <1>3, <1>4
    <2>2. CASE auth[i].mode # "readonly"
      <3>1. archive' = [archive EXCEPT ![i] = archive[i]]
        BY <2>2, <1>1, <1>2, <1>4
      <3> QED BY <3>1, <2>2, <1>2, <1>4
    <2> QED BY <2>1, <2>2
  <1>10. RunsFit
    BY <1>1, NoRunTyped, MoveTyped
  <1>11. TypeOK'
    BY <1>0, <1>1, <1>5, <1>8, <1>9, <1>10
       DEF TypeOK, RunRecord, RunsFit, AuthType, OriginType
  <1>12. Slots' /\ Positions'
    BY <1>1, <1>10 DEF Slots, Positions, RunsFit
  <1>13. Cur(i) <= c
    BY <1>1 DEF Progress, Done
  <1>14. Cur(i) \in Int /\ origin[i].own \in Int /\ origin[i].first \in Int
         /\ Len(history) \in Nat
    BY <1>0, <1>2, RowTyped, HistoryTyped
  <1>15. ASSUME NEW j \in Tenants
         PROVE  /\ Cur(j)' = NoCursor <=> origin'[j].own = NoCursor
                /\ Cur(j)' # NoCursor =>
                      /\ 0 <= origin'[j].first /\ origin'[j].first <= origin'[j].own
                      /\ origin'[j].own <= Cur(j)' /\ Cur(j)' <= Len(history)
    <2>1. CASE j # i
      BY <2>1, <1>0, <1>6, <1>8 DEF Origins, Cur
    <2>2. CASE j = i /\ origin[i].own = NoCursor
      BY <2>2, <1>3, <1>6, <1>7, <1>8 DEF Cur, NoCursor
    <2>3. CASE j = i /\ origin[i].own # NoCursor
      <3>1. /\ Cur(i) # NoCursor /\ 0 <= origin[i].first
            /\ origin[i].first <= origin[i].own /\ origin[i].own <= Cur(i)
        BY <2>3, <1>0, <1>2 DEF Origins
      <3>2. Cur(j)' = c /\ origin'[j] = origin[i]
        BY <2>3, <1>6, <1>8 DEF Cur
      <3> QED BY <3>1, <3>2, <2>3, <1>3, <1>13, <1>14 DEF NoCursor
    <2> QED BY <2>1, <2>2, <2>3
  <1>16. Origins'
    BY <1>1, <1>15 DEF Origins
  <1>17. Cur(i) = NoCursor <=> origin[i].own = NoCursor
    BY <1>0, <1>2 DEF Origins
  <1>18. \A j \in Tenants \ {i} : Cur(j)' = Cur(j)
    BY <1>6 DEF Cur
  <1> QED BY <1>1, <1>2, <1>6, <1>7, <1>8, <1>9, <1>11, <1>12, <1>16, <1>17, <1>18
          DEF TypeInv, Dropped

\* A step that leaves cursors, runs and history alone.
LEMMA AuthorityTyped ==
    ASSUME TypeInv, auth' \in AuthType, bound' \in [Tenants -> SUBSET Grants],
           \A j \in Tenants : Cur(j)' = Cur(j),
           UNCHANGED <<mailbox, stored, run, stale, faults, origin>>
    PROVE  TypeInv'
  <1>1. /\ history' = history /\ kept' = kept /\ deleted' = deleted
        /\ inbox' = inbox /\ archive' = archive /\ run' = run
        /\ stale' = stale /\ faults' = faults /\ origin' = origin
    BY DEF mailbox, stored
  <1>2. TypeOK'
    BY <1>1 DEF TypeInv, TypeOK, AuthType
  <1>3. Slots' /\ Positions'
    BY <1>1 DEF TypeInv, Slots, Positions
  <1>4. Origins'
    BY <1>1 DEF TypeInv, Origins
  <1> QED BY <1>2, <1>3, <1>4 DEF TypeInv

LEMMA ConnectTyped ==
    ASSUME TypeInv, NEW i \in Tenants, NEW mode \in Modes, Connect(i, mode)
    PROVE  TypeInv' /\ \A j \in Tenants :
              Cur(j)' = Cur(j) /\ (j # i => auth'[j] = auth[j])
  <1>1. auth \in AuthType /\ bound \in [Tenants -> SUBSET Grants]
    BY Functions DEF TypeInv
  <1>2. /\ auth' = [auth EXCEPT ![i].status = "ACTIVE", ![i].mode = mode]
        /\ bound' = [bound EXCEPT ![i] = Grants]
        /\ UNCHANGED <<mailbox, stored, run, stale, faults, origin>>
    BY DEF Connect
  <1>3. auth' \in AuthType
    BY <1>1, <1>2 DEF AuthType
  <1>4. \A j \in Tenants : Cur(j)' = Cur(j) /\ (j # i => auth'[j] = auth[j])
    BY <1>1, <1>2 DEF AuthType, Cur
  <1> QED BY <1>1, <1>2, <1>3, <1>4, AuthorityTyped

LEMMA DisconnectTyped ==
    ASSUME TypeInv, NEW i \in Tenants, Disconnect(i)
    PROVE  TypeInv' /\ \A j \in Tenants : Cur(j)' = Cur(j) /\ auth'[j].mode = auth[j].mode
  <1>1. auth \in AuthType /\ bound \in [Tenants -> SUBSET Grants]
    BY Functions DEF TypeInv
  <1>2. /\ auth' = [auth EXCEPT ![i].status = "REVOKED"]
        /\ bound' = [bound EXCEPT ![i] = {}]
        /\ UNCHANGED <<mailbox, stored, run, stale, faults, origin>>
    BY DEF Disconnect
  <1>3. auth' \in AuthType
    BY <1>1, <1>2 DEF AuthType
  <1>4. \A j \in Tenants : Cur(j)' = Cur(j) /\ auth'[j].mode = auth[j].mode
    BY <1>1, <1>2 DEF AuthType, Cur
  <1> QED BY <1>1, <1>2, <1>3, <1>4, AuthorityTyped

LEMMA WithdrawTyped ==
    ASSUME TypeInv, NEW i \in Tenants, NEW grant \in Grants, Withdraw(i, grant)
    PROVE  TypeInv' /\ auth' = auth
  <1>1. auth \in AuthType /\ bound \in [Tenants -> SUBSET Grants]
    BY Functions DEF TypeInv
  <1>2. /\ bound' = [bound EXCEPT ![i] = bound[i] \ {grant}] /\ auth' = auth
        /\ UNCHANGED <<mailbox, stored, run, stale, faults, origin>>
    BY DEF Withdraw
  <1> QED BY <1>1, <1>2, AuthorityTyped DEF Cur

LEMMA HandoffTyped ==
    ASSUME TypeInv, NEW i \in Tenants, NEW j \in Tenants, Handoff(i, j)
    PROVE  /\ TypeInv'
           /\ Cur(i) # NoCursor /\ Cur(j) = NoCursor /\ Cur(j)' = Cur(i)
           /\ origin'[j].own = Cur(i) /\ origin'[j].first = origin[i].first
           /\ origin'[j].line = origin[i].line \cup {i}
           /\ \A k \in Tenants \ {j} : auth'[k] = auth[k] /\ origin'[k] = origin[k]
           /\ SlotFree(j)
           /\ history' = history /\ inbox' = inbox /\ archive' = archive /\ run' = run
  <1> DEFINE heir == [own |-> Cur(i), first |-> origin[i].first,
                      line |-> origin[i].line \cup {i}]
  <1>0. TypeOK /\ Slots /\ Positions /\ Origins
    BY DEF TypeInv
  <1>1. /\ SlotFree(j) /\ Cur(i) # NoCursor /\ Cur(j) = NoCursor
        /\ auth' = [auth EXCEPT ![j].cursor = Cur(i)]
        /\ origin' = [origin EXCEPT ![j] = heir]
        /\ history' = history /\ kept' = kept /\ deleted' = deleted /\ bound' = bound
        /\ inbox' = inbox /\ archive' = archive /\ run' = run
        /\ stale' = stale /\ faults' = faults
    BY DEF Handoff, Cur, mailbox, stored
  <1>2. auth \in AuthType /\ origin \in OriginType
    BY <1>0, Functions
  <1>3. Cur(i) \in Cursors /\ Cur(i) \in Int
    BY <1>0, RowTyped
  <1>4. auth' \in AuthType
    BY <1>1, <1>2, <1>3 DEF AuthType
  <1>5. auth'[j].cursor = Cur(i) /\ \A k \in Tenants \ {j} : auth'[k] = auth[k]
    BY <1>1, <1>2 DEF AuthType
  <1>6. /\ heir \in [own : Cursors, first : Cursors, line : SUBSET Tenants]
        /\ heir.own = Cur(i) /\ heir.first = origin[i].first
        /\ heir.line = origin[i].line \cup {i}
    BY <1>2, <1>3 DEF OriginType
  <1> HIDE DEF heir
  <1>7. origin' \in OriginType
    BY <1>1, <1>2, <1>6 DEF OriginType
  <1>8. origin'[j] = heir /\ \A k \in Tenants \ {j} : origin'[k] = origin[k]
    BY <1>1, <1>2 DEF OriginType
  <1>9. TypeOK'
    BY <1>0, <1>1, <1>4, <1>7 DEF TypeOK, AuthType, OriginType
  <1>10. Slots' /\ Positions'
    BY <1>0, <1>1 DEF Slots, Positions
  <1>11. Cur(j)' = Cur(i) /\ \A k \in Tenants \ {j} : Cur(k)' = Cur(k)
    BY <1>5 DEF Cur
  <1>12. /\ 0 <= origin[i].first /\ origin[i].first <= Cur(i) /\ Cur(i) <= Len(history)
    <2>1. /\ 0 <= origin[i].first /\ origin[i].first <= origin[i].own
          /\ origin[i].own <= Cur(i) /\ Cur(i) <= Len(history)
      BY <1>0, <1>1 DEF Origins
    <2>2. origin[i].first \in Int /\ origin[i].own \in Int
      BY <1>0, RowTyped
    <2> QED BY <2>1, <2>2, <1>3
  <1>13. ASSUME NEW k \in Tenants
         PROVE  /\ Cur(k)' = NoCursor <=> origin'[k].own = NoCursor
                /\ Cur(k)' # NoCursor =>
                      /\ 0 <= origin'[k].first /\ origin'[k].first <= origin'[k].own
                      /\ origin'[k].own <= Cur(k)' /\ Cur(k)' <= Len(history)
    <2>1. CASE k = j
      BY <2>1, <1>1, <1>3, <1>6, <1>8, <1>11, <1>12
    <2>2. CASE k # j
      BY <2>2, <1>0, <1>8, <1>11 DEF Origins
    <2> QED BY <2>1, <2>2
  <1>14. Origins'
    BY <1>1, <1>13 DEF Origins
  <1> QED BY <1>1, <1>5, <1>6, <1>8, <1>9, <1>10, <1>11, <1>14 DEF TypeInv

LEMMA ArriveTyped ==
    ASSUME TypeInv, NEW ms \in SUBSET Messages, Arrive(ms)
    PROVE  /\ TypeInv'
           /\ \A r \in 1..Len(history) : history'[r] = history[r]
           /\ auth' = auth /\ origin' = origin /\ inbox' = inbox
           /\ archive' = archive /\ run' = run
  <1>0. TypeOK /\ Slots /\ Positions /\ Origins
    BY DEF TypeInv
  <1>1. /\ history' = Append(history, ms) /\ Len(history) < MaxHistory
        /\ kept' = kept /\ deleted' = deleted /\ auth' = auth /\ bound' = bound
        /\ origin' = origin /\ inbox' = inbox /\ archive' = archive /\ run' = run
        /\ stale' = stale /\ faults' = faults
    BY DEF Arrive, authority, stored
  <1>2. history \in Seq(SUBSET Messages) /\ Len(history) \in Nat
    BY <1>0 DEF TypeOK
  <1>3. /\ history' \in Seq(SUBSET Messages) /\ Len(history') = Len(history) + 1
        /\ \A r \in 1..Len(history) : history'[r] = history[r]
    BY <1>1, <1>2
  <1>4. Len(history') <= MaxHistory /\ kept \in 0..Len(history')
    BY <1>0, <1>1, <1>2, <1>3, Constants DEF TypeOK
  <1>5. TypeOK'
    BY <1>0, <1>1, <1>3, <1>4 DEF TypeOK
  <1>6. Slots'
    BY <1>0, <1>1 DEF Slots
  <1>7. Positions'
    <2>1. \A w \in Schedulers : run[w].at \in Int /\ run[w].end \in Int
      BY <1>0, RunTyped
    <2> QED BY <2>1, <1>0, <1>1, <1>2, <1>3 DEF Positions
  <1>8. Origins'
    <2>1. \A i \in Tenants : Cur(i) \in Int
      BY <1>0, RowTyped
    <2> QED BY <2>1, <1>0, <1>1, <1>2, <1>3 DEF Origins, Cur
  <1> QED BY <1>1, <1>3, <1>5, <1>6, <1>7, <1>8 DEF TypeInv

LEMMA LossTyped ==
    ASSUME TypeInv, (\E m \in Messages : Delete(m)) \/ Expire
    PROVE  /\ TypeInv' /\ history' = history /\ run' = run
           /\ auth' = auth /\ origin' = origin /\ inbox' = inbox /\ archive' = archive
  <1>0. TypeOK /\ Slots /\ Positions /\ Origins
    BY DEF TypeInv
  <1>1. /\ history' = history /\ auth' = auth /\ bound' = bound /\ origin' = origin
        /\ inbox' = inbox /\ archive' = archive /\ run' = run /\ stale' = stale
        /\ faults < MaxFaults /\ faults' = faults + 1
    BY DEF Delete, Expire, authority, stored
  <1>2. kept' \in 0..Len(history) /\ deleted' \subseteq Messages
    BY <1>0, HistoryTyped DEF TypeOK, Delete, Expire
  <1>3. faults' \in 0..MaxFaults
    BY <1>0, <1>1, Constants DEF TypeOK
  <1>4. TypeOK'
    BY <1>0, <1>1, <1>2, <1>3 DEF TypeOK
  <1>5. Slots' /\ Positions'
    BY <1>0, <1>1 DEF Slots, Positions
  <1>6. Origins'
    BY <1>0, <1>1 DEF Origins, Cur
  <1> QED BY <1>1, <1>4, <1>5, <1>6 DEF TypeInv

-----------------------------------------------------------------------------
\* What a step leaves alone stays done, read and inherited.
LEMMA MessagesOf ==
    ASSUME TypeInv, NEW i \in Tenants, Cur(i) # NoCursor
    PROVE  /\ \A r \in (origin[i].own + 1)..Cur(i) :
                 r \in 1..Len(history) /\ history[r] \subseteq Messages
           /\ \A r \in (origin[i].first + 1)..origin[i].own :
                 r \in 1..Len(history) /\ history[r] \subseteq Messages
  <1>1. TypeOK /\ Origins
    BY DEF TypeInv
  <1>2. /\ 0 <= origin[i].first /\ origin[i].first <= origin[i].own
        /\ origin[i].own <= Cur(i) /\ Cur(i) <= Len(history)
    BY <1>1 DEF Origins
  <1>3. Cur(i) \in Int /\ origin[i].own \in Int /\ origin[i].first \in Int
    BY <1>1, RowTyped
  <1>4. Len(history) \in Nat /\ \A r \in 1..Len(history) : history[r] \subseteq Messages
    BY <1>1, HistoryTyped
  <1>5. \A r \in (origin[i].own + 1)..Cur(i) : r \in 1..Len(history)
    BY <1>2, <1>3, <1>4
  <1>6. \A r \in (origin[i].first + 1)..origin[i].own : r \in 1..Len(history)
    BY <1>2, <1>3, <1>4
  <1> QED BY <1>4, <1>5, <1>6

LEMMA AdmissionKept ==
    ASSUME TypeInv, Admission, InboxGrows, history' = history, origin' = origin,
           archive' = archive, \A j \in Tenants : Cur(j)' = Cur(j)
    PROVE  Admission'
  <1> SUFFICES ASSUME NEW i \in Tenants, Cur(i) # NoCursor
               PROVE  /\ \A r \in (origin[i].own + 1)..Cur(i) : \A m \in history[r] :
                            inbox'[i][m].state # "NONE"
                               /\ (inbox'[i][m].body = "readonly" => m \in archive[i])
                      /\ \A r \in (origin[i].first + 1)..origin[i].own :
                            \A m \in history[r] :
                               \E t \in origin[i].line : inbox'[t][m].state # "NONE"
    BY DEF Admission, Read, Inherited, Known
  <1>1. origin[i].line \subseteq Tenants
    BY RowTyped DEF TypeInv
  <1>2. Read(i) /\ Inherited(i)
    BY DEF Admission
  <1>3. ASSUME NEW r \in (origin[i].own + 1)..Cur(i), NEW m \in history[r]
        PROVE  inbox'[i][m].state # "NONE"
                  /\ (inbox'[i][m].body = "readonly" => m \in archive[i])
    <2>1. m \in Messages
      BY MessagesOf
    <2>2. Known(i, m) /\ (inbox[i][m].body = "readonly" => m \in archive[i])
      BY <1>2 DEF Read
    <2> QED BY <2>1, <2>2 DEF InboxGrows
  <1>4. ASSUME NEW r \in (origin[i].first + 1)..origin[i].own, NEW m \in history[r]
        PROVE  \E t \in origin[i].line : inbox'[t][m].state # "NONE"
    <2>1. m \in Messages
      BY MessagesOf
    <2>2. PICK t \in origin[i].line : Known(t, m)
      BY <1>2 DEF Inherited
    <2> QED BY <1>1, <2>1, <2>2 DEF InboxGrows
  <1> QED BY <1>3, <1>4

LEMMA DoneKept ==
    ASSUME TypeInv, Progress, InboxGrows, history' = history,
           NEW v \in Schedulers, run'[v] = run[v],
           run[v].pc # "idle" =>
               /\ auth'[run[v].tenant].cursor = auth[run[v].tenant].cursor
               /\ auth'[run[v].tenant].mode = auth[run[v].tenant].mode
    PROVE  Done(v)'
  <1>1. CASE run[v].pc = "idle"
    BY <1>1 DEF Done
  <1>2. CASE run[v].pc # "idle"
    <2> DEFINE i == run[v].tenant
    <2>1. i \in Tenants /\ run[v].seen \subseteq Messages
      BY <1>2, RunTyped DEF TypeInv, Slots
    <2>2. Done(v)
      BY DEF Progress
    <2>3. \A m \in run[v].seen :
             inbox'[i][m].state # "NONE" /\ inbox'[i][m].body = auth[i].mode
      BY <1>2, <2>1, <2>2 DEF Done, InboxGrows
    <2>4. auth'[i].cursor = auth[i].cursor /\ auth'[i].mode = auth[i].mode
      BY <1>2
    <2> QED BY <2>2, <2>3, <2>4 DEF Done, Cur, Known
  <1> QED BY <1>1, <1>2

\* A step of the run of w alone.
LEMMA RunKept ==
    ASSUME IntakeInv, NEW w \in Schedulers, Done(w)', NEW s,
           run' = [run EXCEPT ![w] = s], UNCHANGED <<mailbox, authority, stored>>
    PROVE  Progress' /\ Admission'
  <1>1. /\ history' = history /\ auth' = auth /\ origin' = origin
        /\ inbox' = inbox /\ archive' = archive
    BY DEF mailbox, authority, stored
  <1>2. InboxGrows
    BY <1>1, SameInbox
  <1>3. Admission'
    BY <1>1, <1>2, AdmissionKept DEF IntakeInv, Cur
  <1>4. ASSUME NEW v \in Schedulers
        PROVE  Done(v)'
    <2>1. CASE v = w
      BY <2>1
    <2>2. CASE v # w
      <3>1. run'[v] = run[v]
        BY <2>2, RunFunction DEF IntakeInv, TypeInv
      <3> QED BY <3>1, <1>1, <1>2, DoneKept DEF IntakeInv
    <2> QED BY <2>1, <2>2
  <1> QED BY <1>3, <1>4 DEF Progress

LEMMA DropInv ==
    ASSUME IntakeInv, NEW w \in Schedulers, Dropped(w),
           UNCHANGED <<mailbox, authority, stored>>
    PROVE  Progress' /\ Admission'
  <1>1. run'[w] = NoRun
    BY RunFunction DEF IntakeInv, TypeInv, Dropped
  <1>2. Done(w)'
    BY <1>1, NoRunTyped DEF Done
  <1> QED BY <1>2, RunKept DEF Dropped

LEMMA StartRunInv ==
    ASSUME IntakeInv, NEW w \in Schedulers, NEW i \in Tenants, StartRun(w, i)
    PROVE  IntakeInv'
  <1> DEFINE start == Cur(i)
             s == [pc |-> IF start = NoCursor THEN "baseline" ELSE "page",
                   tenant |-> i, at |-> start, last |-> start, end |-> start,
                   pages |-> 0, seen |-> {}]
  <1>1. run' = [run EXCEPT ![w] = s] /\ UNCHANGED <<mailbox, authority, stored>>
    BY DEF StartRun, Cur
  <1>2. s.pc = (IF start = NoCursor THEN "baseline" ELSE "page")
        /\ s.tenant = i /\ s.at = start /\ s.seen = {}
    OBVIOUS
  <1> HIDE DEF s
  <1>3. run'[w] = s
    BY <1>1, RunFunction DEF IntakeInv, TypeInv
  <1>4. auth' = auth
    BY <1>1 DEF authority
  <1>5. start \in Int /\ \A r \in (start + 1)..start : FALSE
    <2>1. start \in Int
      BY RowTyped DEF IntakeInv, TypeInv
    <2> QED BY <2>1
  <1>6. Done(w)'
    BY <1>2, <1>3, <1>4, <1>5 DEF Done, Cur
  <1>7. TypeInv'
    BY StartRunTyped DEF IntakeInv
  <1>8. Progress' /\ Admission'
    BY <1>1, <1>6, RunKept
  <1> QED BY <1>7, <1>8 DEF IntakeInv

\* A step of a run that keeps its tenant, its place and what it has seen.
LEMMA SamePlaceInv ==
    ASSUME IntakeInv, NEW w \in Schedulers, NEW s, Stepped(w, s),
           run[w].pc \in {"page", "records"},
           s.pc \in {"page", "records", "finish"}, s.at = run[w].at,
           s.seen = run[w].seen, UNCHANGED <<mailbox, authority, stored>>
    PROVE  Progress' /\ Admission'
  <1>1. run' = [run EXCEPT ![w] = s] /\ s.tenant = run[w].tenant
    BY DEF Stepped
  <1>2. run'[w] = s
    BY <1>1, RunFunction DEF IntakeInv, TypeInv
  <1>3. auth' = auth /\ inbox' = inbox /\ history' = history
    BY DEF authority, stored, mailbox
  <1>4. Done(w)
    BY DEF IntakeInv, Progress
  <1>5. Done(w)'
    BY <1>1, <1>2, <1>3, <1>4 DEF Done, Cur, Known
  <1> QED BY <1>1, <1>5, RunKept

LEMMA ReadBaselineInv ==
    ASSUME IntakeInv, NEW w \in Schedulers, ReadBaseline(w)
    PROVE  IntakeInv'
  <1> DEFINE s == AfterBaseline(w)
  <1>1. TypeInv' /\ Stepped(w, s)
    BY ReadBaselineTyped DEF IntakeInv
  <1>2. s.pc = "finish" /\ s.at = Len(history) /\ s.tenant = run[w].tenant
        /\ s.seen = run[w].seen
    BY RecordFields DEF IntakeInv, TypeInv
  <1> HIDE DEF s
  <1>3. run' = [run EXCEPT ![w] = s] /\ run'[w] = s
    BY <1>1, RunFunction DEF Stepped, IntakeInv, TypeInv
  <1>4. UNCHANGED <<mailbox, authority, stored>> /\ run[w].pc = "baseline"
    BY DEF ReadBaseline
  <1>5. auth' = auth /\ inbox' = inbox /\ history' = history
    BY <1>4 DEF authority, stored, mailbox
  <1>6. Done(w)
    BY DEF IntakeInv, Progress
  <1>7. Cur(run[w].tenant) = NoCursor
    BY <1>4, <1>6 DEF Done
  <1>8. Cur(run[w].tenant) <= Len(history)
    BY <1>7, HistoryTyped DEF NoCursor, IntakeInv, TypeInv
  <1>9. Done(w)'
    BY <1>2, <1>3, <1>4, <1>5, <1>6, <1>7, <1>8 DEF Done, Cur, Known
  <1> QED BY <1>1, <1>3, <1>4, <1>9, RunKept DEF IntakeInv

LEMMA FetchPageInv ==
    ASSUME IntakeInv, NEW w \in Schedulers, FetchPage(w)
    PROVE  IntakeInv'
  <1> DEFINE s == AfterPage(w)
  <1>1. TypeInv' /\ Stepped(w, s)
    BY FetchPageTyped DEF IntakeInv
  <1>2. s.pc = "records" /\ s.at = run[w].at /\ s.seen = run[w].seen
    BY RecordFields DEF IntakeInv, TypeInv
  <1> HIDE DEF s
  <1>3. UNCHANGED <<mailbox, authority, stored>> /\ run[w].pc = "page"
    BY DEF FetchPage
  <1> QED BY <1>1, <1>2, <1>3, SamePlaceInv DEF IntakeInv

LEMMA NextPageInv ==
    ASSUME IntakeInv, NEW w \in Schedulers, NextPage(w)
    PROVE  IntakeInv'
  <1> DEFINE s == AfterPhase(w, "page")
  <1>1. TypeInv' /\ Stepped(w, s)
    BY NextPageTyped DEF IntakeInv
  <1>2. s.pc = "page" /\ s.at = run[w].at /\ s.seen = run[w].seen
    BY RecordFields DEF IntakeInv, TypeInv
  <1> HIDE DEF s
  <1>3. UNCHANGED <<mailbox, authority, stored>> /\ run[w].pc = "records"
    BY DEF NextPage
  <1> QED BY <1>1, <1>2, <1>3, SamePlaceInv DEF IntakeInv

LEMMA StopReadingInv ==
    ASSUME IntakeInv, NEW w \in Schedulers, StopReading(w)
    PROVE  IntakeInv'
  <1> DEFINE s == AfterPhase(w, "finish")
  <1>1. TypeInv' /\ Stepped(w, s)
    BY StopReadingTyped DEF IntakeInv
  <1>2. s.pc = "finish" /\ s.at = run[w].at /\ s.seen = run[w].seen
    BY RecordFields DEF IntakeInv, TypeInv
  <1> HIDE DEF s
  <1>3. UNCHANGED <<mailbox, authority, stored>> /\ run[w].pc = "records"
    BY DEF StopReading
  <1> QED BY <1>1, <1>2, <1>3, SamePlaceInv DEF IntakeInv

\* A record is passed when every message of it has been seen.
LEMMA AdvanceRecordInv ==
    ASSUME IntakeInv, NEW w \in Schedulers, AdvanceRecord(w)
    PROVE  IntakeInv'
  <1> DEFINE s == AfterRecord(w)
             i == run[w].tenant
  <1>1. TypeInv' /\ Stepped(w, s)
    BY AdvanceRecordTyped DEF IntakeInv
  <1>2. s.pc = run[w].pc /\ s.at = run[w].at + 1 /\ s.tenant = i
        /\ s.seen = run[w].seen
    BY RecordFields DEF IntakeInv, TypeInv
  <1> HIDE DEF s
  <1>3. run' = [run EXCEPT ![w] = s] /\ run'[w] = s
    BY <1>1, RunFunction DEF Stepped, IntakeInv, TypeInv
  <1>4. /\ UNCHANGED <<mailbox, authority, stored>> /\ run[w].pc = "records"
        /\ history[run[w].at + 1] \subseteq run[w].seen
    BY DEF AdvanceRecord, Reading, Fresh, Record
  <1>5. auth' = auth /\ inbox' = inbox /\ history' = history
    BY <1>4 DEF authority, stored, mailbox
  <1>6. Done(w) /\ TypeOK /\ Slots
    BY DEF IntakeInv, Progress, TypeInv
  <1>7. i \in Tenants
    BY <1>4, <1>6, RunTyped DEF Slots
  <1>8. Cur(i) \in Int /\ run[w].at \in Int
    BY <1>6, <1>7, RowTyped, RunTyped
  <1>9. /\ Cur(i) # NoCursor /\ Cur(i) <= run[w].at
        /\ \A r \in (Cur(i) + 1)..run[w].at : history[r] \subseteq run[w].seen
        /\ \A m \in run[w].seen : Known(i, m) /\ inbox[i][m].body = auth[i].mode
    BY <1>4, <1>6 DEF Done
  <1>10. /\ Cur(i) <= run[w].at + 1
         /\ \A r \in (Cur(i) + 1)..(run[w].at + 1) : history[r] \subseteq run[w].seen
    <2>1. \A r \in (Cur(i) + 1)..(run[w].at + 1) :
             r = run[w].at + 1 \/ r \in (Cur(i) + 1)..run[w].at
      BY <1>8
    <2> QED BY <2>1, <1>4, <1>8, <1>9
  <1>11. Done(w)'
    BY <1>2, <1>3, <1>4, <1>5, <1>9, <1>10 DEF Done, Cur, Known
  <1> QED BY <1>1, <1>3, <1>4, <1>11, RunKept DEF IntakeInv

LEMMA IngestInv ==
    ASSUME IntakeInv, NEW w \in Schedulers, NEW m \in Messages, Ingest(w, m)
    PROVE  IntakeInv'
  <1> DEFINE i == run[w].tenant
  <1>1. /\ TypeInv' /\ InboxGrows /\ i \in Tenants
        /\ inbox'[i][m].state # "NONE" /\ inbox'[i][m].body = auth[i].mode
        /\ \A v \in Schedulers \ {w} : run'[v] = run[v]
        /\ run'[w].pc = run[w].pc /\ run'[w].tenant = i
        /\ run'[w].at = run[w].at /\ run'[w].seen = run[w].seen \cup {m}
    BY IngestTyped DEF IntakeInv
  <1>2. history' = history /\ auth' = auth /\ origin' = origin /\ archive' = archive
    BY DEF Ingest, mailbox, authority
  <1>3. Admission'
    BY <1>1, <1>2, AdmissionKept DEF IntakeInv, Cur
  <1>4. Done(w) /\ run[w].seen \subseteq Messages
    BY RunTyped DEF IntakeInv, Progress, TypeInv
  <1>5. run[w].pc = "records"
    BY DEF Ingest, Reading
  <1>6. \A n \in run[w].seen \cup {m} :
           inbox'[i][n].state # "NONE" /\ inbox'[i][n].body = auth[i].mode
    BY <1>1, <1>4, <1>5 DEF Done, InboxGrows
  <1>7. Done(w)'
    BY <1>1, <1>2, <1>4, <1>5, <1>6 DEF Done, Cur, Known
  <1>8. \A v \in Schedulers \ {w} : Done(v)'
    BY <1>1, <1>2, DoneKept DEF IntakeInv
  <1> QED BY <1>1, <1>3, <1>7, <1>8 DEF IntakeInv, Progress

\* A step that leaves runs and cursors alone.
LEMMA QuietInv ==
    ASSUME IntakeInv, TypeInv', InboxGrows, history' = history, origin' = origin,
           archive' = archive, run' = run,
           \A j \in Tenants : Cur(j)' = Cur(j),
           \A j \in Tenants : auth'[j].mode = auth[j].mode \/ SlotFree(j)
    PROVE  IntakeInv'
  <1>1. Admission'
    BY AdmissionKept DEF IntakeInv
  <1>2. ASSUME NEW v \in Schedulers
        PROVE  Done(v)'
    <2>1. ASSUME run[v].pc # "idle"
          PROVE  /\ auth'[run[v].tenant].cursor = auth[run[v].tenant].cursor
                 /\ auth'[run[v].tenant].mode = auth[run[v].tenant].mode
      <3>1. run[v].tenant \in Tenants
        BY <2>1, RunTyped DEF IntakeInv, TypeInv, Slots
      <3>2. ~SlotFree(run[v].tenant)
        BY DEF SlotFree
      <3> QED BY <3>1, <3>2 DEF Cur
    <2> QED BY <2>1, DoneKept DEF IntakeInv
  <1> QED BY <1>1, <1>2 DEF IntakeInv, Progress

\* The run's messages, of the records it passed, are in the inbox and archived.
LEMMA FinishInv ==
    ASSUME IntakeInv, NEW w \in Schedulers, Finish(w)
    PROVE  IntakeInv'
  <1> DEFINE i == run[w].tenant
             c == run[w].at
  <1>1. /\ TypeInv' /\ Dropped(w) /\ i \in Tenants /\ auth'[i].cursor = c
        /\ \A j \in Tenants \ {i} :
              Cur(j)' = Cur(j) /\ origin'[j] = origin[j] /\ archive'[j] = archive[j]
        /\ \A j \in Tenants : auth'[j].mode = auth[j].mode
        /\ Cur(i) # NoCursor => origin'[i] = origin[i]
        /\ Cur(i) = NoCursor => origin'[i].own = c /\ origin'[i].first = c
        /\ archive[i] \subseteq archive'[i]
        /\ auth[i].mode = "readonly" => run[w].seen \subseteq archive'[i]
    BY FinishTyped DEF IntakeInv
  <1>2. history' = history /\ inbox' = inbox /\ run[w].pc = "finish"
    BY DEF Finish, mailbox
  <1>3. InboxGrows
    BY <1>2, SameInbox
  <1>4. run \in [Schedulers -> RunRecord] /\ TypeOK /\ Slots
    BY RunFunction DEF IntakeInv, TypeInv
  <1>5. run'[w] = NoRun /\ \A v \in Schedulers \ {w} : run'[v] = run[v]
    BY <1>1, <1>4 DEF Dropped
  <1>6. ASSUME NEW v \in Schedulers
        PROVE  Done(v)'
    <2>1. CASE v = w
      BY <2>1, <1>5, NoRunTyped DEF Done
    <2>2. CASE v # w
      <3>1. ASSUME run[v].pc # "idle"
            PROVE  /\ auth'[run[v].tenant].cursor = auth[run[v].tenant].cursor
                   /\ auth'[run[v].tenant].mode = auth[run[v].tenant].mode
        <4>1. run[v].tenant \in Tenants
          BY <3>1, <1>4, RunTyped DEF Slots
        <4>2. run[v].tenant # i
          BY <3>1, <2>2, <1>4 DEF Slots
        <4> QED BY <4>1, <4>2, <1>1 DEF Cur
      <3> QED BY <3>1, <2>2, <1>2, <1>3, <1>5, DoneKept DEF IntakeInv
    <2> QED BY <2>1, <2>2
  <1>7. c \in Int /\ Cur(i) \in Int /\ origin[i].own \in Int
    BY <1>1, <1>4, RunTyped, RowTyped
  <1>8. /\ Cur(i) <= c
        /\ Cur(i) # NoCursor =>
              \A r \in (Cur(i) + 1)..c : history[r] \subseteq run[w].seen
        /\ \A m \in run[w].seen : Known(i, m) /\ inbox[i][m].body = auth[i].mode
    BY <1>2 DEF IntakeInv, Progress, Done
  <1>9. ASSUME NEW j \in Tenants
        PROVE  Read(j)' /\ Inherited(j)'
    <2>0. Read(j) /\ Inherited(j)
      BY DEF IntakeInv, Admission
    <2>1. CASE j # i
      BY <2>0, <2>1, <1>1, <1>2 DEF Read, Inherited, Known
    <2>2. CASE j = i /\ Cur(i) = NoCursor
      <3>1. Cur(j)' = c /\ origin'[j].own = c /\ origin'[j].first = c
        BY <2>2, <1>1 DEF Cur
      <3>2. \A r \in (c + 1)..c : FALSE
        BY <1>7
      <3> QED BY <3>1, <3>2 DEF Read, Inherited
    <2>3. CASE j = i /\ Cur(i) # NoCursor
      <3>1. Cur(j)' = c /\ origin'[j] = origin[i]
        BY <2>3, <1>1 DEF Cur
      <3>2. ASSUME NEW r \in (origin[i].own + 1)..c, NEW m \in history[r]
            PROVE  Known(i, m) /\ (inbox[i][m].body = "readonly" => m \in archive'[i])
        <4>1. CASE r \in (origin[i].own + 1)..Cur(i)
          BY <4>1, <2>0, <2>3, <1>1 DEF Read
        <4>2. CASE r \in (Cur(i) + 1)..c
          <5>1. m \in run[w].seen
            BY <4>2, <2>3, <1>8
          <5> QED BY <5>1, <1>1, <1>8
        <4> QED BY <4>1, <4>2, <1>7
      <3>3. Read(j)'
        BY <3>1, <3>2, <2>3, <1>2 DEF Read, Known
      <3>4. Inherited(j)'
        BY <3>1, <2>0, <2>3, <1>2 DEF Inherited, Known
      <3> QED BY <3>3, <3>4
    <2> QED BY <2>1, <2>2, <2>3
  <1> QED BY <1>1, <1>6, <1>9 DEF IntakeInv, Progress, Admission

\* The heir's line holds what its source has read and what that had inherited.
LEMMA HandoffInv ==
    ASSUME IntakeInv, NEW i \in Tenants, NEW j \in Tenants, Handoff(i, j)
    PROVE  IntakeInv'
  <1>1. /\ TypeInv'
        /\ Cur(i) # NoCursor /\ Cur(j) = NoCursor /\ Cur(j)' = Cur(i)
        /\ origin'[j].own = Cur(i) /\ origin'[j].first = origin[i].first
        /\ origin'[j].line = origin[i].line \cup {i}
        /\ \A k \in Tenants \ {j} : auth'[k] = auth[k] /\ origin'[k] = origin[k]
        /\ SlotFree(j)
        /\ history' = history /\ inbox' = inbox /\ archive' = archive /\ run' = run
    BY HandoffTyped DEF IntakeInv
  <1>2. InboxGrows
    BY <1>1, SameInbox
  <1>3. ASSUME NEW v \in Schedulers
        PROVE  Done(v)'
    <2>1. ASSUME run[v].pc # "idle"
          PROVE  auth'[run[v].tenant] = auth[run[v].tenant]
      <3>1. run[v].tenant \in Tenants
        BY <2>1, RunTyped DEF IntakeInv, TypeInv, Slots
      <3> QED BY <3>1, <1>1 DEF SlotFree
    <2> QED BY <2>1, <1>1, <1>2, DoneKept DEF IntakeInv
  <1>4. Cur(i) \in Int /\ origin[i].own \in Int /\ origin[i].first \in Int
    BY RowTyped DEF IntakeInv, TypeInv
  <1>5. ASSUME NEW k \in Tenants
        PROVE  Read(k)' /\ Inherited(k)'
    <2>1. CASE k # j
      <3>1. Read(k) /\ Inherited(k)
        BY DEF IntakeInv, Admission
      <3> QED BY <3>1, <2>1, <1>1 DEF Read, Inherited, Known, Cur
    <2>2. CASE k = j
      <3>1. Read(k)'
        <4>1. \A r \in (Cur(i) + 1)..Cur(i) : FALSE
          BY <1>4
        <4> QED BY <4>1, <2>2, <1>1 DEF Read
      <3>2. ASSUME NEW r \in (origin[i].first + 1)..Cur(i), NEW m \in history[r]
            PROVE  \E t \in origin[i].line \cup {i} : Known(t, m)
        <4>1. Read(i) /\ Inherited(i)
          BY DEF IntakeInv, Admission
        <4>2. CASE r \in (origin[i].first + 1)..origin[i].own
          BY <4>1, <4>2, <1>1 DEF Inherited
        <4>3. CASE r \in (origin[i].own + 1)..Cur(i)
          BY <4>1, <4>3, <1>1 DEF Read
        <4> QED BY <4>2, <4>3, <1>4
      <3>3. Inherited(k)'
        BY <3>2, <2>2, <1>1 DEF Inherited, Known
      <3> QED BY <3>1, <3>3
    <2> QED BY <2>1, <2>2
  <1> QED BY <1>1, <1>3, <1>5 DEF IntakeInv, Progress, Admission

\* New mail changes no record that was there.
LEMMA ArriveInv ==
    ASSUME IntakeInv, NEW ms \in SUBSET Messages, Arrive(ms)
    PROVE  IntakeInv'
  <1>1. /\ TypeInv'
        /\ \A r \in 1..Len(history) : history'[r] = history[r]
        /\ auth' = auth /\ origin' = origin /\ inbox' = inbox
        /\ archive' = archive /\ run' = run
    BY ArriveTyped DEF IntakeInv
  <1>2. ASSUME NEW v \in Schedulers
        PROVE  Done(v)'
    <2>1. Done(v)
      BY DEF IntakeInv, Progress
    <2>2. CASE run[v].pc \in {"page", "records", "finish"}
                 /\ Cur(run[v].tenant) # NoCursor
      <3>1. run[v].tenant \in Tenants /\ TypeOK /\ Positions /\ Origins
        BY <2>2, RunTyped DEF IntakeInv, TypeInv, Slots
      <3>2. /\ 0 <= Cur(run[v].tenant) /\ Cur(run[v].tenant) \in Int
            /\ run[v].at \in Int /\ run[v].at <= Len(history)
            /\ Len(history) \in Nat
        <4>1. Cur(run[v].tenant) \in Int /\ run[v].at \in Int
              /\ run[v].last \in Int /\ run[v].end \in Int
              /\ origin[run[v].tenant].own \in Int
              /\ origin[run[v].tenant].first \in Int /\ Len(history) \in Nat
          BY <3>1, RowTyped, RunTyped, HistoryTyped
        <4>2. 0 <= Cur(run[v].tenant)
          BY <4>1, <3>1, <2>2 DEF Origins
        <4>3. run[v].at <= Len(history)
          BY <4>1, <3>1, <2>2 DEF Positions
        <4> QED BY <4>1, <4>2, <4>3
      <3>3. \A r \in (Cur(run[v].tenant) + 1)..run[v].at : r \in 1..Len(history)
        BY <3>2
      <3>4. \A r \in (Cur(run[v].tenant) + 1)..run[v].at :
               history'[r] \subseteq run[v].seen
        BY <3>3, <2>1, <2>2, <1>1 DEF Done
      <3> QED BY <3>4, <2>1, <2>2, <1>1 DEF Done, Cur, Known
    <2>3. CASE ~(run[v].pc \in {"page", "records", "finish"}
                   /\ Cur(run[v].tenant) # NoCursor)
      BY <2>1, <2>3, <1>1 DEF Done, Cur, Known
    <2> QED BY <2>2, <2>3
  <1>3. ASSUME NEW i \in Tenants
        PROVE  Read(i)' /\ Inherited(i)'
    <2>1. Read(i) /\ Inherited(i)
      BY DEF IntakeInv, Admission
    <2>2. CASE Cur(i) = NoCursor
      BY <2>2, <1>1 DEF Read, Inherited, Cur
    <2>3. CASE Cur(i) # NoCursor
      <3>1. /\ \A r \in (origin[i].own + 1)..Cur(i) : history'[r] = history[r]
            /\ \A r \in (origin[i].first + 1)..origin[i].own : history'[r] = history[r]
        BY <2>3, <1>1, MessagesOf DEF IntakeInv
      <3>2. Read(i)'
        BY <3>1, <2>1, <2>3, <1>1 DEF Read, Cur, Known
      <3>3. Inherited(i)'
        BY <3>1, <2>1, <2>3, <1>1 DEF Inherited, Cur, Known
      <3> QED BY <3>2, <3>3
    <2> QED BY <2>2, <2>3
  <1> QED BY <1>1, <1>2, <1>3 DEF IntakeInv, Progress, Admission

-----------------------------------------------------------------------------
LEMMA InitInv == Init => IntakeInv
  <1> SUFFICES ASSUME Init PROVE IntakeInv
    OBVIOUS
  <1>1. 0 \in Nat /\ NoCursor \in Cursors /\ 0 \in Cursors /\ 0 \in 0..MaxPages
        /\ 0 \in 0..MaxFaults
    BY Constants DEF Cursors
  <1>2. history \in Seq(SUBSET Messages) /\ Len(history) = 0
    BY DEF Init
  <1>3. NoOrigin \in [own : Cursors, first : Cursors, line : SUBSET Tenants]
        /\ NoOrigin.own = NoCursor
    BY <1>1 DEF NoOrigin
  <1>4. Absent \in [state : {"NONE", "PENDING", "PROCESSED", "BLOCKED"}, body : Bodies]
    BY DEF Absent, Bodies
  <1>5. auth \in AuthType /\ \A i \in Tenants : Cur(i) = NoCursor
    <2>1. auth \in [Tenants -> [status : {"NONE"}, cursor : {NoCursor}, mode : Modes]]
      BY DEF Init
    <2> QED BY <2>1, <1>1 DEF AuthType, Cur
  <1>6. run = [w \in Schedulers |-> NoRun]
    BY DEF Init
  <1>7. run \in [Schedulers -> RunRecord] /\ \A w \in Schedulers : run[w] = NoRun
    BY <1>6, NoRunTyped
  <1>8. TypeOK
    <2>1. kept \in 0..Len(history) /\ deleted \subseteq Messages
          /\ Len(history) <= MaxHistory
      BY <1>2, Constants DEF Init
    <2>2. inbox \in InboxType
      BY <1>4 DEF Init, InboxType
    <2>3. origin \in OriginType
      BY <1>3 DEF Init, OriginType
    <2>4. \A w \in Schedulers : Cardinality(run[w].seen) <= Limit
      BY <1>7, NoRunTyped
    <2>5. /\ bound \in [Tenants -> SUBSET Grants] /\ archive \in [Tenants -> SUBSET Messages]
          /\ stale \in [Schedulers -> SUBSET Tenants] /\ faults \in 0..MaxFaults
      BY <1>1 DEF Init
    <2> QED BY <1>2, <1>5, <1>7, <2>1, <2>2, <2>3, <2>4, <2>5
            DEF TypeOK, AuthType, InboxType, OriginType, RunRecord
  <1>9. Slots /\ Positions
    BY <1>7, NoRunTyped DEF Slots, Positions
  <1>10. Origins
    BY <1>3, <1>5 DEF Origins, Init
  <1>11. Progress
    BY <1>7, NoRunTyped DEF Progress, Done
  <1>12. Admission
    BY <1>5 DEF Admission, Read, Inherited
  <1> QED BY <1>8, <1>9, <1>10, <1>11, <1>12 DEF IntakeInv, TypeInv

LEMMA RunStepInv ==
    ASSUME IntakeInv, NEW w \in Schedulers, RunStep(w) \/ Fault(w) \/ Restart(w)
    PROVE  IntakeInv'
  <1>1. CASE ReadBaseline(w)
    BY <1>1, ReadBaselineInv
  <1>2. CASE FetchPage(w)
    BY <1>2, FetchPageInv
  <1>3. CASE \E m \in Messages : Ingest(w, m)
    BY <1>3, IngestInv
  <1>4. CASE AdvanceRecord(w)
    BY <1>4, AdvanceRecordInv
  <1>5. CASE NextPage(w)
    BY <1>5, NextPageInv
  <1>6. CASE StopReading(w)
    BY <1>6, StopReadingInv
  <1>7. CASE Finish(w)
    BY <1>7, FinishInv
  <1>8. CASE HistoryStale(w) \/ Refuse(w) \/ Fault(w) \/ Restart(w)
    <2>1. /\ Dropped(w) /\ UNCHANGED <<mailbox, authority, stored>>
          /\ stale' \in [Schedulers -> SUBSET Tenants] /\ faults' \in 0..MaxFaults
      BY <1>8, Drops DEF IntakeInv
    <2>2. TypeInv'
      BY <2>1, DropTyped DEF IntakeInv
    <2> QED BY <2>1, <2>2, DropInv DEF IntakeInv
  <1> QED BY <1>1, <1>2, <1>3, <1>4, <1>5, <1>6, <1>7, <1>8 DEF RunStep

LEMMA InboxStepInv ==
    ASSUME IntakeInv, NEW i \in Tenants, NEW m \in Messages,
           Dispatch(i, m) \/ Poll(i, m)
    PROVE  IntakeInv'
  <1>1. TypeInv' /\ InboxGrows
    BY DispatchTyped, PollTyped DEF IntakeInv
  <1>2. history' = history /\ auth' = auth /\ origin' = origin
        /\ archive' = archive /\ run' = run
    BY DEF Dispatch, Poll, mailbox, authority
  <1> QED BY <1>1, <1>2, QuietInv DEF Cur

LEMMA PeopleInv ==
    ASSUME IntakeInv, People
    PROVE  IntakeInv'
  <1>1. ASSUME NEW i \in Tenants, NEW mode \in Modes, Connect(i, mode)
        PROVE  IntakeInv'
    <2>1. TypeInv' /\ \A j \in Tenants :
             Cur(j)' = Cur(j) /\ (j # i => auth'[j] = auth[j])
      BY <1>1, ConnectTyped DEF IntakeInv
    <2>2. /\ SlotFree(i) /\ history' = history /\ origin' = origin /\ inbox' = inbox
          /\ archive' = archive /\ run' = run
      BY <1>1 DEF Connect, mailbox, stored
    <2>3. InboxGrows
      BY <2>2, SameInbox
    <2>4. \A j \in Tenants : auth'[j].mode = auth[j].mode \/ SlotFree(j)
      BY <2>1, <2>2
    <2> QED BY <2>1, <2>2, <2>3, <2>4, QuietInv
  <1>2. ASSUME NEW i \in Tenants, Disconnect(i) \/ \E grant \in Grants : Withdraw(i, grant)
        PROVE  IntakeInv'
    <2>1. TypeInv' /\ \A j \in Tenants : Cur(j)' = Cur(j) /\ auth'[j].mode = auth[j].mode
      BY <1>2, DisconnectTyped, WithdrawTyped DEF IntakeInv, Cur
    <2>2. /\ history' = history /\ origin' = origin /\ inbox' = inbox
          /\ archive' = archive /\ run' = run
      BY <1>2 DEF Disconnect, Withdraw, mailbox, stored
    <2>3. InboxGrows
      BY <2>2, SameInbox
    <2> QED BY <2>1, <2>2, <2>3, QuietInv
  <1> QED BY <1>1, <1>2, HandoffInv, InboxStepInv DEF People

LEMMA EnvironmentInv ==
    ASSUME IntakeInv, Environment
    PROVE  IntakeInv'
  <1>1. ASSUME NEW ms \in SUBSET Messages, Arrive(ms)
        PROVE  IntakeInv'
    BY <1>1, ArriveInv
  <1>2. ASSUME (\E m \in Messages : Delete(m)) \/ Expire
        PROVE  IntakeInv'
    <2>1. TypeInv' /\ history' = history /\ run' = run
          /\ auth' = auth /\ origin' = origin /\ inbox' = inbox /\ archive' = archive
      BY <1>2, LossTyped DEF IntakeInv
    <2>2. InboxGrows
      BY <2>1, SameInbox
    <2> QED BY <2>1, <2>2, QuietInv DEF Cur
  <1> QED BY <1>1, <1>2, RunStepInv DEF Environment

LEMMA StutterInv ==
    ASSUME IntakeInv, UNCHANGED vars
    PROVE  IntakeInv'
  <1>1. /\ history' = history /\ kept' = kept /\ deleted' = deleted
        /\ auth' = auth /\ bound' = bound /\ origin' = origin /\ inbox' = inbox
        /\ archive' = archive /\ run' = run /\ stale' = stale /\ faults' = faults
    BY DEF vars
  <1>2. inbox' \in InboxType
    BY <1>1, InboxTyped DEF IntakeInv, TypeInv
  <1>3. TypeInv'
    BY <1>1, <1>2, StillTyped DEF IntakeInv, mailbox, authority
  <1>4. InboxGrows
    BY <1>1, SameInbox
  <1> QED BY <1>1, <1>3, <1>4, QuietInv DEF Cur

LEMMA StepInv == IntakeInv /\ [Next]_vars => IntakeInv'
  <1> SUFFICES ASSUME IntakeInv, [Next]_vars PROVE IntakeInv'
    OBVIOUS
  <1>1. CASE \E w \in Schedulers : RunStep(w) \/ \E i \in Tenants : StartRun(w, i)
    BY <1>1, RunStepInv, StartRunInv
  <1>2. CASE \E i \in Tenants, m \in Messages : Dispatch(i, m)
    BY <1>2, InboxStepInv
  <1>3. CASE People
    BY <1>3, PeopleInv
  <1>4. CASE Environment
    BY <1>4, EnvironmentInv
  <1>5. CASE UNCHANGED vars
    BY <1>5, StutterInv
  <1> QED BY <1>1, <1>2, <1>3, <1>4, <1>5 DEF Next

LEMMA Invariant == Spec => []IntakeInv
  BY InitInv, StepInv, PTL DEF Spec

\* Every variable keeps its type and no run ingests more than Limit messages.
THEOREM IntakeTyped == Spec => []TypeOK
  <1>1. IntakeInv => TypeOK
    BY DEF IntakeInv, TypeInv
  <1> QED BY <1>1, Invariant, PTL

\* No cursor passes a message that neither its installation nor one it came
\* through has admitted (_cycle, handoff_gmail_history_cursor).
THEOREM NothingIsSkipped == Spec => []NothingSkipped
  <1>1. IntakeInv => NothingSkipped
    BY DEF IntakeInv, Admission, Read, Inherited, NothingSkipped, Mail, Cur
  <1> QED BY <1>1, Invariant, PTL

\* A message admitted with its text is archived when the cursor passes it
\* (_cycle's finish, _live_body_observer).
THEOREM ArchiveIsComplete == Spec => []ArchiveFollows
  <1>1. IntakeInv => ArchiveFollows
    BY DEF IntakeInv, Admission, Read, ArchiveFollows, Mail, Cur
  <1> QED BY <1>1, Invariant, PTL

LEMMA CursorStep ==
    ASSUME IntakeInv, [Next]_vars, NEW i \in Tenants
    PROVE  Cur(i) <= auth'[i].cursor
  <1>0. Cur(i) \in Int
    BY RowTyped DEF IntakeInv, TypeInv
  <1>1. ASSUME auth' = auth
        PROVE  Cur(i) <= auth'[i].cursor
    BY <1>0, <1>1 DEF Cur
  <1>2. ASSUME NEW w \in Schedulers, Finish(w)
        PROVE  Cur(i) <= auth'[i].cursor
    <2>1. /\ auth'[run[w].tenant].cursor = run[w].at
          /\ \A j \in Tenants \ {run[w].tenant} : Cur(j)' = Cur(j)
      BY <1>2, FinishTyped DEF IntakeInv
    <2>2. Cur(run[w].tenant) <= run[w].at
      BY <1>2 DEF IntakeInv, Progress, Done, Finish
    <2> QED BY <2>1, <2>2, <1>0 DEF Cur
  <1>3. ASSUME NEW j \in Tenants, (\E mode \in Modes : Connect(j, mode)) \/ Disconnect(j)
        PROVE  Cur(i) <= auth'[i].cursor
    BY <1>0, <1>3, ConnectTyped, DisconnectTyped DEF IntakeInv, Cur
  <1>4. ASSUME NEW j \in Tenants, NEW k \in Tenants, Handoff(j, k)
        PROVE  Cur(i) <= auth'[i].cursor
    <2>1. /\ Cur(j) # NoCursor /\ Cur(k) = NoCursor /\ Cur(k)' = Cur(j)
          /\ \A x \in Tenants \ {k} : auth'[x] = auth[x]
      BY <1>4, HandoffTyped DEF IntakeInv
    <2>2. 0 <= Cur(j) /\ Cur(j) \in Int
      <3>1. Cur(j) \in Cursors /\ Cur(j) \in Int
        BY RowTyped DEF IntakeInv, TypeInv
      <3> QED BY <3>1, <2>1 DEF Cursors
    <2> QED BY <2>1, <2>2, <1>0 DEF Cur, NoCursor
  <1>5. CASE \E w \in Schedulers : RunStep(w) \/ \E j \in Tenants : StartRun(w, j)
    BY <1>1, <1>2, <1>5
       DEF RunStep, StartRun, ReadBaseline, FetchPage, HistoryStale, Ingest,
           AdvanceRecord, NextPage, StopReading, Refuse, authority
  <1>6. CASE \E j \in Tenants, m \in Messages : Dispatch(j, m)
    BY <1>1, <1>6 DEF Dispatch, authority
  <1>7. CASE People
    BY <1>1, <1>3, <1>4, <1>7 DEF People, Withdraw, Poll, authority
  <1>8. CASE Environment
    BY <1>1, <1>8 DEF Environment, Arrive, Delete, Expire, Fault, Restart, authority
  <1>9. CASE UNCHANGED vars
    BY <1>1, <1>9 DEF vars
  <1> QED BY <1>5, <1>6, <1>7, <1>8, <1>9 DEF Next

\* The cursor of an installation never goes back (gmail_history_id).
THEOREM CursorIsMonotone == Spec => CursorMonotone
  <1>1. IntakeInv /\ [Next]_vars
           => [\A i \in Tenants : auth[i].cursor <= auth'[i].cursor]_vars
    BY CursorStep DEF Cur
  <1> QED BY <1>1, Invariant, PTL DEF Spec, CursorMonotone
=============================================================================
