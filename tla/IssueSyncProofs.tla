-------------------------- MODULE IssueSyncProofs --------------------------
(***************************************************************************)
(* Proofs about IssueSync, for every set of issues, projects and acts: its *)
(* types; what was retired is never mirrored again; and, where no config   *)
(* edit and no hub death falls inside a rebind, the cursor never runs      *)
(* ahead of the mirror.                                                    *)
(***************************************************************************)
EXTENDS IssueSync, FiniteSetTheorems, WellFoundedInduction, TLAPS

\* A pull's answer: some issues as they stood.
Answer == UNION {[S -> Issue] : S \in SUBSET Issues}

SyncRow == [pc : Pcs, by : {"tick", "manual", "resync"}, want : Targets \cup {Nowhere}, prev : Nat,
            seen : Answer, todo : SUBSET (Issues \X BOOLEAN), live : SUBSET Issues]

Typed == TypeOK /\ sync \in SyncRow

-----------------------------------------------------------------------------
(* The invariant behind MissesNothing.                                     *)

\* The acts under which it holds: .trau.ini is edited between two syncs only, and a
\* hub that may die sees no such edit.
Settled == \A s \in Setups : "retargetLive" \notin s /\ ~({"retarget", "crash"} \subseteq s)

\* Stamps are in the past; what a project holds has one.
Stamped ==
  /\ \A i \in Issues : issue[i].upd <= clock /\ (issue[i].at # Nowhere => issue[i].upd > 0)
  /\ cursor <= clock /\ sync.prev <= clock
  /\ \A i \in DOMAIN sync.seen : sync.seen[i].upd <= clock /\ sync.seen[i].upd <= issue[i].upd

\* A sync works for the project the config names, and past its binding it is bound to it.
Aimed ==
  /\ setup \in Setups
  /\ sync.pc # "idle" => sync.want = target
  /\ sync.pc \notin {"idle", "rebind", "bind"} => bound = target
  /\ sync.pc = "bind" => bound # target
  /\ "crash" \in setup => bound \in {Nowhere, target} /\ sync.pc # "redrop"
  /\ cursor > 0 => bound # Nowhere
  /\ sync.pc \in {"bind", "pull", "upsert", "record"} => sync.prev = cursor

\* What the project held when it was last listed as of the cursor.
Old(i) == issue[i].at = bound /\ issue[i].upd <= cursor
Held(i) == row[i].held = "live" /\ row[i].body = issue[i].body

\* The mirror has all the cursor has passed, but while a rebind has still to drop it.
Complete ==
  "crash" \in setup \/ sync.pc \notin {"drop", "redrop"} =>
    (cursor > 0 => \A i \in Issues \ retired : Old(i) => Held(i))

\* An answer under way has every issue of the project that is newer than the cursor,
\* as it stands, unless it was updated after the answer was given.
Newer(i) == \A j \in DOMAIN sync.seen : sync.seen[j].upd < issue[i].upd

Answered ==
  /\ sync.pc \in {"upsert", "record"} =>
       \A i \in DOMAIN sync.seen : sync.seen[i].upd > sync.prev
  /\ sync.pc = "upsert" =>
       \A i \in Issues : issue[i].at = bound /\ issue[i].upd > sync.prev =>
         Newer(i) \/ (i \in DOMAIN sync.seen /\ sync.seen[i].body = issue[i].body)
  /\ sync.pc = "record" =>
       \A i \in Issues \ retired : issue[i].at = bound /\ issue[i].upd > sync.prev =>
         Newer(i) \/ Held(i)
  /\ sync.pc = "reconcile" => \A i \in Issues : Old(i) => i \in sync.live

Unbroken == Aimed /\ Complete /\ Answered

-----------------------------------------------------------------------------
(* Lemmas on what the actions are built from.                              *)

\* A bounded set of naturals has a greatest member.
LEMMA MaxOfBounded ==
  ASSUME NEW S, S \subseteq Nat, S # {}, NEW b \in Nat, \A x \in S : x <= b
  PROVE  Max(S) \in S /\ \A x \in S : x <= Max(S)
<1> DEFINE Above == {n \in Nat : \A x \in S : x <= n}
<1> DEFINE Below == {0..n : n \in Above}
<1>1. PICK B \in Below : \A C \in Below : ~(<<C, B>> \in StrictSubsetOrdering(Nat))
  <2>1. Below \subseteq FiniteSubsetsOf(Nat)
    <3> SUFFICES ASSUME NEW n \in Above PROVE 0..n \in FiniteSubsetsOf(Nat)
      OBVIOUS
    <3>1. n \in Int /\ 0 \in Int /\ 0..n \subseteq Nat
      OBVIOUS
    <3>2. IsFiniteSet(0..n)
      BY <3>1, FS_Interval
    <3> QED BY <3>1, <3>2 DEF FiniteSubsetsOf
  <2>2. Below # {}
    OBVIOUS
  <2> HIDE DEF Below
  <2> QED BY <2>1, <2>2, FS_StrictSubsetOrderingWellFounded, WFMin
<1>2. PICK m \in Above : B = 0..m
  OBVIOUS
<1>3. \A n \in Above : ~(n < m)
  <2> SUFFICES ASSUME NEW n \in Above, n < m PROVE FALSE
    OBVIOUS
  <2>1. 0..n \subseteq 0..m /\ 0..n # 0..m /\ 0..n \subseteq Nat /\ 0..m \subseteq Nat
    OBVIOUS
  <2>2. <<0..n, B>> \in StrictSubsetOrdering(Nat)
    BY <2>1, <1>2 DEF StrictSubsetOrdering
  <2> QED BY <2>2, <1>1
<1>4. m \in S
  <2> SUFFICES ASSUME m \notin S PROVE FALSE
    OBVIOUS
  <2>1. \A x \in S : x < m
    OBVIOUS
  <2>2. PICK x \in S : TRUE
    OBVIOUS
  <2>3. m - 1 \in Above /\ m - 1 < m
    BY <2>1, <2>2
  <2> QED BY <2>3, <1>3
<1>5. \E x \in S : \A y \in S : x >= y
  BY <1>4
<1> QED BY <1>5 DEF Max

LEMMA AnswerTyped ==
  ASSUME NEW S \in SUBSET Issues, NEW f \in [S -> Issue]
  PROVE  f \in Answer
BY DEF Answer

LEMMA AnswerIs ==
  ASSUME NEW f \in Answer
  PROVE  DOMAIN f \subseteq Issues /\ f \in [DOMAIN f -> Issue]
BY DEF Answer

LEMMA IdleTyped == Idle \in SyncRow
<1> DEFINE none == [i \in {} |-> Nowhere]
<1>1. none \in [{} -> Issue]
  OBVIOUS
<1>2. none \in Answer
  BY <1>1, AnswerTyped
<1> QED BY <1>2 DEF Idle, SyncRow, Pcs

LEMMA ReadTyped ==
  ASSUME Typed, NEW by \in {"tick", "manual", "resync"}
  PROVE  ReadState(by) \in SyncRow
BY IdleTyped DEF Typed, TypeOK, ReadState, SyncRow, Pcs

LEMMA SpendTyped ==
  ASSUME TypeOK, NEW what \in {"acts", "faults"}, Spend(what)
  PROVE  left' \in [acts : 0..MaxActs, faults : 0..MaxFaults]
BY BoundAssumption DEF TypeOK, Spend

LEMMA DoesTyped ==
  ASSUME TypeOK, NEW kind, Does(kind)
  PROVE  left' \in [acts : 0..MaxActs, faults : 0..MaxFaults]
BY SpendTyped DEF Does

LEMMA WriteTyped ==
  ASSUME TypeOK, NEW i \in Issues, NEW new \in Issue, Write(i, new)
  PROVE  issue' \in [Issues -> Issue] /\ clock' \in Nat
BY DEF TypeOK, Write, Issue

LEMMA SettleTyped ==
  ASSUME Typed, NEW ok \in BOOLEAN, NEW swept \in BOOLEAN, Settle(ok, swept)
  PROVE  sync' \in SyncRow /\ due' \in BOOLEAN /\ sweepDue' \in BOOLEAN
BY IdleTyped DEF Typed, TypeOK, Settle

LEMMA PlacedTyped ==
  ASSUME TypeOK, NEW i \in Issues, NEW add \in BOOLEAN, issue[i].at # Nowhere, Placed(i, add)
  PROVE  issue' \in [Issues -> Issue] /\ clock' \in Nat /\ row' \in [Issues -> Row]
<1>1. issue' \in [Issues -> Issue] /\ clock' \in Nat
  <2>1. issue[i] \in Issue /\ [issue[i] EXCEPT !.label = add] \in Issue
    BY DEF TypeOK, Issue
  <2> QED BY <2>1, WriteTyped DEF Placed, UpdateLabels, TypeOK, tracked
<1>2. row' \in [Issues -> Row]
  <2>1. [row[i] EXCEPT !.label = add, !.placed = add] \in Row /\ row[i] \in Row
    BY DEF TypeOK, Row
  <2>2. row' = row \/ row' = [row EXCEPT ![i] = [row[i] EXCEPT !.label = add, !.placed = add]]
    BY DEF Placed, TypeOK
  <2> QED BY <2>1, <2>2 DEF TypeOK
<1> QED BY <1>1, <1>2

\* TypeOK's clauses on sync say less than SyncRow.
LEMMA SyncRowTyped ==
  ASSUME NEW s \in SyncRow
  PROVE  /\ s.pc \in Pcs /\ s.by \in {"tick", "manual", "resync"}
         /\ s.want \in Targets \cup {Nowhere} /\ s.prev \in Nat
         /\ DOMAIN s.seen \subseteq Issues /\ \A i \in DOMAIN s.seen : s.seen[i] \in Issue
         /\ s.todo \subseteq Issues \X BOOLEAN /\ s.live \subseteq Issues
<1>1. s.seen \in Answer
  BY DEF SyncRow
<1>2. DOMAIN s.seen \subseteq Issues /\ \A i \in DOMAIN s.seen : s.seen[i] \in Issue
  BY <1>1, AnswerIs
<1> QED BY <1>2 DEF SyncRow

-----------------------------------------------------------------------------
(* Types: one step per action.                                             *)

\* Record: the cursor it sets is the latest stamp of what it saw and where it began.
LEMMA CursorIs ==
  ASSUME Typed, Stamped, Record
  PROVE  /\ cursor' \in Nat /\ cursor' <= clock /\ cursor' >= sync.prev
         /\ \A i \in DOMAIN sync.seen : sync.seen[i].upd <= cursor'
         /\ cursor' = sync.prev \/ \E i \in DOMAIN sync.seen : cursor' = sync.seen[i].upd
<1> DEFINE S == {sync.prev} \cup {sync.seen[i].upd : i \in DOMAIN sync.seen}
<1>1. S \subseteq Nat /\ S # {} /\ clock \in Nat /\ sync.prev \in S
  BY DEF Typed, TypeOK, Issue
<1>2. \A x \in S : x <= clock
  BY DEF Stamped
<1>3. \A i \in DOMAIN sync.seen : sync.seen[i].upd \in S
  OBVIOUS
<1>4. \A x \in S : x = sync.prev \/ \E i \in DOMAIN sync.seen : x = sync.seen[i].upd
  OBVIOUS
<1>5. cursor' = Max(S)
  BY DEF Record
<1> HIDE DEF S
<1>6. Max(S) \in S /\ \A x \in S : x <= Max(S)
  BY <1>1, <1>2, MaxOfBounded
<1> QED BY <1>1, <1>2, <1>3, <1>4, <1>5, <1>6

LEMMA TypedInit == Init => Typed
<1> SUFFICES ASSUME Init PROVE Typed
  OBVIOUS
<1>1. sync \in SyncRow
  BY IdleTyped DEF Init
<1>2. issue \in [Issues -> Issue]
  <2>1. ASSUME NEW t \in Targets PROVE [at |-> t, upd |-> 1, body |-> 1, label |-> FALSE] \in Issue
    BY DEF Issue
  <2>2. [at |-> Nowhere, upd |-> 0, body |-> 0, label |-> FALSE] \in Issue
    BY DEF Issue
  <2> QED BY <2>1, <2>2 DEF Init
<1>3. row \in [Issues -> Row]
  BY DEF Init, NoRow, Row
<1>4. left \in [acts : 0..MaxActs, faults : 0..MaxFaults]
  BY BoundAssumption DEF Init
<1> QED BY <1>1, <1>2, <1>3, <1>4, SyncRowTyped, TargetAssumption DEF Init, Typed, TypeOK

\* What there is to show of a step.
LEMMA TypedBy ==
  ASSUME setup' \in Setups, issue' \in [Issues -> Issue], clock' \in Nat, target' \in Targets,
         row' \in [Issues -> Row], retired' \subseteq Issues, queued' \subseteq Issues,
         bound' \in Targets \cup {Nowhere}, cursor' \in Nat, sync' \in SyncRow,
         due' \in BOOLEAN, sweepDue' \in BOOLEAN,
         left' \in [acts : 0..MaxActs, faults : 0..MaxFaults]
  PROVE  Typed'
BY SyncRowTyped DEF Typed, TypeOK

LEMMA TypedPeople == Typed /\ People => Typed'
<1> SUFFICES ASSUME Typed, People PROVE Typed'
  OBVIOUS
<1> USE DEF Typed
<1>1. ASSUME NEW i \in Issues, Edit(i) PROVE Typed'
  <2>1. [issue[i] EXCEPT !.body = clock + 1] \in Issue
    BY DEF TypeOK, Issue
  <2> QED BY <1>1, <2>1, WriteTyped, DoesTyped, TypedBy DEF Edit, TypeOK, stored, cadence
<1>2. ASSUME NEW i \in Issues, Relabel(i) PROVE Typed'
  <2>1. [issue[i] EXCEPT !.label = ~@] \in Issue
    BY DEF TypeOK, Issue
  <2> QED BY <1>2, <2>1, WriteTyped, DoesTyped, TypedBy DEF Relabel, TypeOK, stored, cadence
<1>3. ASSUME NEW i \in Issues, Retire(i) PROVE Typed'
  <2>1. row' \in [Issues -> Row]
    BY <1>3 DEF Retire, TypeOK, NoRow, Row
  <2> QED BY <1>3, <2>1, DoesTyped, TypedBy DEF Retire, TypeOK, tracked, cadence
<1>4. ASSUME NEW i \in Issues, NEW t \in Targets \cup {Nowhere}, Move(i, t) PROVE Typed'
  <2> DEFINE body == IF issue[i].body = 0 THEN clock + 1 ELSE issue[i].body
  <2>0. issue[i] \in Issue /\ body \in Nat
    BY DEF TypeOK, Issue
  <2>1. [issue[i] EXCEPT !.at = t, !.body = body] \in Issue
    <3> HIDE DEF body
    <3> QED BY <2>0 DEF Issue
  <2> QED BY <1>4, <2>1, WriteTyped, DoesTyped, TypedBy DEF Move, TypeOK, stored, cadence
<1>5. ASSUME NEW i \in Issues, NEW add \in BOOLEAN, Requeue(i, add) PROVE Typed'
  <2>1. queued' \subseteq Issues
    BY <1>5 DEF Requeue, TypeOK
  <2>2. CASE issue[i].at # Nowhere /\ Placed(i, add)
    BY <1>5, <2>1, <2>2, PlacedTyped, DoesTyped, TypedBy DEF Requeue, TypeOK, cadence
  <2>3. CASE UNCHANGED <<tracked, row>>
    BY <1>5, <2>1, <2>3, DoesTyped, TypedBy DEF Requeue, TypeOK, tracked, cadence
  <2> QED BY <1>5, <2>2, <2>3 DEF Requeue
<1>6. ASSUME NEW t \in Targets, Retarget(t) PROVE Typed'
  BY <1>6, DoesTyped, TypedBy DEF Retarget, TypeOK, tracked, stored, cadence
<1>7. ASSUME NEW by \in {"manual", "resync"}, Press(by) PROVE Typed'
  <2>1. sync' \in SyncRow
    BY <1>7, ReadTyped, IdleTyped DEF Press, Begin, SyncRow, Pcs, TypeOK
  <2> QED BY <1>7, <2>1, DoesTyped, TypedBy DEF Press, TypeOK, tracked, stored, cadence
<1> QED BY <1>1, <1>2, <1>3, <1>4, <1>5, <1>6, <1>7 DEF People

LEMMA TypedSyncs == Typed /\ Stamped /\ Syncs => Typed'
<1> SUFFICES ASSUME Typed, Stamped, Syncs PROVE Typed'
  OBVIOUS
<1> USE DEF Typed
<1>1. CASE Rebind
  BY <1>1, TypedBy DEF Rebind, TypeOK, SyncRow, Pcs, tracked, cadence
<1>2. CASE Drop
  BY <1>2, TypedBy DEF Drop, DropSynced, TypeOK, SyncRow, Pcs, NoRow, Row, tracked, cadence
<1>3. CASE Reread
  BY <1>3, TypedBy, ReadTyped DEF Reread, TypeOK, stored, tracked, cadence
<1>4. CASE Bind
  BY <1>4, TypedBy DEF Bind, TypeOK, SyncRow, Pcs, tracked, cadence
<1>5. CASE Redrop
  BY <1>5, TypedBy DEF Redrop, DropSynced, TypeOK, SyncRow, Pcs, NoRow, Row, tracked, cadence
<1>6. CASE Pull
  <2> DEFINE f == [i \in Listed(sync.want, sync.prev) |-> issue[i]]
  <2>1. f \in Answer
    <3>1. Listed(sync.want, sync.prev) \in SUBSET Issues
      BY DEF Listed
    <3>2. f \in [Listed(sync.want, sync.prev) -> Issue]
      BY <3>1 DEF TypeOK
    <3> QED BY <3>1, <3>2, AnswerTyped
  <2>2. sync' \in SyncRow
    BY <1>6, <2>1 DEF Pull, SyncRow, Pcs
  <2> QED BY <1>6, <2>2, TypedBy DEF Pull, TypeOK, stored, tracked, cadence
<1>7. CASE Upsert
  <2>1. \A i \in DOMAIN sync.seen : sync.seen[i].body \in Nat /\ sync.seen[i].label \in BOOLEAN
    BY DEF TypeOK, Issue
  <2>2. row' \in [Issues -> Row]
    BY <1>7, <2>1 DEF Upsert, TypeOK, Row
  <2> QED BY <1>7, <2>2, TypedBy DEF Upsert, TypeOK, SyncRow, Pcs, tracked, cadence
<1>8. CASE Record
  <2>1. cursor' \in Nat
    BY <1>8, CursorIs
  <2> QED BY <1>8, <2>1, TypedBy DEF Record, TypeOK, SyncRow, Pcs, tracked, cadence
<1>9. CASE Heal
  <2>1. ASSUME NEW x \in Drift PROVE x \in Issues \X BOOLEAN
    <3>1. PICK i \in Issues : x = <<i, TRUE>> \/ x = <<i, FALSE>>
      BY DEF Drift
    <3>2. <<i, TRUE>> \in Issues \X BOOLEAN /\ <<i, FALSE>> \in Issues \X BOOLEAN
      OBVIOUS
    <3> QED BY <3>1, <3>2
  <2> QED BY <1>9, <2>1, TypedBy DEF Heal, TypeOK, SyncRow, Pcs, stored, tracked, cadence
<1>10. ASSUME NEW t \in Issues \X BOOLEAN, Label(t) PROVE Typed'
  <2>1. sync' \in SyncRow
    BY <1>10 DEF Label, SyncRow, Missing
  <2>2. issue' \in [Issues -> Issue] /\ clock' \in Nat /\ row' \in [Issues -> Row]
    BY <1>10, PlacedTyped DEF Label, TypeOK, tracked
  <2>3. left' \in [acts : 0..MaxActs, faults : 0..MaxFaults]
    BY <1>10, SpendTyped DEF Label, TypeOK
  <2> QED BY <1>10, <2>1, <2>2, <2>3, TypedBy DEF Label, TypeOK, cadence
<1>11. CASE EndPull
  <2>1. sync' \in SyncRow /\ due' \in BOOLEAN /\ sweepDue' \in BOOLEAN
    <3>1. [ReadState(sync.by) EXCEPT !.pc = "look"] \in SyncRow
      BY ReadTyped DEF TypeOK, SyncRow, Pcs
    <3> QED BY <1>11, <3>1, SettleTyped DEF EndPull, TypeOK, cadence
  <2> QED BY <1>11, <2>1, TypedBy DEF EndPull, TypeOK, tracked
<1>12. CASE Look
  <2>1. sync' \in SyncRow /\ due' \in BOOLEAN /\ sweepDue' \in BOOLEAN
    <3>1. Listed(sync.want, 0) \subseteq Issues
      BY DEF Listed
    <3>2. CASE Listed(sync.want, 0) = {}
      BY <1>12, <3>2, SettleTyped DEF Look
    <3>3. CASE Listed(sync.want, 0) # {}
      BY <1>12, <3>1, <3>3 DEF Look, SyncRow, Pcs, TypeOK, cadence
    <3> QED BY <3>2, <3>3
  <2> QED BY <1>12, <2>1, TypedBy DEF Look, TypeOK, tracked, stored
<1>13. CASE Reconcile
  <2>1. row' \in [Issues -> Row]
    BY <1>13 DEF Reconcile, TypeOK, Row
  <2> QED BY <1>13, <2>1, TypedBy DEF Reconcile, TypeOK, SyncRow, Pcs, tracked, cadence
<1>14. CASE Prune
  BY <1>14, SettleTyped, TypedBy DEF Prune, TypeOK, tracked
<1> QED BY <1>1, <1>2, <1>3, <1>4, <1>5, <1>6, <1>7, <1>8, <1>9, <1>10, <1>11, <1>12, <1>13, <1>14 DEF Syncs

LEMMA TypedNext == Typed /\ Stamped /\ [Next]_vars => Typed'
<1> SUFFICES ASSUME Typed, Stamped, [Next]_vars PROVE Typed'
  OBVIOUS
<1> USE DEF Typed
<1>1. CASE Tick
  <2>1. sync' \in SyncRow
    BY <1>1, ReadTyped, IdleTyped DEF Tick, Begin
  <2> QED BY <1>1, <2>1, TypedBy DEF Tick, TypeOK, tracked, stored, cadence
<1>2. CASE Refused
  BY <1>2, SettleTyped, SpendTyped, TypedBy DEF Refused, TypeOK, tracked, stored
<1>3. CASE DueAgain
  BY <1>3, TypedBy DEF DueAgain, TypeOK, tracked, stored
<1>4. CASE SweepDueAgain
  BY <1>4, TypedBy DEF SweepDueAgain, TypeOK, tracked, stored
<1>5. CASE Crash
  BY <1>5, IdleTyped, SpendTyped, TypedBy DEF Crash, TypeOK, tracked, stored
<1>6. CASE UNCHANGED vars
  BY <1>6, TypedBy DEF vars, TypeOK, tracked, stored, cadence
<1> QED BY <1>1, <1>2, <1>3, <1>4, <1>5, <1>6, TypedSyncs, TypedPeople DEF Next

-----------------------------------------------------------------------------
(* Stamps.                                                                 *)

\* What a step may do to the tracker: nothing, or one new stamp.
Stamps == UNCHANGED tracked \/ \E i \in Issues, new \in Issue : Write(i, new)

LEMMA PlacedStamps ==
  ASSUME TypeOK, NEW i \in Issues, NEW add \in BOOLEAN, Placed(i, add)
  PROVE  Stamps
<1>1. [issue[i] EXCEPT !.label = add] \in Issue
  BY DEF TypeOK, Issue
<1> QED BY <1>1 DEF Placed, UpdateLabels, Stamps

LEMMA WriteIs ==
  ASSUME TypeOK, NEW i \in Issues, NEW new \in Issue, Write(i, new)
  PROVE  /\ clock' = clock + 1 /\ issue'[i].upd = clock + 1
         /\ \A j \in Issues : j # i => issue'[j] = issue[j]
BY DEF TypeOK, Write, Issue

LEMMA StampedBy ==
  ASSUME Typed, Stamped, Stamps, cursor' \in Nat, cursor' <= clock, sync' \in SyncRow, sync'.prev <= clock,
         \A i \in DOMAIN sync'.seen : sync'.seen[i].upd <= issue[i].upd
  PROVE  Stamped'
<1>1. clock \in Nat /\ cursor \in Nat /\ sync'.prev \in Nat /\ \A i \in Issues : issue[i].upd \in Nat
  BY DEF Typed, TypeOK, SyncRow, Issue
<1>2. DOMAIN sync'.seen \subseteq Issues /\ \A i \in DOMAIN sync'.seen : sync'.seen[i].upd \in Nat
  BY SyncRowTyped DEF Issue
<1>3. CASE UNCHANGED tracked
  BY <1>1, <1>2, <1>3 DEF Stamped, tracked
<1>4. ASSUME NEW i \in Issues, NEW new \in Issue, Write(i, new) PROVE Stamped'
  <2>1. /\ clock' = clock + 1 /\ issue'[i].upd = clock + 1
        /\ \A j \in Issues : j # i => issue'[j] = issue[j]
    BY <1>4, WriteIs DEF Typed
  <2>2. \A j \in Issues : issue'[j].upd <= clock' /\ (issue'[j].at # Nowhere => issue'[j].upd > 0)
    BY <1>1, <2>1 DEF Stamped
  <2>3. cursor' <= clock' /\ sync'.prev <= clock'
    BY <1>1, <2>1
  <2>4. \A j \in DOMAIN sync'.seen : sync'.seen[j].upd <= clock' /\ sync'.seen[j].upd <= issue'[j].upd
    BY <1>1, <1>2, <2>1 DEF Stamped
  <2> QED BY <2>2, <2>3, <2>4 DEF Stamped
<1> QED BY <1>3, <1>4 DEF Stamps

LEMMA StampedInit == Init => Stamped
BY TargetAssumption DEF Init, Stamped, Idle

LEMMA StepStamps ==
  ASSUME Typed, [Next]_vars
  PROVE  Stamps
<1>1. ASSUME NEW i \in Issues, Edit(i) \/ Relabel(i) PROVE Stamps
  <2>1. issue[i] \in Issue /\ clock + 1 \in Nat
    BY DEF Typed, TypeOK
  <2>2. [issue[i] EXCEPT !.body = clock + 1] \in Issue
    BY <2>1 DEF Issue
  <2>3. [issue[i] EXCEPT !.label = ~@] \in Issue
    BY <2>1 DEF Issue
  <2> QED BY <1>1, <2>2, <2>3 DEF Edit, Relabel, Stamps
<1>2. ASSUME NEW i \in Issues, NEW t \in Targets \cup {Nowhere}, Move(i, t) PROVE Stamps
  <2> DEFINE body == IF issue[i].body = 0 THEN clock + 1 ELSE issue[i].body
  <2>1. issue[i] \in Issue /\ body \in Nat
    BY DEF Typed, TypeOK, Issue
  <2>2. [issue[i] EXCEPT !.at = t, !.body = body] \in Issue
    <3> HIDE DEF body
    <3> QED BY <2>1 DEF Issue
  <2> QED BY <1>2, <2>2 DEF Move, Stamps
<1>3. ASSUME NEW i \in Issues, NEW add \in BOOLEAN, Requeue(i, add) PROVE Stamps
  BY <1>3, PlacedStamps DEF Requeue, Stamps, Typed
<1>4. ASSUME NEW t \in Issues \X BOOLEAN, Label(t) PROVE Stamps
  BY <1>4, PlacedStamps DEF Label, Stamps, Typed
<1>5. CASE Tick \/ Refused \/ DueAgain \/ SweepDueAgain \/ Crash \/ UNCHANGED vars
  BY <1>5 DEF Tick, Refused, DueAgain, SweepDueAgain, Crash, vars, Stamps
<1>6. CASE Rebind \/ Drop \/ Reread \/ Bind \/ Redrop \/ Pull \/ Upsert \/ Record
  BY <1>6 DEF Rebind, Drop, Reread, Bind, Redrop, Pull, Upsert, Record, Stamps
<1>7. CASE Heal \/ EndPull \/ Look \/ Reconcile \/ Prune
  BY <1>7 DEF Heal, EndPull, Look, Reconcile, Prune, Stamps
<1>8. CASE People
  BY <1>1, <1>2, <1>3, <1>8 DEF People, Retire, Retarget, Press, Stamps
<1> QED BY <1>4, <1>5, <1>6, <1>7, <1>8 DEF Next, Syncs

LEMMA StampedNext == Typed /\ Stamped /\ [Next]_vars => Stamped'
<1> SUFFICES ASSUME Typed, Stamped, [Next]_vars PROVE Stamped'
  OBVIOUS
<1>0. Typed'
  BY TypedNext
<1>a. sync' \in SyncRow /\ cursor \in Nat /\ clock \in Nat
  BY <1>0 DEF Typed, TypeOK
<1>b. cursor' \in Nat
  BY <1>0 DEF Typed, TypeOK
<1>1. Stamps
  BY StepStamps
<1>2. cursor' <= clock
  <2>1. CASE Record
    BY <2>1, CursorIs
  <2>2. cursor' = cursor \/ cursor' = 0 \/ Record
    BY DEF Next, Syncs, People, Tick, Refused, DueAgain, SweepDueAgain, Crash, vars, Rebind, Drop, Reread,
           Bind, Redrop, Pull, Upsert, Heal, Label, EndPull, Look, Reconcile, Prune, Edit, Relabel,
           Retire, Move, Requeue, Retarget, Press, DropSynced, stored
  <2> QED BY <1>a, <2>1, <2>2 DEF Stamped
<1>3. \/ sync'.prev \in {sync.prev, cursor, 0} /\ (sync'.seen = sync.seen \/ sync'.seen = Idle.seen)
      \/ Pull
  <2>1. Idle.prev = 0 /\ \A by : ReadState(by).prev = cursor /\ ReadState(by).seen = Idle.seen
    BY DEF Idle, ReadState
  <2>2. CASE Refused \/ DueAgain \/ SweepDueAgain \/ Crash \/ UNCHANGED vars
    BY <2>1, <2>2 DEF Refused, Settle, DueAgain, SweepDueAgain, Crash, vars
  <2>3. CASE Rebind \/ Drop \/ Bind \/ Redrop \/ Upsert \/ Record \/ Heal \/ Reconcile
    BY <2>3 DEF Typed, SyncRow, Rebind, Drop, Bind, Redrop, Upsert, Record, Heal, Reconcile
  <2>4. ASSUME NEW t \in Issues \X BOOLEAN, Label(t)
        PROVE sync'.prev = sync.prev /\ sync'.seen = sync.seen
    BY <2>4 DEF Label, Typed, SyncRow
  <2>5. CASE Tick \/ Reread \/ Prune
    BY <2>1, <2>5 DEF Tick, Begin, Reread, Prune, Settle
  <2>6. CASE EndPull
    <3>1. [ReadState(sync.by) EXCEPT !.pc = "look"].prev = cursor
          /\ [ReadState(sync.by) EXCEPT !.pc = "look"].seen = Idle.seen
      BY DEF ReadState, Idle
    <3> QED BY <2>1, <2>6, <3>1 DEF EndPull, Settle
  <2>7. CASE Look
    BY <2>1, <2>7 DEF Look, Settle, Typed, SyncRow
  <2>8. ASSUME NEW by \in {"manual", "resync"}, Press(by)
        PROVE sync'.prev \in {cursor, 0} /\ sync'.seen = Idle.seen
    <3>1. [Idle EXCEPT !.pc = "rebind", !.by = by, !.want = target].prev = 0
          /\ [Idle EXCEPT !.pc = "rebind", !.by = by, !.want = target].seen = Idle.seen
      BY DEF Idle
    <3> QED BY <2>1, <2>8, <3>1 DEF Press, Begin
  <2>9. CASE People
    BY <2>8, <2>9 DEF People, Edit, Relabel, Retire, Move, Requeue, Retarget
  <2> QED BY <2>2, <2>3, <2>4, <2>5, <2>6, <2>7, <2>9 DEF Next, Syncs
<1>4. CASE Pull
  <2>1. sync'.prev = sync.prev /\ sync'.seen = [i \in Listed(sync.want, sync.prev) |-> issue[i]]
    BY <1>4 DEF Pull, Typed, SyncRow
  <2>2. \A i \in DOMAIN sync'.seen : sync'.seen[i].upd <= issue[i].upd
    BY <2>1 DEF Listed, Typed, TypeOK, Issue
  <2> QED BY <1>a, <1>b, <1>1, <1>2, <2>1, <2>2, StampedBy DEF Stamped
<1>5. ASSUME sync'.prev \in {sync.prev, cursor, 0}, sync'.seen = sync.seen \/ sync'.seen = Idle.seen
      PROVE Stamped'
  <2>1. \A i \in DOMAIN sync'.seen : sync'.seen[i].upd <= issue[i].upd
    BY <1>5 DEF Stamped, Idle
  <2> QED BY <1>a, <1>b, <1>1, <1>2, <1>5, <2>1, StampedBy DEF Stamped
<1> QED BY <1>3, <1>4, <1>5

-----------------------------------------------------------------------------
(* SyncTyped and RetiredStays.                                             *)

\* The variables hold what their declarations say, a sync in flight among them.
THEOREM SyncTyped == Spec => [](Typed /\ Stamped)
<1>1. Init => Typed /\ Stamped
  BY TypedInit, StampedInit
<1>2. Typed /\ Stamped /\ [Next]_vars => (Typed /\ Stamped)'
  BY TypedNext, StampedNext
<1> QED BY <1>1, <1>2, PTL DEF Spec

\* An identifier once retired is never mirrored again, nor queued: RetiredStaysOut is
\* inductive over the types, because Upsert reads the tombstones in its transaction.
LEMMA RetiredNext == Typed /\ RetiredStaysOut /\ [Next]_vars => RetiredStaysOut'
<1> SUFFICES ASSUME Typed, RetiredStaysOut, [Next]_vars, NEW i \in retired'
             PROVE  row'[i].held = "none" /\ i \notin queued'
  BY DEF RetiredStaysOut
<1>0. retired \subseteq Issues /\ row \in [Issues -> Row]
  BY DEF Typed, TypeOK
<1>1. ASSUME NEW j \in Issues, Retire(j) PROVE row'[i].held = "none" /\ i \notin queued'
  BY <1>0, <1>1 DEF Retire, RetiredStaysOut, NoRow
<1>2. ASSUME i \in retired, row' = row, queued' \subseteq queued
      PROVE  row'[i].held = "none" /\ i \notin queued'
  BY <1>2 DEF RetiredStaysOut
<1>3. ASSUME NEW j \in Issues, NEW add \in BOOLEAN, Placed(j, add), i \in retired
      PROVE  row'[i].held = "none"
  BY <1>0, <1>3 DEF Placed, RetiredStaysOut
<1>4. ASSUME NEW j \in Issues, NEW add \in BOOLEAN, Requeue(j, add)
      PROVE  row'[i].held = "none" /\ i \notin queued'
  <2>1. i \in retired
    BY <1>4 DEF Requeue
  <2>2. i \notin queued'
    BY <1>4, <2>1 DEF Requeue, RetiredStaysOut
  <2> QED BY <1>3, <1>4, <2>1, <2>2 DEF Requeue, RetiredStaysOut
<1>5. ASSUME NEW t \in Issues \X BOOLEAN, Label(t)
      PROVE  row'[i].held = "none" /\ i \notin queued'
  BY <1>3, <1>5 DEF Label, RetiredStaysOut
<1>6. CASE Drop \/ Redrop \/ Upsert \/ Reconcile
  <2>1. i \in retired /\ i \in Issues /\ queued' = queued
    BY <1>0, <1>6 DEF Drop, Redrop, Upsert, Reconcile
  <2>2. row[i].held = "none" /\ i \notin queued
    BY <2>1 DEF RetiredStaysOut
  <2>3. CASE Drop \/ Redrop
    BY <2>1, <2>2, <2>3 DEF Drop, Redrop, DropSynced, NoRow
  <2>4. CASE Upsert
    <3>1. row'[i] = row[i]
      BY <2>1, <2>4 DEF Upsert
    <3> QED BY <2>1, <2>2, <3>1
  <2>5. CASE Reconcile
    <3>1. row'[i] = row[i]
      BY <2>1, <2>2, <2>5 DEF Reconcile
    <3> QED BY <2>1, <2>2, <3>1
  <2> QED BY <1>6, <2>3, <2>4, <2>5
<1>7. CASE Tick \/ Refused \/ DueAgain \/ SweepDueAgain \/ Crash \/ UNCHANGED vars
  BY <1>2, <1>7 DEF Tick, Refused, DueAgain, SweepDueAgain, Crash, vars, stored
<1>8. CASE Rebind \/ Reread \/ Bind \/ Pull \/ Record \/ Heal \/ EndPull \/ Look \/ Prune
  BY <1>2, <1>8 DEF Rebind, Reread, Bind, Pull, Record, Heal, EndPull, Look, Prune, stored
<1>9. CASE People
  <2>1. ASSUME NEW j \in Issues, Edit(j) \/ Relabel(j) PROVE i \in retired /\ row' = row /\ queued' = queued
    BY <2>1 DEF Edit, Relabel, stored
  <2>2. ASSUME NEW j \in Issues, NEW t \in Targets \cup {Nowhere}, Move(j, t)
        PROVE  i \in retired /\ row' = row /\ queued' = queued
    BY <2>2 DEF Move, stored
  <2>3. ASSUME NEW t \in Targets, Retarget(t) PROVE i \in retired /\ row' = row /\ queued' = queued
    BY <2>3 DEF Retarget, stored
  <2>4. ASSUME NEW by, Press(by) PROVE i \in retired /\ row' = row /\ queued' = queued
    BY <2>4 DEF Press, stored
  <2>5. \/ i \in retired /\ row' = row /\ queued' \subseteq queued
        \/ \E j \in Issues : Retire(j)
        \/ \E j \in Issues, add \in BOOLEAN : Requeue(j, add)
    BY <1>9, <2>1, <2>2, <2>3, <2>4 DEF People
  <2> QED BY <1>1, <1>2, <1>4, <2>5
<1> QED BY <1>5, <1>6, <1>7, <1>8, <1>9 DEF Next, Syncs

THEOREM RetiredStays == Spec => []RetiredStaysOut
<1>1. Init => RetiredStaysOut
  BY DEF Init, RetiredStaysOut
<1> QED BY <1>1, RetiredNext, SyncTyped, PTL DEF Spec

-----------------------------------------------------------------------------
(* MirrorMissesNothing.                                                    *)

\* Steps that leave what is stored for standing identifiers, and the sync's errand, alone;
\* the tracker may take a write: its stamp is newer than every cursor and every answer.
LEMMA QuietStep ==
  ASSUME Typed, Stamped, Unbroken, Stamps, UNCHANGED <<setup, target, bound, cursor>>,
         sync'.pc = sync.pc, sync'.want = sync.want, sync'.prev = sync.prev, sync'.seen = sync.seen,
         sync'.live = sync.live, retired \subseteq retired',
         \A i \in Issues \ retired' : row'[i].held = row[i].held /\ row'[i].body = row[i].body
  PROVE  Unbroken'
<1>1. Aimed'
  BY DEF Unbroken, Aimed
<1>2. clock \in Nat /\ cursor \in Nat /\ sync.prev \in Nat /\ \A i \in Issues : issue[i].upd \in Nat
  BY DEF Typed, TypeOK, Issue
<1>3. \A i \in DOMAIN sync.seen : sync.seen[i].upd \in Nat /\ sync.seen[i].upd <= clock
  BY DEF Typed, TypeOK, Issue, Stamped
<1>4. PICK w \in SUBSET Issues :
        /\ \A i \in Issues \ w : issue'[i] = issue[i]
        /\ \A i \in w : issue'[i].upd = clock + 1
  <2>1. CASE UNCHANGED tracked
    <3> WITNESS {} \in SUBSET Issues
    <3> QED BY <2>1 DEF tracked
  <2>2. ASSUME NEW i \in Issues, NEW new \in Issue, Write(i, new)
        PROVE  {i} \in SUBSET Issues /\ (\A j \in Issues \ {i} : issue'[j] = issue[j]) /\ (\A j \in {i} : issue'[j].upd = clock + 1)
    BY <2>2, WriteIs DEF Typed
  <2> QED BY <2>1, <2>2 DEF Stamps
<1>5. \A i \in Issues : Old(i)' => i \notin w /\ Old(i)
  BY <1>2, <1>4 DEF Old, Stamped
<1>6. \A i \in Issues \ retired' : Held(i) /\ i \notin w => Held(i)'
  BY <1>4 DEF Held
<1>7. \A i \in Issues : i \in w \/ Newer(i) => Newer(i)'
  BY <1>2, <1>3, <1>4 DEF Newer
<1>8. Complete'
  BY <1>5, <1>6 DEF Unbroken, Complete
<1>9. Answered'
  <2>1. sync'.pc \in {"upsert", "record"} => \A i \in DOMAIN sync'.seen : sync'.seen[i].upd > sync'.prev
    BY DEF Unbroken, Answered
  <2>2. ASSUME sync'.pc = "upsert", NEW i \in Issues, issue'[i].at = bound', issue'[i].upd > sync'.prev
        PROVE  Newer(i)' \/ (i \in DOMAIN sync'.seen /\ sync'.seen[i].body = issue'[i].body)
    BY <1>4, <1>7, <2>2 DEF Unbroken, Answered
  <2>3. ASSUME sync'.pc = "record", NEW i \in Issues \ retired', issue'[i].at = bound', issue'[i].upd > sync'.prev
        PROVE  Newer(i)' \/ Held(i)'
    BY <1>4, <1>6, <1>7, <2>3 DEF Unbroken, Answered
  <2>4. sync'.pc = "reconcile" => \A i \in Issues : Old(i)' => i \in sync'.live
    BY <1>5 DEF Unbroken, Answered
  <2> QED BY <2>1, <2>2, <2>3, <2>4 DEF Answered
<1> QED BY <1>1, <1>8, <1>9 DEF Unbroken

\* A sync that is let go, refused or done, leaves the mirror whole.
LEMMA IdleStep ==
  ASSUME Unbroken, UNCHANGED <<setup, target, row, retired, bound, cursor, tracked>>, sync' = Idle,
         sync.pc \notin {"drop", "redrop"} \/ "crash" \in setup
  PROVE  Unbroken'
<1>1. sync'.pc = "idle"
  BY DEF Idle
<1> QED BY <1>1 DEF Unbroken, Aimed, Complete, Answered, Old, Held, tracked

\* A sync that sets out: it reads the project the config names, and the cursor.
LEMMA ReadStep ==
  ASSUME Unbroken, UNCHANGED <<setup, target, row, retired, bound, cursor, tracked>>, TypeOK,
         NEW by, sync' = ReadState(by), sync.pc \in {"idle", "reread"}
  PROVE  Unbroken'
<1>1. sync'.pc = (IF Cached THEN "pull" ELSE "bind") /\ sync'.want = target /\ sync'.prev = cursor
  BY DEF ReadState, Idle
<1>2. Cached <=> bound = target
  BY TargetAssumption DEF Cached, TypeOK
<1> QED BY <1>1, <1>2 DEF Unbroken, Aimed, Complete, Answered, Old, Held, tracked

LEMMA PlacedKeeps ==
  ASSUME TypeOK, NEW i \in Issues, NEW add \in BOOLEAN, Placed(i, add)
  PROVE  \A j \in Issues : row'[j].held = row[j].held /\ row'[j].body = row[j].body
BY DEF Placed, TypeOK, Row

LEMMA LabelQuiet ==
  ASSUME Typed, Stamped, Unbroken, NEW t \in Issues \X BOOLEAN, Label(t)
  PROVE  Unbroken'
<1>1. /\ sync'.pc = sync.pc /\ sync'.want = sync.want /\ sync'.prev = sync.prev
      /\ sync'.seen = sync.seen /\ sync'.live = sync.live
  BY DEF Label, Typed, SyncRow
<1>2. \A j \in Issues : row'[j].held = row[j].held /\ row'[j].body = row[j].body
  BY PlacedKeeps DEF Label, Typed
<1>3. Stamps
  BY PlacedStamps DEF Label, Stamps, Typed
<1> QED BY <1>1, <1>2, <1>3, QuietStep DEF Label

LEMMA UnbrokenInit == Init => Unbroken
BY DEF Init, Idle, Unbroken, Aimed, Complete, Answered

LEMMA UnbrokenSyncs ==
  ASSUME Settled, Typed, Stamped, Unbroken, Syncs
  PROVE  Unbroken'
<1>0. sync \in SyncRow /\ target # Nowhere /\ cursor \in Nat /\ sync.prev \in Nat
      /\ (\A i \in Issues : issue[i].upd \in Nat)
  BY TargetAssumption DEF Typed, TypeOK, Issue
<1>a. \A i \in DOMAIN sync.seen : sync.seen[i].upd \in Nat
  BY DEF Typed, TypeOK, Issue
<1>1. CASE Rebind
  <2>1. sync'.pc = "drop" /\ sync'.want = sync.want /\ sync'.prev = sync.prev /\ bound' = target
    BY <1>0, <1>1 DEF Rebind, SyncRow, Unbroken, Aimed
  <2>2. UNCHANGED <<setup, tracked, target, row, retired, cursor>>
    BY <1>1 DEF Rebind
  <2>3. Aimed'
    BY <1>0, <1>1, <2>1, <2>2 DEF Rebind, Unbroken, Aimed
  <2>4. Complete'
    BY <1>1, <2>1, <2>2 DEF Rebind, Unbroken, Aimed, Complete, Old, Held, tracked
  <2> QED BY <2>1, <2>3, <2>4 DEF Unbroken, Answered
<1>2. CASE Drop \/ Redrop
  <2>1. sync'.pc \in {"reread", "pull"} /\ sync'.want = sync.want /\ cursor' = 0
        /\ (sync'.pc = "pull" => sync'.prev = 0)
    BY <1>0, <1>2 DEF Drop, Redrop, DropSynced, SyncRow
  <2>2. UNCHANGED <<setup, tracked, target, retired, bound>>
    BY <1>2 DEF Drop, Redrop
  <2>3. Aimed'
    BY <1>0, <1>2, <2>1, <2>2 DEF Drop, Redrop, Unbroken, Aimed
  <2> QED BY <2>1, <2>3 DEF Unbroken, Complete, Answered
<1>3. CASE Reread
  BY <1>3, ReadStep DEF Reread, stored, Typed
<1>4. CASE Bind
  <2>1. sync'.pc = (IF bound = Nowhere THEN "pull" ELSE "redrop") /\ sync'.want = sync.want
        /\ sync'.prev = sync.prev /\ bound' = target
    BY <1>0, <1>4 DEF Bind, SyncRow, Unbroken, Aimed
  <2>2. UNCHANGED <<setup, tracked, target, row, retired, cursor>>
    BY <1>4 DEF Bind
  <2>3. Aimed'
    BY <1>0, <1>4, <2>1, <2>2 DEF Bind, Unbroken, Aimed
  <2>4. Complete'
    BY <1>0, <1>4, <2>1, <2>2 DEF Bind, Unbroken, Aimed, Complete
  <2> QED BY <2>1, <2>3, <2>4 DEF Unbroken, Answered
<1>5. CASE Pull
  <2>1. sync'.pc = "upsert" /\ sync'.want = sync.want /\ sync'.prev = sync.prev
        /\ sync'.seen = [i \in Listed(sync.want, sync.prev) |-> issue[i]]
    BY <1>0, <1>5 DEF Pull, SyncRow
  <2>2. UNCHANGED <<setup, tracked, target, row, retired, bound, cursor>>
    BY <1>5 DEF Pull, stored
  <2>3. Aimed'
    BY <1>5, <2>1, <2>2 DEF Pull, Unbroken, Aimed
  <2>4. Complete'
    BY <1>5, <2>1, <2>2 DEF Pull, Unbroken, Complete, Old, Held, tracked
  <2>5. Answered'
    BY <1>5, <2>1, <2>2, <2>3 DEF Pull, Unbroken, Aimed, Answered, Listed, tracked
  <2> QED BY <2>3, <2>4, <2>5 DEF Unbroken
<1>6. CASE Upsert
  <2>1. sync'.pc = "record" /\ sync'.want = sync.want /\ sync'.prev = sync.prev /\ sync'.seen = sync.seen
    BY <1>0, <1>6 DEF Upsert, SyncRow
  <2>2. UNCHANGED <<setup, tracked, target, retired, bound, cursor>>
    BY <1>6 DEF Upsert
  <2>3. Aimed'
    BY <1>6, <2>1, <2>2 DEF Upsert, Unbroken, Aimed
  <2>4. ASSUME NEW i \in Issues, i \notin DOMAIN sync.seen \/ i \in retired PROVE row'[i] = row[i]
    BY <1>6, <2>4 DEF Upsert
  <2>5. ASSUME NEW i \in DOMAIN sync.seen, i \notin retired
        PROVE  row'[i].held = "live" /\ row'[i].body = sync.seen[i].body
    <3>1. i \in Issues /\ row[i] \in Row
      BY DEF Typed, TypeOK
    <3> QED BY <1>6, <2>5, <3>1 DEF Upsert, Row
  <2>6. ASSUME NEW i \in Issues, Old(i) PROVE i \notin DOMAIN sync.seen
    <3>1. sync.prev = cursor /\ \A j \in DOMAIN sync.seen : sync.seen[j].upd > cursor
      BY <1>6 DEF Upsert, Unbroken, Aimed, Answered
    <3>2. \A j \in DOMAIN sync.seen : sync.seen[j].upd <= issue[j].upd
      BY DEF Stamped
    <3> QED BY <1>0, <1>a, <2>6, <3>1, <3>2 DEF Old
  <2>7. Complete'
    BY <1>6, <2>1, <2>2, <2>4, <2>6 DEF Upsert, Unbroken, Complete, Old, Held, tracked
  <2>8. ASSUME NEW i \in Issues \ retired, issue[i].at = bound, issue[i].upd > sync.prev, ~Newer(i)
        PROVE  row'[i].held = "live" /\ row'[i].body = issue[i].body
    BY <1>6, <2>5, <2>8 DEF Upsert, Unbroken, Answered
  <2>9. Answered'
    BY <1>6, <2>1, <2>2, <2>8 DEF Upsert, Unbroken, Answered, Newer, Held, tracked
  <2> QED BY <2>3, <2>7, <2>9 DEF Unbroken
<1>7. CASE Record
  <2>1. sync'.pc = "heal" /\ sync'.want = sync.want
    BY <1>0, <1>7 DEF Record, SyncRow
  <2>2. UNCHANGED <<setup, tracked, target, row, retired, bound>>
    BY <1>7 DEF Record
  <2>3. bound = target /\ sync.prev = cursor
    BY <1>7 DEF Record, Unbroken, Aimed
  <2>4. Aimed'
    BY <1>0, <1>7, <2>1, <2>2, <2>3 DEF Record, Unbroken, Aimed
  <2>5. ASSUME NEW i \in Issues \ retired, issue[i].at = bound, issue[i].upd <= cursor'
        PROVE  Held(i)
    <3>1. cursor' \in Nat /\ (cursor' = sync.prev \/ \E j \in DOMAIN sync.seen : cursor' = sync.seen[j].upd)
      BY <1>7, CursorIs
    <3>2. issue[i].upd \in Nat /\ issue[i].upd > 0
      BY <1>0, <2>3, <2>5 DEF Stamped
    <3>3. CASE issue[i].upd <= cursor
      BY <1>0, <1>7, <2>5, <3>2, <3>3 DEF Record, Unbroken, Complete, Old
    <3>4. CASE issue[i].upd > cursor
      <4>1. ~Newer(i)
        BY <1>0, <1>a, <2>3, <2>5, <3>1, <3>2, <3>4 DEF Newer
      <4> QED BY <1>7, <2>3, <2>5, <3>4, <4>1 DEF Record, Unbroken, Answered
    <3> QED BY <1>0, <3>2, <3>3, <3>4
  <2>6. Complete'
    BY <2>2, <2>5 DEF Complete, Old, Held, tracked
  <2> QED BY <2>1, <2>4, <2>6 DEF Unbroken, Answered
<1>8. CASE Heal
  <2>1. sync'.pc = "label" /\ sync'.want = sync.want
    BY <1>0, <1>8 DEF Heal, SyncRow
  <2>2. UNCHANGED <<setup, tracked, target, row, retired, bound, cursor>>
    BY <1>8 DEF Heal, stored
  <2> QED BY <1>8, <2>1, <2>2 DEF Heal, Unbroken, Aimed, Complete, Answered, Old, Held, tracked
<1>9. ASSUME NEW t \in Issues \X BOOLEAN, Label(t) PROVE Unbroken'
  BY <1>9, LabelQuiet
<1>10. CASE EndPull
  <2>1. bound = target /\ bound' = bound
    BY <1>10 DEF EndPull, Unbroken, Aimed
  <2>2. UNCHANGED <<setup, tracked, target, row, retired, bound, cursor>>
    BY <1>10, <2>1 DEF EndPull
  <2>3. CASE sync' = Idle
    BY <1>10, <2>2, <2>3, IdleStep DEF EndPull
  <2>4. CASE sync' = [ReadState(sync.by) EXCEPT !.pc = "look"]
    <3>1. sync'.pc = "look" /\ sync'.want = target
      BY <2>4 DEF ReadState, Idle
    <3> QED BY <1>10, <2>1, <2>2, <3>1 DEF EndPull, Unbroken, Aimed, Complete, Answered, Old, Held, tracked
  <2> QED BY <1>10, <2>3, <2>4 DEF EndPull, Settle
<1>11. CASE Look
  <2>1. UNCHANGED <<setup, tracked, target, row, retired, bound, cursor>>
    BY <1>11 DEF Look, stored
  <2>2. CASE sync' = Idle
    BY <1>11, <2>1, <2>2, IdleStep DEF Look
  <2>3. CASE sync' = [sync EXCEPT !.pc = "reconcile", !.live = Listed(sync.want, 0)]
    <3>1. sync'.pc = "reconcile" /\ sync'.want = sync.want /\ sync'.live = Listed(sync.want, 0)
      BY <1>0, <2>3 DEF SyncRow
    <3>2. bound = sync.want /\ bound # Nowhere
      BY <1>0, <1>11 DEF Look, Unbroken, Aimed
    <3>3. \A i \in Issues : Old(i)' => i \in sync'.live
      BY <2>1, <3>1, <3>2 DEF Old, Listed, Stamped, tracked
    <3> QED BY <1>11, <2>1, <3>1, <3>3 DEF Look, Unbroken, Aimed, Complete, Answered, Old, Held, tracked
  <2> QED BY <1>11, <2>2, <2>3 DEF Look, Settle
<1>12. CASE Reconcile
  <2>1. sync'.pc = "prune" /\ sync'.want = sync.want
    BY <1>0, <1>12 DEF Reconcile, SyncRow
  <2>2. UNCHANGED <<setup, tracked, target, retired, bound, cursor>>
    BY <1>12 DEF Reconcile
  <2>3. ASSUME NEW i \in Issues, Old(i), Held(i) PROVE row'[i] = row[i]
    <3>1. i \in sync.live /\ row[i].held = "live"
      BY <1>12, <2>3 DEF Reconcile, Unbroken, Answered, Held
    <3> QED BY <1>12, <3>1 DEF Reconcile
  <2>4. Complete'
    BY <1>12, <2>1, <2>2, <2>3 DEF Reconcile, Unbroken, Complete, Old, Held, tracked
  <2> QED BY <1>12, <2>1, <2>2, <2>4 DEF Reconcile, Unbroken, Aimed, Answered
<1>13. CASE Prune
  BY <1>13, IdleStep DEF Prune, Settle
<1> QED BY <1>1, <1>2, <1>3, <1>4, <1>5, <1>6, <1>7, <1>8, <1>9, <1>10, <1>11, <1>12, <1>13 DEF Syncs

LEMMA UnbrokenPeople ==
  ASSUME Settled, Typed, Stamped, Unbroken, People, Stamps
  PROVE  Unbroken'
<1>0. row \in [Issues -> Row] /\ sync \in SyncRow /\ target # Nowhere
  BY TargetAssumption DEF Typed, TypeOK
<1>1. ASSUME NEW i \in Issues, Edit(i) \/ Relabel(i) PROVE Unbroken'
  BY <1>1, QuietStep DEF Edit, Relabel, stored
<1>2. ASSUME NEW i \in Issues, Retire(i) PROVE Unbroken'
  <2>1. \A j \in Issues \ retired' : row'[j] = row[j]
    BY <1>0, <1>2 DEF Retire
  <2> QED BY <1>2, <2>1, QuietStep DEF Retire
<1>3. ASSUME NEW i \in Issues, NEW t \in Targets \cup {Nowhere}, Move(i, t) PROVE Unbroken'
  BY <1>3, QuietStep DEF Move, stored
<1>4. ASSUME NEW i \in Issues, NEW add \in BOOLEAN, Requeue(i, add) PROVE Unbroken'
  BY <1>4, PlacedKeeps, QuietStep DEF Requeue, Typed
<1>5. ASSUME NEW t \in Targets, Retarget(t) PROVE Unbroken'
  <2>1. sync.pc = "idle" /\ "retarget" \in setup /\ "crash" \notin setup
    BY <1>5 DEF Retarget, Does, Settled, Unbroken, Aimed
  <2>2. UNCHANGED <<setup, row, retired, bound, cursor, sync, tracked>>
    BY <1>5 DEF Retarget, stored
  <2> QED BY <2>1, <2>2 DEF Unbroken, Aimed, Complete, Answered, Old, Held, tracked
<1>6. ASSUME NEW by \in {"manual", "resync"}, Press(by) PROVE Unbroken'
  <2>1. UNCHANGED <<setup, target, row, retired, bound, cursor, tracked>> /\ sync.pc = "idle"
    BY <1>6 DEF Press, Begin, stored
  <2>2. CASE by = "manual"
    BY <1>6, <2>1, <2>2, ReadStep DEF Press, Begin, Typed
  <2>3. CASE by = "resync"
    <3>1. sync'.pc = "rebind" /\ sync'.want = target
      BY <1>6, <2>3 DEF Press, Begin, Idle
    <3> QED BY <2>1, <3>1 DEF Unbroken, Aimed, Complete, Answered, Old, Held, tracked
  <2> QED BY <2>2, <2>3
<1> QED BY <1>1, <1>2, <1>3, <1>4, <1>5, <1>6 DEF People

LEMMA UnbrokenNext ==
  ASSUME Settled, Typed, Stamped, Unbroken, [Next]_vars
  PROVE  Unbroken'
<1>1. CASE Tick
  BY <1>1, ReadStep DEF Tick, Begin, stored, Typed
<1>2. CASE Refused
  BY <1>2, IdleStep DEF Refused, Settle, stored
<1>3. CASE Crash
  BY <1>3, IdleStep DEF Crash, stored
<1>4. CASE DueAgain \/ SweepDueAgain \/ UNCHANGED vars
  BY <1>4, QuietStep DEF DueAgain, SweepDueAgain, vars, stored, Stamps
<1>5. CASE People
  BY <1>5, StepStamps, UnbrokenPeople
<1>6. CASE Syncs
  BY <1>6, UnbrokenSyncs
<1> QED BY <1>1, <1>2, <1>3, <1>4, <1>5, <1>6 DEF Next

\* syncRepo, advanceCursor: the cursor never runs ahead of the mirror, for any issues and
\* projects and any number of acts, refused calls and deaths of the hub - as long as
\* .trau.ini is edited between two syncs, and not on a hub that dies.
THEOREM MirrorMissesNothing == ASSUME Settled PROVE Spec => []MissesNothing
<1>1. Init => Unbroken
  BY UnbrokenInit
<1>2. Typed /\ Stamped /\ Unbroken /\ [Next]_vars => Unbroken'
  BY UnbrokenNext
<1>3. Unbroken => MissesNothing
  BY DEF Unbroken, Complete, MissesNothing, Old, Held
<1> QED BY <1>1, <1>2, <1>3, SyncTyped, PTL DEF Spec
=============================================================================
