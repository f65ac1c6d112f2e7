-------------------------- MODULE QueueStoreProofs --------------------------
(***************************************************************************)
(* Proofs about QueueStore, for every set of tickets, epics, pids, batches *)
(* and skip keys.  The order lemmas say what an insertion, a removal and a *)
(* swap do to a strict total order; one lemma per group of methods then    *)
(* shows that StoreInv, the conjunction of the invariants, is inductive;   *)
(* and no write ends a run but the one that names it.                      *)
(***************************************************************************)
EXTENDS QueueStore, TLAPS

-----------------------------------------------------------------------------
(* Orders *)

\* Placing x between a down-closed part of a total order and the rest of it
\* yields a total order.
LEMMA PlaceOrder ==
  ASSUME NEW S, NEW R, NEW A \in SUBSET S, NEW x, x \notin S,
         TotalOrder(R, S),
         \A a \in A, b \in S \ A : <<a, b>> \in R
  PROVE  TotalOrder(Place(R, A, x, S \ A), S \cup {x})
<1> DEFINE P == Place(R, A, x, S \ A)
           T == S \cup {x}
<1>1. \A i, j : <<i, j>> \in P <=>
         <<i, j>> \in R \/ (i \in A /\ j = x) \/ (i = x /\ j \in S \ A)
  BY DEF Place
<1>2. P \subseteq T \X T
  BY DEF Place, TotalOrder
<1>3. \A i, j : <<i, j>> \in R => i \in S /\ j \in S
  BY DEF TotalOrder
<1>4. \A i \in T : <<i, i>> \notin P
  BY <1>1, <1>3 DEF TotalOrder
<1>5. \A i, j \in T : i = j \/ <<i, j>> \in P \/ <<j, i>> \in P
  BY <1>1 DEF TotalOrder
<1>6. ASSUME NEW i \in T, NEW j \in T, NEW k \in T, <<i, j>> \in P, <<j, k>> \in P
      PROVE  <<i, k>> \in P
  <2>1. \A u \in S : \A a \in A : <<u, a>> \in R => u \in A
    BY DEF TotalOrder
  <2>2. CASE i = x
    BY <1>1, <1>3, <1>6, <2>1, <2>2
  <2>3. CASE j = x
    BY <1>1, <1>3, <1>6, <2>3
  <2>4. CASE k = x
    BY <1>1, <1>3, <1>6, <2>1, <2>4
  <2>5. CASE i # x /\ j # x /\ k # x
    BY <1>1, <1>6, <2>5 DEF TotalOrder
  <2> QED BY <2>2, <2>3, <2>4, <2>5
<1> QED BY <1>2, <1>4, <1>5, <1>6 DEF TotalOrder

\* Dropping rows from a total order leaves a total order on the others.
LEMMA WithoutOrder ==
  ASSUME NEW R, NEW S, NEW D, TotalOrder(R, S)
  PROVE  TotalOrder({p \in R : p[1] \notin D /\ p[2] \notin D}, S \ D)
BY DEF TotalOrder

\* Swapping two neighbours of a total order leaves a total order.
LEMMA SwapOrder ==
  ASSUME NEW S, NEW R, NEW y \in S, NEW z \in S, TotalOrder(R, S),
         <<y, z>> \in R,
         \A k \in S : ~(<<y, k>> \in R /\ <<k, z>> \in R)
  PROVE  TotalOrder((R \ {<<y, z>>}) \cup {<<z, y>>}, S)
<1> DEFINE W == (R \ {<<y, z>>}) \cup {<<z, y>>}
<1>1. \A i, j : <<i, j>> \in W <=>
         (<<i, j>> \in R /\ ~(i = y /\ j = z)) \/ (i = z /\ j = y)
  OBVIOUS
<1>2. y # z
  BY DEF TotalOrder
<1>3. W \subseteq S \X S
  BY DEF TotalOrder
<1>4. \A i \in S : <<i, i>> \notin W
  BY <1>1, <1>2 DEF TotalOrder
<1>5. \A i, j \in S : i = j \/ <<i, j>> \in W \/ <<j, i>> \in W
  BY <1>1 DEF TotalOrder
<1>6. ASSUME NEW i \in S, NEW j \in S, NEW k \in S, <<i, j>> \in W, <<j, k>> \in W
      PROVE  <<i, k>> \in W
  BY <1>1, <1>2, <1>6 DEF TotalOrder
<1> QED BY <1>3, <1>4, <1>5, <1>6 DEF TotalOrder

-----------------------------------------------------------------------------
(* Steps that leave the run order and the set of queued rows alone *)

LEMMA SameOrder ==
  ASSUME OrderInv, before' = before, Queued' = Queued
  PROVE  OrderInv'
BY DEF OrderInv

\* What the type invariant says of one row.
LEMMA RowFacts ==
  ASSUME TypeOK, NEW i \in Ids
  PROVE  /\ row[i].status \in Status \cup {"absent"}
         /\ row[i].pid \in Pids \cup {NoPid}
         /\ row[i].batch \in BatchIds \cup {NoBatch}
         /\ row[i].skips \in SUBSET SkipKeys
         /\ row[i].subs \in [Ids -> SubState]
         /\ i \in Queued => row[i] \in Row
         /\ i \notin Queued => row[i] = NoRow
         /\ NoRow.status = "absent" /\ NoRow.pid = NoPid /\ NoRow.batch = NoBatch
<1>1. row[i] \in Row \/ row[i] = NoRow
  BY DEF TypeOK
<1>2. CASE row[i] \in Row
  BY <1>2 DEF Row, NoRow, Queued, Status, RunnableStatus, SettledStatus
<1>3. CASE row[i] = NoRow
  BY <1>3 DEF Row, NoRow, Queued, Status, RunnableStatus, SettledStatus, SubState
<1> QED BY <1>1, <1>2, <1>3

\* The write behind MarkRunning, Finish, MarkSkipped and Pause.
LEMMA SettleRow ==
  ASSUME StoreInv, NEW x \in Ids, x \in Queued,
         NEW s \in Status, NEW p \in Pids \cup {NoPid},
         s = "running" <=> p # NoPid,
         row' = [row EXCEPT ![x] = SettledRow(x, s, p)],
         draining' \in BOOLEAN,
         UNCHANGED <<before, scope, knobs, batches>>
  PROVE  StoreInv'
<1> USE DEF StoreInv
<1> DEFINE r == SettledRow(x, s, p)
<1>1. row[x] \in Row
  BY RowFacts
<1>2. row[x].subs \in [Ids -> SubState]
  BY RowFacts
<1>3. /\ r \in Row /\ r.status = s /\ r.pid = p /\ r.batch = row[x].batch
      /\ s = "done" => \A j \in Ids : r.subs[j] \in {"none", "done"}
  BY <1>1, <1>2 DEF SettledRow, Row, SubState
<1>4. row'[x] = r /\ \A i \in Ids \ {x} : row'[i] = row[i]
  BY DEF TypeOK
<1> HIDE DEF r
<1>5. row' = [row EXCEPT ![x] = r]
  BY DEF r
<1>6. TypeOK'
  BY <1>3, <1>5 DEF TypeOK
<1>7. Queued' = Queued
  BY <1>3, <1>4 DEF Queued, Status, RunnableStatus, SettledStatus
<1>8. OrderInv'
  BY <1>7, SameOrder
<1>9. PidInv'
  BY <1>3, <1>4 DEF PidInv, Running
<1>10. BatchInv'
  BY <1>3, <1>4 DEF BatchInv
<1>11. DoneSubsInv'
  BY <1>3, <1>4 DEF DoneSubsInv
<1> QED BY <1>6, <1>8, <1>9, <1>10, <1>11

-----------------------------------------------------------------------------
(* Registration, removal and reordering *)

LEMMA FreshRow ==
  ASSUME NEW skips \in SUBSET SkipKeys, NEW subs \in [Ids -> SubState]
  PROVE  /\ NewRow(skips, subs) \in Row
         /\ NewRow(skips, subs).status = "pending"
         /\ NewRow(skips, subs).pid = NoPid
         /\ NewRow(skips, subs).batch = NoBatch
BY DEF NewRow, NoRow, Row, Status, RunnableStatus

LEMMA SubStatesType ==
  ASSUME NEW x \in Ids, NEW S, S \subseteq SubState, NEW subs \in SubStates(x, S)
  PROVE  subs \in [Ids -> SubState]
<1>1. PICK f \in [Children[x] -> S] :
        subs = [i \in Ids |-> IF i \in Children[x] THEN f[i] ELSE "none"]
  BY DEF SubStates
<1> QED BY <1>1 DEF SubState

LEMMA AddInv ==
  ASSUME StoreInv, NEW x \in Ids, NEW skips \in SUBSET SkipKeys,
         NEW subs \in [Ids -> SubState], Add(x, skips, subs)
  PROVE  StoreInv'
<1> USE DEF StoreInv, Add
<1> DEFINE r == NewRow(skips, subs)
<1>1. /\ r \in Row /\ r.status = "pending" /\ r.pid = NoPid /\ r.batch = NoBatch
  BY FreshRow
<1>2. row' = [row EXCEPT ![x] = r]
  OBVIOUS
<1> HIDE DEF r
<1>3. row'[x] = r /\ \A i \in Ids \ {x} : row'[i] = row[i]
  BY <1>2 DEF TypeOK
<1>4. Queued' = Queued \cup {x}
  BY <1>1, <1>3 DEF Queued
<1>5. before' \subseteq Ids \X Ids
  BY DEF TypeOK, Place, Queued
<1>6. TypeOK'
  BY <1>1, <1>2, <1>5 DEF TypeOK
<1>7. OrderInv'
  <2>1. TotalOrder(Place(before, Queued, x, Queued \ Queued), Queued \cup {x})
    BY PlaceOrder DEF OrderInv
  <2>2. Queued \ Queued = {}
    OBVIOUS
  <2> QED BY <2>1, <2>2, <1>4 DEF OrderInv
<1>8. PidInv'
  BY <1>1, <1>3 DEF PidInv, Running
<1>9. BatchInv'
  BY <1>1, <1>3 DEF BatchInv
<1>10. DoneSubsInv'
  BY <1>1, <1>3 DEF DoneSubsInv
<1> QED BY <1>6, <1>7, <1>8, <1>9, <1>10

\* Bringing x to the front keeps a total order, on the same rows and x.
LEMMA ToFrontOrder ==
  ASSUME TypeOK, OrderInv, NEW x \in Ids
  PROVE  TotalOrder(ToFront(x), Queued \cup {x}) /\ ToFront(x) \subseteq Ids \X Ids
<1> DEFINE S == Queued \ {x}
           A == AheadOfRunnable(S)
           R == Without({x})
<1>1. TotalOrder(R, S)
  BY WithoutOrder DEF OrderInv, Without
<1>2. A \in SUBSET S
  BY DEF AheadOfRunnable
<1>3. ASSUME NEW a \in A, NEW b \in S \ A
      PROVE  <<a, b>> \in R
  <2>1. PICK c \in S : Runnable(c) /\ ~(b # c /\ <<b, c>> \in before)
    BY <1>3 DEF AheadOfRunnable
  <2>2. <<a, c>> \in before
    BY <1>3, <2>1 DEF AheadOfRunnable
  <2>3. b = c \/ <<c, b>> \in before
    BY <1>3, <2>1 DEF OrderInv, TotalOrder
  <2>4. <<a, b>> \in before
    BY <1>2, <1>3, <2>2, <2>3 DEF OrderInv, TotalOrder
  <2> QED BY <1>2, <1>3, <2>4 DEF Without
<1>4. TotalOrder(Place(R, A, x, S \ A), S \cup {x})
  BY <1>1, <1>2, <1>3, PlaceOrder
<1>5. S \cup {x} = Queued \cup {x}
  OBVIOUS
<1>6. ToFront(x) = Place(R, A, x, S \ A)
  BY DEF ToFront
<1>7. TotalOrder(ToFront(x), Queued \cup {x})
  BY <1>4, <1>5, <1>6
<1>8. Queued \cup {x} \subseteq Ids
  BY DEF Queued
<1>9. ToFront(x) \subseteq Ids \X Ids
  <2>1. ToFront(x) \subseteq (Queued \cup {x}) \X (Queued \cup {x})
    BY <1>7 DEF TotalOrder
  <2> QED BY <2>1, <1>8
<1> QED BY <1>7, <1>9

LEMMA AddFrontInv ==
  ASSUME StoreInv, NEW x \in Ids, NEW skips \in SUBSET SkipKeys,
         NEW subs \in [Ids -> SubState], AddFront(x, skips, subs)
  PROVE  StoreInv'
<1> USE DEF StoreInv
<1>1. PICK r \in Row :
        /\ row' = [row EXCEPT ![x] = r]
        /\ r.status \in RunnableStatus /\ r.pid = NoPid
        /\ r.batch = row[x].batch
  <2>1. CASE x \in Queued
    <3>1. row[x] \in Row /\ Runnable(x) /\ row[x].pid = NoPid
      <4>1. Runnable(x)
        BY <2>1 DEF AddFront
      <4>2. row[x].pid = NoPid
        BY <4>1 DEF PidInv, Running, Runnable, RunnableStatus
      <4>3. row[x] \in Row
        BY <2>1, RowFacts
      <4> QED BY <4>1, <4>2, <4>3
    <3>2. row' = [row EXCEPT ![x] = [row[x] EXCEPT !.skips = skips]]
      BY <2>1 DEF TypeOK, AddFront
    <3>3. [row[x] EXCEPT !.skips = skips] \in Row
      BY <3>1 DEF Row
    <3>4. /\ [row[x] EXCEPT !.skips = skips].status \in RunnableStatus
          /\ [row[x] EXCEPT !.skips = skips].pid = NoPid
          /\ [row[x] EXCEPT !.skips = skips].batch = row[x].batch
      BY <3>1 DEF Row, Runnable
    <3> QED BY <3>2, <3>3, <3>4
  <2>2. CASE x \notin Queued
    <3>1. row[x].batch = NoBatch
      BY <2>2, RowFacts
    <3> QED BY <2>2, <3>1, FreshRow DEF RunnableStatus, AddFront
  <2> QED BY <2>1, <2>2
<1>2. row'[x] = r /\ \A i \in Ids \ {x} : row'[i] = row[i]
  BY <1>1 DEF TypeOK
<1>3. r.status \notin {"absent", "running", "done"}
  BY <1>1 DEF RunnableStatus
<1>4. Queued' = Queued \cup {x}
  BY <1>2, <1>3 DEF Queued
<1>5. TypeOK'
  <2>1. before' \subseteq Ids \X Ids
    BY ToFrontOrder DEF AddFront
  <2>2. row' \in [Ids -> Row \cup {NoRow}]
    BY <1>1 DEF TypeOK
  <2> QED BY <2>1, <2>2 DEF TypeOK, AddFront
<1>6. OrderInv'
  BY <1>4, ToFrontOrder DEF OrderInv, AddFront
<1>7. PidInv'
  BY <1>1, <1>2, <1>3 DEF PidInv, Running
<1>8. BatchInv'
  BY <1>1, <1>2 DEF BatchInv, AddFront
<1>9. DoneSubsInv'
  BY <1>2, <1>3 DEF DoneSubsInv
<1> QED BY <1>5, <1>6, <1>7, <1>8, <1>9

LEMMA RemoveInv ==
  ASSUME StoreInv, NEW x \in Ids, Remove(x)
  PROVE  StoreInv'
<1> USE DEF StoreInv
<1> DEFINE r == NoRow
<1>1. r = NoRow /\ r.status = "absent" /\ r.pid = NoPid /\ r.batch = NoBatch
  BY DEF NoRow
<1>2. row' = [row EXCEPT ![x] = r]
  BY DEF Remove
<1> HIDE DEF r
<1>3. row'[x] = r /\ \A i \in Ids \ {x} : row'[i] = row[i]
  BY <1>2 DEF TypeOK
<1>4. Queued' = Queued \ {x}
  BY <1>1, <1>3 DEF Queued
<1>5. TypeOK'
  BY <1>1, <1>2 DEF TypeOK, Remove, Without
<1>6. OrderInv'
  BY <1>4, WithoutOrder DEF OrderInv, Remove, Without
<1>7. PidInv'
  BY <1>1, <1>3 DEF PidInv, Running
<1>8. BatchInv'
  BY <1>1, <1>3 DEF BatchInv, Remove
<1>9. DoneSubsInv'
  BY <1>1, <1>3 DEF DoneSubsInv
<1> QED BY <1>5, <1>6, <1>7, <1>8, <1>9

LEMMA PurgeInv ==
  ASSUME StoreInv, NEW S \in SUBSET Ids, Purge(S)
  PROVE  StoreInv'
<1> USE DEF StoreInv
<1> DEFINE subs(i) == [j \in Ids |-> IF j \in S THEN "none" ELSE row[i].subs[j]]
<1>1. NoRow.status = "absent" /\ NoRow.pid = NoPid /\ NoRow.batch = NoBatch
  BY DEF NoRow
<1>2. \A i \in Ids : row'[i] = IF i \in S THEN NoRow ELSE [row[i] EXCEPT !.subs = subs(i)]
  BY DEF Purge, PurgedRow
<1>3. ASSUME NEW i \in Ids \ S, row[i] \in Row
      PROVE  /\ row'[i] \in Row
             /\ row'[i].status = row[i].status
             /\ row'[i].pid = row[i].pid
             /\ row'[i].batch = row[i].batch
             /\ \A j \in Ids : row'[i].subs[j] \in {"none", row[i].subs[j]}
  <2>1. subs(i) \in [Ids -> SubState]
    BY <1>3 DEF Row, SubState
  <2>2. \A j \in Ids : subs(i)[j] \in {"none", row[i].subs[j]}
    OBVIOUS
  <2> HIDE DEF subs
  <2> QED BY <1>2, <1>3, <2>1, <2>2 DEF Row
<1>4. ASSUME NEW i \in Ids \ S, row[i] = NoRow
      PROVE  row'[i] = NoRow
  <2>1. subs(i) = [j \in Ids |-> "none"]
    BY <1>4 DEF NoRow
  <2> HIDE DEF subs
  <2> QED BY <1>2, <1>4, <2>1 DEF NoRow
<1> HIDE DEF subs
<1>5. \A i \in Ids : row[i] \in Row \/ row[i] = NoRow
  BY DEF TypeOK
<1>6. Queued' = Queued \ S
  BY <1>1, <1>2, <1>3, <1>4, <1>5 DEF Queued
<1>7. TypeOK'
  <2>1. row' = [i \in Ids |-> row'[i]]
    BY DEF Purge
  <2>2. \A i \in Ids : row'[i] \in Row \cup {NoRow}
    BY <1>2, <1>3, <1>4, <1>5
  <2>3. row' \in [Ids -> Row \cup {NoRow}]
    BY <2>1, <2>2
  <2> QED BY <2>3 DEF TypeOK, Purge, Without
<1>8. OrderInv'
  BY <1>6, WithoutOrder DEF OrderInv, Purge, Without
<1>9. PidInv'
  BY <1>1, <1>2, <1>3, <1>4, <1>5 DEF PidInv, Running
<1>10. BatchInv'
  BY <1>1, <1>2, <1>3, <1>4, <1>5 DEF BatchInv, Purge
<1>11. DoneSubsInv'
  <2> SUFFICES ASSUME NEW i \in Ids, row'[i].status = "done", NEW j \in Ids
               PROVE  row'[i].subs[j] \in {"none", "done"}
    BY DEF DoneSubsInv
  <2>1. i \notin S /\ row[i] \in Row
    BY <1>1, <1>2, <1>4, <1>5
  <2>2. row[i].status = "done" /\ row'[i].subs[j] \in {"none", row[i].subs[j]}
    BY <1>3, <2>1
  <2> QED BY <2>2 DEF DoneSubsInv
<1> QED BY <1>7, <1>8, <1>9, <1>10, <1>11

LEMMA PromoteInv ==
  ASSUME StoreInv, NEW x \in Ids, NEW S \in SUBSET Ids, NEW skips \in SUBSET SkipKeys,
         NEW subs \in [Ids -> SubState], Promote(x, S, skips, subs)
  PROVE  StoreInv'
<1> USE DEF StoreInv
<1> DEFINE n == NewRow(skips, subs)
           rest == Queued \ S
           A == {a \in rest : \A i \in S : <<a, i>> \in before}
<1>1. n \in Row /\ n.status = "pending" /\ n.pid = NoPid /\ n.batch = NoBatch
  BY FreshRow
<1>2. NoRow.status = "absent" /\ NoRow.pid = NoPid /\ NoRow.batch = NoBatch
  BY DEF NoRow
<1>3. row' = [i \in Ids |-> IF i = x THEN n ELSE IF i \in S THEN NoRow ELSE row[i]]
  BY DEF Promote
<1> HIDE DEF n
<1>4. \A i \in Ids : row'[i] = IF i = x THEN n ELSE IF i \in S THEN NoRow ELSE row[i]
  BY <1>3
<1>5. x \notin Queued /\ S \subseteq Queued
  BY DEF Promote, Queued
<1>6. Queued' = rest \cup {x}
  BY <1>1, <1>2, <1>4, <1>5 DEF Queued
<1>7. OrderInv'
  <2>1. TotalOrder(Without(S), rest)
    BY WithoutOrder DEF OrderInv, Without
  <2>2. A \in SUBSET rest /\ x \notin rest
    BY <1>5
  <2>3. ASSUME NEW a \in A, NEW b \in rest \ A
        PROVE  <<a, b>> \in Without(S)
    <3>1. PICK i \in S : <<b, i>> \notin before
      BY <2>3
    <3>2. <<a, i>> \in before
      BY <2>3, <3>1
    <3>3. <<i, b>> \in before
      BY <1>5, <2>3, <3>1 DEF OrderInv, TotalOrder
    <3>4. <<a, b>> \in before
      BY <1>5, <2>3, <3>2, <3>3 DEF OrderInv, TotalOrder
    <3> QED BY <2>3, <3>4 DEF Without
  <2>4. TotalOrder(Place(Without(S), A, x, rest \ A), rest \cup {x})
    BY <2>1, <2>2, <2>3, PlaceOrder
  <2>5. before' = Place(Without(S), A, x, rest \ A)
    BY DEF Promote
  <2> QED BY <1>6, <2>4, <2>5 DEF OrderInv
<1>8. TypeOK'
  <2>1. before' \subseteq Ids \X Ids
    BY <1>7 DEF OrderInv, TotalOrder, Queued
  <2>2. row' \in [Ids -> Row \cup {NoRow}]
    BY <1>1, <1>3 DEF TypeOK
  <2> QED BY <2>1, <2>2 DEF TypeOK, Promote
<1>9. PidInv'
  BY <1>1, <1>2, <1>4 DEF PidInv, Running
<1>10. BatchInv'
  BY <1>1, <1>2, <1>4 DEF BatchInv, Promote
<1>11. DoneSubsInv'
  BY <1>1, <1>2, <1>4 DEF DoneSubsInv
<1> QED BY <1>7, <1>8, <1>9, <1>10, <1>11

LEMMA MoveInv ==
  ASSUME StoreInv, NEW x \in Ids, NEW dir \in {-1, 1}, Move(x, dir)
  PROVE  StoreInv'
<1> USE DEF StoreInv
<1>1. PICK y \in Ids, z \in Ids : Adjacent(y, z) /\ before' = Swap(y, z)
  BY DEF Move
<1>2. UNCHANGED <<row, draining, scope, knobs, batches>>
  BY DEF Move
<1>3. Queued' = Queued
  BY <1>2 DEF Queued
<1>4. y \in Queued /\ z \in Queued /\ Queued \subseteq Ids
  BY <1>1 DEF Adjacent, OrderInv, TotalOrder, Queued
<1>5. TotalOrder(Swap(y, z), Queued)
  BY <1>1, <1>4, SwapOrder DEF OrderInv, Swap, Adjacent
<1>6. OrderInv'
  BY <1>1, <1>3, <1>5 DEF OrderInv
<1>7. TypeOK'
  BY <1>1, <1>2, <1>4 DEF TypeOK, Swap
<1> QED BY <1>2, <1>6, <1>7 DEF PidInv, Running, BatchInv, DoneSubsInv

LEMMA MoveToFrontInv ==
  ASSUME StoreInv, NEW x \in Ids, MoveToFront(x)
  PROVE  StoreInv'
<1> USE DEF StoreInv
<1>1. UNCHANGED <<row, draining, scope, knobs, batches>> /\ before' = ToFront(x)
  BY DEF MoveToFront
<1>2. Queued' = Queued /\ Queued \cup {x} = Queued
  BY <1>1 DEF Queued, MoveToFront, Runnable, RunnableStatus
<1>3. OrderInv'
  BY <1>1, <1>2, ToFrontOrder DEF OrderInv
<1>4. TypeOK'
  BY <1>1, ToFrontOrder DEF TypeOK
<1> QED BY <1>1, <1>3, <1>4 DEF PidInv, Running, BatchInv, DoneSubsInv

-----------------------------------------------------------------------------
(* Methods that rewrite rows where they stand *)

\* Rewriting rows in place keeps StoreInv when each row stays queued or absent,
\* keeps its pid and its batch in step, and no row becomes done with open subs.
LEMMA RewriteInv ==
  ASSUME StoreInv, before' = before,
         row' \in [Ids -> Row \cup {NoRow}],
         draining' \in BOOLEAN,
         scope' \in BatchIds \cup {NoBatch},
         knobs' \in [noResume : BOOLEAN, onFault : {"halt", "skip"}],
         batches' \subseteq BatchIds,
         \A i \in Ids :
           /\ row[i].status = "absent" <=> row'[i].status = "absent"
           /\ row'[i].pid # NoPid <=> row'[i].status = "running"
           /\ row'[i].batch # NoBatch => row'[i].batch \in batches'
           /\ row'[i].status = "done" => \A j \in Ids : row'[i].subs[j] \in {"none", "done"}
  PROVE  StoreInv'
<1>1. Queued' = Queued
  BY DEF Queued
<1>2. OrderInv'
  BY <1>1, SameOrder DEF StoreInv
<1>3. TypeOK'
  BY DEF StoreInv, TypeOK
<1> QED BY <1>2, <1>3 DEF StoreInv, PidInv, Running, BatchInv, DoneSubsInv

LEMMA ArmScopeInv ==
  ASSUME StoreInv, NEW b \in BatchIds \cup {NoBatch}, NEW k \in Knobs,
         NEW skips \in SUBSET SkipKeys, ArmScope(b, k, skips)
  PROVE  StoreInv'
<1> USE DEF StoreInv
<1>1. \A i \in Ids : row'[i] = ArmedRow(i, b, k.noResume, skips)
  BY DEF ArmScope
<1>2. ASSUME NEW i \in Ids
      PROVE  /\ row'[i] \in Row \cup {NoRow}
             /\ row[i].status = "absent" <=> row'[i].status = "absent"
             /\ row'[i].pid # NoPid <=> row'[i].status = "running"
             /\ row'[i].batch = row[i].batch
             /\ row'[i].status = "done" => row[i].status = "done" /\ row'[i].subs = row[i].subs
  <2> DEFINE r == Restarted(i, b, k.noResume)
  <2>1. row[i].pid # NoPid <=> row[i].status = "running"
    BY DEF PidInv, Running
  <2>2. /\ r \in Row \cup {NoRow}
        /\ row[i].status = "absent" <=> r.status = "absent"
        /\ r.pid # NoPid <=> r.status = "running"
        /\ r.batch = row[i].batch
        /\ r.subs = row[i].subs
        /\ r.status = "done" => row[i].status = "done"
    <3>1. CASE k.noResume /\ InScope(i, b) /\ ~Running(i)
      <4>1. row[i] \in Row /\ row[i].status # "absent"
        BY <3>1, RowFacts DEF InScope, Queued
      <4>2. r = [row[i] EXCEPT !.status = "pending", !.pid = NoPid]
        BY <3>1 DEF Restarted
      <4> QED BY <4>1, <4>2 DEF Row, Status, RunnableStatus
    <3>2. CASE ~(k.noResume /\ InScope(i, b) /\ ~Running(i))
      BY <2>1, <3>2 DEF Restarted, TypeOK
    <3> QED BY <3>1, <3>2
  <2>3. row'[i] = IF InScope(i, b) /\ r.status \in RunnableStatus
                  THEN [r EXCEPT !.skips = @ \cup skips] ELSE r
    BY <1>1 DEF ArmedRow
  <2> HIDE DEF r
  <2>4. CASE InScope(i, b) /\ r.status \in RunnableStatus
    <3>1. r \in Row
      BY <2>2, <2>4 DEF RunnableStatus, NoRow
    <3> QED BY <2>2, <2>3, <2>4, <3>1 DEF Row
  <2>5. CASE ~(InScope(i, b) /\ r.status \in RunnableStatus)
    BY <2>2, <2>3, <2>5
  <2> QED BY <2>4, <2>5
<1>3. row' \in [Ids -> Row \cup {NoRow}]
  BY <1>2 DEF ArmScope
<1>4. /\ before' = before /\ batches' = batches
      /\ draining' \in BOOLEAN /\ scope' \in BatchIds \cup {NoBatch}
      /\ knobs' \in [noResume : BOOLEAN, onFault : {"halt", "skip"}]
  BY KnobsAssumption DEF ArmScope
<1> QED BY <1>2, <1>3, <1>4, RewriteInv DEF BatchInv, DoneSubsInv, TypeOK

LEMMA RequeueInv ==
  ASSUME StoreInv, NEW t \in Ids, Requeue(t)
  PROVE  StoreInv'
<1> USE DEF StoreInv
<1>1. ASSUME NEW i \in Ids
      PROVE  /\ row'[i] \in Row \cup {NoRow}
             /\ row[i].status = "absent" <=> row'[i].status = "absent"
             /\ row'[i].pid # NoPid <=> row'[i].status = "running"
             /\ row'[i].batch = row[i].batch
             /\ row'[i].status = "done" => \A j \in Ids : row'[i].subs[j] \in {"none", "done"}
  <2> DEFINE subs == [row[i].subs EXCEPT ![t] = IF @ = "quarantined" THEN "todo" ELSE @]
  <2>1. row'[i] = IF i = t /\ row[i].status = "failed"
                  THEN [row[i] EXCEPT !.status = "pending", !.pid = NoPid, !.subs = subs]
                  ELSE [row[i] EXCEPT !.subs = subs]
    BY DEF Requeue, RequeuedRow
  <2>2. row[i].subs \in [Ids -> SubState]
    BY RowFacts
  <2>3. subs \in [Ids -> SubState]
    BY <2>2 DEF SubState
  <2>4. row[i].status = "done" => subs = row[i].subs
    BY <2>2 DEF DoneSubsInv
  <2>5. row[i].status = "done" => \A j \in Ids : subs[j] \in {"none", "done"}
    BY <2>4 DEF DoneSubsInv
  <2>6. row[i].pid # NoPid <=> row[i].status = "running"
    BY DEF PidInv, Running
  <2>7. i \notin Queued => subs = NoRow.subs
    BY RowFacts DEF NoRow
  <2> HIDE DEF subs
  <2>8. CASE i \in Queued
    <3>1. row[i] \in Row /\ row[i].status # "absent"
      BY <2>8, RowFacts DEF Queued
    <3>2. CASE i = t /\ row[i].status = "failed"
      <4>1. row'[i] = [row[i] EXCEPT !.status = "pending", !.pid = NoPid, !.subs = subs]
        BY <2>1, <3>2
      <4> QED BY <2>3, <3>1, <3>2, <4>1 DEF Row, Status, RunnableStatus
    <3>3. CASE ~(i = t /\ row[i].status = "failed")
      <4>1. row'[i] = [row[i] EXCEPT !.subs = subs]
        BY <2>1, <3>3
      <4> QED BY <2>3, <2>5, <2>6, <3>1, <4>1 DEF Row
    <3> QED BY <3>2, <3>3
  <2>9. CASE i \notin Queued
    <3>1. row[i] = NoRow /\ row'[i] = [NoRow EXCEPT !.subs = subs]
      BY <2>1, <2>9, RowFacts
    <3>2. row'[i] = NoRow
      BY <2>7, <2>9, <3>1 DEF NoRow
    <3> QED BY <3>1, <3>2 DEF NoRow
  <2> QED BY <2>8, <2>9
<1>2. row' \in [Ids -> Row \cup {NoRow}]
  BY <1>1 DEF Requeue
<1>3. UNCHANGED <<before, draining, scope, knobs, batches>>
  BY DEF Requeue
<1> QED BY <1>1, <1>2, <1>3, RewriteInv DEF BatchInv, TypeOK

LEMMA AdvanceInv ==
  ASSUME StoreInv, NEW x \in Ids, AdvanceSubIssues(x)
  PROVE  StoreInv'
<1> USE DEF StoreInv
<1>1. PICK S \in SUBSET Ids : \E states \in [S -> {"done", "quarantined"}] :
        SetSubIssueStates(x, states)
  BY DEF AdvanceSubIssues
<1>2. PICK states \in [S -> {"done", "quarantined"}] : SetSubIssueStates(x, states)
  BY <1>1
<1> DEFINE subs == [j \in Ids |-> IF j \in DOMAIN states /\ row[x].subs[j] # "none"
                                THEN states[j] ELSE row[x].subs[j]]
<1>3. row' = [row EXCEPT ![x].subs = subs]
  BY <1>2 DEF SetSubIssueStates
<1>4. subs \in [Ids -> SubState]
  BY RowFacts DEF SubState
<1>5. Running(x) /\ x \in Queued /\ row[x] \in Row
  BY RowFacts DEF AdvanceSubIssues, Running, Queued
<1> HIDE DEF subs
<1>6. row'[x] = [row[x] EXCEPT !.subs = subs] /\ \A i \in Ids \ {x} : row'[i] = row[i]
  BY <1>3 DEF TypeOK
<1>7. /\ row'[x] \in Row
      /\ row'[x].status = "running" /\ row'[x].pid = row[x].pid /\ row'[x].batch = row[x].batch
  BY <1>4, <1>5, <1>6 DEF Row, Running
<1>8. row' \in [Ids -> Row \cup {NoRow}]
  BY <1>3, <1>6, <1>7 DEF TypeOK
<1>9. UNCHANGED <<before, draining, scope, knobs, batches>>
  BY <1>2 DEF SetSubIssueStates
<1>10. ASSUME NEW i \in Ids
       PROVE  /\ row[i].status = "absent" <=> row'[i].status = "absent"
              /\ row'[i].pid # NoPid <=> row'[i].status = "running"
              /\ row'[i].batch = row[i].batch
              /\ row'[i].status = "done" => \A j \in Ids : row'[i].subs[j] \in {"none", "done"}
  <2>1. CASE i = x
    BY <1>5, <1>7, <2>1 DEF PidInv, Running
  <2>2. CASE i # x
    BY <1>6, <2>2 DEF PidInv, Running, DoneSubsInv
  <2> QED BY <2>1, <2>2
<1> QED BY <1>8, <1>9, <1>10, RewriteInv DEF BatchInv, TypeOK

\* A batch edit changes the membership of some rows and nothing else.
LEMMA InBatchInv ==
  ASSUME StoreInv, NEW S \in SUBSET Ids, NEW b \in BatchIds \cup {NoBatch},
         row' = InBatch(S, b), UNCHANGED <<before, draining, scope, knobs>>,
         batches' \subseteq BatchIds,
         b = NoBatch \/ b \in batches',
         \A i \in S : i \in Queued,
         \A i \in Ids \ S : row[i].batch # NoBatch => row[i].batch \in batches'
  PROVE  StoreInv'
<1> USE DEF StoreInv
<1>1. ASSUME NEW i \in Ids
      PROVE  /\ row'[i] \in Row \cup {NoRow}
             /\ row[i].status = "absent" <=> row'[i].status = "absent"
             /\ row'[i].pid # NoPid <=> row'[i].status = "running"
             /\ row'[i].batch # NoBatch => row'[i].batch \in batches'
             /\ row'[i].status = "done" => \A j \in Ids : row'[i].subs[j] \in {"none", "done"}
  <2>1. /\ row[i].pid # NoPid <=> row[i].status = "running"
        /\ row[i].status = "done" => \A j \in Ids : row[i].subs[j] \in {"none", "done"}
    BY DEF PidInv, Running, DoneSubsInv
  <2>2. CASE i \in S
    <3>1. row'[i] = [row[i] EXCEPT !.batch = b]
      BY <2>2 DEF InBatch
    <3>2. row[i] \in Row
      BY <2>2, RowFacts
    <3> QED BY <2>1, <3>1, <3>2 DEF Row
  <2>3. CASE i \notin S
    BY <2>1, <2>3 DEF InBatch, TypeOK
  <2> QED BY <2>2, <2>3
<1>2. row' \in [Ids -> Row \cup {NoRow}]
  BY <1>1 DEF InBatch
<1> QED BY <1>1, <1>2, RewriteInv DEF TypeOK

LEMMA BatchStepInv ==
  ASSUME StoreInv, NEW b \in BatchIds, BatchStep(b)
  PROVE  StoreInv'
<1> USE DEF StoreInv
<1>0. \A S \in SUBSET Ids : (\A i \in S : Joins(i, b)) => \A i \in S : i \in Queued
  BY DEF Joins, Runnable, RunnableStatus, Queued
<1>1. ASSUME NEW S \in SUBSET Ids, CreateBatch(b, S)
      PROVE  StoreInv'
  <2>1. batches' \subseteq BatchIds /\ b \in batches' /\ batches \subseteq batches'
    BY <1>1 DEF CreateBatch, TypeOK
  <2>2. CASE row' = InBatch(S, b)
    BY <1>0, <1>1, <2>1, <2>2, InBatchInv DEF CreateBatch, BatchInv
  <2>3. CASE row' = row
    BY <1>1, <2>1, <2>3, RewriteInv
       DEF CreateBatch, TypeOK, PidInv, Running, BatchInv, DoneSubsInv
  <2> QED BY <1>1, <2>2, <2>3 DEF CreateBatch
<1>2. ASSUME NEW S \in SUBSET Ids, AddToBatch(b, S)
      PROVE  StoreInv'
  BY <1>0, <1>2, InBatchInv DEF AddToBatch, TypeOK, BatchInv
<1>3. ASSUME NEW S \in SUBSET Ids, RemoveFromBatch(b, S)
      PROVE  StoreInv'
  <2> DEFINE D == {i \in S : row[i].batch = b}
  <2>1. D \in SUBSET Ids /\ \A i \in D : i \in Queued
    BY RowFacts, BatchIdsAssumption DEF NoBatch
  <2>2. row' = InBatch(D, NoBatch)
    BY <1>3 DEF RemoveFromBatch, Leaves
  <2> HIDE DEF D
  <2> QED BY <1>3, <2>1, <2>2, InBatchInv DEF RemoveFromBatch, TypeOK, BatchInv
<1>4. ASSUME DismissBatch(b)
      PROVE  StoreInv'
  <2> DEFINE D == {i \in Ids : row[i].batch = b}
  <2>1. D \in SUBSET Ids /\ \A i \in D : i \in Queued
    BY RowFacts, BatchIdsAssumption DEF NoBatch
  <2>2. row' = InBatch(D, NoBatch)
    BY <1>4 DEF DismissBatch, Leaves
  <2>3. batches' \subseteq BatchIds /\ batches \ {b} \subseteq batches'
    BY <1>4 DEF DismissBatch, TypeOK
  <2>4. \A i \in Ids \ D : row[i].batch # NoBatch => row[i].batch \in batches'
    BY <2>3 DEF BatchInv
  <2> HIDE DEF D
  <2> QED BY <1>4, <2>1, <2>2, <2>3, <2>4, InBatchInv DEF DismissBatch
<1> QED BY <1>1, <1>2, <1>3, <1>4 DEF BatchStep

-----------------------------------------------------------------------------
(* The invariant *)

LEMMA InitInv == Init => StoreInv
<1> SUFFICES ASSUME Init PROVE StoreInv
  OBVIOUS
<1>1. \A i \in Ids : row[i] = NoRow /\ row[i].status = "absent" /\ row[i].pid = NoPid
                     /\ row[i].batch = NoBatch
  BY DEF Init, NoRow
<1>2. Queued = {}
  BY <1>1 DEF Queued
<1>3. TypeOK
  BY DEF Init, TypeOK
<1>4. OrderInv
  BY <1>2 DEF Init, OrderInv, TotalOrder
<1>5. PidInv /\ BatchInv /\ DoneSubsInv
  BY <1>1 DEF PidInv, BatchInv, DoneSubsInv, Running
<1> QED BY <1>3, <1>4, <1>5 DEF StoreInv

LEMMA ItemStepInv ==
  ASSUME StoreInv, NEW x \in Ids, ItemStep(x)
  PROVE  StoreInv'
<1>1. ASSUME NEW skips \in SUBSET SkipKeys, Enqueue(x, skips)
      PROVE  StoreInv'
  <2>1. PICK subs \in SubStates(x, {"todo", "done"}) :
          Add(x, skips, subs) \/ AddFront(x, skips, subs)
    BY <1>1 DEF Enqueue
  <2>2. subs \in [Ids -> SubState]
    BY SubStatesType DEF SubState
  <2> QED BY <2>1, <2>2, AddInv, AddFrontInv
<1>2. CASE PromoteChildren(x)
  <2>1. PICK S \in SUBSET Children[x] :
          Promote(x, S, {}, [i \in Ids |-> IF i \in S THEN "todo"
                                          ELSE IF i \in Children[x] THEN "done" ELSE "none"])
    BY <1>2 DEF PromoteChildren
  <2> DEFINE subs == [i \in Ids |-> IF i \in S THEN "todo"
                                    ELSE IF i \in Children[x] THEN "done" ELSE "none"]
  <2>2. subs \in [Ids -> SubState]
    BY DEF SubState
  <2>3. S \in SUBSET Ids
    BY ChildrenAssumption
  <2>4. Promote(x, S, {}, subs)
    BY <2>1
  <2> HIDE DEF subs
  <2> QED BY <2>2, <2>3, <2>4, PromoteInv
<1>3. ASSUME NEW p \in FreePids, MarkRunning(x, p)
      PROVE  StoreInv'
  BY <1>3, SettleRow, PidsAssumption
     DEF FreePids, MarkRunning, Settle, Status, NoPid, StoreInv, TypeOK
<1>4. ASSUME NEW s \in {"done", "failed", "awaiting-merge"}, Finish(x, s)
      PROVE  StoreInv'
  BY <1>4, SettleRow
     DEF Finish, Settle, Status, SettledStatus, StoreInv, TypeOK
<1>5. CASE MarkSkipped(x)
  BY <1>5, SettleRow
     DEF MarkSkipped, Settle, Status, SettledStatus, StoreInv, TypeOK
<1>6. CASE Pause(x)
  BY <1>6, SettleRow DEF Pause, Status, RunnableStatus, StoreInv, TypeOK
<1>7. CASE PurgeFamily(x)
  BY <1>7, PurgeInv, ChildrenAssumption DEF PurgeFamily
<1> QED BY <1>1, <1>2, <1>3, <1>4, <1>5, <1>6, <1>7, RemoveInv, MoveInv, MoveToFrontInv,
           RequeueInv, AdvanceInv DEF ItemStep

LEMMA DrainStepInv ==
  ASSUME StoreInv, DrainStep
  PROVE  StoreInv'
<1>1. ASSUME NEW k \in Knobs, NEW skips \in SUBSET SkipKeys,
             Arm(k, skips) \/ \E b \in BatchIds : ArmBatch(b, k, skips)
      PROVE  StoreInv'
  BY <1>1, ArmScopeInv DEF Arm, ArmBatch
<1>2. ASSUME UNCHANGED <<row, before, knobs, batches>>,
             draining' \in BOOLEAN, scope' \in BatchIds \cup {NoBatch}
      PROVE  StoreInv'
  <2>1. Queued' = Queued
    BY <1>2 DEF Queued
  <2> QED BY <1>2, <2>1, SameOrder
          DEF StoreInv, TypeOK, PidInv, Running, BatchInv, DoneSubsInv
<1>3. CASE Rearm \/ FinishDraining \/ SetDraining(FALSE)
  BY <1>2, <1>3 DEF Rearm, FinishDraining, SetDraining, StoreInv, TypeOK
<1> QED BY <1>1, <1>3 DEF DrainStep

LEMMA StoreStepInv ==
  ASSUME StoreInv, [Next]_qvars
  PROVE  StoreInv'
<1>1. CASE UNCHANGED qvars
  <2>1. Queued' = Queued
    BY <1>1 DEF qvars, Queued
  <2> QED BY <1>1, <2>1, SameOrder
          DEF qvars, StoreInv, TypeOK, PidInv, Running, BatchInv, DoneSubsInv
<1> QED BY <1>1, ItemStepInv, DrainStepInv, BatchStepInv DEF Next

\* The run order, the pids, the batches and the sub-issue counts of a repo's
\* queue stay consistent whatever operator and hub do to it: hubstore/queue.go
\* and queuebatch.go preserve StoreInv for every set of tickets, pids and batches.
THEOREM StoreInvHolds == Spec => []StoreInv
<1>1. StoreInv /\ [Next]_qvars => StoreInv'
  BY StoreStepInv
<1> QED BY InitInv, <1>1, PTL DEF Spec

\* Every column of a queue row and every draining field keeps to its values.
THEOREM TypeCorrect == Spec => []TypeOK
<1>1. StoreInv => TypeOK
  BY DEF StoreInv
<1> QED BY <1>1, StoreInvHolds, PTL

\* The queue lists every item once, in one strict total order.
THEOREM OrderHolds == Spec => []OrderInv
<1>1. StoreInv => OrderInv
  BY DEF StoreInv
<1> QED BY <1>1, StoreInvHolds, PTL

\* A row names a pid exactly while it reads running.
THEOREM PidHolds == Spec => []PidInv
<1>1. StoreInv => PidInv
  BY DEF StoreInv
<1> QED BY <1>1, StoreInvHolds, PTL

\* No row is left in a batch the batch table does not hold.
THEOREM BatchHolds == Spec => []BatchInv
<1>1. StoreInv => BatchInv
  BY DEF StoreInv
<1> QED BY <1>1, StoreInvHolds, PTL

\* An epic that reads done reads no sub-issue as open.
THEOREM DoneSubsHolds == Spec => []DoneSubsInv
<1>1. StoreInv => DoneSubsInv
  BY DEF StoreInv
<1> QED BY <1>1, StoreInvHolds, PTL

-----------------------------------------------------------------------------
(* What a write to a running row leaves alone *)

\* A row that stops running is the only one the write changes.
EndsAlone ==
  \A i \in Ids : Running(i) /\ ~Running(i)' => \A j \in Ids \ {i} : row'[j] = row[j]

\* A write of one row ends at most that row's run.
LEMMA OneRowEnds ==
  ASSUME TypeOK, NEW x \in Ids, NEW r, row' = [row EXCEPT ![x] = r]
  PROVE  EndsAlone
<1>1. \A j \in Ids \ {x} : row'[j] = row[j]
  BY DEF TypeOK
<1> QED BY <1>1 DEF EndsAlone, Running

\* A write that keeps the status of running rows ends none.
LEMMA StatusKept ==
  ASSUME \A i \in Ids : Running(i) => row'[i].status = row[i].status
  PROVE  EndsAlone
BY DEF EndsAlone, Running

LEMMA ArmScopeEnds ==
  ASSUME TypeOK, NEW b, NEW k, NEW skips, ArmScope(b, k, skips)
  PROVE  EndsAlone
<1>1. ASSUME NEW i \in Ids, Running(i)
      PROVE  row'[i] = row[i]
  <2>1. row'[i] = ArmedRow(i, b, k.noResume, skips)
    BY DEF ArmScope
  <2>2. Restarted(i, b, k.noResume) = row[i] /\ row[i].status \notin RunnableStatus
    BY <1>1 DEF Restarted, Running, RunnableStatus
  <2> QED BY <2>1, <2>2 DEF ArmedRow
<1> QED BY <1>1, StatusKept

LEMMA ItemEndsAlone ==
  ASSUME TypeOK, NEW x \in Ids, ItemStep(x)
  PROVE  EndsAlone
<1>1. CASE \E skips \in SUBSET SkipKeys : Enqueue(x, skips)
  <2>1. PICK skips \in SUBSET SkipKeys, subs \in SubStates(x, {"todo", "done"}) :
          Add(x, skips, subs) \/ AddFront(x, skips, subs)
    BY <1>1 DEF Enqueue
  <2>2. row' = [row EXCEPT ![x] = NewRow(skips, subs)] \/ row' = [row EXCEPT ![x].skips = skips]
    BY <2>1 DEF Add, AddFront
  <2> QED BY <2>2, OneRowEnds
<1>2. CASE Remove(x)
  BY <1>2, OneRowEnds DEF Remove
<1>3. CASE PurgeFamily(x)
  <2>1. PICK C \in SUBSET Children[x] : Purge({x} \cup C)
    BY <1>3 DEF PurgeFamily
  <2>2. ASSUME NEW i \in Ids, Running(i) PROVE row'[i].status = row[i].status
    <3>1. i \notin {x} \cup C
      BY <2>1, <2>2 DEF Purge
    <3>2. row'[i] = [row[i] EXCEPT !.subs = [j \in Ids |-> IF j \in {x} \cup C THEN "none" ELSE @[j]]]
      BY <2>1, <3>1 DEF Purge, PurgedRow
    <3>3. row[i] \in Row
      BY <2>2, RowFacts DEF Running
    <3> QED BY <3>2, <3>3 DEF Row
  <2> QED BY <2>2, StatusKept
<1>4. CASE PromoteChildren(x)
  <2>1. PICK S \in SUBSET Children[x] : \E subs : Promote(x, S, {}, subs)
    BY <1>4 DEF PromoteChildren
  <2>2. ASSUME NEW i \in Ids, Running(i) PROVE row'[i] = row[i]
    <3>1. i # x /\ i \notin S
      BY <2>1, <2>2 DEF Promote, Running, Queued
    <3> QED BY <2>1, <3>1 DEF Promote
  <2> QED BY <2>2, StatusKept
<1>5. CASE (\E dir \in {-1, 1} : Move(x, dir)) \/ MoveToFront(x)
  BY <1>5, StatusKept DEF Move, MoveToFront
<1>6. CASE \/ \E p \in FreePids : MarkRunning(x, p)
           \/ \E s \in {"done", "failed", "awaiting-merge"} : Finish(x, s)
           \/ MarkSkipped(x) \/ Pause(x)
  <2>1. \E s, p : row' = [row EXCEPT ![x] = SettledRow(x, s, p)]
    BY <1>6 DEF MarkRunning, Finish, MarkSkipped, Pause, Settle
  <2> QED BY <2>1, OneRowEnds
<1>7. CASE Requeue(x)
  <2>1. ASSUME NEW i \in Ids, Running(i) PROVE row'[i].status = row[i].status
    <3>1. row[i] \in Row /\ row[i].status # "failed"
      BY <2>1, RowFacts DEF Running
    <3> DEFINE subs == [row[i].subs EXCEPT ![x] = IF @ = "quarantined" THEN "todo" ELSE @]
    <3>2. row'[i] = [row[i] EXCEPT !.subs = subs]
      BY <1>7, <3>1 DEF Requeue, RequeuedRow
    <3> HIDE DEF subs
    <3> QED BY <3>1, <3>2 DEF Row
  <2> QED BY <2>1, StatusKept
<1>8. CASE AdvanceSubIssues(x)
  <2>1. \E f : row' = [row EXCEPT ![x].subs = f]
    BY <1>8 DEF AdvanceSubIssues, SetSubIssueStates
  <2>2. PICK f : row' = [row EXCEPT ![x].subs = f]
    BY <2>1
  <2> QED BY <2>2, OneRowEnds
<1> QED BY <1>1, <1>2, <1>3, <1>4, <1>5, <1>6, <1>7, <1>8 DEF ItemStep

LEMMA BatchEndsAlone ==
  ASSUME TypeOK, NEW b \in BatchIds, BatchStep(b)
  PROVE  EndsAlone
<1>1. \E S, c : row' \in {InBatch(S, c), row}
  BY DEF BatchStep, CreateBatch, AddToBatch, RemoveFromBatch, DismissBatch, Leaves
<1>2. PICK S, c : row' \in {InBatch(S, c), row}
  BY <1>1
<1>3. ASSUME NEW i \in Ids, Running(i) PROVE row'[i].status = row[i].status
  <2>1. row[i] \in Row
    BY <1>3, RowFacts DEF Running
  <2>2. row'[i] \in {[row[i] EXCEPT !.batch = c], row[i]}
    BY <1>2 DEF InBatch
  <2> QED BY <2>1, <2>2 DEF Row
<1> QED BY <1>3, StatusKept

\* No edit of the queue ends a run by the way: of two rows that run, one write ends at
\* most the one it names, and changes nothing else (hubstore/queue.go: restart, Promote,
\* Requeue, the batch edits).
THEOREM RunsEndAlone == Spec => RunEndsAlone
<1>1. ASSUME TypeOK, [Next]_qvars
      PROVE  EndsAlone
  <2>1. CASE UNCHANGED qvars
    BY <2>1, StatusKept DEF qvars
  <2>2. CASE DrainStep
    <3>1. CASE \E k \in Knobs, skips \in SUBSET SkipKeys :
                 Arm(k, skips) \/ \E b \in BatchIds : ArmBatch(b, k, skips)
      BY <1>1, <3>1, ArmScopeEnds DEF Arm, ArmBatch
    <3>2. CASE Rearm \/ FinishDraining \/ SetDraining(FALSE)
      BY <3>2, StatusKept DEF Rearm, FinishDraining, SetDraining
    <3> QED BY <2>2, <3>1, <3>2 DEF DrainStep
  <2> QED BY <1>1, <2>1, <2>2, ItemEndsAlone, BatchEndsAlone DEF Next
<1>2. TypeOK /\ [Next]_qvars => [EndsAlone]_qvars
  BY <1>1
<1>3. RunEndsAlone <=> [][EndsAlone]_qvars
  BY DEF RunEndsAlone, EndsAlone
<1> QED BY <1>2, <1>3, TypeCorrect, PTL DEF Spec
=============================================================================
