----------------------------- MODULE QueueStore -----------------------------
(***************************************************************************)
(* One repo's persisted queue: internal/hubstore/queue.go and              *)
(* queuebatch.go.  Every Go method loads the whole queue under queueMu,    *)
(* mutates it in memory and writes it back in one transaction, so every    *)
(* method that succeeds is one action here; a method that returns an error *)
(* writes nothing, which is the absence of a step.  The two methods that   *)
(* touch the batch table in a second statement, CreateBatch and            *)
(* DismissBatch, also have the outcome in which that statement fails.      *)
(*                                                                         *)
(* The Go slice of items is kept as the function `row` (what each item     *)
(* holds) and the relation `before` (which item the slice lists first), so *)
(* that an insertion or a removal says only which pairs it adds or drops.  *)
(* Titles, reasons, providers and time stamps are abstracted: no decision  *)
(* in the hub reads them.  drainingSince is set by arm and zeroed by       *)
(* disarm together with draining, and is abstracted with it.               *)
(***************************************************************************)
EXTENDS Integers, FiniteSets

CONSTANTS
  Ids,        \* ticket and epic identifiers
  Children,   \* Children[e]: the sub-issues of an epic; {} for a ticket
  Pids,       \* process ids of hub-spawned children
  BatchIds,   \* slugs a batch can have
  SkipKeys,   \* pipeline steps an item can skip
  Knobs       \* run-level options: records [noResume, onFault]

ASSUME ChildrenAssumption == Children \in [Ids -> SUBSET Ids]
ASSUME PidsAssumption     == Pids \subseteq Nat \ {0}
ASSUME BatchIdsAssumption == "" \notin BatchIds
ASSUME KnobsAssumption    ==
  Knobs \subseteq [noResume : BOOLEAN, onFault : {"halt", "skip"}]

NoPid   == 0     \* Go's zero PID
NoBatch == ""    \* Go's empty batch: no membership, or the whole queue

RunnableStatus == {"pending", "paused"}
SettledStatus  == {"done", "failed", "skipped", "awaiting-merge"}
Status         == RunnableStatus \cup SettledStatus \cup {"running"}
SubState       == {"none", "todo", "quarantined", "done"}

Row == [status : Status, pid : Pids \cup {NoPid}, batch : BatchIds \cup {NoBatch},
        skips : SUBSET SkipKeys, subs : [Ids -> SubState]]

\* What `row` holds for an identifier the queue does not list.
NoRow == [status |-> "absent", pid |-> NoPid, batch |-> NoBatch,
          skips |-> {}, subs |-> [i \in Ids |-> "none"]]

VARIABLES
  row,       \* row[i]: the queue item of identifier i
  before,    \* <<i, j>> \in before: item i is listed ahead of item j
  draining,  \* the drain is armed
  scope,     \* the batch the drain was armed with, NoBatch for the whole queue
  knobs,     \* the options it was armed with
  batches    \* identifiers present in the batch table

qvars == <<row, before, draining, scope, knobs, batches>>

-----------------------------------------------------------------------------
Queued       == {i \in Ids : row[i].status # "absent"}
Runnable(i)  == row[i].status \in RunnableStatus
Running(i)   == row[i].status = "running"
InScope(i, b) == i \in Queued /\ (b = NoBatch \/ row[i].batch = b)
Covers(i)    == InScope(i, scope)
HasRunnable  == \E i \in Ids : Runnable(i) /\ Covers(i)

\* Rows of S listed ahead of every runnable row of S: where insertAtFront stops.
AheadOfRunnable(S) ==
  {a \in S : \A b \in S : Runnable(b) => a # b /\ <<a, b>> \in before}

Without(S) == {p \in before : p[1] \notin S /\ p[2] \notin S}

\* The order of the rows other than x, with x placed right after `ahead`.
Place(order, ahead, x, behind) == order \cup (ahead \X {x}) \cup ({x} \X behind)

\* Faulty variants: the row's old slot is kept, or traded with the front row's.
FaultyToFront(x) ==
  LET rest  == Queued \ {x}
      ahead == AheadOfRunnable(rest)
  IN  Place(before, ahead, x, rest \ ahead)

ToFront(x) ==
  LET rest  == Queued \ {x}
      ahead == AheadOfRunnable(rest)
  IN  Place(Without({x}), ahead, x, rest \ ahead)

NewRow(skips, subs) == [NoRow EXCEPT !.status = "pending", !.skips = skips, !.subs = subs]

\* Sub-issue states an item of identifier x can carry: one per child, no other.
SubStates(x, S) ==
  {[i \in Ids |-> IF i \in Children[x] THEN f[i] ELSE "none"] : f \in [Children[x] -> S]}

-----------------------------------------------------------------------------
(* Registration and removal *)

Add(x, skips, subs) ==
  /\ x \notin Queued
  /\ row' = [row EXCEPT ![x] = NewRow(skips, subs)]
  /\ before' = Place(before, Queued, x, {})
  /\ UNCHANGED <<draining, scope, knobs, batches>>

\* A row still runnable is moved instead, keeps its status and takes the skips.
AddFront(x, skips, subs) ==
  /\ x \in Queued => Runnable(x)
  /\ row' = IF x \in Queued THEN [row EXCEPT ![x].skips = skips]
                             ELSE [row EXCEPT ![x] = NewRow(skips, subs)]
  /\ before' = ToFront(x)
  /\ UNCHANGED <<draining, scope, knobs, batches>>

CanRemove(x) == x \in Queued /\ ~Running(x)

Remove(x) ==
  /\ CanRemove(x)
  /\ row' = [row EXCEPT ![x] = NoRow]
  /\ before' = Without({x})
  /\ UNCHANGED <<draining, scope, knobs, batches>>

PurgedRow(i, S) ==
  IF i \in S THEN NoRow
  ELSE [row[i] EXCEPT !.subs = [j \in Ids |-> IF j \in S THEN "none" ELSE @[j]]]

\* A hard delete of the issues S (hubstore/purge.go) under the same lock: their
\* rows go, and so do the lines other epics carry for them.
Purge(S) ==
  /\ \A i \in S : ~Running(i)
  /\ row' = [i \in Ids |-> PurgedRow(i, S)]
  /\ before' = Without(S)
  /\ UNCHANGED <<draining, scope, knobs, batches>>

\* The pending rows S give way to epic x, which takes the place of the first.
Promote(x, S, skips, subs) ==
  /\ x \notin Queued
  /\ S # {}
  /\ \A i \in S : row[i].status = "pending"
  /\ row' = [i \in Ids |-> IF i = x THEN NewRow(skips, subs)
                           ELSE IF i \in S THEN NoRow ELSE row[i]]
  /\ LET rest  == Queued \ S
         ahead == {a \in rest : \A i \in S : <<a, i>> \in before}
     IN  before' = Place(Without(S), ahead, x, rest \ ahead)
  /\ UNCHANGED <<draining, scope, knobs, batches>>

-----------------------------------------------------------------------------
(* Order *)

Adjacent(i, j) ==
  /\ <<i, j>> \in before
  /\ \A k \in Ids : ~(<<i, k>> \in before /\ <<k, j>> \in before)

Swap(i, j) == (before \ {<<i, j>>}) \cup {<<j, i>>}

\* One slot toward the front (dir = -1) or the back (dir = 1).
Move(x, dir) ==
  /\ ~Running(x)
  /\ \E y \in Ids :
       /\ ~Running(y)
       /\ IF dir = -1 THEN Adjacent(y, x) /\ before' = Swap(y, x)
                      ELSE Adjacent(x, y) /\ before' = Swap(x, y)
  /\ UNCHANGED <<row, draining, scope, knobs, batches>>

MoveToFront(x) ==
  /\ Runnable(x)
  /\ before' = ToFront(x)
  /\ UNCHANGED <<row, draining, scope, knobs, batches>>

-----------------------------------------------------------------------------
(* Arming and disarming the drain *)

\* Faulty variants: a restart reaches running rows, or rows out of scope.
FaultyRestarted(i, b, noResume) ==
  IF noResume /\ InScope(i, b)
  THEN [row[i] EXCEPT !.status = "pending", !.pid = NoPid]
  ELSE row[i]

\* restart(): covered rows that are not running go back to pending; addSkips():
\* the rows the armed scope is then about to run take the extra skips.
Restarted(i, b, noResume) ==
  IF noResume /\ InScope(i, b) /\ ~Running(i)
  THEN [row[i] EXCEPT !.status = "pending", !.pid = NoPid]
  ELSE row[i]

ArmedRow(i, b, noResume, skips) ==
  LET r == Restarted(i, b, noResume)
  IN  IF InScope(i, b) /\ r.status \in RunnableStatus
      THEN [r EXCEPT !.skips = @ \cup skips] ELSE r

ArmScope(b, k, skips) ==
  /\ scope' = b
  /\ \E i \in Ids : Runnable(i) /\ InScope(i, b)
  /\ row' = [i \in Ids |-> ArmedRow(i, b, k.noResume, skips)]
  /\ knobs' = k
  /\ draining' = TRUE
  /\ UNCHANGED <<before, batches>>

Arm(k, skips) == ArmScope(NoBatch, k, skips)

ArmBatch(b, k, skips) == b \in batches /\ ArmScope(b, k, skips)

Rearm ==
  /\ HasRunnable
  /\ draining' = TRUE
  /\ UNCHANGED <<row, before, scope, knobs, batches>>

ScopeDry == \A i \in Ids : Covers(i) => ~Runnable(i) /\ ~Running(i)

FinishDraining ==
  /\ draining
  /\ ScopeDry
  /\ draining' = FALSE
  /\ scope' = NoBatch
  /\ UNCHANGED <<row, before, knobs, batches>>

SetDraining(d) ==
  /\ draining' = d
  /\ UNCHANGED <<row, before, scope, knobs, batches>>

-----------------------------------------------------------------------------
(* Settling *)

\* Faulty variant: an epic settles without its sub-issues.
FaultySettledRow(i, status, pid) == [row[i] EXCEPT !.status = status, !.pid = pid]

SettledRow(i, status, pid) ==
  [row[i] EXCEPT !.status = status, !.pid = pid,
                 !.subs = IF status = "done"
                          THEN [j \in Ids |-> IF @[j] = "none" THEN "none" ELSE "done"]
                          ELSE @]

\* The one write behind MarkRunning, Finish and MarkSkipped.  It does not look
\* at the status the row has.
Settle(i, status, pid) ==
  /\ i \in Queued
  /\ row' = [row EXCEPT ![i] = SettledRow(i, status, pid)]
  /\ UNCHANGED <<before, draining, scope, knobs, batches>>

MarkRunning(i, pid) == Settle(i, "running", pid)
Finish(i, status)   == Settle(i, status, NoPid)
MarkSkipped(i)      == Settle(i, "skipped", NoPid)

Pause(i) ==
  /\ i \in Queued
  /\ row' = [row EXCEPT ![i] = SettledRow(i, "paused", NoPid)]
  /\ draining' = FALSE
  /\ UNCHANGED <<before, scope, knobs, batches>>

RequeuedRow(i, t) ==
  LET subs == [row[i].subs EXCEPT ![t] = IF @ = "quarantined" THEN "todo" ELSE @]
  IN  IF i = t /\ row[i].status = "failed"
      THEN [row[i] EXCEPT !.status = "pending", !.pid = NoPid, !.subs = subs]
      ELSE [row[i] EXCEPT !.subs = subs]

Requeue(t) ==
  /\ row' = [i \in Ids |-> RequeuedRow(i, t)]
  /\ UNCHANGED <<before, draining, scope, knobs, batches>>

SetSubIssueStates(i, states) ==
  /\ i \in Queued
  /\ row' = [row EXCEPT ![i].subs = [j \in Ids |-> IF j \in DOMAIN states /\ @[j] # "none"
                                                 THEN states[j] ELSE @[j]]]
  /\ UNCHANGED <<before, draining, scope, knobs, batches>>

-----------------------------------------------------------------------------
(* Batches *)

Joins(i, b)  == Runnable(i) /\ row[i].batch \in {NoBatch, b}
InBatch(S, b) == [i \in Ids |-> IF i \in S THEN [row[i] EXCEPT !.batch = b] ELSE row[i]]

\* The batch row is inserted first; the write of the queue may then fail.
CreateBatch(b, S) ==
  /\ b \notin batches
  /\ \A i \in S : Joins(i, b)
  /\ batches' = batches \cup {b}
  /\ row' \in {InBatch(S, b), row}
  /\ UNCHANGED <<before, draining, scope, knobs>>

AddToBatch(b, S) ==
  /\ b \in batches
  /\ \A i \in S : Joins(i, b)
  /\ row' = InBatch(S, b)
  /\ UNCHANGED <<before, draining, scope, knobs, batches>>

Leaves(S, b) == InBatch({i \in S : row[i].batch = b}, NoBatch)

RemoveFromBatch(b, S) ==
  /\ b \in batches
  /\ row' = Leaves(S, b)
  /\ UNCHANGED <<before, draining, scope, knobs, batches>>

\* Faulty variant: the batch row goes first, and the members may not follow.
FaultyDismissBatch(b) ==
  /\ b \in batches
  /\ row' \in {Leaves(Ids, b), row}
  /\ batches' = batches \ {b}
  /\ UNCHANGED <<before, draining, scope, knobs>>

\* The members are written back first; the DELETE of the batch row may then fail.
DismissBatch(b) ==
  /\ b \in batches
  /\ row' = Leaves(Ids, b)
  /\ batches' \in {batches \ {b}, batches}
  /\ UNCHANGED <<before, draining, scope, knobs>>

-----------------------------------------------------------------------------
Init ==
  /\ row = [i \in Ids |-> NoRow]
  /\ before = {}
  /\ draining = FALSE
  /\ scope = NoBatch
  /\ knobs = [noResume |-> FALSE, onFault |-> "halt"]
  /\ batches = {}

\* The store serves any caller.  What its callers never do is left out: they
\* enqueue a row whose children are open or done, promote an epic over its own
\* open children, mark a row running with the pid of a new child, and advance
\* only the open sub-issues of a row they saw running.
Enqueue(x, skips) ==
  \E subs \in SubStates(x, {"todo", "done"}) : Add(x, skips, subs) \/ AddFront(x, skips, subs)

PromoteChildren(x) ==
  \E S \in SUBSET Children[x] :
    Promote(x, S, {}, [i \in Ids |-> IF i \in S THEN "todo"
                                    ELSE IF i \in Children[x] THEN "done" ELSE "none"])

\* A purge takes an issue and those of its children the hub's mirror holds.
PurgeFamily(x) == \E C \in SUBSET Children[x] : Purge({x} \cup C)

AdvanceSubIssues(x) ==
  /\ Running(x)
  /\ \E S \in SUBSET {i \in Ids : row[x].subs[i] \in {"todo", "quarantined"}} :
       \E states \in [S -> {"done", "quarantined"}] : SetSubIssueStates(x, states)

FreePids == Pids \ {row[i].pid : i \in Ids}

ItemStep(x) ==
  \/ \E skips \in SUBSET SkipKeys : Enqueue(x, skips)
  \/ Remove(x)
  \/ PurgeFamily(x)
  \/ PromoteChildren(x)
  \/ \E dir \in {-1, 1} : Move(x, dir)
  \/ MoveToFront(x)
  \/ \E p \in FreePids : MarkRunning(x, p)
  \/ \E s \in {"done", "failed", "awaiting-merge"} : Finish(x, s)
  \/ MarkSkipped(x)
  \/ Pause(x)
  \/ Requeue(x)
  \/ AdvanceSubIssues(x)

DrainStep ==
  \/ \E k \in Knobs, skips \in SUBSET SkipKeys :
       Arm(k, skips) \/ \E b \in BatchIds : ArmBatch(b, k, skips)
  \/ Rearm
  \/ FinishDraining
  \/ SetDraining(FALSE)

BatchStep(b) ==
  \/ \E S \in SUBSET Ids : CreateBatch(b, S) \/ AddToBatch(b, S) \/ RemoveFromBatch(b, S)
  \/ DismissBatch(b)

Next ==
  \/ \E x \in Ids : ItemStep(x)
  \/ DrainStep
  \/ \E b \in BatchIds : BatchStep(b)

Spec == Init /\ [][Next]_qvars

-----------------------------------------------------------------------------
(* Invariants *)

\* Every column keeps to its values, and an identifier the queue does not list
\* holds nothing of the row it once had.
TypeOK ==
  /\ row \in [Ids -> Row \cup {NoRow}]
  /\ before \subseteq Ids \X Ids
  /\ draining \in BOOLEAN
  /\ scope \in BatchIds \cup {NoBatch}
  /\ knobs \in [noResume : BOOLEAN, onFault : {"halt", "skip"}]
  /\ batches \subseteq BatchIds

TotalOrder(R, S) ==
  /\ R \subseteq S \X S
  /\ \A i \in S : <<i, i>> \notin R
  /\ \A i, j \in S : i = j \/ <<i, j>> \in R \/ <<j, i>> \in R
  /\ \A i, j, k \in S : <<i, j>> \in R /\ <<j, k>> \in R => <<i, k>> \in R

\* The run order lists every queued item once and nothing else, whatever mix of
\* front inserts, promotions, moves and removals built it: `before` is a strict
\* total order on the queued rows.  A hole here is an item the drain never
\* reaches or reaches twice.
OrderInv == TotalOrder(before, Queued)

\* A row names a child exactly while it reads running.  The hub probes and
\* signals the pid a row holds, so one left on a parked or restarted row would
\* be a signal to a stranger.
PidInv == \A i \in Ids : row[i].pid # NoPid <=> Running(i)

\* No row claims a batch that the batch table does not hold, even when the
\* second of the two writes a create or a dismiss makes is lost.
BatchInv == \A i \in Ids : row[i].batch # NoBatch => row[i].batch \in batches

\* An epic recorded done reports no sub-issue still open: the count the operator
\* reads never contradicts the row, through restarts, requeues and re-runs.
DoneSubsInv ==
  \A i \in Ids : row[i].status = "done" =>
    \A j \in Ids : row[i].subs[j] \in {"none", "done"}

StoreInv == TypeOK /\ OrderInv /\ PidInv /\ BatchInv /\ DoneSubsInv

(* Action properties *)

\* Queue edits never end a run in bulk: a row that stops running is named by the
\* write that ends it, and that write leaves every other row as it was.  A
\* no-resume start, a promotion and a batch edit therefore all pass a run by.
RunEndsAlone ==
  [][\A i \in Ids : Running(i) /\ ~Running(i)' =>
       \A j \in Ids \ {i} : row'[j] = row[j]]_qvars

=============================================================================
