----------------------------- MODULE DrainProofs -----------------------------
(***************************************************************************)
(* Proofs about Drain, for every set of tickets, epics, pids and batches,  *)
(* each under the hypotheses it needs.                                     *)
(*                                                                         *)
(* DrainInv says what each goroutine may assume when it resumes: the       *)
(* ticket it holds is one, the verdict it carries is one a run can get,    *)
(* and the pid of the child it has just spawned is in no row yet.  From    *)
(* it, every step of the hub is a step of the queue store.                 *)
(*                                                                         *)
(* ShipInv: without removals no row reads done whose work was not          *)
(* delivered.  With them, the wipe behind a removal can drop the           *)
(* checkpoint of the ticket's next run after that run gave up and before   *)
(* its verdict is read, and a clean report without a checkpoint reads as   *)
(* done.                                                                   *)
(*                                                                         *)
(* DeadInv: without the one-shot run handler the drain loop settles a run  *)
(* only once its process is dead.  With it, the handler can mark the row   *)
(* of a child of its own while the loop is about to settle the same        *)
(* ticket's run.                                                           *)
(*                                                                         *)
(* OneInv: where only the loop starts children, nothing ends the hub       *)
(* between a spawn and its mark, and no sweep has a reason to settle a row *)
(* whose run has only just been started, a repo has one child at a time.   *)
(* HoldInv: then a release that is trau's own holds every other item back, *)
(* unless a stop stamps it anew after the hub has given up on it.          *)
(***************************************************************************)
EXTENDS Drain, QueueStoreProofs

Verdicts == {"paused", "done", "failed", "awaiting-merge"}

\* A pid no row holds yet.
Fresh(p) == p \in Pids /\ \A i \in Ids : row[i].pid # p

\* What a goroutine holds between two steps.
Claims ==
  /\ loop.pc \in {"settle", "skip", "spawn", "mark"} => loop.item \in Ids
  /\ loop.pc = "settle" => loop.verdict \in Verdicts
  /\ loop.pc = "mark" => Fresh(loop.pid)
  /\ runner.pc \in {"spawn", "mark"} => runner.item \in Ids
  /\ runner.pc = "mark" => Fresh(runner.pid)
  /\ loop.pc = "mark" /\ runner.pc = "mark" => loop.pid # runner.pid

DrainInv == StoreInv /\ DrainTypeOK /\ Claims

\* A step that hands no row a pid.
Quiet == \A i \in Ids : row'[i].pid \in {row[i].pid, NoPid}

-----------------------------------------------------------------------------
(* Steps of the store that hand no row a pid *)

LEMMA QuietSettle ==
  ASSUME TypeOK, NEW x \in Ids, NEW s, row' = [row EXCEPT ![x] = SettledRow(x, s, NoPid)]
  PROVE  Quiet
<1> DEFINE r == SettledRow(x, s, NoPid)
<1>1. r.pid \in {row[x].pid, NoPid}
  BY RowFacts DEF SettledRow, Row, NoRow, TypeOK
<1> HIDE DEF r
<1>2. row' = [row EXCEPT ![x] = r]
  BY DEF r
<1> QED BY <1>1, <1>2 DEF Quiet, TypeOK

LEMMA QuietEnqueue ==
  ASSUME TypeOK, NEW x \in Ids, Enqueue(x, {})
  PROVE  Quiet
<1>1. PICK subs \in SubStates(x, {"todo", "done"}) : Add(x, {}, subs) \/ AddFront(x, {}, subs)
  BY DEF Enqueue
<1>2. CASE row' = [row EXCEPT ![x] = NewRow({}, subs)]
  <2> DEFINE r == NewRow({}, subs)
  <2>1. r.pid \in {row[x].pid, NoPid}
    BY DEF NewRow, NoRow
  <2> HIDE DEF r
  <2>2. row' = [row EXCEPT ![x] = r]
    BY <1>2 DEF r
  <2> QED BY <2>1, <2>2 DEF Quiet, TypeOK
<1>3. CASE row' = [row EXCEPT ![x].skips = {}]
  BY <1>3 DEF Quiet, TypeOK, Row, NoRow
<1> QED BY <1>1, <1>2, <1>3 DEF Add, AddFront

LEMMA QuietArm ==
  ASSUME TypeOK, NEW b, NEW k \in Knobs, ArmScope(b, k, {})
  PROVE  Quiet
<1>1. ASSUME NEW i \in Ids
      PROVE  ArmedRow(i, b, k.noResume, {}).pid \in {row[i].pid, NoPid}
  BY RowFacts DEF ArmedRow, Restarted, TypeOK, Row, NoRow
<1> QED BY <1>1 DEF ArmScope, Quiet

LEMMA QuietBatch ==
  ASSUME TypeOK, NEW b, NEW S, CreateBatch(b, S)
  PROVE  Quiet
<1>1. ASSUME NEW i \in Ids
      PROVE  InBatch(S, b)[i].pid = row[i].pid
  BY DEF InBatch, TypeOK, Row, NoRow
<1> QED BY <1>1 DEF CreateBatch, Quiet

\* A goroutine's claims outlast every step of the others.
LEMMA ClaimsKept ==
  ASSUME Claims, Quiet, loop' = loop, runner' = runner
  PROVE  Claims'
BY PidsAssumption DEF Claims, Quiet, Fresh, NoPid

-----------------------------------------------------------------------------
(* The drain loop *)

LoopType ==
  [pc : {"off", "tick", "settle", "skip", "spawn", "mark", "exit"},
   item : IdOrNone, pid : PidOrNone, class : Classes, verdict : Status \cup {""}]

\* What a step owes: it is one of the store's, and it keeps the types and claims.
StepOK ==
  [Next]_qvars /\ WorldTypeOK' /\ HandlersTypeOK' /\ PersonTypeOK' /\ Claims'

LEMMA ClassType ==
  ASSUME WorldTypeOK, NEW x \in Ids
  PROVE  /\ CheckpointClass(x) \in Failures \cup {"gave-up"}
         /\ ReconciledClass(x) \in Classes
BY DEF WorldTypeOK, CheckpointClass, ReconciledClass, Failures, Outcomes, Classes

LEMMA VerdictType ==
  ASSUME NEW class, NEW onFault
  PROVE  Verdict(class, onFault) \in Verdicts
BY DEF Verdict, Verdicts

LEMMA AdvanceStep ==
  ASSUME TypeOK, WorldTypeOK, NEW r \in Ids, Running(r), SetSubIssueStates(r, Advanced(r))
  PROVE  AdvanceSubIssues(r) /\ Quiet
<1> DEFINE S == {j \in Ids : row[r].subs[j] \notin {"none", "done"}
                             /\ SubIssueState(j) \notin {"", row[r].subs[j]}}
           states == Advanced(r)
<1>1. states \in [S -> {"done", "quarantined"}]
  BY DEF Advanced, SubIssueState
<1>2. S \in SUBSET {j \in Ids : row[r].subs[j] \in {"todo", "quarantined"}}
  BY RowFacts DEF SubState
<1>3. AdvanceSubIssues(r)
  BY <1>1, <1>2 DEF AdvanceSubIssues
<1>4. Quiet
  BY DEF SetSubIssueStates, Quiet, TypeOK, Row, NoRow
<1> QED BY <1>3, <1>4

LEMMA ItemIsNext ==
  ASSUME NEW x \in Ids, ItemStep(x)
  PROVE  [Next]_qvars
BY DEF Next

LEMMA DrainIsNext ==
  ASSUME DrainStep
  PROVE  [Next]_qvars
BY DEF Next

PlanType == [id : IdOrNone, attempts : Nat, due : BOOLEAN]
CkptType == [phase : Phases, class : Failures, handoff : BOOLEAN]
RunnerType == [pc : {"idle", "spawn", "mark", "ensure"}, item : IdOrNone, pid : PidOrNone]
SweepType  == [pc : {"idle", "read", "settle"}, todo : SUBSET Ids, ensure : BOOLEAN]
StopType   == [pc : {"idle", "look", "end"}, pid : PidOrNone]

\* The values the records start from are of their types.
LEMMA RestTypes ==
  /\ LoopOff \in LoopType /\ LoopTick \in LoopType /\ NoPlan \in PlanType
  /\ NoSweep \in SweepType /\ NoRun \in RunnerType /\ NoStop \in StopType
  /\ LoopOff.pc = "off" /\ LoopTick.pc = "tick" /\ NoRun.pc = "idle"
BY DEF LoopOff, LoopTick, LoopType, NoPlan, PlanType, NoSweep, SweepType, NoRun, RunnerType,
       NoStop, StopType, IdOrNone, PidOrNone, Classes, Outcomes, Failures

\* The parts of HandlersTypeOK, by the names the proofs use.
LEMMA HandlerTypes ==
  HandlersTypeOK <=> /\ hub \in {"down", "boot", "up"}
                     /\ reload \in {"none", "pending", "due"}
                     /\ loop \in LoopType
                     /\ plan \in PlanType
                     /\ sweep \in SweepType
                     /\ runner \in RunnerType
                     /\ stopper \in StopType
BY DEF HandlersTypeOK, LoopType, PlanType, SweepType, RunnerType, StopType

LEMMA HandlerTypesNext ==
  HandlersTypeOK' <=> /\ hub' \in {"down", "boot", "up"}
                      /\ reload' \in {"none", "pending", "due"}
                      /\ loop' \in LoopType
                      /\ plan' \in PlanType
                      /\ sweep' \in SweepType
                      /\ runner' \in RunnerType
                      /\ stopper' \in StopType
BY DEF HandlersTypeOK, LoopType, PlanType, SweepType, RunnerType, StopType

LEMMA SameWorld ==
  ASSUME WorldTypeOK, UNCHANGED world
  PROVE  WorldTypeOK'
BY DEF WorldTypeOK, world

LEMMA SamePerson ==
  ASSUME PersonTypeOK, UNCHANGED person
  PROVE  PersonTypeOK'
BY DEF PersonTypeOK, person

LEMMA TickRunningOK ==
  ASSUME DrainInv, TickRunning
  PROVE  StepOK
<1> USE DEF DrainInv, StoreInv
<1>1. PICK r \in Ids :
        /\ Running(r)
        /\ SetSubIssueStates(r, Advanced(r))
        /\ IF Alive(row[r].pid)
           THEN UNCHANGED <<loop, outcome>>
           ELSE /\ loop' = [LoopOff EXCEPT !.pc = "settle", !.item = r,
                                           !.class = ReconciledClass(r),
                                           !.verdict = Verdict(ReconciledClass(r), knobs.onFault)]
                /\ outcome' = [outcome EXCEPT ![r] = "absent"]
  BY DEF TickRunning, First, RunningRows
<1>2. UNCHANGED <<child, ckpt, closed, wiping, shipped, hub, reload, plan, sweep, runner, stopper, person>>
  BY DEF TickRunning
<1>3. [Next]_qvars /\ Quiet
  BY <1>1, AdvanceStep, ItemIsNext DEF ItemStep, DrainTypeOK
<1>4. /\ ReconciledClass(r) \in Classes
      /\ Verdict(ReconciledClass(r), knobs.onFault) \in Verdicts
  BY ClassType, VerdictType DEF DrainTypeOK
<1>5. Verdict(ReconciledClass(r), knobs.onFault) \in Status \cup {""}
  BY <1>4 DEF Verdicts, Status, RunnableStatus, SettledStatus
<1>6. WorldTypeOK' /\ PersonTypeOK'
  BY <1>1, <1>2 DEF DrainTypeOK, WorldTypeOK, PersonTypeOK, Outcomes, person
<1> DEFINE settling == [LoopOff EXCEPT !.pc = "settle", !.item = r,
                                      !.class = ReconciledClass(r),
                                      !.verdict = Verdict(ReconciledClass(r), knobs.onFault)]
<1>7. loop' = loop \/ loop' = settling
  BY <1>1
<1>8. /\ settling \in LoopType
      /\ settling.pc = "settle" /\ settling.item = r
      /\ settling.verdict = Verdict(ReconciledClass(r), knobs.onFault)
  BY <1>4, <1>5 DEF LoopType, LoopOff, IdOrNone, PidOrNone
<1> HIDE DEF settling
<1>9. HandlersTypeOK'
  BY <1>2, <1>7, <1>8, HandlerTypes, HandlerTypesNext DEF DrainTypeOK
<1>10. Claims'
  BY <1>2, <1>3, <1>4, <1>7, <1>8, PidsAssumption DEF Claims, Quiet, Fresh, NoPid
<1> QED BY <1>3, <1>6, <1>9, <1>10 DEF StepOK

LEMMA ForgottenType ==
  ASSUME HandlersTypeOK, NEW x
  PROVE  plan \in PlanType /\ NoPlan \in PlanType /\ Forgotten(x) \in PlanType
<1>1. plan \in PlanType
  BY DEF HandlersTypeOK, PlanType
<1>2. NoPlan \in PlanType
  BY DEF NoPlan, PlanType, IdOrNone
<1> QED BY <1>1, <1>2 DEF Forgotten

LEMMA PlannedType ==
  ASSUME WorldTypeOK, HandlersTypeOK, NEW x \in Ids, NEW class, PlanAutoResume(x, class)
  PROVE  plan' \in PlanType /\ ckpt' \in [Ids -> CkptType]
<1>1. Spent(x) \in Nat
  BY ForgottenType DEF Spent, PlanType
<1>2. ckpt \in [Ids -> CkptType] /\ [ckpt EXCEPT ![x].class = "faulted"] \in [Ids -> CkptType]
  BY DEF WorldTypeOK, CkptType, Failures
<1>3. [id |-> x, attempts |-> Spent(x) + 1, due |-> FALSE] \in PlanType
  BY <1>1 DEF PlanType, IdOrNone
<1> QED BY <1>2, <1>3, ForgottenType, Zenon DEF PlanAutoResume

\* Ending a run, in one of the three ways the loop does, hands no row a pid.
LEMMA SettleStep ==
  ASSUME TypeOK, NEW x \in Ids,
         Pause(x) \/ MarkSkipped(x) \/ \E s \in {"done", "failed", "awaiting-merge"} : Finish(x, s)
  PROVE  [Next]_qvars /\ Quiet
<1>1. ItemStep(x)
  BY DEF ItemStep
<1>2. \E s : row' = [row EXCEPT ![x] = SettledRow(x, s, NoPid)]
  BY DEF Pause, MarkSkipped, Finish, Settle
<1> QED BY <1>1, <1>2, ItemIsNext, QuietSettle

LEMMA SettleItemOK ==
  ASSUME DrainInv, SettleItem
  PROVE  StepOK
<1> USE DEF DrainInv, StoreInv
<1>1. /\ loop.item \in Ids
      /\ loop.verdict \in Verdicts
      /\ loop' = LoopTick
      /\ UNCHANGED <<child, outcome, closed, wiping, shipped, hub, reload, sweep, runner, stopper, person>>
  BY DEF SettleItem, Claims
<1>2. plan' \in PlanType /\ ckpt' \in [Ids -> CkptType]
  <2>1. WorldTypeOK /\ HandlersTypeOK
    BY DEF DrainTypeOK
  <2>2. CASE PlanAutoResume(loop.item, loop.class)
    BY <1>1, <2>1, <2>2, PlannedType
  <2>3. CASE plan' \in {plan, Forgotten(loop.item)} /\ ckpt' = ckpt
    <3>1. ckpt \in [Ids -> CkptType]
      BY <2>1 DEF WorldTypeOK, CkptType
    <3> QED BY <2>1, <2>3, <3>1, ForgottenType
  <2> QED BY <2>2, <2>3 DEF SettleItem
<1>3. [Next]_qvars /\ Quiet
  <2>1. CASE UNCHANGED qvars
    BY <2>1 DEF qvars, Quiet
  <2>2. CASE Pause(loop.item) \/ (loop.verdict # "paused" /\ Finish(loop.item, loop.verdict))
    BY <1>1, <2>2, SettleStep DEF Verdicts
  <2> QED BY <2>1, <2>2 DEF SettleItem
<1>4. LoopTick \in LoopType /\ LoopTick.pc = "tick"
  BY DEF LoopTick, LoopOff, LoopType, IdOrNone, PidOrNone, Classes, Outcomes, Failures
<1>5. WorldTypeOK' /\ HandlersTypeOK' /\ PersonTypeOK'
  <2>1. WorldTypeOK'
    BY <1>1, <1>2 DEF DrainTypeOK, WorldTypeOK, CkptType
  <2>2. HandlersTypeOK'
    BY <1>1, <1>2, <1>4, HandlerTypes, HandlerTypesNext DEF DrainTypeOK
  <2> QED BY <1>1, <2>1, <2>2, SamePerson DEF DrainTypeOK
<1>6. Claims'
  BY <1>1, <1>3, <1>4, PidsAssumption DEF Claims, Quiet, Fresh, NoPid
<1> QED BY <1>3, <1>5, <1>6 DEF StepOK

\* A step of the loop that leaves the world and the others alone.
LEMMA LoopMoves ==
  ASSUME DrainInv, [Next]_qvars, Quiet, loop' \in LoopType,
         loop'.pc \in {"skip", "spawn"} => loop'.item \in Ids,
         loop'.pc \notin {"settle", "mark"},
         plan' \in PlanType,
         UNCHANGED <<world, hub, reload, sweep, runner, stopper, person>>
  PROVE  StepOK
<1> USE DEF DrainInv, StoreInv
<1>1. WorldTypeOK' /\ HandlersTypeOK' /\ PersonTypeOK'
  BY ZenonT(60) DEF DrainTypeOK, WorldTypeOK, HandlersTypeOK, PersonTypeOK, LoopType, PlanType, world,
         person
<1>2. Claims'
  BY PidsAssumption DEF Claims, Quiet, Fresh, NoPid
<1> QED BY <1>1, <1>2 DEF StepOK

LEMMA TickWaitsOK ==
  ASSUME DrainInv, TickDisarmed \/ TickDry \/ LoopExits
  PROVE  StepOK
<1>1. /\ UNCHANGED <<world, hub, reload, sweep, runner, stopper, person>>
      /\ plan' \in {plan, NoPlan}
      /\ loop' \in {loop, LoopOff, [loop EXCEPT !.pc = "exit"]}
      /\ loop.pc \in {"tick", "exit"}
  BY DEF TickDisarmed, TickDry, LoopExits
<1>2. row' = row /\ [Next]_qvars
  BY DrainIsNext DEF TickDisarmed, TickDry, LoopExits, DrainStep, Rearm, FinishDraining, qvars
<1>3. Quiet
  BY <1>2 DEF Quiet
<1>4. LoopOff \in LoopType /\ LoopOff.pc = "off"
  BY DEF LoopOff, LoopType, IdOrNone, PidOrNone, Classes, Outcomes, Failures
<1>5. loop \in LoopType /\ NoPlan \in PlanType /\ plan \in PlanType
  BY DEF DrainInv, DrainTypeOK, HandlersTypeOK, LoopType, PlanType, NoPlan, IdOrNone
<1>6. loop' \in LoopType /\ loop'.pc \in {"off", "tick", "exit"}
  BY <1>1, <1>4, <1>5 DEF LoopType
<1> QED BY <1>1, <1>2, <1>3, <1>5, <1>6, LoopMoves

LEMMA TickPickOK ==
  ASSUME DrainInv, TickPick
  PROVE  StepOK
<1>1. PICK x \in Ids : loop' = [LoopOff EXCEPT !.pc = IF Duplicate(x) THEN "skip" ELSE "spawn",
                                               !.item = x]
  BY DEF TickPick
<1>2. /\ UNCHANGED <<qvars, world, hub, reload, sweep, runner, stopper, person>>
      /\ plan' = plan
  BY DEF TickPick
<1>3. loop' \in LoopType /\ loop'.pc \in {"skip", "spawn"} /\ loop'.item \in Ids
  BY <1>1 DEF LoopOff, LoopType, IdOrNone, PidOrNone, Classes, Outcomes, Failures
<1>4. Quiet /\ [Next]_qvars
  BY <1>2 DEF Quiet, qvars
<1>5. plan \in PlanType
  BY DEF DrainInv, DrainTypeOK, HandlersTypeOK, PlanType
<1> QED BY <1>2, <1>3, <1>4, <1>5, LoopMoves

LEMMA SkipItemOK ==
  ASSUME DrainInv, SkipItem
  PROVE  StepOK
<1>1. /\ loop.item \in Ids
      /\ loop' = LoopTick
      /\ UNCHANGED <<world, hub, reload, plan, sweep, runner, stopper, person>>
  BY DEF SkipItem, DrainInv, Claims
<1>2. LoopTick \in LoopType /\ LoopTick.pc = "tick"
  BY DEF LoopTick, LoopOff, LoopType, IdOrNone, PidOrNone, Classes, Outcomes, Failures
<1>3. [Next]_qvars /\ Quiet
  <2>1. CASE UNCHANGED qvars
    BY <2>1 DEF qvars, Quiet
  <2>2. CASE MarkSkipped(loop.item)
    BY <1>1, <2>2, SettleStep DEF DrainInv, StoreInv
  <2> QED BY <2>1, <2>2 DEF SkipItem
<1>4. plan' \in PlanType
  BY <1>1 DEF DrainInv, DrainTypeOK, HandlersTypeOK, PlanType
<1> QED BY <1>1, <1>2, <1>3, <1>4, LoopMoves

ChildType == {NoChild} \cup [st : {"boot", "live", "lost"}, item : Ids]

\* A child is started under a pid that nothing names.
LEMMA SpawnedType ==
  ASSUME WorldTypeOK, NEW x \in Ids, NEW p \in Pids \cup {NoPid}, Spawned(x, p)
  PROVE  WorldTypeOK'
<1>1. [st |-> "boot", item |-> x] \in ChildType
  BY DEF ChildType
<1>2. [child EXCEPT ![p] = [st |-> "boot", item |-> x]] \in [Pids -> ChildType]
  BY <1>1 DEF WorldTypeOK, ChildType
<1>3. child' \in [Pids -> ChildType]
  BY <1>2 DEF Spawned, WorldTypeOK, ChildType
<1> QED BY <1>3 DEF Spawned, WorldTypeOK, ChildType, Outcomes

LEMMA VacantFresh ==
  ASSUME NEW p \in Vacant
  PROVE  Fresh(p) /\ p # runner.pid /\ p # loop.pid
BY DEF Vacant, Named, Fresh

LEMMA HandlersKept ==
  ASSUME HandlersTypeOK, loop' \in LoopType,
         UNCHANGED <<hub, reload, plan, sweep, runner, stopper>>
  PROVE  HandlersTypeOK'
<1>1. loop' \in [pc : {"off", "tick", "settle", "skip", "spawn", "mark", "exit"},
                 item : IdOrNone, pid : PidOrNone, class : Classes, verdict : Status \cup {""}]
  BY DEF LoopType
<1> QED BY <1>1, ZenonT(60) DEF HandlersTypeOK

LEMMA SpawnItemOK ==
  ASSUME DrainInv, SpawnItem
  PROVE  StepOK
<1> USE DEF DrainInv
<1>1. /\ loop.item \in Ids
      /\ UNCHANGED <<qvars, hub, reload, plan, sweep, runner, stopper, person>>
  BY DEF SpawnItem, Claims
<1>2. PICK p \in Pids \cup {NoPid} :
        /\ Spawned(loop.item, p)
        /\ \/ p \in Vacant /\ loop' = [loop EXCEPT !.pc = "mark", !.pid = p]
           \/ loop' = LoopTick
  BY DEF SpawnItem, Vacant
<1>3. LoopTick \in LoopType /\ LoopTick.pc = "tick" /\ loop \in LoopType
  BY ZenonT(60) DEF LoopTick, LoopOff, LoopType, IdOrNone, PidOrNone, Classes, Outcomes, Failures,
         DrainTypeOK, HandlersTypeOK
<1>4. loop' \in LoopType /\ \/ loop'.pc = "tick"
                            \/ loop'.pc = "mark" /\ loop'.item = loop.item /\ loop'.pid = p /\ p \in Vacant
  BY <1>2, <1>3 DEF LoopType, PidOrNone
<1>5. WorldTypeOK'
  BY <1>1, <1>2, SpawnedType DEF DrainTypeOK
<1>6. HandlersTypeOK' /\ PersonTypeOK'
  <2>1. loop' \in LoopType
    BY <1>4
  <2>2. UNCHANGED <<hub, reload, plan, sweep, runner, stopper, halted, left>>
    BY <1>1 DEF person
  <2>3. HandlersTypeOK /\ PersonTypeOK
    BY DEF DrainTypeOK
  <2>4. HandlersTypeOK'
    BY <2>1, <2>2, <2>3, HandlersKept
  <2>5. PersonTypeOK'
    BY <2>2, <2>3 DEF PersonTypeOK
  <2> QED BY <2>4, <2>5
<1>7. [Next]_qvars
  BY <1>1
<1>8. row' = row
  BY <1>1 DEF qvars
<1>9. Claims'
  BY <1>1, <1>4, <1>8, VacantFresh DEF Claims, Fresh
<1> QED BY <1>5, <1>6, <1>7, <1>9 DEF StepOK

\* Marking a row running with a fresh pid spoils nobody else's claim to a pid.
LEMMA MarkStep ==
  ASSUME TypeOK, NEW x \in Ids, NEW p, Fresh(p), MarkRunning(x, p)
  PROVE  /\ [Next]_qvars
         /\ \A i \in Ids : row'[i].pid \in {row[i].pid, NoPid, p}
<1>1. p \in FreePids
  BY DEF FreePids, Fresh
<1>2. [Next]_qvars
  BY <1>1, ItemIsNext DEF ItemStep
<1> DEFINE r == SettledRow(x, "running", p)
<1>3. row' = [row EXCEPT ![x] = r]
  BY DEF MarkRunning, Settle
<1>4. r.pid = p
  BY RowFacts DEF SettledRow, Row, NoRow, TypeOK
<1> HIDE DEF r
<1> QED BY <1>2, <1>3, <1>4 DEF TypeOK

LEMMA MarkItemOK ==
  ASSUME DrainInv, MarkItem
  PROVE  StepOK
<1> USE DEF DrainInv, StoreInv
<1>1. /\ loop.item \in Ids /\ Fresh(loop.pid)
      /\ loop.pc = "mark"
      /\ loop' = LoopTick
      /\ UNCHANGED <<world, hub, reload, plan, sweep, runner, stopper, person>>
  BY DEF MarkItem, Claims
<1>2. LoopTick \in LoopType /\ LoopTick.pc = "tick"
  BY DEF LoopTick, LoopOff, LoopType, IdOrNone, PidOrNone, Classes, Outcomes, Failures
<1>3. [Next]_qvars /\ \A i \in Ids : row'[i].pid \in {row[i].pid, NoPid, loop.pid}
  <2>1. CASE UNCHANGED qvars
    BY <2>1 DEF qvars
  <2>2. CASE MarkRunning(loop.item, loop.pid)
    BY <1>1, <2>2, MarkStep
  <2> QED BY <2>1, <2>2 DEF MarkItem
<1>4. WorldTypeOK' /\ HandlersTypeOK' /\ PersonTypeOK'
  BY <1>1, <1>2, HandlerTypes, HandlerTypesNext, SameWorld, SamePerson DEF DrainTypeOK
<1>5. Claims'
  BY <1>1, <1>2, <1>3, PidsAssumption DEF Claims, Fresh, NoPid
<1> QED BY <1>3, <1>4, <1>5 DEF StepOK

LEMMA LoopStepOK ==
  ASSUME DrainInv, LoopStep
  PROVE  StepOK
BY TickRunningOK, SettleItemOK, TickWaitsOK, TickPickOK, SkipItemOK, SpawnItemOK, MarkItemOK
   DEF LoopStep

-----------------------------------------------------------------------------
(* The handlers *)

LEMMA EnsureType ==
  ASSUME HandlersTypeOK, Ensure
  PROVE  loop' \in LoopType /\ (loop' = loop \/ loop'.pc = "tick")
BY RestTypes, HandlerTypes DEF Ensure

\* A step that leaves the queue alone, and of the loop at most starts it.
LEMMA HandlerMoves ==
  ASSUME DrainInv, [Next]_qvars, Quiet, WorldTypeOK', HandlersTypeOK', PersonTypeOK',
         loop' = loop \/ loop'.pc \in {"tick", "off"},
         runner' = runner \/ runner'.pc \in {"idle", "ensure"}
  PROVE  StepOK
<1>1. Claims'
  BY PidsAssumption DEF DrainInv, Claims, Quiet, Fresh, NoPid
<1> QED BY <1>1 DEF StepOK

LEMMA SameQueue ==
  ASSUME UNCHANGED qvars
  PROVE  [Next]_qvars /\ Quiet
BY DEF qvars, Quiet

LEMMA RunSpawnsOK ==
  ASSUME DrainInv, RunSpawns
  PROVE  StepOK
<1> USE DEF DrainInv
<1>1. /\ runner.item \in Ids
      /\ UNCHANGED <<qvars, hub, reload, loop, plan, sweep, stopper, person>>
  BY DEF RunSpawns, Claims
<1>2. PICK p \in Vacant : /\ Spawned(runner.item, p)
                          /\ runner' = [runner EXCEPT !.pc = "mark", !.pid = p]
  BY DEF RunSpawns
<1>3. p \in Pids
  BY DEF Vacant
<1>4. WorldTypeOK'
  BY <1>1, <1>2, <1>3, SpawnedType DEF DrainTypeOK
<1>5. runner \in RunnerType
  BY HandlerTypes DEF DrainTypeOK
<1>6. /\ runner' \in RunnerType /\ runner'.pc = "mark" /\ runner'.pid = p
      /\ runner'.item = runner.item
  BY <1>2, <1>3, <1>5 DEF RunnerType, PidOrNone
<1>7. HandlersTypeOK' /\ PersonTypeOK'
  BY <1>1, <1>6, HandlerTypes, HandlerTypesNext, SamePerson DEF DrainTypeOK
<1>8. row' = row
  BY <1>1 DEF qvars
<1>9. Claims'
  BY <1>1, <1>6, <1>8, VacantFresh DEF Claims, Fresh
<1> QED BY <1>1, <1>4, <1>7, <1>9 DEF StepOK

LEMMA RunMarksOK ==
  ASSUME DrainInv, RunMarks
  PROVE  StepOK
<1> USE DEF DrainInv, StoreInv
<1>1. /\ runner.item \in Ids /\ Fresh(runner.pid)
      /\ runner.pc = "mark"
      /\ runner' \in {NoRun, [NoRun EXCEPT !.pc = "ensure"]}
      /\ UNCHANGED <<world, hub, reload, loop, plan, sweep, stopper, person>>
  BY DEF RunMarks, Claims
<1>2. runner' \in RunnerType /\ runner'.pc \in {"idle", "ensure"}
  BY <1>1 DEF NoRun, RunnerType, IdOrNone, PidOrNone
<1>3. [Next]_qvars /\ \A i \in Ids : row'[i].pid \in {row[i].pid, NoPid, runner.pid}
  <2>1. CASE UNCHANGED qvars
    BY <2>1 DEF qvars
  <2>2. CASE MarkRunning(runner.item, runner.pid)
    BY <1>1, <2>2, MarkStep
  <2> QED BY <2>1, <2>2 DEF RunMarks
<1>4. WorldTypeOK' /\ HandlersTypeOK' /\ PersonTypeOK'
  BY <1>1, <1>2, HandlerTypes, HandlerTypesNext, SameWorld, SamePerson DEF DrainTypeOK
<1>5. Claims'
  BY <1>1, <1>2, <1>3, PidsAssumption DEF Claims, Fresh, NoPid
<1> QED BY <1>3, <1>4, <1>5 DEF StepOK

LEMMA RunEnsuresOK ==
  ASSUME DrainInv, RunEnsures
  PROVE  StepOK
<1>1. Ensure /\ runner' = NoRun /\ UNCHANGED <<qvars, world, hub, reload, plan, sweep, stopper, person>>
  BY DEF RunEnsures
<1>2. WorldTypeOK' /\ HandlersTypeOK' /\ PersonTypeOK'
  BY <1>1, EnsureType, RestTypes, HandlerTypes, HandlerTypesNext, SameWorld, SamePerson
     DEF DrainInv, DrainTypeOK
<1> QED BY <1>1, <1>2, EnsureType, RestTypes, SameQueue, HandlerMoves DEF DrainInv, DrainTypeOK

LEMMA SweepStepOK ==
  ASSUME DrainInv, SweepStep
  PROVE  StepOK
<1> USE DEF DrainInv, DrainTypeOK
<1>1. CASE SweepReads
  <2>1. sweep' \in SweepType
    BY <1>1, HandlerTypes DEF SweepReads, SweepType
  <2> QED BY <1>1, <2>1, HandlerTypes, HandlerTypesNext, SameWorld, SamePerson, SameQueue,
             HandlerMoves DEF SweepReads
<1>2. ASSUME NEW x \in Ids, SweepSettles(x)
      PROVE  StepOK
  <2>1. /\ sweep' = [sweep EXCEPT !.todo = @ \ {x}]
        /\ UNCHANGED <<child, ckpt, closed, wiping, shipped, hub, reload, loop, runner, stopper, person>>
        /\ outcome' \in {outcome, [outcome EXCEPT ![x] = "absent"]}
        /\ plan' \in {plan, Forgotten(x)}
    BY <1>2 DEF SweepSettles
  <2>2. [Next]_qvars /\ Quiet
    <3>1. CASE UNCHANGED qvars
      BY <3>1, SameQueue
    <3>2. CASE Finish(x, "done")
      BY <3>2, SettleStep DEF StoreInv
    <3> QED BY <1>2, <3>1, <3>2 DEF SweepSettles
  <2>3. sweep' \in SweepType /\ plan' \in PlanType
    BY <2>1, HandlerTypes, ForgottenType DEF SweepType
  <2>4. WorldTypeOK'
    BY <2>1 DEF WorldTypeOK, Outcomes
  <2> QED BY <2>1, <2>2, <2>3, <2>4, HandlerTypes, HandlerTypesNext, SamePerson, HandlerMoves
             DEF person
<1>3. CASE SweepEnds
  <2>1. /\ Ensure \/ loop' = loop
        /\ hub' = "up" /\ sweep' = NoSweep
        /\ UNCHANGED <<qvars, world, reload, plan, runner, stopper, person>>
    BY <1>3 DEF SweepEnds
  <2>2. loop' \in LoopType /\ (loop' = loop \/ loop'.pc = "tick")
    BY <2>1, EnsureType, HandlerTypes
  <2> QED BY <2>1, <2>2, RestTypes, HandlerTypes, HandlerTypesNext, SameWorld, SamePerson,
             SameQueue, HandlerMoves
<1> QED BY <1>1, <1>2, <1>3 DEF SweepStep

LEMMA StopStepOK ==
  ASSUME DrainInv, StopStep
  PROVE  StepOK
<1> USE DEF DrainInv, DrainTypeOK
<1>1. CASE StopLooks
  <2>1. StopTargets \subseteq PidOrNone
    BY RowFacts DEF StopTargets, First, RunningRows, PidOrNone, StoreInv
  <2>2. /\ Ensure \/ loop' = loop
        /\ stopper' = NoStop \/ \E p \in PidOrNone : stopper' = [pc |-> "end", pid |-> p]
        /\ UNCHANGED <<qvars, world, hub, reload, plan, sweep, runner, person>>
    BY <1>1, <2>1 DEF StopLooks
  <2>3. stopper' \in StopType
    BY <2>2, RestTypes DEF StopType
  <2>4. loop' \in LoopType /\ (loop' = loop \/ loop'.pc = "tick")
    BY <2>2, EnsureType, HandlerTypes
  <2> QED BY <2>2, <2>3, <2>4, HandlerTypes, HandlerTypesNext, SameWorld, SamePerson, SameQueue,
             HandlerMoves
<1>2. CASE StopKills
  <2>1. UNCHANGED <<qvars, ckpt, outcome, closed, wiping, shipped, handlers, person>>
    BY <1>2 DEF StopKills
  <2>2. child' \in [Pids -> ChildType]
    BY <1>2 DEF StopKills, Alive, WorldTypeOK, ChildType, NoChild, IdOrNone
  <2>3. WorldTypeOK'
    BY <2>1, <2>2 DEF WorldTypeOK, ChildType
  <2>4. HandlersTypeOK' /\ loop' = loop /\ runner' = runner
    BY <2>1, HandlerTypes, HandlerTypesNext DEF handlers
  <2> QED BY <2>1, <2>3, <2>4, SamePerson, SameQueue, HandlerMoves
<1>3. CASE StopSettles
  <2>1. /\ stopper' = NoStop
        /\ UNCHANGED <<qvars, outcome, closed, wiping, shipped, hub, reload, loop, plan, sweep, runner,
                       person>>
    BY <1>3 DEF StopSettles
  <2>2. WorldTypeOK'
    <3>1. CASE UNCHANGED <<child, ckpt>>
      BY <2>1, <3>1 DEF WorldTypeOK
    <3>2. CASE child' = [child EXCEPT ![stopper.pid] = NoChild] /\ \E t : ckpt' = StampedStopped(t)
      <4>1. child' \in [Pids -> ChildType]
        BY <3>2 DEF WorldTypeOK, ChildType, NoChild, IdOrNone
      <4>2. ckpt' \in [Ids -> CkptType]
        <5>1. ckpt \in [Ids -> CkptType]
          BY DEF WorldTypeOK, CkptType
        <5>2. PICK t : ckpt' = StampedStopped(t)
          BY <3>2
        <5>3. CASE t \in Ids
          <6>1. [ckpt[t] EXCEPT !.class = "stopped"] \in CkptType
            BY <5>1, <5>3 DEF CkptType, Failures
          <6> QED BY <5>1, <5>2, <5>3, <6>1 DEF StampedStopped
        <5>4. CASE t \notin Ids
          BY <5>1, <5>2, <5>4 DEF StampedStopped
        <5> QED BY <5>3, <5>4
      <4> QED BY <2>1, <4>1, <4>2 DEF WorldTypeOK, ChildType, CkptType
    <3> QED BY <1>3, <3>1, <3>2, Zenon DEF StopSettles
  <2> QED BY <2>1, <2>2, RestTypes, HandlerTypes, HandlerTypesNext, SamePerson, SameQueue,
             HandlerMoves
<1> QED BY <1>1, <1>2, <1>3 DEF StopStep

LEMMA WipeOK ==
  ASSUME DrainInv, NEW x \in Ids, Wipe(x)
  PROVE  StepOK
<1> USE DEF DrainInv, DrainTypeOK
<1>1. ckpt' \in [Ids -> CkptType] /\ wiping' \subseteq Ids
  BY DEF Wipe, NoCkpt, WorldTypeOK, CkptType, Phases, Failures
<1>2. WorldTypeOK' /\ HandlersTypeOK' /\ loop' = loop /\ runner' = runner
  BY <1>1, HandlerTypes, HandlerTypesNext DEF Wipe, WorldTypeOK, CkptType, handlers
<1> QED BY <1>2, SamePerson, SameQueue, HandlerMoves DEF Wipe

\* The end of the hub's process keeps the queue and what the children left.
LEMMA HubDiesOK ==
  ASSUME DrainInv, HubDies, PersonTypeOK'
  PROVE  StepOK
<1> USE DEF DrainInv, DrainTypeOK
<1>1. WorldTypeOK'
  BY DEF HubDies, WorldTypeOK
<1>2. HandlersTypeOK'
  BY RestTypes, HandlerTypesNext DEF HubDies
<1> QED BY <1>1, <1>2, RestTypes, SameQueue, HandlerMoves DEF HubDies

LEMMA ReloadStepOK ==
  ASSUME DrainInv, ReloadStep
  PROVE  StepOK
<1> USE DEF DrainInv, DrainTypeOK
<1>1. CASE ReloadSeesIdle
  BY <1>1, HandlerTypes, HandlerTypesNext, SameWorld, SamePerson, SameQueue, HandlerMoves
     DEF ReloadSeesIdle
<1>2. CASE HubReloads
  BY <1>2, SamePerson, HubDiesOK DEF HubReloads
<1> QED BY <1>1, <1>2 DEF ReloadStep

LEMMA HubStepOK ==
  ASSUME DrainInv, HubStep
  PROVE  StepOK
<1> USE DEF DrainInv, DrainTypeOK
<1>1. CASE PlanComesDue
  <2>1. plan' \in PlanType
    BY <1>1, HandlerTypes DEF PlanComesDue, PlanType
  <2> QED BY <1>1, <2>1, HandlerTypes, HandlerTypesNext, SameWorld, SamePerson, SameQueue,
             HandlerMoves DEF PlanComesDue
<1>2. CASE HubBoots
  <2>1. sweep' \in SweepType
    BY <1>2 DEF HubBoots, NoSweep, SweepType, StoreInv, TypeOK
  <2> QED BY <1>2, <2>1, HandlerTypes, HandlerTypesNext, SameWorld, SamePerson, SameQueue,
             HandlerMoves DEF HubBoots
<1> QED BY <1>1, <1>2, LoopStepOK, SweepStepOK, RunSpawnsOK, RunMarksOK, RunEnsuresOK,
           StopStepOK, ReloadStepOK, WipeOK DEF HubStep, RunStep

-----------------------------------------------------------------------------
(* Gestures *)

LEMMA GestureType ==
  ASSUME PersonTypeOK, NEW g, Gesture(g)
  PROVE  PersonTypeOK'
BY BudgetAssumption DEF PersonTypeOK, Gesture

\* A gesture that edits the queue and touches nothing else.
LEMMA QueueGesture ==
  ASSUME DrainInv, NEW g, Gesture(g), [Next]_qvars, Quiet, UNCHANGED <<world, handlers>>
  PROVE  StepOK
<1>1. HandlersTypeOK' /\ loop' = loop /\ runner' = runner
  BY HandlerTypes, HandlerTypesNext DEF DrainInv, DrainTypeOK, handlers
<1>2. WorldTypeOK' /\ PersonTypeOK'
  BY SameWorld, GestureType DEF DrainInv, DrainTypeOK
<1> QED BY <1>1, <1>2, HandlerMoves

\* A start, scoped or not, arms the queue and sends a sweep on its way.
LEMMA StartOK ==
  ASSUME DrainInv, NEW g, Gesture(g), NEW b \in BatchIds \cup {NoBatch}, NEW k \in Knobs,
         b = NoBatch \/ b \in batches,
         Starting(ArmScope(b, k, {}))
  PROVE  StepOK
<1> USE DEF DrainInv, DrainTypeOK
<1>1. /\ ArmScope(b, k, {})
      /\ sweep' = [NoSweep EXCEPT !.pc = "read", !.ensure = TRUE]
      /\ UNCHANGED <<world, hub, reload, loop, plan, runner, stopper>>
  BY DEF Starting
<1>2. Quiet
  BY <1>1, QuietArm DEF StoreInv
<1>3. DrainStep
  <2>1. CASE b = NoBatch
    BY <1>1, <2>1 DEF DrainStep, Arm
  <2>2. CASE b \in BatchIds /\ b \in batches
    BY <1>1, <2>2 DEF DrainStep, ArmBatch
  <2> QED BY <2>1, <2>2, BatchIdsAssumption DEF StoreInv, TypeOK, NoBatch
<1>4. sweep' \in SweepType
  BY <1>1 DEF NoSweep, SweepType
<1> QED BY <1>1, <1>2, <1>3, <1>4, DrainIsNext, HandlerTypes, HandlerTypesNext, SameWorld,
           GestureType, HandlerMoves

LEMMA DequeueOK ==
  ASSUME DrainInv, NEW x \in Ids, Dequeue(x)
  PROVE  StepOK
<1> USE DEF DrainInv, DrainTypeOK
<1>1. /\ Gesture("dequeue")
      /\ Remove(x)
      /\ wiping' = wiping \cup WipeTargets(x)
      /\ UNCHANGED <<child, ckpt, outcome, closed, shipped, handlers>>
  BY DEF Dequeue, Request
<1>2. Quiet
  BY <1>1 DEF Remove, Quiet, NoRow, StoreInv, TypeOK
<1>3. [Next]_qvars
  BY <1>1, ItemIsNext DEF ItemStep
<1>4. WorldTypeOK'
  BY <1>1 DEF WorldTypeOK, WipeTargets
<1>5. HandlersTypeOK' /\ loop' = loop /\ runner' = runner
  BY <1>1, HandlerTypes, HandlerTypesNext DEF handlers
<1> QED BY <1>1, <1>2, <1>3, <1>4, <1>5, GestureType, HandlerMoves

LEMMA RunChecksOK ==
  ASSUME DrainInv, NEW x \in Ids, RunChecks(x)
  PROVE  StepOK
<1> USE DEF DrainInv, DrainTypeOK
<1>1. /\ Gesture("run")
      /\ runner' = [NoRun EXCEPT !.pc = "spawn", !.item = x]
      /\ UNCHANGED <<qvars, world, hub, reload, loop, plan, sweep, stopper>>
  BY DEF RunChecks, Request
<1>2. runner' \in RunnerType /\ runner'.pc = "spawn" /\ runner'.item = x
  BY <1>1 DEF NoRun, RunnerType, IdOrNone, PidOrNone
<1>3. WorldTypeOK' /\ HandlersTypeOK' /\ PersonTypeOK'
  BY <1>1, <1>2, HandlerTypes, HandlerTypesNext, SameWorld, GestureType
<1>4. row' = row
  BY <1>1 DEF qvars
<1>5. Claims'
  BY <1>1, <1>2, <1>4 DEF Claims, Fresh
<1> QED BY <1>1, <1>3, <1>5 DEF StepOK

LEMMA HubCrashesOK ==
  ASSUME DrainInv, HubCrashes
  PROVE  StepOK
BY GestureType, HubDiesOK DEF HubCrashes, DrainInv, DrainTypeOK

LEMMA OperatorStepOK ==
  ASSUME DrainInv, OperatorStep
  PROVE  StepOK
<1> USE DEF DrainInv, DrainTypeOK
<1>1. ASSUME NEW x \in Ids, EnqueueItem(x)
      PROVE  StepOK
  <2>1. Gesture("enqueue") /\ Enqueue(x, {}) /\ UNCHANGED <<world, handlers>>
    BY <1>1 DEF EnqueueItem, Request
  <2>2. [Next]_qvars
    BY <2>1, ItemIsNext DEF ItemStep
  <2> QED BY <2>1, <2>2, QuietEnqueue, QueueGesture DEF StoreInv
<1>2. ASSUME NEW x \in Ids, TrackerCloses(x)
      PROVE  StepOK
  <2>1. WorldTypeOK'
    BY <1>2 DEF TrackerCloses, WorldTypeOK
  <2>2. HandlersTypeOK' /\ loop' = loop /\ runner' = runner
    BY <1>2, HandlerTypes, HandlerTypesNext DEF TrackerCloses, handlers
  <2> QED BY <1>2, <2>1, <2>2, SameQueue, GestureType, HandlerMoves DEF TrackerCloses
<1>3. ASSUME NEW b \in BatchIds, FileBatch(b)
      PROVE  StepOK
  <2>1. PICK S \in SUBSET Ids : CreateBatch(b, S)
    BY <1>3 DEF FileBatch
  <2>2. [Next]_qvars /\ Quiet
    BY <2>1, QuietBatch DEF Next, BatchStep, StoreInv
  <2> QED BY <1>3, <2>2, QueueGesture DEF FileBatch, Request
<1>4. ASSUME NEW b \in BatchIds, StartBatch(b)
      PROVE  StepOK
  <2>1. PICK k \in Knobs : Starting(ArmBatch(b, k, {}))
    BY <1>4 DEF StartBatch
  <2>2. b \in batches /\ Starting(ArmScope(b, k, {}))
    BY <2>1 DEF Starting, ArmBatch
  <2> QED BY <1>4, <2>2, StartOK DEF StartBatch, Request
<1>5. CASE StartQueue
  <2>1. PICK k \in Knobs : Starting(Arm(k, {}))
    BY <1>5 DEF StartQueue
  <2>2. Starting(ArmScope(NoBatch, k, {}))
    BY <2>1 DEF Starting, Arm
  <2> QED BY <1>5, <2>2, StartOK DEF StartQueue, Request
<1>6. ASSUME SetDraining(FALSE)
      PROVE  [Next]_qvars /\ Quiet
  BY <1>6, DrainIsNext DEF DrainStep, SetDraining, Quiet
<1>7. CASE PauseQueue
  BY <1>6, <1>7, QueueGesture DEF PauseQueue, Request
<1>8. CASE StopDisarms
  <2>1. stopper' \in StopType
    BY <1>8 DEF StopDisarms, NoStop, StopType, PidOrNone
  <2> QED BY <1>6, <1>8, <2>1, HandlerTypes, HandlerTypesNext, SameWorld, GestureType,
             HandlerMoves DEF StopDisarms, Request
<1> QED BY <1>1, <1>2, <1>3, <1>4, <1>5, <1>7, <1>8, DequeueOK, RunChecksOK, HubCrashesOK
        DEF OperatorStep

-----------------------------------------------------------------------------
(* Children *)

LEMMA PostedType ==
  ASSUME NEW e \in Exits \cup {"stopped"}
  PROVE  Posted(e) \in Outcomes
BY ExitsAssumption DEF Posted, Outcomes

LEMMA CheckpointType ==
  ASSUME WorldTypeOK, NEW t \in Ids, NEW next \in NextCheckpoint(t)
  PROVE  next \in CkptType
<1>1. ckpt[t] \in CkptType /\ NoCkpt \in CkptType
  BY DEF WorldTypeOK, CkptType, NoCkpt, Phases, Failures
<1>2. /\ [NoCkpt EXCEPT !.phase = "working"] \in CkptType
      /\ [NoCkpt EXCEPT !.phase = "merged"] \in CkptType
      /\ [NoCkpt EXCEPT !.phase = "quarantined"] \in CkptType
  BY <1>1 DEF CkptType, Phases
<1>3. ASSUME NEW h \in BOOLEAN
      PROVE  /\ [ckpt[t] EXCEPT !.phase = "releasing", !.handoff = h] \in CkptType
             /\ [ckpt[t] EXCEPT !.phase = "merged", !.handoff = h] \in CkptType
             /\ [ckpt[t] EXCEPT !.handoff = h] \in CkptType
  BY <1>1 DEF CkptType, Phases
<1>4. \/ next = [NoCkpt EXCEPT !.phase = "working"]
      \/ next = [NoCkpt EXCEPT !.phase = "merged"]
      \/ next = [NoCkpt EXCEPT !.phase = "quarantined"]
      \/ next = [ckpt[t] EXCEPT !.phase = "releasing", !.handoff = FALSE]
      \/ next = [ckpt[t] EXCEPT !.phase = "merged", !.handoff = FALSE]
      \/ next = [ckpt[t] EXCEPT !.handoff = "handoff" \in Exits]
  BY Zenon DEF NextCheckpoint
<1> DEFINE h == "handoff" \in Exits
<1>5. h \in BOOLEAN
  OBVIOUS
<1>6. [ckpt[t] EXCEPT !.handoff = h] \in CkptType
  <2> HIDE DEF h
  <2> QED BY <1>3, <1>5
<1> QED BY <1>2, <1>3, <1>4, <1>6

LEMMA ChildStepOK ==
  ASSUME DrainInv, NEW p \in Pids, ChildStep(p)
  PROVE  StepOK
<1> USE DEF DrainInv, DrainTypeOK
<1>1. UNCHANGED <<qvars, closed, wiping, handlers, person>>
  BY DEF ChildStep, ChildRegisters, ChildWorks, ChildEnds, ChildCrashes, Reaped
<1>2. child' \in [Pids -> ChildType]
  <2>1. child \in [Pids -> ChildType] /\ NoChild \in ChildType
    BY DEF WorldTypeOK, ChildType, NoChild, IdOrNone
  <2>2. \/ child' = child
        \/ child' = [child EXCEPT ![p] = NoChild]
        \/ child[p].st # "none" /\ child' = [child EXCEPT ![p].st = "live"]
        \/ child[p].st # "none" /\ child' = [child EXCEPT ![p].st = "lost"]
    BY <2>1 DEF ChildStep, ChildRegisters, ChildWorks, ChildEnds, ChildCrashes, Reaped
  <2>3. ASSUME NEW s \in {"live", "lost"}, child[p].st # "none"
        PROVE  [child EXCEPT ![p].st = s] \in [Pids -> ChildType]
    <3>1. child[p] \in [st : {"boot", "live", "lost"}, item : Ids]
      BY <2>1, <2>3 DEF ChildType, NoChild
    <3>2. [child[p] EXCEPT !.st = s] \in ChildType
      BY <3>1 DEF ChildType
    <3> QED BY <2>1, <3>2
  <2> QED BY <2>1, <2>2, <2>3
<1>3. ckpt' \in [Ids -> CkptType] /\ outcome' \in [Ids -> Outcomes] /\ shipped' \subseteq Ids
  <2>0. ckpt \in [Ids -> CkptType] /\ outcome \in [Ids -> Outcomes] /\ shipped \subseteq Ids
    BY DEF WorldTypeOK, CkptType
  <2>1. CASE UNCHANGED <<ckpt, outcome, shipped>>
    BY <2>0, <2>1
  <2>2. CASE ChildWorks(p)
    <3>1. PICK t \in {child[p].item} \cup Children[child[p].item] :
            /\ \E next \in NextCheckpoint(t) \ {ckpt[t]} : ckpt' = [ckpt EXCEPT ![t] = next]
            /\ shipped' = IF ckpt'[t].phase = "merged" THEN shipped \cup {t} ELSE shipped
            /\ outcome' = outcome
      BY <2>2 DEF ChildWorks
    <3>2. t \in Ids
      <4>1. child[p] \in ChildType /\ child[p] # NoChild
        BY <2>2 DEF ChildWorks, WorldTypeOK, ChildType, NoChild
      <4>2. child[p].item \in Ids
        BY <4>1 DEF ChildType
      <4> QED BY <3>1, <4>2, ChildrenAssumption
    <3>3. PICK next \in NextCheckpoint(t) : ckpt' = [ckpt EXCEPT ![t] = next]
      BY <3>1
    <3>4. next \in CkptType
      BY <3>2, CheckpointType
    <3> QED BY <2>0, <3>1, <3>2, <3>3, <3>4
  <2>3. ASSUME NEW e \in Exits \cup {"stopped"}, ChildEnds(p, e)
        PROVE  ckpt' \in [Ids -> CkptType] /\ outcome' \in [Ids -> Outcomes] /\ shipped' \subseteq Ids
    <3>1. \/ ckpt' = ckpt
          \/ e \in Failures /\ ckpt' = [ckpt EXCEPT ![child[p].item].class = e]
      BY <2>3 DEF ChildEnds
    <3>2. /\ outcome' \in {outcome, [outcome EXCEPT ![child[p].item] = Posted(e)]}
          /\ shipped' = shipped
      BY <2>3 DEF ChildEnds
    <3>3. ckpt' \in [Ids -> CkptType]
      BY <2>0, <3>1 DEF CkptType
    <3> QED BY <2>0, <3>2, <3>3, PostedType
  <2> QED BY <2>1, <2>2, <2>3 DEF ChildStep, ChildRegisters, ChildCrashes, Reaped
<1>4. WorldTypeOK'
  BY <1>1, <1>2, <1>3 DEF WorldTypeOK, ChildType, CkptType
<1>5. HandlersTypeOK' /\ loop' = loop /\ runner' = runner
  BY <1>1, HandlerTypes, HandlerTypesNext DEF handlers
<1> QED BY <1>1, <1>4, <1>5, SamePerson, SameQueue, HandlerMoves

LEMMA ChildAsksOK ==
  ASSUME DrainInv, NEW p \in Pids, ChildAsksReload(p)
  PROVE  StepOK
BY HandlerTypes, HandlerTypesNext, SameWorld, SamePerson, SameQueue, HandlerMoves
   DEF ChildAsksReload, DrainInv, DrainTypeOK

-----------------------------------------------------------------------------
(* The step invariant *)

LEMMA DrainInitInv == DrainInit => DrainInv
<1> SUFFICES ASSUME DrainInit PROVE DrainInv
  OBVIOUS
<1>1. StoreInv
  BY InitInv DEF DrainInit
<1>2. WorldTypeOK
  BY DEF DrainInit, WorldTypeOK, NoCkpt, Phases, Failures, Outcomes
<1>3. HandlersTypeOK
  BY RestTypes
     DEF DrainInit, HandlersTypeOK, LoopType, PlanType, SweepType, RunnerType, StopType
<1>4. PersonTypeOK
  <2>1. halted = FALSE /\ left = MaxGestures
    BY DEF DrainInit
  <2>2. left \in 0..MaxGestures
    BY <2>1, BudgetAssumption
  <2> QED BY <2>1, <2>2 DEF PersonTypeOK
<1>5. Claims
  BY DEF DrainInit, Claims, LoopOff, NoRun
<1> QED BY <1>1, <1>2, <1>3, <1>4, <1>5 DEF DrainInv, DrainTypeOK, StoreInv

LEMMA DrainStepOK ==
  ASSUME DrainInv, [DrainNext]_vars
  PROVE  StepOK
<1>1. CASE UNCHANGED vars
  <2>1. UNCHANGED <<qvars, world, handlers, person>>
    BY <1>1 DEF vars
  <2>2. loop' = loop /\ runner' = runner
    BY <2>1 DEF handlers
  <2> QED BY <2>1, <2>2, SameWorld, SamePerson, SameQueue, HandlerTypes, HandlerTypesNext,
             HandlerMoves DEF DrainInv, DrainTypeOK, handlers
<1> QED BY <1>1, OperatorStepOK, HubStepOK, ChildStepOK, ChildAsksOK DEF DrainNext

LEMMA DrainInvStep ==
  ASSUME DrainInv, [DrainNext]_vars
  PROVE  DrainInv'
<1>1. StepOK
  BY DrainStepOK
<1>2. StoreInv'
  BY <1>1, StoreStepInv DEF DrainInv, StepOK
<1> QED BY <1>1, <1>2 DEF DrainInv, DrainTypeOK, StepOK, StoreInv

\* What a goroutine holds when it resumes is still true of the queue: the item it
\* acts on is a ticket, and the pid it is about to write names no other row.
THEOREM DrainInvHolds == DrainSpec => []DrainInv
<1>1. DrainInv /\ [DrainNext]_vars => DrainInv'
  BY DrainInvStep
<1> QED BY DrainInitInv, <1>1, PTL DEF DrainSpec

\* The checkpoints, reports, children and goroutines of the hub keep to their
\* values, and every child that has been started belongs to a ticket.
THEOREM DrainTyped == DrainSpec => []DrainTypeOK
<1>1. DrainInv => DrainTypeOK
  BY DEF DrainInv
<1> QED BY <1>1, DrainInvHolds, PTL

\* The drain loop, the handlers, the boot sweep and their children use the queue
\* only as the store allows: each of their steps is one legal store transaction
\* or leaves the queue alone.  A run is therefore never marked with a pid that
\* another row holds, and what StoreInv says holds of every repo's drain.
THEOREM DrainImplementsStore == DrainSpec => ImplementsStore
<1>1. DrainInit => Init
  BY DEF DrainInit
<1>2. DrainInv /\ [DrainNext]_vars => [Next]_qvars
  BY DrainStepOK DEF StepOK
<1> QED BY <1>1, <1>2, DrainInvHolds, PTL DEF DrainSpec, ImplementsStore, Spec

-----------------------------------------------------------------------------
(* Done means delivered; what is settled is dead *)

\* A step that settles no row as done, and one that starts no run.
DoneKept == \A i \in Ids : row'[i].status = "done" => row[i].status = "done"
RunsKept == \A i \in Ids : row'[i].status = "running"
                             => row[i].status = "running" /\ row'[i].pid = row[i].pid

-----------------------------------------------------------------------------
(* What each store transaction of the drain keeps *)

LEMMA SettleKeeps ==
  ASSUME TypeOK, NEW x \in Ids, NEW s, NEW p, row' = [row EXCEPT ![x] = SettledRow(x, s, p)]
  PROVE  /\ s # "done" => DoneKept
         /\ s # "running" => RunsKept
         /\ \A i \in Ids \ {x} : row'[i] = row[i]
         /\ row'[x].status = s
<1> DEFINE r == SettledRow(x, s, p)
<1>1. r.status = s
  BY RowFacts DEF SettledRow, Row, NoRow, TypeOK
<1> HIDE DEF r
<1>2. row' = [row EXCEPT ![x] = r]
  BY DEF r
<1> QED BY <1>1, <1>2 DEF DoneKept, RunsKept, TypeOK

LEMMA EnqueueKeeps ==
  ASSUME TypeOK, NEW x \in Ids, Enqueue(x, {})
  PROVE  DoneKept /\ RunsKept
<1>1. PICK subs \in SubStates(x, {"todo", "done"}) : Add(x, {}, subs) \/ AddFront(x, {}, subs)
  BY DEF Enqueue
<1>2. CASE row' = [row EXCEPT ![x] = NewRow({}, subs)]
  <2> DEFINE r == NewRow({}, subs)
  <2>1. r.status = "pending"
    BY DEF NewRow, NoRow
  <2> HIDE DEF r
  <2>2. row' = [row EXCEPT ![x] = r]
    BY <1>2 DEF r
  <2> QED BY <2>1, <2>2 DEF DoneKept, RunsKept, TypeOK
<1>3. CASE row' = [row EXCEPT ![x].skips = {}]
  BY <1>3 DEF DoneKept, RunsKept, TypeOK, Row, NoRow
<1> QED BY <1>1, <1>2, <1>3 DEF Add, AddFront

LEMMA ArmKeeps ==
  ASSUME TypeOK, NEW b, NEW k \in Knobs, ArmScope(b, k, {})
  PROVE  DoneKept /\ RunsKept
<1>1. ASSUME NEW i \in Ids
      PROVE  \/ /\ ArmedRow(i, b, k.noResume, {}).status = row[i].status
                /\ ArmedRow(i, b, k.noResume, {}).pid = row[i].pid
             \/ ArmedRow(i, b, k.noResume, {}).status = "pending"
  BY RowFacts DEF ArmedRow, Restarted, TypeOK, Row, NoRow
<1> QED BY <1>1 DEF ArmScope, DoneKept, RunsKept

LEMMA BatchKeeps ==
  ASSUME TypeOK, NEW b, NEW S, CreateBatch(b, S)
  PROVE  DoneKept /\ RunsKept
<1>1. ASSUME NEW i \in Ids
      PROVE  InBatch(S, b)[i].status = row[i].status /\ InBatch(S, b)[i].pid = row[i].pid
  BY DEF InBatch, TypeOK, Row, NoRow
<1> QED BY <1>1 DEF CreateBatch, DoneKept, RunsKept

LEMMA AdvanceKeeps ==
  ASSUME TypeOK, NEW r \in Ids, NEW states, SetSubIssueStates(r, states)
  PROVE  /\ DoneKept /\ RunsKept
         /\ \A i \in Ids : row'[i].pid = row[i].pid
BY DEF SetSubIssueStates, DoneKept, RunsKept, TypeOK, Row, NoRow

\* What the gestures do to the queue: they settle nothing and start no run.
LEMMA GestureKeeps ==
  ASSUME DrainInv, OperatorStep
  PROVE  DoneKept /\ RunsKept
<1> USE DEF DrainInv, StoreInv
<1>1. ASSUME UNCHANGED row
      PROVE  DoneKept /\ RunsKept
  BY <1>1 DEF DoneKept, RunsKept
<1>2. ASSUME NEW x \in Ids, EnqueueItem(x) \/ Dequeue(x) \/ RunChecks(x) \/ TrackerCloses(x)
      PROVE  DoneKept /\ RunsKept
  <2>1. CASE EnqueueItem(x)
    BY <2>1, EnqueueKeeps DEF EnqueueItem
  <2>2. CASE Dequeue(x)
    BY <2>2 DEF Dequeue, Remove, DoneKept, RunsKept, NoRow, TypeOK
  <2> QED BY <1>1, <1>2, <2>1, <2>2 DEF RunChecks, TrackerCloses, qvars
<1>3. ASSUME NEW b \in BatchIds, FileBatch(b) \/ StartBatch(b)
      PROVE  DoneKept /\ RunsKept
  BY <1>3, BatchKeeps, ArmKeeps DEF FileBatch, StartBatch, Starting, ArmBatch
<1>4. CASE StartQueue
  BY <1>4, ArmKeeps DEF StartQueue, Starting, Arm
<1>5. CASE PauseQueue \/ StopDisarms \/ HubCrashes
  BY <1>1, <1>5 DEF PauseQueue, StopDisarms, HubCrashes, HubDies, SetDraining, qvars
<1> QED BY <1>2, <1>3, <1>4, <1>5 DEF OperatorStep

-----------------------------------------------------------------------------
(* Done only if shipped *)

\* Every place a row's "done" can come from is backed by a delivery.
ShipInv ==
  /\ wiping = {}
  /\ closed \subseteq shipped
  /\ \A x \in Ids : ckpt[x].phase = "merged" => x \in shipped
  /\ \A x \in Ids : outcome[x] = "clean" => ckpt[x].phase = "quarantined" \/ x \in shipped
  /\ loop.pc = "settle" /\ loop.verdict = "done" => loop.item \in shipped
  /\ DoneOnlyIfShipped

PhasesKept == \A x \in Ids : ckpt'[x].phase = ckpt[x].phase

\* A step that delivers nothing, reports nothing and settles nothing as done.
LEMMA ShipKept ==
  ASSUME ShipInv, DoneKept, PhasesKept, UNCHANGED <<closed, wiping, shipped>>,
         \A x \in Ids : outcome'[x] \in {outcome[x], "absent"},
         loop' = loop \/ loop'.pc # "settle"
  PROVE  ShipInv'
BY DEF ShipInv, DoneKept, PhasesKept, DoneOnlyIfShipped

LEMMA ShipWaits ==
  ASSUME ShipInv, DoneKept, UNCHANGED <<ckpt, outcome, closed, wiping, shipped>>,
         loop' = loop \/ loop'.pc # "settle"
  PROVE  ShipInv'
BY ShipKept DEF PhasesKept

\* A verdict of done rests on a merge or on a clean report.
LEMMA DoneVerdict ==
  ASSUME ShipInv, DrainInv, NEW x \in Ids, NEW onFault,
         Verdict(ReconciledClass(x), onFault) = "done"
  PROVE  x \in shipped
<1>1. ReconciledClass(x) \notin {"unknown", "paused", "stopped", "awaiting-merge", "faulted", "gave-up"}
  BY DEF Verdict
<1>2. outcome[x] \in Outcomes
  BY DEF DrainInv, DrainTypeOK, WorldTypeOK
<1>3. outcome[x] \in {"absent", "clean"}
  BY <1>1, <1>2 DEF ReconciledClass, Outcomes
<1>4. ReconciledClass(x) = CheckpointClass(x)
  BY <1>1, <1>3 DEF ReconciledClass
<1>5. CheckpointClass(x) = ""
  BY <1>1, <1>4, ClassType DEF DrainInv, DrainTypeOK, Failures
<1>6. ckpt[x].phase # "quarantined"
  BY <1>5 DEF CheckpointClass
<1>7. outcome[x] = "clean" \/ ckpt[x].phase = "merged"
  BY <1>1, <1>3, <1>5 DEF ReconciledClass
<1> QED BY <1>6, <1>7 DEF ShipInv

LEMMA ShipLoop ==
  ASSUME ShipInv, DrainInv, LoopStep
  PROVE  ShipInv'
<1> USE DEF DrainInv, StoreInv
<1>1. CASE TickRunning
  <2>1. PICK r \in Ids :
          /\ SetSubIssueStates(r, Advanced(r))
          /\ \/ UNCHANGED <<loop, outcome>>
             \/ /\ loop' = [LoopOff EXCEPT !.pc = "settle", !.item = r,
                                           !.class = ReconciledClass(r),
                                           !.verdict = Verdict(ReconciledClass(r), knobs.onFault)]
                /\ outcome' = [outcome EXCEPT ![r] = "absent"]
    BY <1>1 DEF TickRunning, First, RunningRows
  <2>2. DoneKept
    BY <2>1, AdvanceKeeps
  <2>3. UNCHANGED <<ckpt, closed, wiping, shipped>>
    BY <1>1 DEF TickRunning
  <2>4. CASE UNCHANGED <<loop, outcome>>
    BY <2>2, <2>3, <2>4, ShipWaits
  <2>5. CASE ~UNCHANGED <<loop, outcome>>
    <3>1. loop'.item = r /\ loop'.verdict = Verdict(ReconciledClass(r), knobs.onFault)
      BY <2>1, <2>5 DEF LoopOff
    <3>2. \A x \in Ids : outcome'[x] \in {outcome[x], "absent"}
      BY <2>1, <2>5 DEF DrainTypeOK, WorldTypeOK
    <3>3. loop'.verdict = "done" => r \in shipped
      BY <3>1, DoneVerdict
    <3> QED BY <2>2, <2>3, <3>1, <3>2, <3>3 DEF ShipInv, DoneKept, DoneOnlyIfShipped
  <2> QED BY <2>4, <2>5
<1>2. CASE SettleItem
  <2>1. /\ UNCHANGED <<outcome, closed, wiping, shipped>>
        /\ loop'.pc = "tick"
        /\ loop.pc = "settle" /\ loop.item \in Ids
    BY <1>2 DEF SettleItem, LoopTick, LoopOff, Claims
  <2>2. PhasesKept
    BY <1>2 DEF SettleItem, PlanAutoResume, PhasesKept, DrainTypeOK, WorldTypeOK
  <2>3. CASE UNCHANGED qvars
    BY <2>1, <2>2, <2>3, ShipKept DEF qvars, DoneKept
  <2>4. CASE Pause(loop.item)
    BY <2>1, <2>2, <2>4, SettleKeeps, ShipKept DEF Pause
  <2>5. CASE loop.verdict # "paused" /\ Finish(loop.item, loop.verdict)
    <3>1. row' = [row EXCEPT ![loop.item] = SettledRow(loop.item, loop.verdict, NoPid)]
      BY <2>5 DEF Finish, Settle
    <3>2. CASE loop.verdict = "done"
      <4>1. loop.item \in shipped
        BY <2>1, <3>2 DEF ShipInv
      <4>2. \A i \in Ids \ {loop.item} : row'[i] = row[i]
        BY <2>1, <3>1, SettleKeeps
      <4> QED BY <2>1, <2>2, <4>1, <4>2 DEF ShipInv, PhasesKept, DoneOnlyIfShipped
    <3>3. CASE loop.verdict # "done"
      BY <2>1, <2>2, <3>1, <3>3, SettleKeeps, ShipKept
    <3> QED BY <3>2, <3>3
  <2> QED BY <1>2, <2>3, <2>4, <2>5 DEF SettleItem
<1>3. CASE TickDisarmed \/ TickDry \/ TickPick \/ LoopExits
  <2>1. row' = row
    BY <1>3 DEF TickDisarmed, TickDry, TickPick, LoopExits, Rearm, FinishDraining, qvars
  <2>2. UNCHANGED world
    BY <1>3 DEF TickDisarmed, TickDry, TickPick, LoopExits
  <2>3. loop' = loop \/ loop'.pc # "settle"
    <3>1. loop \in LoopType
      BY HandlerTypes DEF DrainTypeOK
    <3>2. CASE TickDisarmed \/ TickDry \/ LoopExits
      <4>1. loop' \in {loop, LoopOff, [loop EXCEPT !.pc = "exit"]}
        BY <3>2 DEF TickDisarmed, TickDry, LoopExits
      <4>2. [loop EXCEPT !.pc = "exit"].pc = "exit"
        BY <3>1 DEF LoopType
      <4> QED BY <4>1, <4>2, RestTypes
    <3>3. CASE TickPick
      BY <3>3 DEF TickPick, LoopOff
    <3> QED BY <1>3, <3>2, <3>3
  <2> QED BY <2>1, <2>2, <2>3, ShipWaits DEF world, DoneKept
<1>4. CASE SkipItem
  <2>1. loop.item \in Ids /\ loop'.pc = "tick" /\ UNCHANGED world
    BY <1>4 DEF SkipItem, Claims, LoopTick, LoopOff
  <2>2. DoneKept
    BY <1>4, <2>1, SettleKeeps DEF SkipItem, MarkSkipped, Settle, qvars, DoneKept
  <2> QED BY <2>1, <2>2, ShipWaits DEF world
<1>5. CASE SpawnItem
  <2>1. /\ UNCHANGED <<qvars, ckpt, closed, wiping, shipped>>
        /\ outcome' = [outcome EXCEPT ![loop.item] = "absent"]
    BY <1>5 DEF SpawnItem, Spawned
  <2>2. loop'.pc # "settle"
    BY <1>5 DEF SpawnItem, LoopTick, LoopOff, DrainTypeOK, HandlersTypeOK
  <2>3. \A x \in Ids : outcome'[x] \in {outcome[x], "absent"}
    BY <2>1 DEF DrainTypeOK, WorldTypeOK
  <2> QED BY <2>1, <2>2, <2>3, ShipKept DEF qvars, DoneKept, PhasesKept
<1>6. CASE MarkItem
  <2>1. loop.item \in Ids /\ loop'.pc = "tick" /\ UNCHANGED world
    BY <1>6 DEF MarkItem, Claims, LoopTick, LoopOff
  <2>2. DoneKept
    BY <1>6, <2>1, SettleKeeps DEF MarkItem, MarkRunning, Settle, qvars, DoneKept
  <2> QED BY <2>1, <2>2, ShipWaits DEF world
<1> QED BY <1>1, <1>2, <1>3, <1>4, <1>5, <1>6 DEF LoopStep

\* What the hub's memory held is gone; nothing was settled.
LEMMA ShipEnds ==
  ASSUME ShipInv, DoneKept, HubDies
  PROVE  ShipInv'
BY DEF HubDies, LoopOff, ShipInv, DoneKept, DoneOnlyIfShipped

LEMMA ShipReload ==
  ASSUME ShipInv, ReloadStep
  PROVE  ShipInv'
<1>1. DoneKept
  BY DEF ReloadStep, ReloadSeesIdle, HubReloads, HubDies, qvars, DoneKept
<1>2. CASE ReloadSeesIdle
  BY <1>1, <1>2, ShipWaits DEF ReloadSeesIdle, world
<1>3. CASE HubReloads
  BY <1>1, <1>3, ShipEnds DEF HubReloads
<1> QED BY <1>2, <1>3 DEF ReloadStep

LEMMA ShipHub ==
  ASSUME ShipInv, DrainInv, HubStep
  PROVE  ShipInv'
<1> USE DEF DrainInv, StoreInv
<1>1. CASE PlanComesDue \/ HubBoots \/ RunEnsures \/ StopLooks \/ SweepReads \/ SweepEnds
  <2>1. UNCHANGED <<qvars, world>>
    BY <1>1 DEF PlanComesDue, HubBoots, RunEnsures, StopLooks, SweepReads, SweepEnds
  <2>2. loop' = loop \/ loop'.pc = "tick"
    BY <1>1, RestTypes
       DEF PlanComesDue, HubBoots, RunEnsures, StopLooks, SweepReads, SweepEnds, Ensure
  <2> QED BY <2>1, <2>2, ShipWaits DEF qvars, world, DoneKept
<1>2. ASSUME NEW x \in Ids, SweepSettles(x)
      PROVE  ShipInv'
  <2>1. UNCHANGED <<ckpt, closed, wiping, shipped, loop>>
    BY <1>2 DEF SweepSettles
  <2>2. \A i \in Ids : outcome'[i] \in {outcome[i], "absent"}
    BY <1>2 DEF SweepSettles, DrainTypeOK, WorldTypeOK
  <2>3. CASE UNCHANGED qvars
    BY <2>1, <2>2, <2>3, ShipKept DEF qvars, DoneKept, PhasesKept
  <2>4. CASE SettleEvidence(x) /\ Finish(x, "done")
    <3>1. x \in shipped
      BY <2>4 DEF SettleEvidence, ShipInv
    <3>2. \A i \in Ids \ {x} : row'[i] = row[i]
      BY <2>4, SettleKeeps DEF Finish, Settle
    <3> QED BY <2>1, <2>2, <3>1, <3>2 DEF ShipInv, DoneOnlyIfShipped
  <2> QED BY <1>2, <2>3, <2>4 DEF SweepSettles
<1>3. CASE RunSpawns
  <2>1. /\ UNCHANGED <<qvars, ckpt, closed, wiping, shipped, loop>>
        /\ outcome' = [outcome EXCEPT ![runner.item] = "absent"]
    BY <1>3 DEF RunSpawns, Spawned
  <2>2. \A i \in Ids : outcome'[i] \in {outcome[i], "absent"}
    BY <2>1 DEF DrainTypeOK, WorldTypeOK
  <2> QED BY <2>1, <2>2, ShipKept DEF qvars, DoneKept, PhasesKept
<1>4. CASE RunMarks
  <2>1. runner.item \in Ids /\ UNCHANGED <<world, loop>>
    BY <1>4 DEF RunMarks, Claims
  <2>2. DoneKept
    <3>1. CASE UNCHANGED qvars
      BY <3>1 DEF qvars, DoneKept
    <3>2. CASE MarkRunning(runner.item, runner.pid)
      <4>1. row' = [row EXCEPT ![runner.item] = SettledRow(runner.item, "running", runner.pid)]
        BY <3>2 DEF MarkRunning, Settle
      <4>2. "running" # "done"
        OBVIOUS
      <4> HIDE DEF DrainInv
      <4>3. TypeOK
        BY DEF DrainInv
      <4> QED BY <2>1, <4>1, <4>2, <4>3, SettleKeeps
    <3>3. UNCHANGED qvars \/ MarkRunning(runner.item, runner.pid)
      BY <1>4 DEF RunMarks
    <3> QED BY <3>1, <3>2, <3>3
  <2> QED BY <2>1, <2>2, ShipWaits DEF world
<1>5. CASE StopKills
  BY <1>5, ShipWaits DEF StopKills, handlers, qvars, DoneKept
<1>6. CASE StopSettles
  <2>1. UNCHANGED <<qvars, outcome, closed, wiping, shipped, loop>>
    BY <1>6 DEF StopSettles
  <2>2. ckpt \in [Ids -> CkptType]
    BY DEF DrainTypeOK, WorldTypeOK, CkptType
  <2>3. ckpt' = ckpt \/ \E t : ckpt' = [ckpt EXCEPT ![t].class = "stopped"]
    BY <1>6 DEF StopSettles, StampedStopped
  <2>4. PhasesKept
    BY <2>2, <2>3 DEF PhasesKept, CkptType
  <2> QED BY <2>1, <2>4, ShipKept DEF qvars, DoneKept
<1>7. ASSUME NEW x \in Ids, Wipe(x)
      PROVE  FALSE
  BY <1>7 DEF Wipe, ShipInv
<1> QED BY <1>1, <1>2, <1>3, <1>4, <1>5, <1>6, <1>7, ShipLoop, ShipReload
        DEF HubStep, SweepStep, RunStep, StopStep

LEMMA ShipGestures ==
  ASSUME ShipInv, DrainInv, OperatorStep, "dequeue" \notin Gestures
  PROVE  ShipInv'
<1>1. DoneKept
  BY GestureKeeps
<1>2. ASSUME NEW x \in Ids, Dequeue(x)
      PROVE  FALSE
  BY <1>2 DEF Dequeue, Request, Gesture
<1>3. ASSUME NEW x \in Ids, EnqueueItem(x) \/ RunChecks(x)
      PROVE  ShipInv'
  BY <1>1, <1>3, ShipWaits DEF EnqueueItem, RunChecks, world, handlers
<1>4. ASSUME NEW x \in Ids, TrackerCloses(x)
      PROVE  ShipInv'
  BY <1>1, <1>4 DEF TrackerCloses, handlers, ShipInv, DoneKept, DoneOnlyIfShipped
<1>5. ASSUME NEW b \in BatchIds, FileBatch(b) \/ StartBatch(b)
      PROVE  ShipInv'
  BY <1>1, <1>5, ShipWaits DEF FileBatch, StartBatch, Starting, world, handlers
<1>6. CASE StartQueue \/ PauseQueue \/ StopDisarms
  BY <1>1, <1>6, ShipWaits DEF StartQueue, Starting, PauseQueue, StopDisarms, world, handlers
<1>7. CASE HubCrashes
  BY <1>1, <1>7, ShipEnds DEF HubCrashes
<1> QED BY <1>2, <1>3, <1>4, <1>5, <1>6, <1>7 DEF OperatorStep

LEMMA ShipChildren ==
  ASSUME ShipInv, DrainInv, NEW p \in Pids, ChildStep(p)
  PROVE  ShipInv'
<1> USE DEF DrainInv, DrainTypeOK
<1>1. CASE ChildRegisters(p) \/ ChildCrashes(p) \/ Reaped(p)
  BY <1>1, ShipWaits DEF ChildRegisters, ChildCrashes, Reaped, handlers, qvars, DoneKept
<1>2. CASE ChildWorks(p)
  <2>1. PICK t : \E next \in NextCheckpoint(t) \ {ckpt[t]} :
          /\ ckpt' = [ckpt EXCEPT ![t] = next]
          /\ shipped' = IF ckpt'[t].phase = "merged" THEN shipped \cup {t} ELSE shipped
    BY <1>2 DEF ChildWorks
  <2>2. UNCHANGED <<qvars, outcome, closed, wiping, loop>>
    BY <1>2 DEF ChildWorks, handlers
  <2>3. \A x \in Ids \ {t} : ckpt'[x] = ckpt[x]
    BY <2>1 DEF WorldTypeOK
  <2>4. shipped \subseteq shipped'
    BY <2>1
  <2>5. ckpt'[t].phase = "merged" => t \in shipped'
    BY <2>1
  <2>6. ckpt[t].phase # "quarantined"
    BY <2>1 DEF NextCheckpoint
  <2> QED BY <2>2, <2>3, <2>4, <2>5, <2>6 DEF ShipInv, DoneOnlyIfShipped, qvars
<1>3. ASSUME NEW e \in Exits \cup {"stopped"}, ChildEnds(p, e)
      PROVE  ShipInv'
  <2> DEFINE x == child[p].item
  <2>1. /\ UNCHANGED <<qvars, closed, wiping, shipped, loop>>
        /\ Report(x, e)
        /\ ckpt' = ckpt \/ ckpt' = [ckpt EXCEPT ![x].class = e]
        /\ outcome' \in {outcome, [outcome EXCEPT ![x] = Posted(e)]}
    BY <1>3 DEF ChildEnds, handlers
  <2>2. ckpt \in [Ids -> CkptType] /\ outcome \in [Ids -> Outcomes]
    BY DEF WorldTypeOK, CkptType
  <2>3. PhasesKept
    BY <2>1, <2>2 DEF PhasesKept, CkptType
  <2>4. ASSUME x \in Ids, Posted(e) = "clean"
        PROVE  ckpt[x].phase = "quarantined" \/ x \in shipped
    <3>1. e \in {"clean", "gave-up"}
      BY <2>4, ExitsAssumption DEF Posted
    <3> QED BY <2>1, <2>4, <3>1 DEF Report, ShipInv
  <2>5. \A i \in Ids : outcome'[i] = "clean" => ckpt[i].phase = "quarantined" \/ i \in shipped
    BY <2>1, <2>2, <2>4 DEF ShipInv
  <2> QED BY <2>1, <2>3, <2>5 DEF ShipInv, PhasesKept, DoneOnlyIfShipped, qvars
<1> QED BY <1>1, <1>2, <1>3 DEF ChildStep

LEMMA ShipInvStep ==
  ASSUME ShipInv, DrainInv, [DrainNext]_vars, "dequeue" \notin Gestures
  PROVE  ShipInv'
<1>1. CASE UNCHANGED vars
  BY <1>1, ShipWaits DEF vars, qvars, world, handlers, DoneKept
<1>2. ASSUME NEW p \in Pids, ChildAsksReload(p)
      PROVE  ShipInv'
  BY <1>2, ShipWaits DEF ChildAsksReload, qvars, world, DoneKept
<1> QED BY <1>1, <1>2, ShipGestures, ShipHub, ShipChildren DEF DrainNext

\* A row reads done only when its work was really delivered, whatever mix of lost
\* reports, crashes, restarts, stops and sweeps led there, as long as no operator
\* removes an item: a late wipe may erase the very checkpoint a verdict rests on.
THEOREM DoneIsShipped ==
  ASSUME "dequeue" \notin Gestures
  PROVE  DrainSpec => []DoneOnlyIfShipped
<1>1. DrainInit => ShipInv
  <2> SUFFICES ASSUME DrainInit PROVE ShipInv
    OBVIOUS
  <2>1. \A x \in Ids : row[x].status = "absent"
    BY DEF DrainInit, Init, NoRow
  <2>2. \A x \in Ids : ckpt[x].phase = "none" /\ outcome[x] = "absent"
    BY DEF DrainInit, NoCkpt
  <2>3. closed = {} /\ wiping = {} /\ shipped = {} /\ loop.pc = "off"
    BY DEF DrainInit, LoopOff
  <2> QED BY <2>1, <2>2, <2>3 DEF ShipInv, DoneOnlyIfShipped
<1>2. ShipInv /\ DrainInv /\ [DrainNext]_vars => ShipInv'
  BY ShipInvStep
<1>3. ShipInv => DoneOnlyIfShipped
  BY DEF ShipInv
<1> QED BY <1>1, <1>2, <1>3, DrainInvHolds, PTL DEF DrainSpec

-----------------------------------------------------------------------------
(* The drain settles the dead *)

\* No one-shot run is on its way, and what the loop is about to settle is dead.
DeadInv ==
  /\ runner.pc = "idle"
  /\ loop.pc = "settle" /\ Running(loop.item) => ~Alive(row[loop.item].pid)

\* A step that starts no run and brings no process to life.
LEMMA DeadKept ==
  ASSUME DeadInv, DrainInv, RunsKept, runner'.pc = "idle",
         \A q \in Pids : child'[q].st \in {"boot", "live"} => child[q].st \in {"boot", "live"},
         loop' = loop \/ loop'.pc # "settle"
  PROVE  DeadInv'
BY DEF DeadInv, DrainInv, Claims, RunsKept, Running, Alive

LEMMA DeadWaits ==
  ASSUME DeadInv, DrainInv, RunsKept, child' = child, runner'.pc = "idle",
         loop' = loop \/ loop'.pc # "settle"
  PROVE  DeadInv'
BY DeadKept

LEMMA DeadLoop ==
  ASSUME DeadInv, DrainInv, LoopStep
  PROVE  DeadInv'
<1> USE DEF DrainInv, StoreInv
<1>0. runner' = runner /\ runner'.pc = "idle"
  BY DEF DeadInv, LoopStep, TickRunning, SettleItem, TickDisarmed, TickDry, TickPick, SkipItem,
         SpawnItem, MarkItem, LoopExits
<1>1. CASE TickRunning
  <2>1. PICK r \in Ids :
          /\ SetSubIssueStates(r, Advanced(r))
          /\ IF Alive(row[r].pid)
             THEN loop' = loop
             ELSE loop' = [LoopOff EXCEPT !.pc = "settle", !.item = r,
                                          !.class = ReconciledClass(r),
                                          !.verdict = Verdict(ReconciledClass(r), knobs.onFault)]
    BY <1>1 DEF TickRunning, First, RunningRows
  <2>2. RunsKept /\ \A i \in Ids : row'[i].pid = row[i].pid
    BY <2>1, AdvanceKeeps
  <2>3. child' = child
    BY <1>1 DEF TickRunning
  <2>4. CASE Alive(row[r].pid)
    BY <1>0, <2>1, <2>2, <2>3, <2>4, DeadWaits
  <2>5. CASE ~Alive(row[r].pid)
    <3>1. loop'.item = r
      BY <2>1, <2>5 DEF LoopOff
    <3> QED BY <1>0, <2>2, <2>3, <2>5, <3>1 DEF DeadInv, Alive
  <2> QED BY <2>4, <2>5
<1>2. ASSUME ~TickRunning
      PROVE  loop'.pc # "settle" \/ loop' = loop
  <2>1. loop \in LoopType
    BY HandlerTypes DEF DrainTypeOK
  <2>2. /\ [loop EXCEPT !.pc = "exit"].pc = "exit"
        /\ \A p : [loop EXCEPT !.pc = "mark", !.pid = p].pc = "mark"
    BY <2>1 DEF LoopType
  <2>3. CASE TickDisarmed \/ TickDry \/ LoopExits
    <3>1. loop' \in {loop, LoopOff, [loop EXCEPT !.pc = "exit"]}
      BY <2>3 DEF TickDisarmed, TickDry, LoopExits
    <3> QED BY <2>2, <3>1, RestTypes
  <2>4. CASE TickPick
    BY <2>4 DEF TickPick, LoopOff
  <2>5. CASE SettleItem \/ SkipItem \/ MarkItem
    BY <2>5, RestTypes DEF SettleItem, SkipItem, MarkItem
  <2>6. CASE SpawnItem
    BY <2>2, <2>6, RestTypes DEF SpawnItem
  <2> QED BY <1>2, <2>3, <2>4, <2>5, <2>6 DEF LoopStep
<1>3. CASE SettleItem \/ SkipItem
  <2>1. loop.item \in Ids /\ child' = child /\ loop'.pc = "tick"
    BY <1>3, RestTypes DEF SettleItem, SkipItem, Claims, world
  <2>2. RunsKept
    <3>1. CASE UNCHANGED qvars
      BY <3>1 DEF qvars, RunsKept
    <3>2. CASE \E s : s # "running" /\ row' = [row EXCEPT ![loop.item] = SettledRow(loop.item, s, NoPid)]
      <4>1. TypeOK /\ loop.item \in Ids
        BY <2>1
      <4> HIDE DEF DrainInv, StoreInv
      <4>2. PICK s : /\ s # "running"
                     /\ row' = [row EXCEPT ![loop.item] = SettledRow(loop.item, s, NoPid)]
        BY <3>2
      <4> QED BY <4>1, <4>2, SettleKeeps
    <3>3. CASE SkipItem
      BY <3>1, <3>2, <3>3 DEF SkipItem, MarkSkipped, Settle
    <3>4. CASE SettleItem
      <4>1. loop.verdict # "running"
        BY <3>4 DEF SettleItem, Claims, Verdicts
      <4> QED BY <3>1, <3>2, <3>4, <4>1 DEF SettleItem, Pause, Finish, Settle
    <3> QED BY <1>3, <3>3, <3>4
  <2> QED BY <1>0, <2>1, <2>2, DeadWaits
<1>4. CASE TickDisarmed \/ TickDry \/ TickPick \/ LoopExits
  <2>1. row' = row /\ child' = child
    BY <1>4 DEF TickDisarmed, TickDry, TickPick, LoopExits, Rearm, FinishDraining, qvars, world
  <2>2. CASE TickRunning
    BY <1>1, <2>2
  <2>3. CASE ~TickRunning
    BY <1>0, <1>2, <2>1, <2>3, DeadWaits DEF RunsKept
  <2> QED BY <2>2, <2>3
<1>5. CASE SpawnItem \/ MarkItem
  <2>1. loop'.pc # "settle"
    <3>1. [loop EXCEPT !.pc = "mark"].pc = "mark" /\ loop \in LoopType
      BY HandlerTypes DEF DrainTypeOK, LoopType
    <3> QED BY <1>5, <3>1, RestTypes DEF SpawnItem, MarkItem, LoopType
  <2> QED BY <1>0, <2>1 DEF DeadInv
<1> QED BY <1>1, <1>3, <1>4, <1>5 DEF LoopStep

LEMMA DeadHub ==
  ASSUME DeadInv, DrainInv, HubStep
  PROVE  DeadInv'
<1> USE DEF DrainInv, StoreInv
<1>1. CASE PlanComesDue \/ HubBoots \/ StopLooks \/ SweepReads \/ SweepEnds
  <2>1. UNCHANGED <<qvars, child, runner>>
    BY <1>1 DEF PlanComesDue, HubBoots, StopLooks, SweepReads, SweepEnds, world
  <2>2. loop' = loop \/ loop'.pc = "tick"
    BY <1>1, RestTypes DEF PlanComesDue, HubBoots, StopLooks, SweepReads, SweepEnds, Ensure
  <2> QED BY <2>1, <2>2, DeadWaits DEF qvars, RunsKept, DeadInv
<1>2. ASSUME NEW x \in Ids, SweepSettles(x)
      PROVE  DeadInv'
  <2>1. UNCHANGED <<child, loop, runner>>
    BY <1>2 DEF SweepSettles
  <2>2. RunsKept
    <3>1. CASE UNCHANGED qvars
      BY <3>1 DEF qvars, RunsKept
    <3>2. CASE row' = [row EXCEPT ![x] = SettledRow(x, "done", NoPid)]
      <4>1. TypeOK /\ "done" # "running"
        OBVIOUS
      <4> HIDE DEF DrainInv, StoreInv
      <4> QED BY <3>2, <4>1, SettleKeeps, Zenon
    <3>3. UNCHANGED qvars \/ row' = [row EXCEPT ![x] = SettledRow(x, "done", NoPid)]
      BY <1>2 DEF SweepSettles, Finish, Settle
    <3> QED BY <3>1, <3>2, <3>3
  <2> QED BY <2>1, <2>2, DeadWaits DEF DeadInv
<1>3. CASE StopKills \/ StopSettles
  <2>1. UNCHANGED <<qvars, loop, runner>>
    BY <1>3 DEF StopKills, StopSettles, handlers
  <2>2. \A q \in Pids : child'[q].st \in {"boot", "live"} => child[q].st \in {"boot", "live"}
    BY <1>3 DEF StopKills, StopSettles, NoChild, DrainTypeOK, WorldTypeOK
  <2> QED BY <2>1, <2>2, DeadKept DEF qvars, RunsKept, DeadInv
<1>4. ASSUME NEW x \in Ids, Wipe(x)
      PROVE  DeadInv'
  BY <1>4, DeadWaits DEF Wipe, handlers, qvars, RunsKept, DeadInv
<1>5. CASE RunStep
  BY <1>5 DEF RunStep, RunSpawns, RunMarks, RunEnsures, DeadInv
<1>6. CASE ReloadStep
  <2>1. UNCHANGED <<qvars, child>> /\ loop' \in {loop, LoopOff} /\ runner' \in {runner, NoRun}
    BY <1>6 DEF ReloadStep, ReloadSeesIdle, HubReloads, HubDies, world
  <2> QED BY <2>1, RestTypes, DeadWaits DEF qvars, RunsKept, DeadInv
<1> QED BY <1>1, <1>2, <1>3, <1>4, <1>5, <1>6, DeadLoop DEF HubStep, SweepStep, StopStep

LEMMA DeadGestures ==
  ASSUME DeadInv, DrainInv, OperatorStep, "run" \notin Gestures
  PROVE  DeadInv'
<1>1. RunsKept
  BY GestureKeeps
<1>2. child' = child
  BY DEF OperatorStep, EnqueueItem, Dequeue, RunChecks, TrackerCloses, FileBatch, StartBatch,
         StartQueue, Starting, PauseQueue, StopDisarms, HubCrashes, HubDies, world
<1>3. loop' \in {loop, LoopOff}
  BY DEF OperatorStep, EnqueueItem, Dequeue, RunChecks, TrackerCloses, FileBatch, StartBatch,
         StartQueue, Starting, PauseQueue, StopDisarms, HubCrashes, HubDies, handlers
<1>4. \A x \in Ids : ~RunChecks(x)
  BY DEF RunChecks, Request, Gesture
<1>5. runner' \in {runner, NoRun}
  BY <1>4 DEF OperatorStep, EnqueueItem, Dequeue, TrackerCloses, FileBatch, StartBatch,
         StartQueue, Starting, PauseQueue, StopDisarms, HubCrashes, HubDies, handlers
<1> QED BY <1>1, <1>2, <1>3, <1>5, RestTypes, DeadWaits DEF DeadInv

LEMMA DeadChildren ==
  ASSUME DeadInv, DrainInv, NEW p \in Pids, ChildStep(p)
  PROVE  DeadInv'
<1>1. UNCHANGED <<qvars, loop, runner>>
  BY DEF ChildStep, ChildRegisters, ChildWorks, ChildEnds, ChildCrashes, Reaped, handlers
<1>2. \A q \in Pids : child'[q].st \in {"boot", "live"} => child[q].st \in {"boot", "live"}
  <2>1. \A q \in Pids \ {p} : child'[q] = child[q]
    BY DEF ChildStep, ChildRegisters, ChildWorks, ChildEnds, ChildCrashes, Reaped,
           DrainInv, DrainTypeOK, WorldTypeOK
  <2>2. child[p].st \in {"boot", "live"} \/ child' = child \/ child'[p] = NoChild
    BY DEF ChildStep, ChildRegisters, ChildWorks, ChildEnds, ChildCrashes, Reaped, Alive,
           DrainInv, DrainTypeOK, WorldTypeOK
  <2> QED BY <2>1, <2>2 DEF NoChild
<1> QED BY <1>1, <1>2, DeadKept DEF qvars, RunsKept, DeadInv

LEMMA DeadInvStep ==
  ASSUME DeadInv, DrainInv, [DrainNext]_vars, "run" \notin Gestures
  PROVE  DeadInv'
<1>1. CASE UNCHANGED vars
  BY <1>1, DeadWaits DEF vars, qvars, world, handlers, RunsKept, DeadInv
<1>2. ASSUME NEW p \in Pids, ChildAsksReload(p)
      PROVE  DeadInv'
  BY <1>2, DeadWaits DEF ChildAsksReload, qvars, world, RunsKept, DeadInv
<1> QED BY <1>1, <1>2, DeadGestures, DeadHub, DeadChildren DEF DrainNext

\* The drain loop reads a dead run in one store call and settles it in the next; no
\* handler that may run in between can make it settle a live one, as long as nobody
\* uses the one-shot run handler, which marks a row whatever the loop is doing.
THEOREM DeadAreSettled ==
  ASSUME "run" \notin Gestures
  PROVE  DrainSpec => DrainSettlesTheDead
<1>1. DrainInit => DeadInv
  <2>1. DrainInit => loop = LoopOff /\ runner = NoRun
    BY DEF DrainInit
  <2> QED BY <2>1, RestTypes DEF DeadInv
<1>2. DeadInv /\ DrainInv /\ [DrainNext]_vars => DeadInv'
  BY DeadInvStep
<1>3. DeadInv => (loop.pc = "settle" /\ loop'.pc = "tick" /\ Running(loop.item)
                    => ~Alive(row[loop.item].pid))
  BY DEF DeadInv
<1> QED BY <1>1, <1>2, <1>3, DrainInvHolds, PTL DEF DrainSpec, DrainSettlesTheDead

-----------------------------------------------------------------------------
(* One child *)

\* What keeps a repo to one child.  No gesture kills the hub, starts a run past the
\* loop, removes a row or closes an issue behind a run's back; no sub-issue has
\* sub-issues of its own; and no start sends settled rows of epics back to pending.
Orderly ==
  /\ Gestures \cap {"crash", "run", "dequeue", "close"} = {}
  /\ \A e \in Ids : \A t \in Children[e] : Children[t] = {}
  /\ (\A k \in Knobs : ~k.noResume) \/ (\A e \in Ids : Children[e] = {})

Merged(x) == ckpt[x].phase = "merged"
Open(x)   == row[x].status \in {"pending", "paused", "running"}
Parked(x) == outcome[x] \in {"paused", "faulted", "stopped"}

\* The loop has picked x and has not marked its row yet.
Taken(x) == loop.pc \in {"spawn", "mark"} /\ loop.item = x

\* Only the loop starts children, and only a hub that is up has one.
OnlyTheLoop ==
  /\ runner.pc = "idle" /\ wiping = {} /\ closed = {}
  /\ hub # "up" => loop.pc = "off" /\ stopper.pc = "idle"
  /\ hub = "down" => sweep.pc = "idle"

\* From its pick to its mark the loop is alone with the child it starts, and a run
\* it has found dead is the only one.
LoopAlone ==
  /\ OneChild
  /\ loop.pc \in {"settle", "skip", "spawn"} => LiveChildren = {}
  /\ loop.pc = "mark" => \A p \in LiveChildren : p = loop.pid /\ child[p].item = loop.item
  /\ loop.pc \in {"skip", "spawn", "mark"} => RunningRows = {}
  /\ loop.pc = "settle" => RunningRows \subseteq {loop.item}
  /\ loop.pc \in {"settle", "skip", "spawn", "mark"} => loop.item \in Queued
  /\ \A i, j \in RunningRows : i = j
  /\ \A i \in RunningRows, p \in LiveChildren : row[i].pid = p

\* A live child is the loop's to mark, a running row's, or has merged its work and
\* shows as a live instance: a sweep may then have settled its row already.
Owned(p) ==
  LET x == child[p].item
  IN  \/ loop.pc = "mark" /\ loop.pid = p /\ loop.item = x
      \/ Running(x) /\ row[x].pid = p
      \/ child[p].st = "live" /\ Merged(x)

ChildrenOwned == \A p \in LiveChildren : Owned(p)

\* A reload was asked for by a child that had merged: none is being started.
ReloadWaits ==
  reload # "none" => /\ loop.pc # "spawn"
                     /\ \A p \in Pids : child[p].st # "boot"
                     /\ loop.pc = "mark" => Merged(loop.item)

StartingUp(x) ==
  \/ loop.pc = "spawn" /\ loop.item = x
  \/ \E p \in Pids : child[p].st = "boot" /\ child[p].item = x

\* What a sweep has listed is no row that a start has queued since, and has no
\* evidence of a delivery before its new child has registered.
SweepWaits ==
  sweep.pc = "settle" =>
    \A x \in sweep.todo : /\ row[x].status \notin {"absent", "pending"}
                          /\ StartingUp(x) => ~Merged(x)

Picked ==
  /\ loop.pc = "spawn" => Runnable(loop.item)
  /\ loop.pc = "mark" => \/ Runnable(loop.item)
                         \/ row[loop.item].status = "done" /\ Merged(loop.item)

Marking(x)    == loop.pc = "mark" /\ loop.item = x /\ child[loop.pid].st # "boot"
Recovering(x) == \/ hub = "down"
                 \/ hub = "boot" /\ (sweep.pc = "read" \/ x \in sweep.todo)

\* A paused row's work is not merged, unless its next run has merged it before the
\* loop could mark the row, or a reload cut that loop off: the boot sweep settles it.
PausedFresh ==
  \A x \in Ids : row[x].status = "paused" /\ Merged(x) => Marking(x) \/ Recovering(x)

\* A report that parks an item is of its last run, which is over and not merged.
ReportsFresh ==
  /\ \A x \in Ids : Parked(x) =>
       LiveChildren = {} /\ ~Merged(x) /\ (Running(x) \/ (loop.pc = "mark" /\ loop.item = x))
  /\ loop.pc \in {"settle", "skip", "spawn"} => \A x \in Ids : ~Parked(x)
  /\ loop.pc = "settle" /\ loop.verdict = "paused" => ~Merged(loop.item) /\ Running(loop.item)

\* Of an epic and its sub-issue one is settled, but for a merged run's last moments.
Apart(e, t) ==
  /\ Open(e) /\ Open(t) => \/ Running(e) /\ Merged(e) /\ row[t].status = "pending"
                           \/ Running(t) /\ Merged(t) /\ row[e].status = "pending"
  /\ Taken(e) => row[t].status # "paused"
  /\ Taken(t) => row[e].status # "paused"
  /\ \A p \in LiveChildren : child[p].item = e => row[t].status # "paused"
  /\ e \in Queued => row[e].subs[t] # "none"

EpicsApart == \A e \in Ids : \A t \in Children[e] : Apart(e, t)

OneInv ==
  /\ OnlyTheLoop /\ LoopAlone /\ ChildrenOwned /\ ReloadWaits /\ SweepWaits
  /\ Picked /\ PausedFresh /\ ReportsFresh /\ EpicsApart

-----------------------------------------------------------------------------
(* What the steps do to the rows *)

SameLines(i) == \A t \in Ids : row'[i].subs[t] = "none" <=> row[i].subs[t] = "none"

RowsSame ==
  \A i \in Ids : row'[i].status = row[i].status /\ row'[i].pid = row[i].pid /\ SameLines(i)

\* One row gets status s and pid p, and no other row changes.
RowSet(x, s, p) ==
  /\ \A i \in Ids \ {x} : row'[i] = row[i]
  /\ row'[x].status = s /\ row'[x].pid = p /\ SameLines(x)

LEMMA SettleSets ==
  ASSUME TypeOK, NEW x \in Ids, NEW s, NEW p, row' = [row EXCEPT ![x] = SettledRow(x, s, p)]
  PROVE  RowSet(x, s, p)
<1> DEFINE r == SettledRow(x, s, p)
<1>1. r.status = s /\ r.pid = p
  BY RowFacts DEF SettledRow, Row, NoRow, TypeOK
<1>2. \A t \in Ids : r.subs[t] = "none" <=> row[x].subs[t] = "none"
  <2>1. row[x].subs \in [Ids -> SubState] /\ row[x] \in Row \cup {NoRow}
    BY RowFacts DEF TypeOK
  <2>2. r.subs = IF s = "done" THEN [j \in Ids |-> IF row[x].subs[j] = "none" THEN "none" ELSE "done"]
                 ELSE row[x].subs
    BY <2>1 DEF SettledRow, Row, NoRow
  <2> QED BY <2>1, <2>2
<1> HIDE DEF r
<1>3. row' = [row EXCEPT ![x] = r]
  BY DEF r
<1> QED BY <1>1, <1>2, <1>3 DEF RowSet, SameLines, TypeOK

LEMMA AdvanceSame ==
  ASSUME TypeOK, NEW r \in Ids, SetSubIssueStates(r, Advanced(r))
  PROVE  RowsSame
<1>1. /\ row' = [row EXCEPT ![r].subs = [j \in Ids |-> IF j \in DOMAIN Advanced(r) /\ @[j] # "none"
                                                     THEN Advanced(r)[j] ELSE @[j]]]
      /\ \A j \in DOMAIN Advanced(r) : Advanced(r)[j] # "none"
  BY DEF SetSubIssueStates, Advanced, SubIssueState
<1>2. /\ row[r].subs \in [Ids -> SubState] /\ row[r] \in Row \cup {NoRow}
      /\ row \in [Ids -> Row \cup {NoRow}]
  BY RowFacts DEF TypeOK
<1> DEFINE subs == [j \in Ids |-> IF j \in DOMAIN Advanced(r) /\ row[r].subs[j] # "none"
                                  THEN Advanced(r)[j] ELSE row[r].subs[j]]
<1>3. \A t \in Ids : subs[t] = "none" <=> row[r].subs[t] = "none"
  BY <1>1
<1>4. row' = [row EXCEPT ![r].subs = subs]
  BY <1>1
<1> HIDE DEF subs
<1>5. /\ row'[r].status = row[r].status /\ row'[r].pid = row[r].pid /\ row'[r].subs = subs
      /\ \A i \in Ids \ {r} : row'[i] = row[i]
  BY <1>2, <1>4 DEF Row, NoRow
<1> QED BY <1>3, <1>5 DEF RowsSame, SameLines

LEMMA BatchSame ==
  ASSUME TypeOK, NEW b, NEW S, CreateBatch(b, S)
  PROVE  RowsSame
<1>1. ASSUME NEW i \in Ids
      PROVE  /\ InBatch(S, b)[i].status = row[i].status /\ InBatch(S, b)[i].pid = row[i].pid
             /\ InBatch(S, b)[i].subs = row[i].subs
  BY DEF InBatch, TypeOK, Row, NoRow
<1> QED BY <1>1 DEF CreateBatch, RowsSame, SameLines

\* A start leaves a run as it is and sends at most settled and paused rows back.
LEMMA ArmSends ==
  ASSUME TypeOK, NEW b, NEW k \in Knobs, ArmScope(b, k, {})
  PROVE  /\ \A i \in Ids :
              /\ SameLines(i)
              /\ \/ row'[i].status = row[i].status /\ row'[i].pid = row[i].pid
                 \/ row'[i].status = "pending" /\ row[i].status \notin {"absent", "running"}
         /\ ~k.noResume => RowsSame
<1>1. ASSUME NEW i \in Ids
      PROVE  /\ row'[i].subs = row[i].subs
             /\ \/ row'[i].status = row[i].status /\ row'[i].pid = row[i].pid
                \/ row'[i].status = "pending" /\ row[i].status \notin {"absent", "running"}
             /\ ~k.noResume => row'[i].status = row[i].status /\ row'[i].pid = row[i].pid
  <2>1. row'[i] = ArmedRow(i, b, k.noResume, {})
    BY DEF ArmScope
  <2>2. row[i] \in Row \cup {NoRow}
    BY DEF TypeOK
  <2> DEFINE r == Restarted(i, b, k.noResume)
  <2>3. /\ r \in Row \cup {NoRow} /\ r.subs = row[i].subs
        /\ \/ r = row[i]
           \/ k.noResume /\ r.status = "pending" /\ row[i].status \notin {"absent", "running"}
    <3>1. CASE k.noResume /\ InScope(i, b) /\ ~Running(i)
      <4>1. row[i] \in Row /\ row[i].status \notin {"absent", "running"}
        BY <2>2, <3>1 DEF InScope, Queued, Running, NoRow
      <4>2. r = [row[i] EXCEPT !.status = "pending", !.pid = NoPid]
        BY <3>1 DEF Restarted
      <4>3. "pending" \in Status
        BY DEF Status, RunnableStatus
      <4> HIDE DEF r
      <4> QED BY <3>1, <4>1, <4>2, <4>3 DEF Row
    <3>2. CASE ~(k.noResume /\ InScope(i, b) /\ ~Running(i))
      BY <2>2, <3>2 DEF Restarted
    <3> QED BY <3>1, <3>2
  <2>4. /\ ArmedRow(i, b, k.noResume, {}).status = r.status
        /\ ArmedRow(i, b, k.noResume, {}).pid = r.pid
        /\ ArmedRow(i, b, k.noResume, {}).subs = r.subs
    BY <2>3 DEF ArmedRow, Row, NoRow
  <2> HIDE DEF r
  <2> QED BY <2>1, <2>3, <2>4
<1> QED BY <1>1 DEF RowsSame, SameLines

\* An enqueue changes no row but one the queue did not list, which becomes pending.
LEMMA EnqueueSets ==
  ASSUME TypeOK, NEW x \in Ids, Enqueue(x, {})
  PROVE  \/ RowsSame
         \/ /\ x \notin Queued
            /\ \A i \in Ids \ {x} : row'[i] = row[i]
            /\ row'[x].status = "pending" /\ row'[x].pid = NoPid
            /\ \A t \in Children[x] : row'[x].subs[t] # "none"
<1>1. PICK subs \in SubStates(x, {"todo", "done"}) : Add(x, {}, subs) \/ AddFront(x, {}, subs)
  BY DEF Enqueue
<1>2. \A t \in Children[x] : subs[t] # "none"
  BY ChildrenAssumption DEF SubStates
<1>3. CASE x \notin Queued
  <2> DEFINE r == NewRow({}, subs)
  <2>1. r.status = "pending" /\ r.pid = NoPid /\ r.subs = subs
    BY DEF NewRow, NoRow
  <2>2. row' = [row EXCEPT ![x] = r]
    BY <1>1, <1>3 DEF Add, AddFront
  <2> HIDE DEF r
  <2> QED BY <1>2, <1>3, <2>1, <2>2 DEF TypeOK
<1>4. CASE x \in Queued
  <2>1. row' = [row EXCEPT ![x].skips = {}]
    BY <1>1, <1>4 DEF Add, AddFront
  <2> QED BY <2>1 DEF RowsSame, SameLines, TypeOK, Row, NoRow
<1> QED BY <1>3, <1>4

-----------------------------------------------------------------------------
(* Steps that start, mark and settle nothing *)

\* No process comes to life; a dead one loses its record or keeps it.
NoBirth == \A p \in Pids : child'[p] = child[p] \/ child'[p].st \notin {"boot", "live"}

\* The loop stays where it is, or moves between its resting points.
Resting == {"off", "tick", "exit"}
LoopRests == loop' = loop \/ (loop.pc \in Resting /\ loop'.pc \in Resting)

ReportsLost == \A x \in Ids : outcome'[x] \in {outcome[x], "absent"}

LEMMA LiveFewer ==
  ASSUME NoBirth
  PROVE  /\ LiveChildren' \subseteq LiveChildren
         /\ \A p \in LiveChildren' : child'[p] = child[p]
BY DEF NoBirth, LiveChildren, Alive

LEMMA SameRows ==
  ASSUME RowsSame
  PROVE  /\ Queued' = Queued /\ RunningRows' = RunningRows
         /\ \A i \in Ids : /\ Running(i)' <=> Running(i)
                           /\ Runnable(i)' <=> Runnable(i)
                           /\ Open(i)' <=> Open(i)
BY DEF RowsSame, Queued, RunningRows, Running, Runnable, Open

LEMMA OneKept ==
  ASSUME OneInv, DrainInv, RowsSame, PhasesKept, NoBirth, LoopRests, ReportsLost,
         UNCHANGED <<closed, wiping, hub, reload, sweep, runner>>,
         hub # "up" => loop'.pc = "off" /\ stopper'.pc = "idle"
  PROVE  OneInv'
<1>1. /\ LiveChildren' \subseteq LiveChildren
      /\ \A p \in LiveChildren' : child'[p] = child[p]
      /\ Queued' = Queued /\ RunningRows' = RunningRows
  BY LiveFewer, SameRows
<1>2. \A x \in Ids : /\ Merged(x)' <=> Merged(x)
                     /\ Parked(x)' => Parked(x)
                     /\ Taken(x)' => Taken(x)
  BY DEF PhasesKept, ReportsLost, LoopRests, Resting, Merged, Parked, Taken
<1>3. \A p \in Pids : child'[p].st = "boot" => child'[p] = child[p]
  BY DEF NoBirth
<1>4. loop'.pc \notin Resting => loop' = loop
  BY DEF LoopRests
<1>5. /\ loop.pc \in {"settle", "skip", "spawn", "mark"} => loop.item \in Ids
      /\ loop.pc = "mark" => loop.pid \in Pids
      /\ sweep.todo \subseteq Ids
      /\ child \in [Pids -> ChildType]
  BY HandlerTypes DEF DrainInv, DrainTypeOK, Claims, Fresh, SweepType, WorldTypeOK, ChildType
<1>6. OnlyTheLoop'
  BY DEF OneInv, OnlyTheLoop
<1>7. LoopAlone'
  BY <1>1, <1>4, <1>5 DEF OneInv, LoopAlone, OneChild, RowsSame, Resting, RunningRows
<1>8. ChildrenOwned'
  <2> SUFFICES ASSUME NEW p \in LiveChildren' PROVE Owned(p)'
    BY DEF ChildrenOwned
  <2>1. Owned(p) /\ child'[p] = child[p] /\ p \in Pids /\ child[p].st \in {"boot", "live"}
    BY <1>1 DEF OneInv, ChildrenOwned, LiveChildren, Alive
  <2>2. child[p].item \in Ids
    BY <1>5, <2>1 DEF ChildType, NoChild
  <2>3. loop.pc = "mark" => loop' = loop
    BY DEF LoopRests, Resting
  <2> QED BY <1>2, <2>1, <2>2, <2>3, SameRows DEF Owned, RowsSame
<1>9. ReloadWaits'
  BY <1>2, <1>3, <1>4, <1>5 DEF OneInv, ReloadWaits, Resting
<1>10. SweepWaits'
  <2>1. \A x \in Ids : StartingUp(x)' => StartingUp(x)
    BY <1>3, <1>4 DEF StartingUp, Resting
  <2> QED BY <1>2, <1>5, <2>1 DEF OneInv, SweepWaits, RowsSame
<1>11. Picked'
  BY <1>2, <1>4, <1>5, SameRows DEF OneInv, Picked, Resting, RowsSame
<1>12. PausedFresh'
  <2>1. \A x \in Ids : Marking(x) => Marking(x)'
    BY <1>3, <1>5 DEF Marking, LoopRests, Resting
  <2> QED BY <1>2, <2>1 DEF OneInv, PausedFresh, Recovering, RowsSame
<1>13. ReportsFresh'
  <2>1. loop.pc = "mark" => loop' = loop
    BY DEF LoopRests, Resting
  <2> QED BY <1>1, <1>2, <1>4, <1>5, <2>1, SameRows DEF OneInv, ReportsFresh, Resting
<1>14. EpicsApart'
  <2> SUFFICES ASSUME NEW e \in Ids, NEW t \in Children[e] PROVE Apart(e, t)'
    BY DEF EpicsApart
  <2>1. t \in Ids /\ Apart(e, t)
    BY ChildrenAssumption DEF OneInv, EpicsApart
  <2>2. row'[e].status = row[e].status /\ row'[t].status = row[t].status /\ SameLines(e)
    BY <2>1 DEF RowsSame
  <2>3. /\ Open(e)' <=> Open(e)
        /\ Open(t)' <=> Open(t)
        /\ Running(e)' <=> Running(e)
        /\ Running(t)' <=> Running(t)
        /\ e \in Queued' <=> e \in Queued
    BY <1>1, <2>1, SameRows
  <2>4. \A p \in LiveChildren' : p \in LiveChildren /\ child'[p].item = child[p].item
    BY <1>1
  <2>5. /\ Taken(e)' => Taken(e)
        /\ Taken(t)' => Taken(t)
        /\ Merged(e)' <=> Merged(e)
        /\ Merged(t)' <=> Merged(t)
    BY <1>2, <2>1
  <2> QED BY <2>1, <2>2, <2>3, <2>4, <2>5 DEF Apart, SameLines
<1> QED BY <1>6, <1>7, <1>8, <1>9, <1>10, <1>11, <1>12, <1>13, <1>14 DEF OneInv

LEMMA QueueSame ==
  ASSUME UNCHANGED row
  PROVE  RowsSame
BY DEF RowsSame, SameLines

LEMMA WorldSame ==
  ASSUME UNCHANGED <<child, ckpt, outcome>>
  PROVE  PhasesKept /\ NoBirth /\ ReportsLost
BY DEF PhasesKept, NoBirth, ReportsLost

\* The loop waits, re-arms, or leaves.
LEMMA OneTickWaits ==
  ASSUME OneInv, DrainInv, TickDisarmed \/ TickDry \/ LoopExits
  PROVE  OneInv'
<1>1. /\ UNCHANGED <<world, hub, reload, sweep, runner>> /\ row' = row
      /\ loop.pc \in {"tick", "exit"}
      /\ loop' \in {loop, LoopOff, [loop EXCEPT !.pc = "exit"]}
  BY DEF TickDisarmed, TickDry, LoopExits, Rearm, FinishDraining, qvars
<1>2. loop \in LoopType
  BY HandlerTypes DEF DrainInv, DrainTypeOK
<1>3. [loop EXCEPT !.pc = "exit"].pc = "exit"
  BY <1>2 DEF LoopType
<1>4. LoopRests
  BY <1>1, <1>3, RestTypes DEF LoopRests, Resting
<1>5. hub = "up"
  BY <1>1 DEF OneInv, OnlyTheLoop
<1> QED BY <1>1, <1>4, <1>5, QueueSame, WorldSame, OneKept DEF world

LEMMA EnsureRests ==
  ASSUME Ensure
  PROVE  LoopRests
BY RestTypes DEF Ensure, LoopRests, Resting

LEMMA OneStop ==
  ASSUME OneInv, DrainInv, StopStep
  PROVE  OneInv'
<1> USE DEF DrainInv, DrainTypeOK
<1>1. hub = "up" /\ UNCHANGED <<row, outcome, closed, wiping, hub, reload, sweep, runner>>
  BY DEF StopStep, StopLooks, StopKills, StopSettles, OneInv, OnlyTheLoop, qvars, world, handlers
<1>2. LoopRests
  BY EnsureRests DEF StopStep, StopLooks, StopKills, StopSettles, handlers, LoopRests
<1>3. NoBirth
  BY DEF StopStep, StopLooks, StopKills, StopSettles, world, NoChild, NoBirth, WorldTypeOK
<1>4. PhasesKept
  <2>1. ckpt \in [Ids -> CkptType]
    BY DEF WorldTypeOK, CkptType
  <2>2. ckpt' = ckpt \/ \E t : ckpt' = [ckpt EXCEPT ![t].class = "stopped"]
    BY DEF StopStep, StopLooks, StopKills, StopSettles, StampedStopped, world
  <2> QED BY <2>1, <2>2 DEF PhasesKept, CkptType
<1> QED BY <1>1, <1>2, <1>3, <1>4, QueueSame, OneKept DEF ReportsLost

\* Gestures that leave rows, children and reports alone.
LEMMA OneGesture ==
  ASSUME OneInv, DrainInv, RowsSame, UNCHANGED <<world, hub, reload, loop, sweep, runner>>,
         hub = "up"
  PROVE  OneInv'
BY WorldSame, OneKept DEF LoopRests, world

LEMMA OneMinor ==
  ASSUME OneInv, DrainInv,
         \/ UNCHANGED vars \/ PlanComesDue \/ PauseQueue \/ StopDisarms
         \/ \E b \in BatchIds : FileBatch(b)
  PROVE  OneInv'
<1>1. CASE UNCHANGED vars \/ PlanComesDue
  <2>1. UNCHANGED <<row, world, hub, reload, loop, sweep, runner, stopper>>
    BY <1>1 DEF vars, qvars, handlers, PlanComesDue
  <2> QED BY <2>1, QueueSame, WorldSame, OneKept DEF LoopRests, world, OneInv, OnlyTheLoop
<1>2. CASE PauseQueue \/ StopDisarms
  BY <1>2, QueueSame, OneGesture DEF PauseQueue, StopDisarms, SetDraining, Request, handlers
<1>3. ASSUME NEW b \in BatchIds, FileBatch(b)
      PROVE  OneInv'
  BY <1>3, BatchSame, OneGesture DEF FileBatch, Request, handlers, DrainInv, StoreInv
<1> QED BY <1>1, <1>2, <1>3

\* A child dies on the spot, or its record is dropped.
LEMMA OneChildGone ==
  ASSUME OneInv, DrainInv, NEW p \in Pids, ChildCrashes(p) \/ Reaped(p)
  PROVE  OneInv'
<1>1. UNCHANGED <<row, ckpt, outcome, closed, wiping, hub, reload, loop, sweep, runner, stopper>>
  BY DEF ChildCrashes, Reaped, qvars, handlers
<1>2. NoBirth
  BY DEF ChildCrashes, Reaped, NoBirth, NoChild, DrainInv, DrainTypeOK, WorldTypeOK
<1> QED BY <1>1, <1>2, QueueSame, OneKept DEF PhasesKept, ReportsLost, LoopRests, OneInv, OnlyTheLoop

-----------------------------------------------------------------------------
(* The children *)

\* A live child is the only one and at work for its ticket or epic.
LEMMA TheChild ==
  ASSUME OneInv, DrainInv, NEW p \in LiveChildren
  PROVE  /\ p \in Pids /\ child[p].item \in Ids
         /\ LiveChildren = {p} /\ Owned(p)
         /\ loop.pc \notin {"settle", "skip", "spawn"}
         /\ \A x \in Ids : ~Parked(x)
<1>1. p \in Pids /\ child[p].st \in {"boot", "live"}
  BY DEF LiveChildren, Alive
<1>2. child[p].item \in Ids
  BY <1>1 DEF DrainInv, DrainTypeOK, WorldTypeOK, NoChild
<1> QED BY <1>1, <1>2 DEF OneInv, LoopAlone, OneChild, ChildrenOwned, ReportsFresh

LEMMA OneRegisters ==
  ASSUME OneInv, DrainInv, NEW p \in Pids, ChildRegisters(p)
  PROVE  OneInv'
<1>0. child \in [Pids -> ChildType]
  BY DEF DrainInv, DrainTypeOK, WorldTypeOK, ChildType
<1>1. /\ child[p].st = "boot" /\ child'[p].st = "live" /\ child'[p].item = child[p].item
      /\ \A q \in Pids \ {p} : child'[q] = child[q]
      /\ UNCHANGED <<row, ckpt, outcome, closed, wiping, hub, reload, loop, sweep, runner, stopper>>
  BY <1>0 DEF ChildRegisters, qvars, handlers, ChildType, NoChild
<1>2. LiveChildren' = LiveChildren /\ \A q \in LiveChildren : child'[q].item = child[q].item
  BY <1>1 DEF LiveChildren, Alive
<1>3. loop.pc = "mark" => loop.pid \in Pids
  BY DEF DrainInv, Claims, Fresh
<1>4. OnlyTheLoop' /\ LoopAlone' /\ Picked' /\ ReportsFresh'
  BY <1>1, <1>2 DEF OneInv, OnlyTheLoop, LoopAlone, OneChild, Picked, ReportsFresh, Queued,
                    RunningRows, Running, Runnable, Merged, Parked
<1>5. ChildrenOwned'
  <2> SUFFICES ASSUME NEW q \in LiveChildren' PROVE Owned(q)'
    BY DEF ChildrenOwned
  <2>1. Owned(q) /\ child'[q].item = child[q].item /\ q \in Pids
    BY <1>2 DEF OneInv, ChildrenOwned, LiveChildren
  <2> QED BY <1>1, <2>1 DEF Owned, Running, Merged
<1>6. ReloadWaits' /\ SweepWaits'
  BY <1>1 DEF OneInv, ReloadWaits, SweepWaits, StartingUp, Merged
<1>7. PausedFresh'
  BY <1>1, <1>3 DEF OneInv, PausedFresh, Marking, Recovering, Merged
<1>8. EpicsApart'
  BY <1>1, <1>2 DEF OneInv, EpicsApart, Apart, Open, Running, Merged, Taken, Queued, SameLines
<1> QED BY <1>4, <1>5, <1>6, <1>7, <1>8 DEF OneInv

LEMMA OneWorks ==
  ASSUME OneInv, DrainInv, NEW p \in Pids, ChildWorks(p)
  PROVE  OneInv'
<1> DEFINE y == child[p].item
<1>1. /\ child[p].st = "live" /\ p \in LiveChildren
      /\ UNCHANGED <<row, child, outcome, closed, wiping, hub, reload, loop, sweep, runner, stopper>>
  BY DEF ChildWorks, LiveChildren, Alive, qvars, handlers
<1>2. /\ y \in Ids /\ LiveChildren = {p} /\ Owned(p)
      /\ loop.pc \notin {"settle", "skip", "spawn"}
      /\ \A x \in Ids : ~Parked(x)
  BY <1>1, TheChild
<1>3. PICK t \in {y} \cup Children[y] :
        \E next \in NextCheckpoint(t) \ {ckpt[t]} : ckpt' = [ckpt EXCEPT ![t] = next]
  BY DEF ChildWorks
<1>4. t \in Ids /\ ~Merged(t) /\ \A x \in Ids \ {t} : ckpt'[x] = ckpt[x]
  <2>1. t \in Ids
    BY <1>2, <1>3, ChildrenAssumption
  <2>2. ckpt[t].phase # "merged"
    BY <1>3 DEF NextCheckpoint
  <2> QED BY <1>3, <2>1, <2>2 DEF Merged, DrainInv, DrainTypeOK, WorldTypeOK
<1>5. \A x \in Ids : Merged(x) => Merged(x)'
  BY <1>4 DEF Merged
<1>6. OnlyTheLoop' /\ LoopAlone' /\ LiveChildren' = LiveChildren
  BY <1>1 DEF OneInv, OnlyTheLoop, LoopAlone, OneChild, Queued, RunningRows, Running,
              LiveChildren, Alive
<1>7. Picked' /\ ReloadWaits'
  <2>1. loop.pc = "mark" => loop.item \in Ids
    BY DEF DrainInv, Claims
  <2> QED BY <1>1, <1>2, <1>5, <2>1 DEF OneInv, Picked, ReloadWaits, Runnable
<1>8. ChildrenOwned'
  BY <1>1, <1>2, <1>5, <1>6 DEF ChildrenOwned, Owned, Running
<1>9. SweepWaits'
  <2>1. \A q \in Pids : child[q].st # "boot"
    BY <1>1, <1>2 DEF LiveChildren, Alive
  <2> QED BY <1>1, <1>2, <2>1 DEF OneInv, SweepWaits, StartingUp
<1>10. PausedFresh'
  <2> SUFFICES ASSUME NEW x \in Ids, row[x].status = "paused", Merged(x)'
               PROVE  (Marking(x) \/ Recovering(x))'
    BY <1>1 DEF PausedFresh
  <2>1. CASE Merged(x)
    BY <1>1, <2>1 DEF OneInv, PausedFresh, Marking, Recovering
  <2>2. CASE ~Merged(x)
    <3>1. x = t
      BY <1>4, <2>2 DEF Merged
    <3>2. CASE x = y
      BY <1>1, <1>2, <2>2, <3>2 DEF Owned, Running, Marking
    <3>3. CASE x \in Children[y]
      BY <1>1, <1>2, <3>3 DEF OneInv, EpicsApart, Apart
    <3> QED BY <1>3, <3>1, <3>2, <3>3
  <2> QED BY <2>1, <2>2
<1>11. ReportsFresh'
  BY <1>1, <1>2 DEF ReportsFresh, Parked
<1>12. EpicsApart'
  <2> SUFFICES ASSUME NEW e \in Ids, NEW u \in Children[e] PROVE Apart(e, u)'
    BY DEF EpicsApart
  <2>1. u \in Ids /\ Apart(e, u)
    BY ChildrenAssumption DEF OneInv, EpicsApart
  <2> QED BY <1>1, <1>5, <1>6, <2>1 DEF Apart, Open, Running, Taken, Queued
<1> QED BY <1>6, <1>7, <1>8, <1>9, <1>10, <1>11, <1>12 DEF OneInv

LEMMA OneEnds ==
  ASSUME OneInv, DrainInv, NEW p \in Pids, NEW e \in Exits \cup {"stopped"}, ChildEnds(p, e)
  PROVE  OneInv'
<1> DEFINE y == child[p].item
<1>1. /\ child[p].st = "live" /\ p \in LiveChildren
      /\ Report(y, e)
      /\ child' = [child EXCEPT ![p] = NoChild]
      /\ ckpt' = ckpt \/ ckpt' = [ckpt EXCEPT ![y].class = e]
      /\ outcome' \in {outcome, [outcome EXCEPT ![y] = Posted(e)]}
      /\ UNCHANGED <<row, closed, wiping, hub, reload, loop, sweep, runner, stopper>>
  BY DEF ChildEnds, LiveChildren, Alive, qvars, handlers
<1>2. /\ y \in Ids /\ LiveChildren = {p} /\ Owned(p)
      /\ loop.pc \notin {"settle", "skip", "spawn"}
      /\ \A x \in Ids : ~Parked(x)
  BY <1>1, TheChild
<1>3. PhasesKept
  <2>1. ckpt \in [Ids -> CkptType]
    BY DEF DrainInv, DrainTypeOK, WorldTypeOK, CkptType
  <2> QED BY <1>1, <2>1 DEF PhasesKept, CkptType
<1>4. /\ NoBirth /\ LiveChildren' = {}
      /\ \A q \in Pids : child'[q].st = "boot" => child'[q] = child[q]
  BY <1>1, <1>2 DEF NoBirth, NoChild, LiveChildren, Alive, DrainInv, DrainTypeOK, WorldTypeOK
<1>5. \A x \in Ids : Merged(x)' <=> Merged(x)
  BY <1>3 DEF PhasesKept, Merged
<1>6. OnlyTheLoop' /\ LoopAlone' /\ ChildrenOwned'
  BY <1>1, <1>4 DEF OneInv, OnlyTheLoop, LoopAlone, OneChild, ChildrenOwned, Queued, RunningRows, Running
<1>7. loop.pc \in {"spawn", "mark"} => loop.item \in Ids /\ (loop.pc = "mark" => loop.pid \in Pids)
  BY DEF DrainInv, Claims, Fresh
<1>8. Picked' /\ ReloadWaits'
  BY <1>1, <1>4, <1>5, <1>7 DEF OneInv, Picked, ReloadWaits, Runnable
<1>9. SweepWaits'
  <2>1. sweep.todo \subseteq Ids
    BY HandlerTypes DEF DrainInv, DrainTypeOK, SweepType
  <2> QED BY <1>1, <1>4, <1>5, <2>1 DEF OneInv, SweepWaits, StartingUp
<1>10. PausedFresh'
  BY <1>1, <1>4, <1>5, <1>7 DEF OneInv, PausedFresh, Marking, Recovering
<1>11. ReportsFresh'
  <2> SUFFICES ASSUME NEW x \in Ids, Parked(x)'
               PROVE  ~Merged(x) /\ (Running(x) \/ (loop.pc = "mark" /\ loop.item = x))
    BY <1>1, <1>2, <1>4, <1>5 DEF ReportsFresh, Running
  <2>1. x = y /\ outcome'[x] = Posted(e)
    BY <1>1, <1>2 DEF Parked, DrainInv, DrainTypeOK, WorldTypeOK
  <2>2. e \notin {"clean", "gave-up", "handoff"}
    BY <2>1 DEF Parked, Posted
  <2>3. ~Merged(x)
    BY <1>1, <2>1, <2>2 DEF Report, Merged
  <2> QED BY <1>2, <2>1, <2>3 DEF Owned
<1>12. EpicsApart'
  <2> SUFFICES ASSUME NEW f \in Ids, NEW t \in Children[f] PROVE Apart(f, t)'
    BY DEF EpicsApart
  <2>1. t \in Ids /\ Apart(f, t)
    BY ChildrenAssumption DEF OneInv, EpicsApart
  <2> QED BY <1>1, <1>4, <1>5, <2>1 DEF Apart, Open, Running, Taken, Queued
<1> QED BY <1>6, <1>8, <1>9, <1>10, <1>11, <1>12 DEF OneInv

LEMMA OneAsks ==
  ASSUME OneInv, DrainInv, NEW p \in Pids, ChildAsksReload(p)
  PROVE  OneInv'
<1>1. /\ child[p].st = "live" /\ p \in LiveChildren /\ Merged(child[p].item)
      /\ UNCHANGED <<qvars, world, hub, loop, sweep, runner, stopper>>
  BY DEF ChildAsksReload, LiveChildren, Alive, Merged
<1>2. LiveChildren = {p} /\ loop.pc # "spawn"
  BY <1>1, TheChild
<1>3. \A q \in Pids : child[q].st # "boot"
  BY <1>1, <1>2 DEF LiveChildren, Alive
<1>4. loop.pc = "mark" => Merged(loop.item)
  BY <1>1 DEF OneInv, LoopAlone
<1>5. ReloadWaits'
  BY <1>1, <1>2, <1>3, <1>4 DEF ReloadWaits, Merged, world
<1> QED BY <1>1, <1>5
       DEF OneInv, OnlyTheLoop, LoopAlone, OneChild, ChildrenOwned, Owned, SweepWaits, StartingUp, Picked,
           PausedFresh, Marking, Recovering, ReportsFresh, EpicsApart, Apart, Open, Running, Runnable,
           Merged, Parked, Taken, Queued, RunningRows, LiveChildren, Alive, qvars, world

LEMMA OneChildren ==
  ASSUME OneInv, DrainInv, NEW p \in Pids, ChildStep(p) \/ ChildAsksReload(p)
  PROVE  OneInv'
BY OneRegisters, OneWorks, OneEnds, OneChildGone, OneAsks DEF ChildStep

-----------------------------------------------------------------------------
(* The loop *)

\* An epic is not among its own sub-issues.
LEMMA NotItsOwn ==
  ASSUME Orderly, NEW e \in Ids, NEW t \in Children[e]
  PROVE  t \in Ids /\ t # e
BY ChildrenAssumption DEF Orderly

LEMMA OneTickRunning ==
  ASSUME OneInv, DrainInv, TickRunning
  PROVE  OneInv'
<1>1. PICK r \in Ids :
        /\ Running(r)
        /\ SetSubIssueStates(r, Advanced(r))
        /\ IF Alive(row[r].pid)
           THEN UNCHANGED <<loop, outcome>>
           ELSE /\ loop' = [LoopOff EXCEPT !.pc = "settle", !.item = r,
                                           !.class = ReconciledClass(r),
                                           !.verdict = Verdict(ReconciledClass(r), knobs.onFault)]
                /\ outcome' = [outcome EXCEPT ![r] = "absent"]
  BY DEF TickRunning, First, RunningRows
<1>2. /\ loop.pc = "tick"
      /\ UNCHANGED <<child, ckpt, closed, wiping, hub, reload, sweep, runner, stopper>>
  BY DEF TickRunning
<1>3. RowsSame
  BY <1>1, AdvanceSame DEF DrainInv, StoreInv
<1>4. CASE Alive(row[r].pid)
  BY <1>1, <1>2, <1>3, <1>4, OneKept
     DEF PhasesKept, NoBirth, ReportsLost, LoopRests, OneInv, OnlyTheLoop
<1>5. CASE ~Alive(row[r].pid)
  <2>1. LiveChildren = {} /\ RunningRows = {r} /\ r \in Queued /\ hub = "up"
    BY <1>1, <1>2, <1>5
       DEF OneInv, OnlyTheLoop, LoopAlone, LiveChildren, RunningRows, Running, Queued
  <2>2. /\ loop'.pc = "settle" /\ loop'.item = r
        /\ loop'.verdict = Verdict(ReconciledClass(r), knobs.onFault)
        /\ \A x \in Ids : outcome'[x] = IF x = r THEN "absent" ELSE outcome[x]
    BY <1>1, <1>5 DEF LoopOff, DrainInv, DrainTypeOK, WorldTypeOK
  <2>3. /\ LiveChildren' = {} /\ Queued' = Queued /\ RunningRows' = {r}
        /\ \A q \in Pids : child[q].st # "boot"
    BY <1>2, <1>3, <2>1, SameRows DEF LiveChildren, Alive
  <2>4. \A x \in Ids : ~Parked(x)'
    BY <1>2, <2>1, <2>2 DEF OneInv, ReportsFresh, Parked, RunningRows
  <2>5. loop'.verdict = "paused" => ~Merged(r)
    <3>1. Parked(r) => ~Merged(r)
      BY DEF OneInv, ReportsFresh
    <3>2. outcome[r] \in Outcomes
      BY DEF DrainInv, DrainTypeOK, WorldTypeOK
    <3> QED BY <2>2, <3>1, <3>2 DEF Verdict, ReconciledClass, CheckpointClass, Merged, Parked, Outcomes
  <2>6. OnlyTheLoop' /\ LoopAlone' /\ ChildrenOwned' /\ ReloadWaits' /\ Picked' /\ ReportsFresh'
    BY <1>1, <1>2, <2>1, <2>2, <2>3, <2>4, <2>5, SameRows
       DEF OneInv, OnlyTheLoop, LoopAlone, OneChild, ChildrenOwned, ReloadWaits, Picked, ReportsFresh,
           Merged, RunningRows, Running
  <2>7. SweepWaits'
    <3>1. sweep.todo \subseteq Ids
      BY HandlerTypes DEF DrainInv, DrainTypeOK, SweepType
    <3> QED BY <1>2, <1>3, <2>2, <2>3, <3>1 DEF OneInv, SweepWaits, StartingUp, RowsSame
  <2>8. PausedFresh'
    BY <1>2, <1>3 DEF OneInv, PausedFresh, Marking, Recovering, Merged, RowsSame
  <2>9. EpicsApart'
    <3> SUFFICES ASSUME NEW e \in Ids, NEW t \in Children[e] PROVE Apart(e, t)'
      BY DEF EpicsApart
    <3>1. t \in Ids /\ Apart(e, t)
      BY ChildrenAssumption DEF OneInv, EpicsApart
    <3>2. row'[t].status = row[t].status /\ row'[e].status = row[e].status /\ SameLines(e)
      BY <1>3, <3>1 DEF RowsSame
    <3> QED BY <1>2, <2>2, <2>3, <3>1, <3>2 DEF Apart, Open, Running, Merged, Taken, SameLines
  <2> QED BY <2>6, <2>7, <2>8, <2>9 DEF OneInv
<1> QED BY <1>4, <1>5

\* The row the loop settles or skips is out of the way for good, or paused with its
\* work unmerged.
LEMMA OneRowSettled ==
  ASSUME OneInv, DrainInv, Orderly, loop.pc \in {"settle", "skip"}, NEW s,
         RowSet(loop.item, s, NoPid),
         s \notin {"absent", "pending", "running"},
         s = "paused" => ~Merged(loop.item) /\ Running(loop.item),
         PhasesKept, loop'.pc = "tick",
         UNCHANGED <<child, outcome, closed, wiping, hub, reload, sweep, runner, stopper>>
  PROVE  OneInv'
<1> DEFINE x == loop.item
<1>1. /\ x \in Ids /\ x \in Queued /\ LiveChildren = {} /\ RunningRows \subseteq {x}
      /\ \A y \in Ids : ~Parked(y)
      /\ hub = "up"
  BY DEF OneInv, LoopAlone, ReportsFresh, OnlyTheLoop, Queued
<1>2. /\ row'[x].status = s /\ row'[x].pid = NoPid /\ SameLines(x)
      /\ \A i \in Ids \ {x} : row'[i] = row[i]
  BY DEF RowSet
<1>3. LiveChildren' = {} /\ \A q \in Pids : child[q].st # "boot"
  BY <1>1 DEF LiveChildren, Alive
<1>4. Queued' = Queued /\ RunningRows' = {}
  BY <1>1, <1>2 DEF Queued, RunningRows, Running
<1>5. \A y \in Ids : Merged(y)' <=> Merged(y)
  BY DEF PhasesKept, Merged
<1>6. OnlyTheLoop' /\ LoopAlone' /\ ChildrenOwned' /\ ReloadWaits' /\ Picked' /\ ReportsFresh'
  BY <1>1, <1>3, <1>4
     DEF OneInv, OnlyTheLoop, LoopAlone, OneChild, ChildrenOwned, ReloadWaits, Picked, ReportsFresh, Parked
<1>7. SweepWaits'
  <2>1. sweep.todo \subseteq Ids
    BY HandlerTypes DEF DrainInv, DrainTypeOK, SweepType
  <2> QED BY <1>2, <1>3, <2>1 DEF OneInv, SweepWaits, StartingUp
<1>8. PausedFresh'
  BY <1>1, <1>2, <1>5 DEF OneInv, PausedFresh, Marking, Recovering
<1>9. EpicsApart'
  <2> SUFFICES ASSUME NEW e \in Ids, NEW t \in Children[e] PROVE Apart(e, t)'
    BY DEF EpicsApart
  <2>1. t \in Ids /\ t # e /\ Apart(e, t)
    BY NotItsOwn DEF OneInv, EpicsApart
  <2>2. ~(Open(e)' /\ Open(t)')
    <3>1. CASE x \notin {e, t}
      BY <1>1, <1>2, <2>1, <3>1 DEF Apart, Open, RunningRows
    <3>2. CASE x \in {e, t} /\ s # "paused"
      BY <1>2, <3>2 DEF Open
    <3>3. CASE x \in {e, t} /\ s = "paused"
      BY <1>1, <1>2, <2>1, <3>3 DEF Apart, Open, RunningRows, Running
    <3> QED BY <3>1, <3>2, <3>3
  <2>3. ~Taken(e)' /\ ~Taken(t)'
    BY DEF Taken
  <2>4. e \in Queued' => row'[e].subs[t] # "none"
    BY <1>2, <1>4, <2>1 DEF Apart, SameLines
  <2> QED BY <1>3, <2>2, <2>3, <2>4 DEF Apart
<1> QED BY <1>6, <1>7, <1>8, <1>9 DEF OneInv

LEMMA OneSettles ==
  ASSUME OneInv, DrainInv, Orderly, SettleItem \/ SkipItem
  PROVE  OneInv'
<1> USE DEF DrainInv, StoreInv, DrainTypeOK
<1>1. loop.item \in Ids /\ loop.item \in Queued /\ loop'.pc = "tick"
  BY RestTypes DEF SettleItem, SkipItem, OneInv, LoopAlone, Queued
<1>2. CASE SettleItem
  <2>1. loop.pc = "settle" /\ loop.verdict \in Verdicts
    BY <1>2 DEF SettleItem, Claims
  <2>2. UNCHANGED <<child, outcome, closed, wiping, hub, reload, sweep, runner, stopper>>
    BY <1>2 DEF SettleItem
  <2>3. PhasesKept
    BY <1>2 DEF SettleItem, PlanAutoResume, PhasesKept, WorldTypeOK
  <2>4. row' = [row EXCEPT ![loop.item] = SettledRow(loop.item, loop.verdict, NoPid)]
    BY <1>1, <1>2 DEF SettleItem, Pause, Finish, Settle
  <2>5. RowSet(loop.item, loop.verdict, NoPid)
    BY <1>1, <2>4, SettleSets
  <2>6. loop.verdict = "paused" => ~Merged(loop.item) /\ Running(loop.item)
    BY <2>1 DEF OneInv, ReportsFresh
  <2> QED BY <1>1, <2>1, <2>2, <2>3, <2>5, <2>6, OneRowSettled DEF Verdicts
<1>3. CASE SkipItem
  <2>1. row' = [row EXCEPT ![loop.item] = SettledRow(loop.item, "skipped", NoPid)]
    BY <1>1, <1>3 DEF SkipItem, MarkSkipped, Settle
  <2>2. RowSet(loop.item, "skipped", NoPid)
    BY <1>1, <2>1, SettleSets
  <2> QED BY <1>1, <1>3, <2>2, OneRowSettled DEF SkipItem, world, PhasesKept
<1> QED BY <1>2, <1>3

LEMMA OneTickPick ==
  ASSUME OneInv, DrainInv, TickPick
  PROVE  OneInv'
<1>1. PICK x \in Ids :
        /\ Candidate(x)
        /\ loop' = [LoopOff EXCEPT !.pc = IF Duplicate(x) THEN "skip" ELSE "spawn", !.item = x]
  BY DEF TickPick
<1>2. /\ loop.pc = "tick" /\ RunningRows = {} /\ reload = "none"
      /\ \A q \in Pids : child[q].st # "live"
      /\ UNCHANGED <<qvars, world, hub, reload, sweep, runner, stopper>>
  BY DEF TickPick, HasBusyInstance
<1>3. Runnable(x)
  BY <1>1 DEF Candidate, First, Unblocked
<1>4. loop'.pc \in {"skip", "spawn"} /\ loop'.item = x
  BY <1>1 DEF LoopOff
<1>5. LiveChildren = {} /\ hub = "up" /\ x \in Queued
  <2>1. \A p \in LiveChildren : Owned(p) /\ child[p].st # "live" /\ child[p].item \in Ids
    BY <1>2, TheChild
  <2>2. LiveChildren = {}
    BY <1>2, <2>1 DEF Owned, RunningRows
  <2> QED BY <1>2, <1>3, <2>2 DEF OneInv, OnlyTheLoop, Runnable, RunnableStatus, Queued
<1>6. \A y \in Ids : ~Parked(y)
  BY <1>2 DEF OneInv, ReportsFresh, RunningRows
<1>7. /\ LiveChildren' = {} /\ Queued' = Queued /\ RunningRows' = {}
      /\ \A q \in Pids : child[q].st # "boot"
  BY <1>2, <1>5 DEF LiveChildren, Alive, Queued, RunningRows, Running, qvars, world
<1>8. OnlyTheLoop' /\ LoopAlone' /\ ChildrenOwned' /\ ReloadWaits' /\ Picked' /\ ReportsFresh'
  BY <1>2, <1>3, <1>4, <1>5, <1>6, <1>7
     DEF OneInv, OnlyTheLoop, LoopAlone, OneChild, ChildrenOwned, ReloadWaits, Picked, ReportsFresh,
         Parked, Runnable, qvars, world
<1>9. \A y \in Ids : row[y].status = "paused" => ~Merged(y)
  BY <1>2, <1>5 DEF OneInv, PausedFresh, Marking, Recovering
<1>10. SweepWaits'
  BY <1>2, <1>3, <1>4, <1>7, <1>9
     DEF OneInv, SweepWaits, StartingUp, Merged, Runnable, RunnableStatus, qvars, world
<1>11. PausedFresh'
  BY <1>2, <1>9 DEF PausedFresh, Merged, qvars, world
<1>12. EpicsApart'
  <2> SUFFICES ASSUME NEW e \in Ids, NEW t \in Children[e] PROVE Apart(e, t)'
    BY DEF EpicsApart
  <2>1. t \in Ids /\ Apart(e, t)
    BY ChildrenAssumption DEF OneInv, EpicsApart
  <2>2. ~(Open(e) /\ Open(t))
    BY <1>2, <2>1 DEF Apart, RunningRows
  <2>3. x = e => row[t].status # "paused"
    BY <1>3, <2>2 DEF Open, Runnable, RunnableStatus
  <2>4. x = t => row[e].status # "paused"
    BY <1>3, <2>2 DEF Open, Runnable, RunnableStatus
  <2> QED BY <1>2, <1>4, <1>7, <2>1, <2>2, <2>3, <2>4 DEF Apart, Open, Running, Taken, qvars
<1> QED BY <1>8, <1>10, <1>11, <1>12 DEF OneInv

LEMMA OneSpawns ==
  ASSUME OneInv, DrainInv, SpawnItem
  PROVE  OneInv'
<1> DEFINE x == loop.item
<1>1. /\ loop.pc = "spawn" /\ x \in Ids /\ x \in Queued /\ LiveChildren = {} /\ RunningRows = {}
      /\ Runnable(x) /\ reload = "none" /\ hub = "up"
      /\ \A y \in Ids : ~Parked(y)
  BY DEF SpawnItem, OneInv, OnlyTheLoop, LoopAlone, Picked, ReloadWaits, ReportsFresh, Queued
<1>2. PICK p \in Pids \cup {NoPid} :
        /\ Spawned(x, p)
        /\ \/ p \in Pids /\ loop' = [loop EXCEPT !.pc = "mark", !.pid = p]
           \/ p = NoPid /\ loop' = LoopTick
  BY DEF SpawnItem, Vacant
<1>3. /\ UNCHANGED <<row, ckpt, closed, wiping, hub, reload, sweep, runner, stopper>>
      /\ \A y \in Ids : outcome'[y] \in {outcome[y], "absent"}
  BY <1>1, <1>2 DEF SpawnItem, Spawned, qvars, DrainInv, DrainTypeOK, WorldTypeOK
<1>4. Queued' = Queued /\ RunningRows' = {} /\ \A y \in Ids : ~Parked(y)'
  BY <1>1, <1>3 DEF Queued, RunningRows, Running, Parked
<1>5. \A q \in Pids : child[q].st # "boot"
  BY <1>1 DEF LiveChildren, Alive
<1>6. sweep.todo \subseteq Ids /\ loop \in LoopType
  BY HandlerTypes DEF DrainInv, DrainTypeOK, SweepType
<1>7. \A y \in Ids : ~Marking(y)
  BY <1>1 DEF Marking
<1>8. CASE p = NoPid /\ loop' = LoopTick
  <2>1. child' = child /\ loop'.pc = "tick" /\ LiveChildren' = {}
    BY <1>1, <1>2, <1>8, RestTypes DEF Spawned, LiveChildren, Alive
  <2>2. OnlyTheLoop' /\ LoopAlone' /\ ChildrenOwned' /\ ReloadWaits' /\ Picked' /\ ReportsFresh'
    BY <1>1, <1>3, <1>4, <2>1
       DEF OneInv, OnlyTheLoop, LoopAlone, OneChild, ChildrenOwned, ReloadWaits, Picked, ReportsFresh
  <2>3. SweepWaits' /\ PausedFresh'
    BY <1>3, <1>5, <1>6, <1>7, <2>1
       DEF OneInv, SweepWaits, StartingUp, PausedFresh, Marking, Recovering, Merged
  <2>4. EpicsApart'
    BY <1>3, <1>4, <2>1 DEF OneInv, EpicsApart, Apart, Open, Running, Merged, Taken
  <2> QED BY <2>2, <2>3, <2>4 DEF OneInv
<1>9. CASE p \in Pids /\ loop' = [loop EXCEPT !.pc = "mark", !.pid = p]
  <2>1. p # NoPid
    BY <1>9, PidsAssumption DEF NoPid
  <2>2. /\ loop'.pc = "mark" /\ loop'.item = x /\ loop'.pid = p
        /\ child'[p].st = "boot" /\ child'[p].item = x
        /\ \A q \in Pids \ {p} : child'[q] = child[q]
    BY <1>2, <1>6, <1>9, <2>1 DEF Spawned, LoopType, DrainInv, DrainTypeOK, WorldTypeOK
  <2>3. LiveChildren' = {p}
    BY <1>1, <1>9, <2>2 DEF LiveChildren, Alive
  <2>4. OnlyTheLoop' /\ LoopAlone' /\ ChildrenOwned' /\ ReloadWaits' /\ Picked' /\ ReportsFresh'
    BY <1>1, <1>3, <1>4, <2>2, <2>3
       DEF OneInv, OnlyTheLoop, LoopAlone, OneChild, ChildrenOwned, Owned, ReloadWaits, Picked,
           ReportsFresh, Runnable
  <2>5. SweepWaits'
    <3>1. \A y \in Ids : StartingUp(y)' => y = x
      BY <1>5, <2>2 DEF StartingUp
    <3>2. StartingUp(x)
      BY <1>1 DEF StartingUp
    <3> QED BY <1>3, <1>6, <3>1, <3>2 DEF OneInv, SweepWaits, Merged
  <2>6. PausedFresh'
    BY <1>3, <1>7 DEF OneInv, PausedFresh, Recovering, Merged
  <2>7. EpicsApart'
    <3> SUFFICES ASSUME NEW e \in Ids, NEW t \in Children[e] PROVE Apart(e, t)'
      BY DEF EpicsApart
    <3>1. Apart(e, t)
      BY DEF OneInv, EpicsApart
    <3>2. /\ Taken(e)' <=> Taken(e)
          /\ Taken(t)' <=> Taken(t)
          /\ x = e => Taken(e)
      BY <1>1, <2>2 DEF Taken
    <3> QED BY <1>3, <1>4, <2>2, <2>3, <3>1, <3>2 DEF Apart, Open, Running, Merged
  <2> QED BY <2>4, <2>5, <2>6, <2>7 DEF OneInv
<1> QED BY <1>2, <1>8, <1>9

LEMMA OneMarks ==
  ASSUME OneInv, DrainInv, Orderly, MarkItem
  PROVE  OneInv'
<1> DEFINE x == loop.item
<1>1. /\ loop.pc = "mark" /\ x \in Ids /\ x \in Queued /\ RunningRows = {} /\ hub = "up"
      /\ loop.pid \in Pids
      /\ loop'.pc = "tick"
      /\ UNCHANGED <<world, hub, reload, sweep, runner, stopper>>
  BY RestTypes
     DEF MarkItem, OneInv, OnlyTheLoop, LoopAlone, DrainInv, Claims, Fresh, Queued
<1>2. /\ \A i \in Ids \ {x} : row'[i] = row[i]
      /\ row'[x].status = "running" /\ row'[x].pid = loop.pid /\ SameLines(x)
  <2>1. row' = [row EXCEPT ![x] = SettledRow(x, "running", loop.pid)]
    BY <1>1 DEF MarkItem, MarkRunning, Settle
  <2> QED BY <1>1, <2>1, SettleSets DEF DrainInv, StoreInv, RowSet
<1>3. /\ LiveChildren' = LiveChildren /\ Queued' = Queued /\ RunningRows' = {x}
      /\ \A p \in LiveChildren : p = loop.pid /\ child[p].item = x
  BY <1>1, <1>2
     DEF OneInv, LoopAlone, LiveChildren, Alive, Queued, RunningRows, Running, world
<1>4. OnlyTheLoop' /\ LoopAlone' /\ ReloadWaits' /\ Picked'
  BY <1>1, <1>2, <1>3
     DEF OneInv, OnlyTheLoop, LoopAlone, OneChild, ReloadWaits, Picked, world
<1>5. ChildrenOwned'
  BY <1>1, <1>2, <1>3 DEF ChildrenOwned, Owned, Running, world
<1>6. SweepWaits'
  <2>1. sweep.todo \subseteq Ids
    BY HandlerTypes DEF DrainInv, DrainTypeOK, SweepType
  <2> QED BY <1>1, <1>2, <2>1 DEF OneInv, SweepWaits, StartingUp, Merged, world
<1>7. PausedFresh'
  BY <1>1, <1>2 DEF OneInv, PausedFresh, Marking, Recovering, Merged, world
<1>8. ReportsFresh'
  BY <1>1, <1>2, <1>3 DEF OneInv, ReportsFresh, Parked, Merged, Running, RunningRows, world
<1>9. EpicsApart'
  <2> SUFFICES ASSUME NEW e \in Ids, NEW t \in Children[e] PROVE Apart(e, t)'
    BY DEF EpicsApart
  <2>1. t \in Ids /\ t # e /\ Apart(e, t)
    BY NotItsOwn DEF OneInv, EpicsApart
  <2>2. ~Running(e) /\ ~Running(t)
    BY <1>1, <2>1 DEF RunningRows
  <2>3. ~(Open(e) /\ Open(t))
    BY <2>1, <2>2 DEF Apart
  <2>4. /\ Merged(e)' <=> Merged(e)
        /\ Merged(t)' <=> Merged(t)
        /\ ~Taken(e)' /\ ~Taken(t)'
    BY <1>1 DEF Merged, Taken, world
  <2>5. Runnable(x) \/ Merged(x)
    BY <1>1 DEF OneInv, Picked
  <2>6. CASE x = e
    <3>1. row'[t] = row[t] /\ row'[e].status = "running" /\ SameLines(e)
      BY <1>2, <2>1, <2>6
    <3>2. row[t].status # "paused"
      BY <1>1, <2>1, <2>6 DEF Apart, Taken
    <3>3. Open(t) => Merged(e)
      BY <2>3, <2>5, <2>6 DEF Open, Runnable, RunnableStatus
    <3> QED BY <1>1, <1>3, <2>1, <2>2, <2>4, <3>1, <3>2, <3>3
            DEF Apart, Open, Running, SameLines, world
  <2>7. CASE x = t
    <3>1. row'[e] = row[e] /\ row'[t].status = "running"
      BY <1>2, <2>1, <2>7
    <3>2. row[e].status # "paused"
      BY <1>1, <2>1, <2>7 DEF Apart, Taken
    <3>3. Open(e) => Merged(t)
      BY <2>3, <2>5, <2>7 DEF Open, Runnable, RunnableStatus
    <3> QED BY <1>1, <1>3, <2>1, <2>2, <2>4, <3>1, <3>2, <3>3 DEF Apart, Open, Running, world
  <2>8. CASE x \notin {e, t}
    <3>1. row'[e] = row[e] /\ row'[t] = row[t]
      BY <1>2, <2>1, <2>8
    <3> QED BY <1>1, <1>3, <2>1, <2>3, <2>4, <3>1 DEF Apart, Open, world
  <2> QED BY <2>6, <2>7, <2>8
<1> QED BY <1>4, <1>5, <1>6, <1>7, <1>8, <1>9 DEF OneInv

LEMMA OneLoop ==
  ASSUME OneInv, DrainInv, Orderly, LoopStep
  PROVE  OneInv'
BY OneTickRunning, OneSettles, OneTickWaits, OneTickPick, OneSpawns, OneMarks DEF LoopStep

-----------------------------------------------------------------------------
(* The sweep, the reload and the gestures *)

LEMMA OneSweepReads ==
  ASSUME OneInv, DrainInv, SweepReads
  PROVE  OneInv'
<1>1. /\ sweep.pc = "read" /\ sweep'.pc = "settle" /\ sweep'.todo = {x \in Ids : AwaitsResolution(x)}
      /\ UNCHANGED <<qvars, world, hub, reload, loop, runner, stopper>>
  BY HandlerTypes DEF SweepReads, DrainInv, DrainTypeOK, SweepType
<1>2. SweepWaits'
  <2> SUFFICES ASSUME NEW x \in Ids, AwaitsResolution(x), StartingUp(x)
               PROVE  row[x].status \notin {"absent", "pending"} /\ ~Merged(x)
    BY <1>1 DEF SweepWaits, StartingUp, Merged, AwaitsResolution, qvars, world
  <2>1. row[x].status \in {"paused", "failed", "awaiting-merge"}
    BY DEF AwaitsResolution
  <2>2. loop.pc \in {"spawn", "mark"} => hub = "up"
    BY DEF OneInv, OnlyTheLoop
  <2>3. CASE loop.pc = "spawn" /\ loop.item = x
    BY <2>1, <2>2, <2>3
       DEF OneInv, Picked, PausedFresh, Marking, Recovering, Runnable, RunnableStatus
  <2>4. ASSUME NEW p \in Pids, child[p].st = "boot", child[p].item = x
        PROVE  ~Merged(x)
    <3>1. Owned(p)
      BY <2>4 DEF OneInv, ChildrenOwned, LiveChildren, Alive
    <3>2. loop.pc = "mark" /\ loop.pid = p /\ loop.item = x
      BY <2>1, <2>4, <3>1 DEF Owned, Running
    <3> QED BY <2>1, <2>2, <2>4, <3>2 DEF OneInv, PausedFresh, Picked, Marking, Recovering,
                                           Runnable, RunnableStatus
  <2> QED BY <2>1, <2>3, <2>4 DEF StartingUp
<1>3. PausedFresh'
  BY <1>1 DEF OneInv, PausedFresh, Marking, Recovering, Merged, AwaitsResolution, qvars, world
<1>4. OnlyTheLoop'
  BY <1>1 DEF OneInv, OnlyTheLoop, world
<1> QED BY <1>1, <1>2, <1>3, <1>4
       DEF OneInv, LoopAlone, OneChild, ChildrenOwned, Owned, ReloadWaits, Picked, ReportsFresh,
           EpicsApart, Apart, Open, Running, Runnable, Merged, Parked, Taken, Queued, RunningRows,
           LiveChildren, Alive, qvars, world

\* A boot that ends has settled every paused row whose work is merged.
LEMMA OneSweepEnds ==
  ASSUME OneInv, DrainInv, SweepEnds
  PROVE  OneInv'
<1>1. /\ sweep.pc = "settle" /\ sweep.todo = {} /\ sweep'.pc = "idle" /\ hub' = "up"
      /\ UNCHANGED <<qvars, world, reload, runner, stopper>>
      /\ LoopRests
  BY EnsureRests DEF SweepEnds, NoSweep, LoopRests
<1>2. \A x \in Ids : row[x].status = "paused" /\ Merged(x) => Marking(x)
  BY <1>1 DEF OneInv, OnlyTheLoop, PausedFresh, Recovering
<1>3. loop' = loop \/ (loop.pc \in Resting /\ loop'.pc \in Resting)
  BY <1>1 DEF LoopRests
<1>4. PausedFresh'
  BY <1>1, <1>2, <1>3 DEF PausedFresh, Marking, Merged, Resting, qvars, world
<1>5. OnlyTheLoop' /\ SweepWaits'
  BY <1>1 DEF OneInv, OnlyTheLoop, SweepWaits, world
<1>6. CASE loop' = loop
  BY <1>1, <1>4, <1>5, <1>6
     DEF OneInv, LoopAlone, OneChild, ChildrenOwned, Owned, ReloadWaits, Picked, ReportsFresh,
         EpicsApart, Apart, Open, Running, Runnable, Merged, Parked, Taken, Queued, RunningRows,
         LiveChildren, Alive, qvars, world
<1>7. CASE loop.pc \in Resting /\ loop'.pc \in Resting
  BY <1>1, <1>4, <1>5, <1>7
     DEF OneInv, LoopAlone, OneChild, ChildrenOwned, Owned, ReloadWaits, Picked, ReportsFresh,
         EpicsApart, Apart, Open, Running, Runnable, Merged, Parked, Taken, Queued, RunningRows,
         LiveChildren, Alive, Resting, qvars, world
<1> QED BY <1>3, <1>6, <1>7

LEMMA OneSweepSettles ==
  ASSUME OneInv, DrainInv, NEW x \in Ids, SweepSettles(x)
  PROVE  OneInv'
<1> USE DEF DrainInv, StoreInv, DrainTypeOK
<1>1. /\ sweep.pc = "settle" /\ x \in sweep.todo
      /\ sweep'.pc = "settle" /\ sweep'.todo = sweep.todo \ {x}
      /\ UNCHANGED <<child, ckpt, closed, wiping, shipped, hub, reload, loop, runner, stopper>>
  BY HandlerTypes DEF SweepSettles, SweepType
<1>2. SettleEvidence(x) <=> Merged(x)
  BY DEF SettleEvidence, Merged, OneInv, OnlyTheLoop
<1>3. sweep.todo \subseteq Ids
  BY HandlerTypes DEF SweepType
<1>4. \A y \in Ids : /\ Merged(y)' <=> Merged(y)
                     /\ StartingUp(y)' <=> StartingUp(y)
                     /\ Marking(y)' <=> Marking(y)
                     /\ Taken(y)' <=> Taken(y)
  BY <1>1 DEF Merged, StartingUp, Marking, Taken
<1>5. OnlyTheLoop' /\ LiveChildren' = LiveChildren
  BY <1>1 DEF OneInv, OnlyTheLoop, LiveChildren, Alive
<1>6. CASE UNCHANGED <<qvars, outcome, plan>> /\ ~(Merged(x) /\ x \in Queued)
  <2>1. SweepWaits'
    BY <1>1, <1>3, <1>4, <1>6 DEF OneInv, SweepWaits, qvars
  <2>2. ~(row[x].status = "paused" /\ Merged(x))
    BY <1>6 DEF Queued
  <2>3. PausedFresh'
    BY <1>1, <1>4, <1>6, <2>2 DEF OneInv, PausedFresh, Recovering, qvars
  <2> QED BY <1>1, <1>5, <1>6, <2>1, <2>3
          DEF OneInv, LoopAlone, OneChild, ChildrenOwned, Owned, ReloadWaits, Picked, ReportsFresh,
              EpicsApart, Apart, Open, Running, Runnable, Merged, Parked, Taken, Queued, RunningRows, qvars
<1>7. CASE Merged(x) /\ x \in Queued /\ Finish(x, "done") /\ outcome' = [outcome EXCEPT ![x] = "absent"]
  <2>1. row' = [row EXCEPT ![x] = SettledRow(x, "done", NoPid)]
    BY <1>7 DEF Finish, Settle
  <2>2. RowSet(x, "done", NoPid)
    BY <2>1, SettleSets
  <2>3. /\ \A i \in Ids \ {x} : row'[i] = row[i]
        /\ row'[x].status = "done" /\ SameLines(x)
        /\ \A y \in Ids : outcome'[y] = IF y = x THEN "absent" ELSE outcome[y]
    BY <1>7, <2>2 DEF RowSet, WorldTypeOK
  <2>4. Queued' = Queued /\ RunningRows' = RunningRows \ {x}
    BY <1>7, <2>3 DEF Queued, RunningRows, Running
  <2>5. ~StartingUp(x)
    BY <1>1, <1>7 DEF OneInv, SweepWaits
  <2>6. /\ loop.pc \in {"settle", "skip", "spawn", "mark"} => loop.item \in Ids
        /\ loop.pc = "settle" /\ loop.verdict = "paused" => loop.item # x
    BY <1>7 DEF Claims, OneInv, ReportsFresh
  <2>7. LoopAlone'
    BY <1>1, <1>5, <2>3, <2>4 DEF OneInv, LoopAlone, OneChild, RunningRows
  <2>8. ChildrenOwned'
    <3> SUFFICES ASSUME NEW p \in LiveChildren PROVE Owned(p)'
      BY <1>5 DEF ChildrenOwned
    <3>1. p \in Pids /\ child[p].item \in Ids /\ Owned(p) /\ child[p].st \in {"boot", "live"}
      BY TheChild DEF LiveChildren, Alive
    <3>2. child[p].item = x => child[p].st = "live"
      BY <2>5, <3>1 DEF StartingUp
    <3> QED BY <1>1, <1>4, <1>7, <2>3, <3>1, <3>2 DEF Owned, Running
  <2>9. ReloadWaits' /\ SweepWaits'
    BY <1>1, <1>3, <1>4, <2>3, <2>6 DEF OneInv, ReloadWaits, SweepWaits
  <2>10. Picked'
    BY <1>1, <1>4, <1>7, <2>3, <2>5, <2>6 DEF OneInv, Picked, StartingUp, Runnable
  <2>11. PausedFresh'
    BY <1>1, <1>4, <2>3 DEF OneInv, PausedFresh, Recovering
  <2>12. ReportsFresh'
    BY <1>1, <1>4, <1>5, <2>3, <2>6 DEF OneInv, ReportsFresh, Parked, Running
  <2>13. EpicsApart'
    <3> SUFFICES ASSUME NEW e \in Ids, NEW t \in Children[e] PROVE Apart(e, t)'
      BY DEF EpicsApart
    <3>1. t \in Ids /\ Apart(e, t)
      BY ChildrenAssumption DEF OneInv, EpicsApart
    <3>2. /\ row'[e] = row[e] \/ (e = x /\ row'[e].status = "done" /\ SameLines(e))
          /\ row'[t] = row[t] \/ row'[t].status = "done"
      BY <2>3, <3>1
    <3> QED BY <1>1, <1>4, <1>5, <2>4, <3>1, <3>2 DEF Apart, Open, Running, SameLines
  <2> QED BY <1>5, <2>7, <2>8, <2>9, <2>10, <2>11, <2>12, <2>13 DEF OneInv
<1> QED BY <1>2, <1>6, <1>7 DEF SweepSettles

LEMMA OneReloads ==
  ASSUME OneInv, DrainInv, ReloadStep
  PROVE  OneInv'
<1>1. CASE ReloadSeesIdle
  <2>1. reload # "none" /\ reload' # "none"
        /\ UNCHANGED <<qvars, world, hub, loop, sweep, runner, stopper>>
    BY <1>1 DEF ReloadSeesIdle
  <2> QED BY <2>1
       DEF OneInv, OnlyTheLoop, LoopAlone, OneChild, ChildrenOwned, Owned, ReloadWaits, SweepWaits,
           StartingUp, Picked, PausedFresh, Marking, Recovering, ReportsFresh, EpicsApart, Apart, Open,
           Running, Runnable, Merged, Parked, Taken, Queued, RunningRows, LiveChildren, Alive, qvars, world
<1>2. CASE HubReloads
  <2>1. /\ reload # "none" /\ reload' = "none" /\ hub' = "down"
        /\ loop'.pc = "off" /\ runner'.pc = "idle" /\ stopper'.pc = "idle" /\ sweep'.pc = "idle"
        /\ wiping' = {}
        /\ UNCHANGED <<qvars, child, ckpt, outcome, closed>>
    BY <1>2, RestTypes DEF HubReloads, HubDies, NoSweep, NoStop
  <2>2. /\ \A p \in Pids : child[p].st # "boot"
        /\ loop.pc # "spawn"
        /\ loop.pc = "mark" => Merged(loop.item)
    BY <2>1 DEF OneInv, ReloadWaits
  <2>3. LiveChildren' = LiveChildren /\ Queued' = Queued /\ RunningRows' = RunningRows
    BY <2>1 DEF LiveChildren, Alive, Queued, RunningRows, Running, qvars
  <2>4. OnlyTheLoop' /\ LoopAlone' /\ ReloadWaits' /\ SweepWaits' /\ Picked' /\ PausedFresh'
    BY <2>1, <2>3
       DEF OneInv, OnlyTheLoop, LoopAlone, OneChild, ReloadWaits, SweepWaits, Picked, PausedFresh,
           Recovering, qvars
  <2>5. ChildrenOwned'
    <3> SUFFICES ASSUME NEW p \in LiveChildren PROVE Owned(p)'
      BY <2>3 DEF ChildrenOwned
    <3>1. Owned(p) /\ child[p].st = "live"
      BY <2>2 DEF OneInv, ChildrenOwned, LiveChildren, Alive
    <3> QED BY <2>1, <2>2, <3>1 DEF Owned, Running, Merged, qvars
  <2>6. ReportsFresh'
    BY <2>1, <2>2, <2>3 DEF OneInv, ReportsFresh, Parked, Merged, Running, qvars
  <2>7. EpicsApart'
    BY <2>1, <2>3 DEF OneInv, EpicsApart, Apart, Open, Running, Merged, Taken, qvars
  <2> QED BY <2>4, <2>5, <2>6, <2>7 DEF OneInv
<1> QED BY <1>1, <1>2 DEF ReloadStep

LEMMA OneBoots ==
  ASSUME OneInv, DrainInv, HubBoots
  PROVE  OneInv'
<1>1. /\ hub = "down" /\ hub' = "boot" /\ sweep'.pc = "read"
      /\ UNCHANGED <<qvars, world, reload, loop, runner, stopper>>
  BY DEF HubBoots, NoSweep
<1>2. OnlyTheLoop' /\ SweepWaits' /\ PausedFresh'
  BY <1>1 DEF OneInv, OnlyTheLoop, SweepWaits, PausedFresh, Recovering, world
<1> QED BY <1>1, <1>2
       DEF OneInv, LoopAlone, OneChild, ChildrenOwned, Owned, ReloadWaits, Picked, ReportsFresh,
           EpicsApart, Apart, Open, Running, Runnable, Merged, Parked, Taken, Queued, RunningRows,
           LiveChildren, Alive, qvars, world

LEMMA OneHub ==
  ASSUME OneInv, DrainInv, Orderly, HubStep
  PROVE  OneInv'
<1>1. ~RunStep /\ \A x \in Ids : ~Wipe(x)
  BY DEF RunStep, RunSpawns, RunMarks, RunEnsures, Wipe, OneInv, OnlyTheLoop
<1> QED BY <1>1, OneLoop, OneMinor, OneSweepReads, OneSweepSettles, OneSweepEnds, OneStop,
           OneReloads, OneBoots DEF HubStep, SweepStep

\* The guards of an enqueue keep an epic and its sub-issues apart.
LEMMA OneEnqueue ==
  ASSUME OneInv, DrainInv, Orderly, NEW x \in Ids, EnqueueItem(x)
  PROVE  OneInv'
<1>1. /\ hub = "up" /\ UNCHANGED <<world, hub, reload, loop, sweep, runner, stopper>>
      /\ x \notin Queued => ~CoveredByEpic(x) /\ ~QueuedIndividually(x)
  BY DEF EnqueueItem, Request, handlers
<1>2. CASE RowsSame
  BY <1>1, <1>2, OneGesture
<1>3. CASE /\ x \notin Queued
           /\ \A i \in Ids \ {x} : row'[i] = row[i]
           /\ row'[x].status = "pending" /\ row'[x].pid = NoPid
           /\ \A t \in Children[x] : row'[x].subs[t] # "none"
  <2>1. row[x].status = "absent" /\ ~Running(x)
    BY <1>3 DEF Queued, Running
  <2>2. /\ Queued' = Queued \cup {x} /\ RunningRows' = RunningRows
        /\ LiveChildren' = LiveChildren
        /\ \A i \in Ids \ {x} : Running(i)' <=> Running(i)
    BY <1>1, <1>3, <2>1 DEF Queued, RunningRows, Running, LiveChildren, Alive, world
  <2>3. \A i \in Ids : /\ Merged(i)' <=> Merged(i)
                       /\ Parked(i)' <=> Parked(i)
                       /\ Taken(i)' <=> Taken(i)
                       /\ StartingUp(i)' <=> StartingUp(i)
                       /\ Marking(i)' <=> Marking(i)
                       /\ Recovering(i)' <=> Recovering(i)
    BY <1>1 DEF Merged, Parked, Taken, StartingUp, Marking, Recovering, world
  <2>4. loop.pc \in {"settle", "skip", "spawn", "mark"} => loop.item \in Ids /\ loop.item # x
    BY <1>3 DEF OneInv, LoopAlone, Queued
  <2>5. sweep.todo \subseteq Ids
    BY HandlerTypes DEF DrainInv, DrainTypeOK, SweepType
  <2>6. OnlyTheLoop' /\ LoopAlone' /\ ReloadWaits'
    BY <1>1, <1>3, <2>1, <2>2, <2>3, <2>4
       DEF OneInv, OnlyTheLoop, LoopAlone, OneChild, ReloadWaits, RunningRows, Running, world
  <2>7. ChildrenOwned'
    <3> SUFFICES ASSUME NEW p \in LiveChildren PROVE Owned(p)'
      BY <2>2 DEF ChildrenOwned
    <3>1. Owned(p) /\ child[p].item \in Ids
      BY TheChild
    <3> QED BY <1>1, <1>3, <2>1, <2>2, <2>3, <3>1 DEF Owned, world
  <2>8. SweepWaits'
    BY <1>1, <1>3, <2>1, <2>3, <2>5 DEF OneInv, SweepWaits
  <2>9. Picked' /\ PausedFresh' /\ ReportsFresh'
    BY <1>1, <1>3, <2>1, <2>2, <2>3, <2>4
       DEF OneInv, Picked, PausedFresh, ReportsFresh, Runnable, Running
  <2>10. EpicsApart'
    <3> SUFFICES ASSUME NEW e \in Ids, NEW t \in Children[e] PROVE Apart(e, t)'
      BY DEF EpicsApart
    <3>1. t \in Ids /\ t # e /\ Apart(e, t)
      BY NotItsOwn DEF OneInv, EpicsApart
    <3>2. ~Taken(x)
      BY <2>4 DEF Taken
    <3>3. CASE x \notin {e, t}
      BY <1>1, <1>3, <2>2, <2>3, <3>1, <3>3 DEF Apart, Open, Running, world
    <3>4. CASE x = t
      <4>1. ~IsEpic(t) /\ IsEpic(e)
        BY DEF Orderly, IsEpic
      <4>2. ~(e \in Queued /\ row[e].status \notin SettledStatus /\ row[e].subs[t] # "none")
        BY <1>1, <1>3, <3>4, <4>1 DEF CoveredByEpic
      <4>3. ~Open(e)
        BY <3>1, <4>2 DEF Apart, Open, Queued, SettledStatus
      <4> QED BY <1>1, <1>3, <2>2, <2>3, <3>1, <3>2, <3>4, <4>3 DEF Apart, Open, world
    <3>5. CASE x = e
      <4>1. ~(t \in Queued /\ row[t].status \notin SettledStatus)
        BY <1>1, <1>3, <3>1, <3>5 DEF QueuedIndividually
      <4>2. ~Open(t)
        BY <3>1, <4>1 DEF Open, Queued, SettledStatus
      <4> QED BY <1>1, <1>3, <2>2, <2>3, <3>1, <3>2, <3>5, <4>2 DEF Apart, Open, world
    <3> QED BY <3>3, <3>4, <3>5
  <2> QED BY <2>6, <2>7, <2>8, <2>9, <2>10 DEF OneInv
<1> QED BY <1>2, <1>3, EnqueueSets DEF EnqueueItem, DrainInv, StoreInv

LEMMA OneStarts ==
  ASSUME OneInv, DrainInv, Orderly, hub = "up", NEW b, NEW k \in Knobs, Starting(ArmScope(b, k, {}))
  PROVE  OneInv'
<1>1. /\ ArmScope(b, k, {}) /\ sweep'.pc = "read"
      /\ UNCHANGED <<world, hub, reload, loop, runner, stopper>>
  BY DEF Starting, NoSweep
<1>2. /\ \A i \in Ids :
           /\ SameLines(i)
           /\ \/ row'[i].status = row[i].status /\ row'[i].pid = row[i].pid
              \/ row'[i].status = "pending" /\ row[i].status \notin {"absent", "running"}
      /\ ~k.noResume => RowsSame
  BY <1>1, ArmSends DEF DrainInv, StoreInv
<1>3. /\ Queued' = Queued /\ RunningRows' = RunningRows /\ LiveChildren' = LiveChildren
      /\ \A i \in RunningRows : row'[i].pid = row[i].pid
      /\ \A i \in Ids : /\ Running(i)' <=> Running(i)
                        /\ Runnable(i) => Runnable(i)'
  BY <1>1, <1>2 DEF Queued, RunningRows, Running, Runnable, RunnableStatus, LiveChildren, Alive, world
<1>4. \A i \in Ids : /\ Merged(i)' <=> Merged(i)
                     /\ Parked(i)' <=> Parked(i)
                     /\ Taken(i)' <=> Taken(i)
                     /\ Marking(i)' <=> Marking(i)
  BY <1>1 DEF Merged, Parked, Taken, Marking, world
<1>5. loop.pc \in {"settle", "skip", "spawn", "mark"} => loop.item \in Ids
  BY DEF DrainInv, Claims
<1>6. OnlyTheLoop' /\ LoopAlone' /\ ReloadWaits' /\ SweepWaits'
  BY <1>1, <1>3, <1>4, <1>5
     DEF OneInv, OnlyTheLoop, LoopAlone, OneChild, ReloadWaits, SweepWaits, world
<1>7. ChildrenOwned'
  <2> SUFFICES ASSUME NEW p \in LiveChildren PROVE Owned(p)'
    BY <1>3 DEF ChildrenOwned
  <2>1. Owned(p) /\ child[p].item \in Ids
    BY TheChild
  <2> QED BY <1>1, <1>2, <1>3, <1>4, <2>1 DEF Owned, Running, RunningRows, world
<1>8. Picked'
  <2>1. ASSUME NEW i \in Ids, row[i].status = "done"
        PROVE  row'[i].status = "done" \/ Runnable(i)'
    BY <1>2, <2>1 DEF Runnable, RunnableStatus
  <2> QED BY <1>1, <1>3, <1>4, <1>5, <2>1 DEF OneInv, Picked
<1>9. PausedFresh'
  BY <1>1, <1>2, <1>4 DEF OneInv, PausedFresh, Recovering
<1>10. ReportsFresh'
  BY <1>1, <1>3, <1>4, <1>5 DEF OneInv, ReportsFresh
<1>11. EpicsApart'
  <2> SUFFICES ASSUME NEW e \in Ids, NEW t \in Children[e] PROVE Apart(e, t)'
    BY DEF EpicsApart
  <2>1. t \in Ids /\ Apart(e, t)
    BY ChildrenAssumption DEF OneInv, EpicsApart
  <2>2. row'[e].status = row[e].status /\ row'[t].status = row[t].status /\ SameLines(e)
    BY <1>2, <2>1 DEF Orderly, RowsSame
  <2> QED BY <1>1, <1>3, <1>4, <2>1, <2>2 DEF Apart, Open, SameLines, world
<1> QED BY <1>6, <1>7, <1>8, <1>9, <1>10, <1>11 DEF OneInv

LEMMA OneOperator ==
  ASSUME OneInv, DrainInv, Orderly, OperatorStep
  PROVE  OneInv'
<1>1. /\ ~HubCrashes
      /\ \A x \in Ids : ~Dequeue(x) /\ ~RunChecks(x) /\ ~TrackerCloses(x)
  BY DEF Orderly, HubCrashes, Dequeue, RunChecks, TrackerCloses, Request, Gesture
<1>2. CASE StartQueue
  BY <1>2, OneStarts DEF StartQueue, Request, Arm
<1>3. ASSUME NEW b \in BatchIds, StartBatch(b)
      PROVE  OneInv'
  <2>1. PICK k \in Knobs : Starting(ArmBatch(b, k, {}))
    BY <1>3 DEF StartBatch
  <2>2. hub = "up" /\ Starting(ArmScope(b, k, {}))
    BY <1>3, <2>1 DEF StartBatch, Request, Starting, ArmBatch
  <2> QED BY <2>2, OneStarts
<1> QED BY <1>1, <1>2, <1>3, OneEnqueue, OneMinor DEF OperatorStep

LEMMA OneInvStep ==
  ASSUME OneInv, DrainInv, Orderly, [DrainNext]_vars
  PROVE  OneInv'
BY OneMinor, OneOperator, OneHub, OneChildren DEF DrainNext

LEMMA OneInvInit ==
  ASSUME DrainInit
  PROVE  OneInv
<1>1. /\ \A i \in Ids : row[i].status = "absent" /\ ckpt[i].phase = "none" /\ outcome[i] = "absent"
      /\ \A p \in Pids : child[p].st = "none"
      /\ closed = {} /\ wiping = {} /\ hub = "up" /\ reload = "none"
      /\ loop.pc = "off" /\ sweep.pc = "idle" /\ runner.pc = "idle" /\ stopper.pc = "idle"
  BY RestTypes DEF DrainInit, Init, NoRow, NoCkpt, NoChild, NoSweep, NoStop
<1>2. LiveChildren = {} /\ RunningRows = {} /\ Queued = {}
  BY <1>1 DEF LiveChildren, Alive, RunningRows, Running, Queued
<1>3. \A i \in Ids : ~Open(i) /\ ~Parked(i) /\ ~Merged(i)
  BY <1>1 DEF Open, Parked, Merged
<1>4. EpicsApart
  BY <1>1, <1>2, <1>3, ChildrenAssumption DEF EpicsApart, Apart, Taken
<1> QED BY <1>1, <1>2, <1>3, <1>4
        DEF OneInv, OnlyTheLoop, LoopAlone, OneChild, ChildrenOwned, ReloadWaits, SweepWaits, Picked,
            PausedFresh, ReportsFresh

LEMMA OneInvHolds ==
  ASSUME Orderly
  PROVE  DrainSpec => []OneInv
<1>1. OneInv /\ DrainInv /\ [DrainNext]_vars => OneInv'
  BY OneInvStep
<1> QED BY OneInvInit, <1>1, DrainInvHolds, PTL DEF DrainSpec

\* A repo never has two children of the hub at once, however its loop, its starts and
\* sweeps, stops, self-reloads, failed launches and lost reports interleave: as long
\* as nothing ends the hub between a spawn and its mark, starts a run past the loop,
\* or lets a sweep settle a row whose run has only just been started.
THEOREM OneChildAtATime ==
  ASSUME Orderly
  PROVE  DrainSpec => []OneChild
<1>1. OneInv => OneChild
  BY DEF OneInv, LoopAlone
<1> QED BY <1>1, OneInvHolds, PTL

-----------------------------------------------------------------------------
(* A release holds the repo *)

Releasing(e) == ckpt[e].phase = "releasing"

\* One release at most is trau's own to finish; who is about to start, to be marked or
\* at work is its epic's.
HoldInv ==
  /\ stopper.pc = "idle"
  /\ \A e \in Ids : Releasing(e) => IsEpic(e)
  /\ \A e, f \in Ids : LiveRelease(e) /\ LiveRelease(f) => e = f
  /\ loop.pc \in {"spawn", "mark"} => \A e \in Ids : LiveRelease(e) => e = loop.item
  /\ \A p \in LiveChildren, e \in Ids : LiveRelease(e) => e = child[p].item

\* A step that begins no release.
NoneBegins ==
  \A e \in Ids : (Releasing(e)' => Releasing(e)) /\ (LiveRelease(e)' => LiveRelease(e))

LEMMA HoldKept ==
  ASSUME HoldInv, NoneBegins, stopper'.pc = "idle",
         loop'.pc \in {"spawn", "mark"} => loop.pc \in {"spawn", "mark"} /\ loop'.item = loop.item,
         \A p \in LiveChildren' : p \in LiveChildren /\ child'[p].item = child[p].item
  PROVE  HoldInv'
BY DEF HoldInv, NoneBegins, IsEpic

LEMMA SameCheckpoints ==
  ASSUME UNCHANGED ckpt
  PROVE  NoneBegins
BY DEF NoneBegins, Releasing, LiveRelease

LEMMA HoldTickPick ==
  ASSUME HoldInv, OneInv', TickPick
  PROVE  HoldInv'
<1>1. PICK x \in Ids :
        /\ Candidate(x)
        /\ loop' = [LoopOff EXCEPT !.pc = IF Duplicate(x) THEN "skip" ELSE "spawn", !.item = x]
  BY DEF TickPick
<1>2. UNCHANGED <<world, stopper>> /\ loop'.item = x /\ loop'.pc \in {"skip", "spawn"}
  BY <1>1 DEF TickPick, LoopOff
<1>3. ASSUME NEW e \in Ids, LiveRelease(e)
      PROVE  e = x
  <2>1. PICK next \in First(Unblocked) :
          IF HeldByRelease(next) THEN LiveRelease(x) /\ Runnable(x) /\ x # next ELSE x = next
    BY <1>1 DEF Candidate
  <2>2. CASE HeldByRelease(next)
    BY <1>3, <2>1, <2>2 DEF HoldInv
  <2>3. CASE ~HeldByRelease(next)
    BY <1>3, <2>1, <2>3 DEF HeldByRelease
  <2> QED BY <2>2, <2>3
<1>4. LiveChildren' = {}
  BY <1>2 DEF OneInv, LoopAlone
<1> QED BY <1>2, <1>3, <1>4 DEF HoldInv, LiveRelease, Releasing, IsEpic, world

LEMMA HoldSpawnItem ==
  ASSUME HoldInv, OneInv, DrainInv, SpawnItem
  PROVE  HoldInv'
<1>1. loop.pc = "spawn" /\ loop.item \in Ids /\ LiveChildren = {} /\ UNCHANGED <<ckpt, stopper>>
  BY DEF SpawnItem, Spawned, OneInv, LoopAlone, DrainInv, Claims
<1>2. \A e \in Ids : LiveRelease(e) => e = loop.item
  BY <1>1 DEF HoldInv
<1>3. loop'.pc = "mark" => loop'.item = loop.item
  BY HandlerTypes, RestTypes DEF SpawnItem, DrainInv, DrainTypeOK, LoopType
<1>4. loop'.pc # "spawn"
  BY HandlerTypes, RestTypes DEF SpawnItem, DrainInv, DrainTypeOK, LoopType
<1>5. \A p \in LiveChildren' : child'[p].item = loop.item
  <2>1. ASSUME NEW q \in Pids, child' = [child EXCEPT ![q] = [st |-> "boot", item |-> loop.item]]
        PROVE  \A p \in LiveChildren' : child'[p].item = loop.item
    BY <1>1, <2>1 DEF DrainInv, DrainTypeOK, WorldTypeOK, LiveChildren, Alive
  <2>2. ASSUME child' = child
        PROVE  LiveChildren' = {}
    BY <1>1, <2>2 DEF LiveChildren, Alive
  <2>3. \/ child' = child
        \/ \E q \in Pids : child' = [child EXCEPT ![q] = [st |-> "boot", item |-> loop.item]]
    BY PidsAssumption DEF SpawnItem, Spawned, Vacant, NoPid
  <2> QED BY <2>1, <2>2, <2>3
<1> QED BY <1>1, <1>2, <1>3, <1>4, <1>5 DEF HoldInv, LiveRelease, Releasing, IsEpic

\* Only the child at work moves a checkpoint on, and only an epic's into a release.
LEMMA HoldChildWorks ==
  ASSUME HoldInv, OneInv, DrainInv, Orderly, NEW p \in Pids, ChildWorks(p)
  PROVE  HoldInv'
<1> DEFINE y == child[p].item
<1>1. p \in LiveChildren /\ UNCHANGED <<child, loop, stopper>>
  BY DEF ChildWorks, LiveChildren, Alive, handlers
<1>2. y \in Ids /\ LiveChildren = {p} /\ LiveChildren' = {p}
  BY <1>1, TheChild DEF LiveChildren, Alive
<1>3. PICK t \in {y} \cup Children[y] :
        \E next \in NextCheckpoint(t) \ {ckpt[t]} : ckpt' = [ckpt EXCEPT ![t] = next]
  BY DEF ChildWorks
<1>4. t \in Ids /\ ckpt \in [Ids -> CkptType]
  BY <1>2, <1>3, ChildrenAssumption DEF DrainInv, DrainTypeOK, WorldTypeOK, CkptType
<1>5. /\ \A e \in Ids \ {t} : ckpt'[e] = ckpt[e]
      /\ ckpt'[t] \in NextCheckpoint(t)
  BY <1>3, <1>4
<1>6. Releasing(t)' => IsEpic(t)
  <2> SUFFICES ASSUME ~IsEpic(t) PROVE ckpt'[t].phase # "releasing"
    BY DEF Releasing
  <2> QED BY <1>5 DEF NextCheckpoint, NoCkpt
<1>7. Releasing(t)' => t = y
  BY <1>2, <1>3, <1>6 DEF Orderly, IsEpic
<1>8. \A e \in Ids : LiveRelease(e)' => e = y
  BY <1>1, <1>5, <1>7 DEF HoldInv, LiveRelease, Releasing
<1>9. loop.pc # "spawn" /\ (loop.pc = "mark" => loop.item = y)
  BY <1>1 DEF OneInv, LoopAlone
<1> QED BY <1>1, <1>2, <1>5, <1>6, <1>8, <1>9 DEF HoldInv, Releasing, IsEpic

LEMMA HoldChild ==
  ASSUME HoldInv, OneInv, DrainInv, Orderly, NEW p \in Pids, ChildStep(p) \/ ChildAsksReload(p)
  PROVE  HoldInv'
<1>0. child \in [Pids -> ChildType] /\ ckpt \in [Ids -> CkptType]
  BY DEF DrainInv, DrainTypeOK, WorldTypeOK, ChildType, CkptType
<1>1. CASE ChildWorks(p)
  BY <1>1, HoldChildWorks
<1>2. CASE ChildRegisters(p) \/ ChildCrashes(p) \/ Reaped(p) \/ ChildAsksReload(p)
  <2>1. UNCHANGED <<ckpt, loop, stopper>>
    BY <1>2 DEF ChildRegisters, ChildCrashes, Reaped, ChildAsksReload, handlers, world
  <2>2. \A q \in LiveChildren' : q \in LiveChildren /\ child'[q].item = child[q].item
    BY <1>0, <1>2 DEF ChildRegisters, ChildCrashes, Reaped, ChildAsksReload, LiveChildren, Alive,
                      NoChild, ChildType, world
  <2> QED BY <2>1, <2>2, SameCheckpoints, HoldKept DEF HoldInv
<1>3. ASSUME NEW e \in Exits \cup {"stopped"}, ChildEnds(p, e)
      PROVE  HoldInv'
  <2>1. UNCHANGED <<loop, stopper>> /\ child' = [child EXCEPT ![p] = NoChild]
    BY <1>3 DEF ChildEnds, handlers
  <2>2. \A q \in LiveChildren' : q \in LiveChildren /\ child'[q].item = child[q].item
    BY <1>0, <2>1 DEF LiveChildren, Alive, NoChild
  <2>3. NoneBegins
    <3>1. \/ ckpt' = ckpt
          \/ ~IsEpic(child[p].item) /\ ckpt' = [ckpt EXCEPT ![child[p].item].class = e]
      BY <1>3 DEF ChildEnds
    <3>2. ASSUME NEW i \in Ids PROVE ckpt'[i].phase = ckpt[i].phase
      BY <1>0, <3>1 DEF CkptType
    <3>3. ASSUME NEW i \in Ids, IsEpic(i) PROVE ckpt'[i] = ckpt[i]
      BY <1>0, <3>1, <3>3
    <3> QED BY <3>2, <3>3 DEF NoneBegins, HoldInv, Releasing, LiveRelease
  <2> QED BY <2>1, <2>2, <2>3, HoldKept DEF HoldInv
<1> QED BY <1>1, <1>2, <1>3 DEF ChildStep

LEMMA HoldSettles ==
  ASSUME HoldInv, DrainInv, SettleItem
  PROVE  HoldInv'
<1>1. UNCHANGED <<child, stopper>> /\ loop'.pc = "tick"
  BY RestTypes DEF SettleItem
<1>2. NoneBegins
  <2>1. ckpt' = ckpt \/ ckpt' = [ckpt EXCEPT ![loop.item].class = "faulted"]
    BY DEF SettleItem, PlanAutoResume
  <2>2. ckpt \in [Ids -> CkptType]
    BY DEF DrainInv, DrainTypeOK, WorldTypeOK, CkptType
  <2> QED BY <2>1, <2>2 DEF NoneBegins, Releasing, LiveRelease, CkptType
<1> QED BY <1>1, <1>2, HoldKept DEF HoldInv, LiveChildren, Alive

LEMMA HoldRest ==
  ASSUME HoldInv, OneInv, DrainInv, UNCHANGED <<child, ckpt>>, stopper'.pc = "idle",
         loop'.pc \in {"spawn", "mark"} => loop' = loop
  PROVE  HoldInv'
BY SameCheckpoints, HoldKept DEF HoldInv, LiveChildren, Alive

LEMMA HoldHub ==
  ASSUME HoldInv, OneInv, OneInv', DrainInv, Orderly, HubStep
  PROVE  HoldInv'
<1>1. stopper.pc = "idle" /\ ~RunStep /\ ~StopStep /\ \A x \in Ids : ~Wipe(x)
  BY DEF RunStep, RunSpawns, RunMarks, RunEnsures, Wipe, OneInv, OnlyTheLoop,
         HoldInv, StopStep, StopLooks, StopKills, StopSettles
<1>2. CASE LoopStep
  <2>1. CASE TickRunning
    <3>1. UNCHANGED <<child, ckpt, stopper>> /\ (loop' = loop \/ loop'.pc = "settle")
      BY <2>1 DEF TickRunning, LoopOff
    <3> QED BY <1>1, <3>1, HoldRest
  <2>2. CASE TickDisarmed \/ TickDry \/ SkipItem \/ MarkItem \/ LoopExits
    <3>1. UNCHANGED <<child, ckpt, stopper>>
      BY <2>2 DEF TickDisarmed, TickDry, SkipItem, MarkItem, LoopExits, world
    <3>2. loop' = loop \/ loop'.pc \notin {"spawn", "mark"}
      BY <2>2, HandlerTypes, RestTypes
         DEF TickDisarmed, TickDry, SkipItem, MarkItem, LoopExits, DrainInv, DrainTypeOK, LoopType
    <3> QED BY <1>1, <3>1, <3>2, HoldRest
  <2> QED BY <1>2, <2>1, <2>2, HoldTickPick, HoldSpawnItem, HoldSettles DEF LoopStep
<1>3. CASE PlanComesDue \/ SweepStep \/ ReloadStep \/ HubBoots
  <2>1. UNCHANGED <<child, ckpt>>
    BY <1>3 DEF PlanComesDue, SweepStep, SweepReads, SweepSettles, SweepEnds, ReloadStep,
                ReloadSeesIdle, HubReloads, HubDies, HubBoots, world
  <2>2. stopper'.pc = "idle" /\ (loop' = loop \/ loop'.pc \notin {"spawn", "mark"})
    BY <1>1, <1>3, RestTypes
       DEF PlanComesDue, SweepStep, SweepReads, SweepSettles, SweepEnds, Ensure, ReloadStep,
           ReloadSeesIdle, HubReloads, HubDies, HubBoots, NoStop
  <2> QED BY <2>1, <2>2, HoldRest
<1> QED BY <1>1, <1>2, <1>3 DEF HubStep

LEMMA HoldOperator ==
  ASSUME HoldInv, OneInv, DrainInv, Orderly, "stop" \notin Gestures, OperatorStep \/ UNCHANGED vars
  PROVE  HoldInv'
<1>1. /\ ~HubCrashes /\ ~StopDisarms
      /\ \A x \in Ids : ~Dequeue(x) /\ ~RunChecks(x) /\ ~TrackerCloses(x)
  BY DEF Orderly, HubCrashes, Dequeue, RunChecks, TrackerCloses, Request, Gesture, StopDisarms
<1>2. UNCHANGED <<child, ckpt, loop, stopper>>
  BY <1>1 DEF OperatorStep, EnqueueItem, FileBatch, StartBatch, StartQueue, PauseQueue, Starting,
              world, handlers, vars
<1> QED BY <1>2, HoldRest DEF HoldInv

LEMMA HoldInvHolds ==
  ASSUME Orderly, "stop" \notin Gestures
  PROVE  DrainSpec => []HoldInv
<1>1. DrainInit => HoldInv
  <2> SUFFICES ASSUME DrainInit PROVE HoldInv
    OBVIOUS
  <2>1. /\ \A i \in Ids : ckpt[i].phase = "none"
        /\ \A p \in Pids : child[p].st = "none"
        /\ loop.pc = "off" /\ stopper.pc = "idle"
    BY RestTypes DEF DrainInit, NoCkpt, NoChild, NoStop
  <2> QED BY <2>1 DEF HoldInv, Releasing, LiveRelease, LiveChildren, Alive
<1>2. HoldInv /\ OneInv /\ OneInv' /\ DrainInv /\ [DrainNext]_vars => HoldInv'
  BY HoldChild, HoldHub, HoldOperator DEF DrainNext
<1> QED BY <1>1, <1>2, OneInvHolds, DrainInvHolds, PTL DEF DrainSpec

\* While a release is trau's own to finish, no other item gets a child, although the
\* gate is asked a step before the spawn: as long as no stop stamps a release the hub
\* has given up on, which hands it back to the gate.
THEOREM ReleaseHolds ==
  ASSUME Orderly, "stop" \notin Gestures
  PROVE  DrainSpec => ReleaseHoldsRepo
<1> DEFINE Held == \A p \in Pids, e \in Ids :
                     child[p].st = "none" /\ child'[p].st = "boot" /\ LiveRelease(e)
                       => child'[p].item = e
<1>1. HoldInv /\ OneInv /\ DrainInv /\ [DrainNext]_vars => [Held]_vars
  <2> SUFFICES ASSUME HoldInv, OneInv, DrainInv, DrainNext PROVE Held
    BY Zenon DEF Held
  <2>1. child \in [Pids -> ChildType]
    BY DEF DrainInv, DrainTypeOK, WorldTypeOK, ChildType
  <2>2. CASE SpawnItem
    <3>1. loop.pc = "spawn"
      BY <2>2 DEF SpawnItem
    <3>2. \/ child' = child
          \/ \E q \in Pids : child' = [child EXCEPT ![q] = [st |-> "boot", item |-> loop.item]]
      BY <2>2, PidsAssumption DEF SpawnItem, Spawned, Vacant, NoPid
    <3> QED BY <2>1, <3>1, <3>2 DEF HoldInv
  <2>3. CASE ~SpawnItem
    <3>1. ~RunStep
      BY DEF RunStep, RunSpawns, RunMarks, RunEnsures, OneInv, OnlyTheLoop
    <3> SUFFICES \A p \in Pids : child'[p].st = "boot" => child[p].st = "boot"
      OBVIOUS
    <3>2. ASSUME NEW q \in Pids, ChildStep(q) \/ ChildAsksReload(q)
          PROVE  \A p \in Pids : child'[p].st = "boot" => child[p].st = "boot"
      <4>1. CASE ChildRegisters(q) \/ ChildCrashes(q) \/ Reaped(q)
        BY <2>1, <4>1 DEF ChildRegisters, ChildCrashes, Reaped, NoChild, ChildType
      <4>2. ASSUME NEW e \in Exits \cup {"stopped"}, ChildEnds(q, e)
            PROVE  child' = [child EXCEPT ![q] = NoChild]
        BY <4>2 DEF ChildEnds
      <4>3. CASE ChildWorks(q) \/ ChildAsksReload(q)
        BY <4>3 DEF ChildWorks, ChildAsksReload, world
      <4> QED BY <2>1, <3>2, <4>1, <4>2, <4>3 DEF ChildStep, NoChild
    <3>3. CASE OperatorStep
      BY <3>3 DEF OperatorStep, EnqueueItem, Dequeue, RunChecks, TrackerCloses, FileBatch, StartBatch,
                  StartQueue, PauseQueue, StopDisarms, HubCrashes, HubDies, Starting, world
    <3>4. CASE HubStep
      <4>1. ~StopStep
        BY DEF HoldInv, StopStep, StopLooks, StopKills, StopSettles
      <4>2. child' = child
        BY <2>3, <3>1, <3>4, <4>1
           DEF HubStep, LoopStep, SweepStep, ReloadStep, TickRunning, SettleItem, TickDisarmed,
               TickDry, TickPick, SkipItem, MarkItem, LoopExits, PlanComesDue, SweepReads, SweepSettles,
               SweepEnds, ReloadSeesIdle, HubReloads, HubDies, HubBoots, Wipe, world
      <4> QED BY <4>2
    <3> QED BY <3>2, <3>3, <3>4 DEF DrainNext
  <2> QED BY <2>2, <2>3
<1>2. DrainSpec => [][Held]_vars
  BY <1>1, HoldInvHolds, OneInvHolds, DrainInvHolds, PTL DEF DrainSpec
<1> QED BY <1>2 DEF ReleaseHoldsRepo
=============================================================================
