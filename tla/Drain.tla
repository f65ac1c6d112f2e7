------------------------------- MODULE Drain -------------------------------
(***************************************************************************)
(* The drain of one repo: the hub's drain loop (webserver/drain.go,        *)
(* autoresume.go, releasegate.go), the handlers that race it (queue.go,    *)
(* queuebatch.go, queuestop.go), the boot sweep (server.go) and the        *)
(* children it supervises, over the persisted queue of QueueStore.         *)
(*                                                                         *)
(* A goroutine or handler is a record with a `pc`; what it remembers       *)
(* between two store calls is in its other fields.  Each step is one store *)
(* transaction or one process operation, so everything that runs           *)
(* concurrently in the hub interleaves here.  The queue, the checkpoints,  *)
(* the drain outcomes and the children survive a hub crash; the loop, the  *)
(* handlers and the auto-resume plan do not.                               *)
(*                                                                         *)
(* Store errors are left out: every one makes the tick wait and try again. *)
(***************************************************************************)
EXTENDS QueueStore

CONSTANTS
  NoId,       \* no ticket
  Blockers,   \* Blockers[x]: the issues the tracker files as blocking x
  AutoTries,  \* the repo's auto-resume budget, 0 when it did not opt in
  SelfReload, \* the repo builds the hub's own binary and opted in to reload it
  Exits,      \* how a child may exit on its own
  Faults,     \* what may fail, any time: "crash", "lost" (a report), "launch"
  Gestures,   \* what operator, tracker and machine do in this instance
  MaxGestures \* how often they do it altogether

ASSUME NoIdAssumption      == NoId \notin Ids
ASSUME BlockersAssumption  == Blockers \in [Ids -> SUBSET Ids]
ASSUME AutoTriesAssumption == AutoTries \in Nat
ASSUME ReloadAssumption    == SelfReload \in BOOLEAN
ASSUME ExitsAssumption     == Exits \subseteq {"clean", "gave-up", "handoff", "paused", "faulted"}
ASSUME BudgetAssumption    == MaxGestures \in Nat

ReleaseTries == 2   \* releaseResumeTries

Phases    == {"none", "working", "releasing", "merged", "quarantined"}
Failures  == {"", "paused", "faulted", "stopped"}
Outcomes  == {"absent", "clean", "paused", "faulted", "stopped", "awaiting-merge"}
Classes   == Outcomes \cup Failures \cup {"gave-up", "unknown"}
IdOrNone  == Ids \cup {NoId}
PidOrNone == Pids \cup {NoPid}

VARIABLES
  child,    \* child[p]: the process with pid p and the item it was spawned for
  ckpt,     \* ckpt[x]: the checkpoint the hub holds for ticket or epic x
  outcome,  \* outcome[x]: the drain report posted for x
  closed,   \* issues the hub's mirror of the tracker files under done
  wiping,   \* tickets whose checkpoint a removal is still about to drop
  shipped,  \* ground truth: work that has really been delivered
  hub,      \* "down" | "boot" | "up"
  reload,   \* the deferred self-reload: "none" | "pending" | "due"
  loop,     \* the repo's drain goroutine
  plan,     \* the in-memory auto-resume plan
  sweep,    \* a start or a boot on its way through reconcileQueue
  runner,   \* the one-shot run handler
  stopper,  \* the stop handler and its background goroutine
  halted,   \* history: the operator's last word on this queue was Stop
  left      \* gestures still to come

world    == <<child, ckpt, outcome, closed, wiping, shipped>>
handlers == <<hub, reload, loop, plan, sweep, runner, stopper>>
person   == <<halted, left>>
vars     == <<qvars, world, handlers, person>>

NoChild  == [st |-> "none", item |-> NoId]
NoCkpt   == [phase |-> "none", class |-> "", handoff |-> FALSE]
NoPlan   == [id |-> NoId, attempts |-> 0, due |-> FALSE]
LoopOff  == [pc |-> "off", item |-> NoId, pid |-> NoPid, class |-> "", verdict |-> ""]
LoopTick == [LoopOff EXCEPT !.pc = "tick"]
NoSweep  == [pc |-> "idle", todo |-> {}, ensure |-> FALSE]
NoRun    == [pc |-> "idle", item |-> NoId, pid |-> NoPid]
NoStop   == [pc |-> "idle", pid |-> NoPid]

-----------------------------------------------------------------------------
(* What the hub reads *)

\* Faulty variant: liveness read off the presence rows.
FaultyAlive(p) == p \in Pids /\ child[p].st = "live"

Alive(p) == p \in Pids /\ child[p].st \in {"boot", "live"}

\* Presence: only a child that has registered shows as a live instance.
HasBusyInstance == \E p \in Pids : child[p].st = "live"

\* The one item of S the queue lists first; none when S is empty.
First(S) == {i \in S : \A j \in S \ {i} : <<i, j>> \in before}

RunningRows == {i \in Ids : Running(i)}

IsEpic(x) == Children[x] # {}

\* An epic release trau still owns: live, or crashed and pending a resume.
LiveRelease(x) ==
  ckpt[x].phase = "releasing" /\ ~ckpt[x].handoff /\ ckpt[x].class # "faulted"

HeldByRelease(x) == \E e \in Ids \ {x} : LiveRelease(e)

Shipped(x) == row[x].status = "done"
HeldBack(x) == \E b \in Blockers[x] \ closed : ~Shipped(b)

Unblocked == {i \in Ids : Runnable(i) /\ Covers(i) /\ ~HeldBack(i)}

\* An earlier queued epic, settled or not, lists this standalone ticket.
Duplicate(x) ==
  ~IsEpic(x) /\ \E e \in Queued : IsEpic(e) /\ <<e, x>> \in before /\ row[e].subs[x] # "none"

\* A not yet settled queued epic covers it, wherever the epic stands.
CoveredByEpic(x) ==
  ~IsEpic(x) /\ \E e \in Queued :
     IsEpic(e) /\ row[e].status \notin SettledStatus /\ row[e].subs[x] # "none"

QueuedIndividually(x) ==
  \E i \in Queued : i \in Children[x] /\ row[i].status \notin SettledStatus

SettleEvidence(x) == ckpt[x].phase = "merged" \/ x \in closed

AwaitsResolution(x) == row[x].status \in {"paused", "failed", "awaiting-merge"}

\* state.FailureClass on the stored checkpoint.
CheckpointClass(x) ==
  CASE ckpt[x].phase = "quarantined" -> "gave-up"
    [] ckpt[x].phase = "merged"      -> ""
    [] OTHER                         -> ckpt[x].class

\* Faulty variant: a missing report reads as a clean finish.
FaultyReconciledClass(x) ==
  IF outcome[x] \notin {"absent", "clean"} THEN outcome[x] ELSE CheckpointClass(x)

ReconciledClass(x) ==
  CASE outcome[x] \notin {"absent", "clean"} -> outcome[x]
    [] outcome[x] = "absent" /\ CheckpointClass(x) = "" /\ ckpt[x].phase # "merged" -> "unknown"
    [] OTHER -> CheckpointClass(x)

\* classifyDrainOutcome: the status a finished child's item takes.
Verdict(class, onFault) ==
  CASE class \in {"unknown", "paused", "stopped"} -> "paused"
    [] class = "awaiting-merge"                   -> "awaiting-merge"
    [] class = "faulted" -> IF onFault = "skip" THEN "failed" ELSE "paused"
    [] class = "gave-up" -> "failed"
    [] OTHER             -> "done"

-----------------------------------------------------------------------------
(* The auto-resume plan *)

Forgotten(x) == IF plan.id = x THEN NoPlan ELSE plan

CrashedRelease(x, class) == class # "stopped" /\ LiveRelease(x)

ResumeTries(x, class) ==
  CASE CrashedRelease(x, class) -> IF AutoTries < ReleaseTries THEN ReleaseTries ELSE AutoTries
    [] class = "paused"         -> AutoTries
    [] OTHER                    -> 0

\* Faulty variant: every park starts with a fresh budget.
FaultySpent(x) == 0

Spent(x) == IF plan.id = x THEN plan.attempts ELSE 0

\* Faulty variant: a spent release is not stamped.
FaultyPlanAutoResume(x, class) ==
  /\ plan' = IF Spent(x) < ResumeTries(x, class)
             THEN [id |-> x, attempts |-> Spent(x) + 1, due |-> FALSE] ELSE Forgotten(x)
  /\ ckpt' = ckpt

PlanAutoResume(x, class) ==
  IF Spent(x) < ResumeTries(x, class)
  THEN /\ plan' = [id |-> x, attempts |-> Spent(x) + 1, due |-> FALSE]
       /\ ckpt' = ckpt
  ELSE /\ plan' = Forgotten(x)
       /\ ckpt' = IF CrashedRelease(x, class)
                  THEN [ckpt EXCEPT ![x].class = "faulted"] ELSE ckpt

-----------------------------------------------------------------------------
(* The drain loop *)

Ensure == loop' = IF loop.pc = "off" THEN LoopTick ELSE loop

\* Children the hub could still be told about: their pids are not handed out.
Named == {row[i].pid : i \in Ids} \cup {loop.pid, runner.pid, stopper.pid}
Vacant == {p \in Pids \ Named : child[p].st = "none"}

SubIssueState(j) ==
  CASE ckpt[j].phase = "merged"      -> "done"
    [] ckpt[j].phase = "quarantined" -> "quarantined"
    [] OTHER                         -> ""

\* Faulty variant: settled sub-issues are rewritten too.
FaultyAdvanced(r) ==
  [j \in {j \in Ids : row[r].subs[j] # "none"
                      /\ SubIssueState(j) \notin {"", row[r].subs[j]}} |-> SubIssueState(j)]

Advanced(r) ==
  [j \in {j \in Ids : row[r].subs[j] \notin {"none", "done"}
                      /\ SubIssueState(j) \notin {"", row[r].subs[j]}} |-> SubIssueState(j)]

\* Faulty variant: the hold for a reload is asked before the dead run is settled.
FaultyTickRunning ==
  /\ loop.pc = "tick"
  /\ reload = "none"
  /\ \E r \in First(RunningRows) :
       LET class == ReconciledClass(r)
       IN  /\ SetSubIssueStates(r, Advanced(r))
           /\ IF Alive(row[r].pid)
              THEN UNCHANGED <<loop, outcome>>
              ELSE /\ loop' = [LoopOff EXCEPT !.pc = "settle", !.item = r, !.class = class,
                                              !.verdict = Verdict(class, knobs.onFault)]
                   /\ outcome' = [outcome EXCEPT ![r] = "absent"]
  /\ UNCHANGED <<child, ckpt, closed, wiping, shipped, hub, reload, plan, sweep, runner, stopper, person>>

\* A tick that finds a running row advances its sub-issues, then waits on the
\* child or, once that is dead, reads how it ended and consumes its report.
TickRunning ==
  /\ loop.pc = "tick"
  /\ \E r \in First(RunningRows) :
       LET class == ReconciledClass(r)
       IN  /\ SetSubIssueStates(r, Advanced(r))
           /\ IF Alive(row[r].pid)
              THEN UNCHANGED <<loop, outcome>>
              ELSE /\ loop' = [LoopOff EXCEPT !.pc = "settle", !.item = r, !.class = class,
                                              !.verdict = Verdict(class, knobs.onFault)]
                   /\ outcome' = [outcome EXCEPT ![r] = "absent"]
  /\ UNCHANGED <<child, ckpt, closed, wiping, shipped, hub, reload, plan, sweep, runner, stopper, person>>

\* Then it writes the verdict, and plans or forgets the item's next attempt.
SettleItem ==
  /\ loop.pc = "settle"
  /\ loop' = LoopTick
  /\ IF loop.item \notin Queued
     THEN UNCHANGED <<qvars, plan, ckpt>>
     ELSE IF loop.verdict = "paused"
     THEN Pause(loop.item) /\ PlanAutoResume(loop.item, loop.class)
     ELSE Finish(loop.item, loop.verdict) /\ plan' = Forgotten(loop.item) /\ ckpt' = ckpt
  /\ UNCHANGED <<child, outcome, closed, wiping, shipped, hub, reload, sweep, runner, stopper, person>>

\* Faulty variant: a disarmed loop stops over a running row.
FaultyTickDisarmed ==
  /\ loop.pc = "tick"
  /\ ~draining
  /\ loop' = [loop EXCEPT !.pc = "exit"]
  /\ plan' = NoPlan
  /\ UNCHANGED <<qvars, world, hub, reload, sweep, runner, stopper, person>>

\* A disarmed queue: wait for the plan, re-arm once it is due, or stop.
TickDisarmed ==
  /\ loop.pc = "tick"
  /\ RunningRows = {}
  /\ ~draining
  /\ \/ /\ plan.due /\ Rearm
        /\ UNCHANGED <<loop, plan>>
     \/ /\ plan.due => ~HasRunnable
        /\ plan.due \/ plan = NoPlan
        /\ loop' = [loop EXCEPT !.pc = "exit"]
        /\ plan' = NoPlan
        /\ UNCHANGED qvars
  /\ UNCHANGED <<world, hub, reload, sweep, runner, stopper, person>>

TickDry ==
  /\ loop.pc = "tick"
  /\ RunningRows = {}
  /\ Unblocked = {}
  /\ FinishDraining
  /\ loop' = [loop EXCEPT !.pc = "exit"]
  /\ UNCHANGED <<world, hub, reload, plan, sweep, runner, stopper, person>>

\* Faulty variant: the release gate is not asked.
FaultyCandidate(x) == x \in First(Unblocked)

\* The run that a release lets through in place of the head of the queue.
Candidate(x) ==
  \E next \in First(Unblocked) :
    IF HeldByRelease(next) THEN LiveRelease(x) /\ Runnable(x) /\ x # next ELSE x = next

\* Nothing is started beside a running row, for a self-reload or over a live run.
TickPick ==
  /\ loop.pc = "tick"
  /\ RunningRows = {}
  /\ draining
  /\ reload = "none"
  /\ ~HasBusyInstance
  /\ \E x \in Ids :
       /\ Candidate(x)
       /\ loop' = [LoopOff EXCEPT !.pc = IF Duplicate(x) THEN "skip" ELSE "spawn", !.item = x]
  /\ UNCHANGED <<qvars, world, hub, reload, plan, sweep, runner, stopper, person>>

SkipItem ==
  /\ loop.pc = "skip"
  /\ loop' = LoopTick
  /\ IF loop.item \in Queued THEN MarkSkipped(loop.item) ELSE UNCHANGED qvars
  /\ UNCHANGED <<world, hub, reload, plan, sweep, runner, stopper, person>>

\* Drop the stale report and start a child; the launch may fail.
Spawned(x, p) ==
  /\ outcome' = [outcome EXCEPT ![x] = "absent"]
  /\ child' = IF p = NoPid THEN child ELSE [child EXCEPT ![p] = [st |-> "boot", item |-> x]]
  /\ UNCHANGED <<ckpt, closed, wiping, shipped>>

SpawnItem ==
  /\ loop.pc = "spawn"
  /\ \/ \E p \in Vacant :
          /\ \A q \in Vacant : p <= q
          /\ Spawned(loop.item, p)
          /\ loop' = [loop EXCEPT !.pc = "mark", !.pid = p]
     \/ /\ "launch" \in Faults
        /\ Spawned(loop.item, NoPid)
        /\ loop' = LoopTick
  /\ UNCHANGED <<qvars, hub, reload, plan, sweep, runner, stopper, person>>

MarkItem ==
  /\ loop.pc = "mark"
  /\ loop' = LoopTick
  /\ IF loop.item \in Queued THEN MarkRunning(loop.item, loop.pid) ELSE UNCHANGED qvars
  /\ UNCHANGED <<world, hub, reload, plan, sweep, runner, stopper, person>>

\* The goroutine has decided to stop; only now does it leave d.active.
LoopExits ==
  /\ loop.pc = "exit"
  /\ loop' = LoopOff
  /\ UNCHANGED <<qvars, world, hub, reload, plan, sweep, runner, stopper, person>>

LoopStep ==
  TickRunning \/ SettleItem \/ TickDisarmed \/ TickDry \/ TickPick
  \/ SkipItem \/ SpawnItem \/ MarkItem \/ LoopExits

PlanComesDue ==
  /\ plan # NoPlan
  /\ ~plan.due
  /\ plan' = [plan EXCEPT !.due = TRUE]
  /\ UNCHANGED <<qvars, world, hub, reload, loop, sweep, runner, stopper, person>>

-----------------------------------------------------------------------------
(* Operator gestures.  The hub serves them only once it is up. *)

Gesture(g) ==
  /\ g \in Gestures
  /\ left > 0
  /\ left' = left - 1
  /\ halted' = (g = "stop" \/ (halted /\ g \notin {"start", "batch", "run"}))

Request(g) == Gesture(g) /\ hub = "up"

\* POST /queue, at the back or at the front.
EnqueueItem(x) ==
  /\ Request("enqueue")
  /\ x \notin Queued => ~CoveredByEpic(x) /\ ~QueuedIndividually(x)
  /\ Enqueue(x, {})
  /\ UNCHANGED <<world, handlers>>

\* DELETE /queue/{id}: the row goes now, the saved progress behind the response.
WipeTargets(x) ==
  {t \in {x} : ckpt[t].phase # "merged"}
  \cup {t \in Ids : row[x].subs[t] # "none" /\ ckpt[t].phase \in {"working", "releasing"}}

Dequeue(x) ==
  /\ Request("dequeue")
  /\ Remove(x)
  /\ wiping' = wiping \cup WipeTargets(x)
  /\ UNCHANGED <<child, ckpt, outcome, closed, shipped, handlers>>

Wipe(x) ==
  /\ x \in wiping
  /\ wiping' = wiping \ {x}
  /\ ckpt' = [ckpt EXCEPT ![x] = NoCkpt]
  /\ UNCHANGED <<qvars, child, outcome, closed, shipped, handlers, person>>

\* Start: arm, then sweep, then ensure the loop.
Starting(arm) ==
  /\ sweep.pc = "idle"
  /\ arm
  /\ sweep' = [NoSweep EXCEPT !.pc = "read", !.ensure = TRUE]
  /\ UNCHANGED <<world, hub, reload, loop, plan, runner, stopper>>

StartQueue == Request("start") /\ \E k \in Knobs : Starting(Arm(k, {}))

\* A batch start is refused while anything of the repo's is in flight.
StartBatch(b) ==
  /\ Request("batch")
  /\ ~draining
  /\ RunningRows = {}
  /\ ~HasBusyInstance
  /\ \E k \in Knobs : Starting(ArmBatch(b, k, {}))

FileBatch(b) ==
  /\ Request("file")
  /\ \E S \in SUBSET Ids : CreateBatch(b, S)
  /\ UNCHANGED <<world, handlers>>

\* reconcileQueue works from one snapshot of the rows that await a resolution.
SweepReads ==
  /\ sweep.pc = "read"
  /\ sweep' = [sweep EXCEPT !.pc = "settle", !.todo = {x \in Ids : AwaitsResolution(x)}]
  /\ UNCHANGED <<qvars, world, hub, reload, loop, plan, runner, stopper, person>>

\* Ground truth settles the row, whatever the row has become since the snapshot.
SweepSettles(x) ==
  /\ sweep.pc = "settle"
  /\ x \in sweep.todo
  /\ sweep' = [sweep EXCEPT !.todo = @ \ {x}]
  /\ IF SettleEvidence(x) /\ x \in Queued
     THEN /\ Finish(x, "done")
          /\ outcome' = [outcome EXCEPT ![x] = "absent"]
          /\ plan' = Forgotten(x)
     ELSE UNCHANGED <<qvars, outcome, plan>>
  /\ UNCHANGED <<child, ckpt, closed, wiping, shipped, hub, reload, loop, runner, stopper, person>>

SweepEnds ==
  /\ sweep.pc = "settle"
  /\ sweep.todo = {}
  /\ IF sweep.ensure THEN Ensure ELSE loop' = loop
  /\ hub' = "up"
  /\ sweep' = NoSweep
  /\ UNCHANGED <<qvars, world, reload, plan, runner, stopper, person>>

SweepStep == SweepReads \/ (\E x \in Ids : SweepSettles(x)) \/ SweepEnds

\* Pause: clear the flag and nothing else.
PauseQueue ==
  /\ Request("pause")
  /\ draining
  /\ SetDraining(FALSE)
  /\ UNCHANGED <<world, handlers>>

\* Run one item without arming: every guard is read first ...
RunChecks(x) ==
  /\ Request("run")
  /\ runner.pc = "idle"
  /\ ~draining
  /\ RunningRows = {}
  /\ ~HasBusyInstance
  /\ Runnable(x)
  /\ ~HeldByRelease(x)
  /\ ~CoveredByEpic(x)
  /\ Blockers[x] \ closed = {}
  /\ runner' = [NoRun EXCEPT !.pc = "spawn", !.item = x]
  /\ UNCHANGED <<qvars, world, hub, reload, loop, plan, sweep, stopper>>

\* ... then the child is started, the row marked and the loop ensured.
RunSpawns ==
  /\ runner.pc = "spawn"
  /\ \E p \in Vacant :
       /\ \A q \in Vacant : p <= q
       /\ Spawned(runner.item, p)
       /\ runner' = [runner EXCEPT !.pc = "mark", !.pid = p]
  /\ UNCHANGED <<qvars, hub, reload, loop, plan, sweep, stopper, person>>

RunMarks ==
  /\ runner.pc = "mark"
  /\ IF runner.item \in Queued
     THEN MarkRunning(runner.item, runner.pid) /\ runner' = [NoRun EXCEPT !.pc = "ensure"]
     ELSE UNCHANGED qvars /\ runner' = NoRun
  /\ UNCHANGED <<world, hub, reload, loop, plan, sweep, stopper, person>>

RunEnsures ==
  /\ runner.pc = "ensure"
  /\ Ensure
  /\ runner' = NoRun
  /\ UNCHANGED <<qvars, world, hub, reload, plan, sweep, stopper, person>>

RunStep == RunSpawns \/ RunMarks \/ RunEnsures

\* Stop: disarm, then look for a child to end ...
StopDisarms ==
  /\ Request("stop")
  /\ stopper.pc = "idle"
  /\ SetDraining(FALSE)
  /\ stopper' = [NoStop EXCEPT !.pc = "look"]
  /\ UNCHANGED <<world, hub, reload, loop, plan, sweep, runner>>

StopTargets ==
  IF RunningRows # {} THEN {row[r].pid : r \in First(RunningRows)}
                      ELSE {p \in Pids : child[p].st = "live"}

StopLooks ==
  /\ stopper.pc = "look"
  /\ \/ /\ StopTargets = {}
        /\ stopper' = NoStop
        /\ loop' = loop
     \/ \E p \in StopTargets :
          /\ stopper' = [pc |-> "end", pid |-> p]
          /\ Ensure
  /\ UNCHANGED <<qvars, world, hub, reload, plan, sweep, runner, person>>

\* ... which gets its grace (ChildEnds "stopped") and is then killed outright.
StopKills ==
  /\ stopper.pc = "end"
  /\ Alive(stopper.pid)
  /\ child' = [child EXCEPT ![stopper.pid] = IF @.st = "live" THEN [@ EXCEPT !.st = "lost"]
                                                           ELSE NoChild]
  /\ UNCHANGED <<qvars, ckpt, outcome, closed, wiping, shipped, handlers, person>>

\* A process that died without deregistering has the checkpoint of the ticket it
\* was on stamped stopped: for an epic's run, a sub-issue or the epic itself.
StampedStopped(t) ==
  IF ckpt[t].phase = "none" THEN ckpt ELSE [ckpt EXCEPT ![t].class = "stopped"]

StopSettles ==
  /\ stopper.pc = "end"
  /\ ~Alive(stopper.pid)
  /\ stopper' = NoStop
  /\ LET ended == child[stopper.pid]
     IN  IF ended.st = "lost"
         THEN /\ child' = [child EXCEPT ![stopper.pid] = NoChild]
              /\ \E t \in {ended.item} \cup Children[ended.item] : ckpt' = StampedStopped(t)
         ELSE UNCHANGED <<child, ckpt>>
  /\ UNCHANGED <<qvars, outcome, closed, wiping, shipped, hub, reload, loop, plan, sweep, runner, person>>

StopStep == StopLooks \/ StopKills \/ StopSettles

-----------------------------------------------------------------------------
(* Children *)

ChildRegisters(p) ==
  /\ child[p].st = "boot"
  /\ child' = [child EXCEPT ![p].st = "live"]
  /\ UNCHANGED <<qvars, ckpt, outcome, closed, wiping, shipped, handlers, person>>

\* A ticket's run clears the last failure as it starts and reaches a terminal
\* phase; an epic's run drives its sub-issues and then its own release.
NextCheckpoint(t) ==
  IF IsEpic(t)
  THEN CASE ckpt[t].phase \in {"none", "working"} ->
              {[ckpt[t] EXCEPT !.phase = "releasing", !.handoff = FALSE]}
         [] ckpt[t].phase = "releasing" ->
              {[ckpt[t] EXCEPT !.phase = "merged", !.handoff = FALSE],
               [ckpt[t] EXCEPT !.handoff = "handoff" \in Exits]}
         [] OTHER -> {}
  ELSE CASE ckpt[t].phase = "none"    -> {[NoCkpt EXCEPT !.phase = "working"]}
         [] ckpt[t].phase = "working" -> {[NoCkpt EXCEPT !.phase = "merged"]}
              \cup {[NoCkpt EXCEPT !.phase = "quarantined"] : e \in Exits \cap {"gave-up"}}
         [] OTHER -> {}

ChildWorks(p) ==
  /\ child[p].st = "live"
  /\ \E t \in {child[p].item} \cup Children[child[p].item] :
       /\ \E next \in NextCheckpoint(t) \ {ckpt[t]} : ckpt' = [ckpt EXCEPT ![t] = next]
       /\ shipped' = IF ckpt'[t].phase = "merged" THEN shipped \cup {t} ELSE shipped
  /\ UNCHANGED <<qvars, child, outcome, closed, wiping, handlers, person>>

\* What the child reports when it exits on its own: a clean exit is a merge, a
\* give-up or a ticket found already delivered.
Report(x, e) ==
  CASE e = "clean"   -> ckpt[x].phase = "merged" \/ x \in closed
    [] e = "gave-up" -> ckpt[x].phase = "quarantined"
    [] e = "handoff" -> ckpt[x].handoff
    [] OTHER         -> ckpt[x].phase \notin {"merged", "quarantined"}

Posted(e) ==
  CASE e \in {"clean", "gave-up"} -> "clean"
    [] e = "handoff"              -> "awaiting-merge"
    [] OTHER                      -> e

\* Paused, faulted and stopped runs stamp a ticket's checkpoint; an epic's fault
\* lives on its sub-issue.  The report of any exit may be lost on its way.
ChildEnds(p, e) ==
  LET x == child[p].item
  IN  /\ child[p].st = "live"
      /\ e \in Exits \cup {"stopped"}
      /\ e = "stopped" <=> stopper.pc = "end" /\ stopper.pid = p
      /\ Report(x, e)
      /\ child' = [child EXCEPT ![p] = NoChild]
      /\ ckpt' = IF e \in Failures /\ ~IsEpic(x) /\ ckpt[x].phase # "none"
                 THEN [ckpt EXCEPT ![x].class = e] ELSE ckpt
      /\ \/ outcome' = [outcome EXCEPT ![x] = Posted(e)]
         \/ "lost" \in Faults /\ outcome' = outcome
      /\ UNCHANGED <<qvars, closed, wiping, shipped, handlers, person>>

\* Killed, out of memory, machine gone: no report, and its presence row stays.
ChildCrashes(p) ==
  /\ "crash" \in Faults
  /\ Alive(p)
  /\ child' = [child EXCEPT ![p] = IF @.st = "live" THEN [@ EXCEPT !.st = "lost"] ELSE NoChild]
  /\ UNCHANGED <<qvars, ckpt, outcome, closed, wiping, shipped, handlers, person>>

\* Any read of the live instances drops the rows of dead processes.
Reaped(p) ==
  /\ child[p].st = "lost"
  /\ child' = [child EXCEPT ![p] = NoChild]
  /\ UNCHANGED <<qvars, ckpt, outcome, closed, wiping, shipped, handlers, person>>

ChildStep(p) ==
  ChildRegisters(p) \/ ChildWorks(p) \/ (\E e \in Exits \cup {"stopped"} : ChildEnds(p, e))
  \/ ChildCrashes(p) \/ Reaped(p)

-----------------------------------------------------------------------------
(* Hub and tracker *)

\* Someone delivers and closes an issue outside trau; the mirror picks it up.
TrackerCloses(x) ==
  /\ Gesture("close")
  /\ x \notin closed
  /\ closed' = closed \cup {x}
  /\ shipped' = shipped \cup {x}
  /\ UNCHANGED <<qvars, child, ckpt, outcome, wiping, handlers>>

\* The hub's process goes, and with it whatever only its memory held.
HubDies ==
  /\ hub # "down"
  /\ hub' = "down"
  /\ reload' = "none"
  /\ loop' = LoopOff
  /\ plan' = NoPlan
  /\ sweep' = NoSweep
  /\ runner' = NoRun
  /\ stopper' = NoStop
  /\ wiping' = {}
  /\ UNCHANGED <<qvars, child, ckpt, outcome, closed, shipped>>

\* A crash, or the operator's restart, which waits for nothing either.
HubCrashes == Gesture("crash") /\ HubDies

\* A run whose work reached the base has the hub's binary built from it and asks
\* the hub to restart onto it; a second request joins the first.
ChildAsksReload(p) ==
  /\ SelfReload
  /\ hub = "up"
  /\ child[p].st = "live"
  /\ ckpt[child[p].item].phase = "merged"
  /\ reload = "none"
  /\ reload' = "pending"
  /\ UNCHANGED <<qvars, world, hub, loop, plan, sweep, runner, stopper, person>>

HubIdle == ~HasBusyInstance /\ RunningRows = {}

\* The watcher looks for a moment with nothing running, and then restarts.
ReloadSeesIdle ==
  /\ reload = "pending"
  /\ HubIdle
  /\ reload' = "due"
  /\ UNCHANGED <<qvars, world, hub, loop, plan, sweep, runner, stopper, person>>

HubReloads == reload = "due" /\ HubDies /\ UNCHANGED person

ReloadStep == ReloadSeesIdle \/ HubReloads

\* Faulty variant: only an armed queue is picked up again.
FaultyHubBoots ==
  /\ hub = "down"
  /\ hub' = "boot"
  /\ sweep' = [NoSweep EXCEPT !.pc = "read", !.ensure = draining]
  /\ UNCHANGED <<qvars, world, reload, loop, plan, runner, stopper, person>>

\* Start: read the queue, sweep it, and drain it if that snapshot asked for it.
HubBoots ==
  /\ hub = "down"
  /\ hub' = "boot"
  /\ sweep' = [NoSweep EXCEPT !.pc = "read", !.ensure = draining \/ RunningRows # {}]
  /\ UNCHANGED <<qvars, world, reload, loop, plan, runner, stopper, person>>

-----------------------------------------------------------------------------
DrainInit ==
  /\ Init
  /\ child = [p \in Pids |-> NoChild]
  /\ ckpt = [x \in Ids |-> NoCkpt]
  /\ outcome = [x \in Ids |-> "absent"]
  /\ closed = {} /\ wiping = {} /\ shipped = {}
  /\ hub = "up" /\ reload = "none"
  /\ loop = LoopOff /\ plan = NoPlan
  /\ sweep = NoSweep /\ runner = NoRun /\ stopper = NoStop
  /\ halted = FALSE /\ left = MaxGestures

OperatorStep ==
  \/ \E x \in Ids : EnqueueItem(x) \/ Dequeue(x) \/ RunChecks(x) \/ TrackerCloses(x)
  \/ \E b \in BatchIds : FileBatch(b) \/ StartBatch(b)
  \/ StartQueue \/ PauseQueue \/ StopDisarms \/ HubCrashes

HubStep ==
  \/ LoopStep \/ PlanComesDue \/ SweepStep \/ RunStep \/ StopStep \/ ReloadStep \/ HubBoots
  \/ \E x \in Ids : Wipe(x)

DrainNext == OperatorStep \/ HubStep \/ \E p \in Pids : ChildStep(p) \/ ChildAsksReload(p)

DrainSpec == DrainInit /\ [][DrainNext]_vars

\* Goroutines run, launchd restarts a dead hub, backoffs elapse and a child works
\* until it exits.  Operators, faults and the tracker owe nothing.
ChildProgress(p) ==
  ChildRegisters(p) \/ ChildWorks(p) \/ (\E e \in Exits \cup {"stopped"} : ChildEnds(p, e))

Fairness ==
  /\ WF_vars(LoopStep) /\ WF_vars(PlanComesDue) /\ WF_vars(SweepStep)
  /\ WF_vars(RunStep) /\ WF_vars(StopStep) /\ WF_vars(ReloadStep) /\ WF_vars(HubBoots)
  /\ \A p \in Pids : WF_vars(ChildProgress(p)) /\ WF_vars(Reaped(p))

FairDrainSpec == DrainSpec /\ Fairness

-----------------------------------------------------------------------------
(* Properties *)

WorldTypeOK ==
  /\ child \in [Pids -> {NoChild} \cup [st : {"boot", "live", "lost"}, item : Ids]]
  /\ ckpt \in [Ids -> [phase : Phases, class : Failures, handoff : BOOLEAN]]
  /\ outcome \in [Ids -> Outcomes]
  /\ closed \subseteq Ids /\ wiping \subseteq Ids /\ shipped \subseteq Ids

HandlersTypeOK ==
  /\ hub \in {"down", "boot", "up"}
  /\ reload \in {"none", "pending", "due"}
  /\ loop \in [pc : {"off", "tick", "settle", "skip", "spawn", "mark", "exit"},
               item : IdOrNone, pid : PidOrNone, class : Classes, verdict : Status \cup {""}]
  /\ plan \in [id : IdOrNone, attempts : Nat, due : BOOLEAN]
  /\ sweep \in [pc : {"idle", "read", "settle"}, todo : SUBSET Ids, ensure : BOOLEAN]
  /\ runner \in [pc : {"idle", "spawn", "mark", "ensure"}, item : IdOrNone, pid : PidOrNone]
  /\ stopper \in [pc : {"idle", "look", "end"}, pid : PidOrNone]

PersonTypeOK == halted \in BOOLEAN /\ left \in 0..MaxGestures

\* The queue, what outlives a hub crash, and what the handlers remember.
DrainTypeOK == TypeOK /\ WorldTypeOK /\ HandlersTypeOK /\ PersonTypeOK

\* Never settle done on missing evidence: a row reads done only when its work was
\* really delivered, whatever mix of lost reports, crashes, stale checkpoints,
\* sweeps and restarts led there.
DoneOnlyIfShipped == \A x \in Ids : row[x].status = "done" => x \in shipped

LiveChildren == {p \in Pids : Alive(p)}

\* A repo never has two hub-spawned children at once (drain.go:43-44).
OneChild == \A p, q \in LiveChildren : p = q

\* The drain loop settles a run only once its process is dead, although what it
\* settles was read a transaction earlier.
DrainSettlesTheDead ==
  [][loop.pc = "settle" /\ loop'.pc = "tick" /\ Running(loop.item)
       => ~Alive(row[loop.item].pid)]_vars

\* While a release is trau's own to finish, no other item gets a child.
ReleaseHoldsRepo ==
  [][\A p \in Pids, e \in Ids : child[p].st = "none" /\ child'[p].st = "boot" /\ LiveRelease(e)
       => child'[p].item = e]_vars

\* A run that dies while the drain loop is up is always settled, however the loop
\* is interleaved with handlers that arm, disarm, stop and sweep.
DeadRunsSettle ==
  \A x \in Ids :
    Running(x) /\ ~Alive(row[x].pid) /\ loop.pc \notin {"off", "exit"}
      ~> ~Running(x) \/ hub = "down"

\* A run in flight when the hub died is picked up by the next boot and settled.
BootRecoversRuns ==
  \A x \in Ids : Running(x) /\ hub = "boot" ~> ~Running(x) \/ hub = "down"

\* A release that keeps dying ends stamped faulted, merged or handed off: the gate
\* it holds every other item behind opens without a human.
ReleaseGateOpens == \A e \in Ids : LiveRelease(e) ~> ~LiveRelease(e)

\* Left to itself the hub comes to rest: re-attempts are bounded, and the only loop
\* that stays up is an armed one that waits on a blocker or a release.
Waits == draining /\ (Unblocked = {} \/ \E e \in Ids : LiveRelease(e))
Quiesces == <>[](loop.pc = "off" \/ Waits)

\* A self-reload that was asked for does not wait for ever: the drain holds its next
\* spawn for it, and still settles the run it waits on.
ReloadLands == reload # "none" ~> reload = "none"

\* Every step of the hub, its handlers and its children is a step of the store
\* or leaves the queue alone.
ImplementsStore == Spec
=============================================================================
