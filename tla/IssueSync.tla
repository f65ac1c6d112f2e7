----------------------------- MODULE IssueSync ------------------------------
(***************************************************************************)
(* The hub's mirror of one repository's tracker project: the pull that     *)
(* keeps it current off a cursor (webserver/sync.go, syncworker.go), the   *)
(* sweep behind it that finds what a pull cannot report, and the healing   *)
(* of the queued label (queuelabel.go).                                    *)
(*                                                                         *)
(* A sync is a program counter and what it carries; each step is one call  *)
(* to the tracker or one store transaction, so an edit on the tracker, a   *)
(* gesture at the hub or the hub's death falls between any two.  Time on   *)
(* the tracker is a count of updates, 0 standing for "never"; an issue's   *)
(* content is the stamp of the edit that wrote it, and its queued label.   *)
(***************************************************************************)
EXTENDS Integers, FiniteSets, FiniteSetsExt

CONSTANTS
  Issues,        \* identifiers the tracker mints
  Targets,       \* the tracker projects a config can name
  First,         \* the one it names to begin with
  Setups,        \* the kinds of act one repository sees
  MaxActs,       \* bound on what people do, on the tracker and at the hub
  MaxFaults      \* bound on refused calls and hub crashes

\* "retarget" is a config edit between two syncs, "retargetLive" one at any time.
Kinds == {"edit", "move", "relabel", "queue", "retire", "manual", "resync", "retarget", "retargetLive", "crash"}

ASSUME SetupAssumption == \A s \in Setups : s \subseteq Kinds
ASSUME BoundAssumption == MaxActs \in Nat /\ MaxFaults \in Nat

Nowhere == "nowhere"
ASSUME TargetAssumption == Nowhere \notin Targets /\ First \in Targets

VARIABLES
  setup,     \* which kinds of act there are
  issue,     \* the tracker's issues: project, last update, content, queued label
  clock,     \* the tracker's last update
  target,    \* the project .trau.ini names
  row,       \* issues: the mirrored row of each identifier
  retired,   \* issue_tombstones: identifiers a purge or a detach retired
  bound,     \* issue_sync: the project the binding was resolved to
  cursor,    \* issue_sync: where the next pull resumes
  queued,    \* the identifiers waiting in the queue
  sync,      \* the sync in flight
  due,       \* FALSE while the repository is backing off
  sweepDue,  \* FALSE until the next sweep is due
  left       \* acts and faults still to come

tracked == <<issue, clock>>
stored  == <<row, retired, bound, cursor, queued>>
cadence == <<due, sweepDue>>
vars    == <<setup, tracked, target, stored, sync, cadence, left>>

Issue   == [at : Targets \cup {Nowhere}, upd : Nat, body : Nat, label : BOOLEAN]
Row     == [held : {"none", "live", "gone"}, body : Nat, label : BOOLEAN, placed : BOOLEAN]
NoRow   == [held |-> "none", body |-> 0, label |-> FALSE, placed |-> FALSE]

Pcs == {"idle", "rebind", "drop", "reread", "bind", "redrop", "pull", "upsert", "record", "heal",
        "label", "look", "reconcile", "prune"}

\* by: what asked for it; want: the project its config named; prev: the cursor
\* it read; seen: what the pull returned; todo: the labels to write, as <<issue,
\* add>>; live: the identifiers the sweep was told of, then the rows it retired.
Idle == [pc |-> "idle", by |-> "tick", want |-> Nowhere, prev |-> 0,
         seen |-> [i \in {} |-> Nowhere], todo |-> {}, live |-> {}]

TypeOK ==
  /\ setup \in Setups
  /\ issue \in [Issues -> Issue] /\ clock \in Nat /\ target \in Targets
  /\ row \in [Issues -> Row] /\ retired \subseteq Issues /\ queued \subseteq Issues
  /\ bound \in Targets \cup {Nowhere} /\ cursor \in Nat
  /\ sync.pc \in Pcs /\ sync.by \in {"tick", "manual", "resync"}
  /\ sync.want \in Targets \cup {Nowhere} /\ sync.prev \in Nat
  /\ DOMAIN sync.seen \subseteq Issues /\ \A i \in DOMAIN sync.seen : sync.seen[i] \in Issue
  /\ sync.todo \subseteq Issues \X BOOLEAN /\ sync.live \subseteq Issues
  /\ due \in BOOLEAN /\ sweepDue \in BOOLEAN
  /\ left \in [acts : 0..MaxActs, faults : 0..MaxFaults]

\* A project that already holds some issues, a hub that has never synced it.
Init ==
  /\ setup \in Setups
  /\ target = First
  /\ issue \in [Issues -> {[at |-> t, upd |-> 1, body |-> 1, label |-> FALSE] : t \in Targets}
                            \cup {[at |-> Nowhere, upd |-> 0, body |-> 0, label |-> FALSE]}]
  /\ clock = 1
  /\ row = [i \in Issues |-> NoRow] /\ retired = {} /\ queued = {}
  /\ bound = Nowhere /\ cursor = 0
  /\ sync = Idle /\ due = TRUE /\ sweepDue = TRUE
  /\ left = [acts |-> MaxActs, faults |-> MaxFaults]

Spend(what) == left[what] > 0 /\ left' = [left EXCEPT ![what] = @ - 1]
Does(kind)  == kind \in setup /\ Spend("acts")

-----------------------------------------------------------------------------
(* The tracker, external.                                                  *)

Write(i, new) ==
  /\ issue' = [issue EXCEPT ![i] = [new EXCEPT !.upd = clock + 1]]
  /\ clock' = clock + 1

Edit(i) ==
  /\ Does("edit") /\ issue[i].at # Nowhere
  /\ Write(i, [issue[i] EXCEPT !.body = clock + 1])
  /\ UNCHANGED <<setup, target, stored, sync, cadence>>

\* Filed, deleted, or moved from one project to the other.
Move(i, t) ==
  /\ Does("move") /\ issue[i].at # t
  /\ Write(i, [issue[i] EXCEPT !.at = t, !.body = IF @ = 0 THEN clock + 1 ELSE @])
  /\ UNCHANGED <<setup, target, stored, sync, cadence>>

Relabel(i) ==
  /\ Does("relabel") /\ issue[i].at # Nowhere
  /\ Write(i, [issue[i] EXCEPT !.label = ~@])
  /\ UNCHANGED <<setup, target, stored, sync, cadence>>

\* UpdateLabels: a write that changes nothing leaves the issue's stamp alone.
UpdateLabels(i, add) ==
  IF issue[i].label = add THEN UNCHANGED tracked
                          ELSE Write(i, [issue[i] EXCEPT !.label = add])

Listed(t, since) == {i \in Issues : issue[i].at = t /\ issue[i].upd > since}

-----------------------------------------------------------------------------
(* The claim, and how a sync settles it.                                   *)

\* resolveBinding: the cached binding serves while its stamp names the config's project.
Cached == bound # Nowhere /\ bound = target

\* resolveReader and SyncState
ReadState(by) == [Idle EXCEPT !.pc = IF Cached THEN "pull" ELSE "bind", !.by = by,
                              !.want = target, !.prev = cursor]

Begin(by) ==
  /\ sync.pc = "idle"
  /\ sync' = IF by = "resync" THEN [Idle EXCEPT !.pc = "rebind", !.by = by, !.want = target]
             ELSE ReadState(by)

\* tick, and refreshIfStale
Tick ==
  /\ due /\ Begin("tick")
  /\ UNCHANGED <<setup, tracked, target, stored, cadence, left>>

\* handleSync and handleForceResync: claimManual heeds no backoff.
Press(by) ==
  /\ Does(by) /\ Begin(by)
  /\ UNCHANGED <<setup, tracked, target, stored, cadence>>

\* settle, settleManual and, behind a tick's sweep, settleReconcile: what failed backs off.
Settle(ok, swept) ==
  /\ sync' = Idle
  /\ due' = (ok \/ (swept /\ sync.by = "tick"))
  /\ sweepDue' = (sweepDue /\ ~(swept /\ sync.by = "tick"))

DueAgain ==
  /\ ~due /\ due' = TRUE
  /\ UNCHANGED <<setup, tracked, target, stored, sync, sweepDue, left>>

SweepDueAgain ==
  /\ ~sweepDue /\ sweepDue' = TRUE
  /\ UNCHANGED <<setup, tracked, target, stored, sync, due, left>>

-----------------------------------------------------------------------------
(* The pull: forceResync, then syncRepo.                                   *)

\* forceResync resolves the binding anew, whatever the cache says ...
Rebind ==
  /\ sync.pc = "rebind"
  /\ bound' = sync.want /\ sync' = [sync EXCEPT !.pc = "drop"]
  /\ UNCHANGED <<setup, tracked, target, row, retired, cursor, queued, cadence, left>>

DropSynced == row' = [i \in Issues |-> NoRow] /\ cursor' = 0

\* ... and drops the mirror before the pull starts over.
Drop ==
  /\ sync.pc = "drop"
  /\ DropSynced /\ sync' = [sync EXCEPT !.pc = "reread"]
  /\ UNCHANGED <<setup, tracked, target, retired, bound, queued, cadence, left>>

Reread ==
  /\ sync.pc = "reread" /\ sync' = ReadState("resync")
  /\ UNCHANGED <<setup, tracked, target, stored, cadence, left>>

\* refreshBinding: the new binding is saved before the old project's mirror goes.
Bind ==
  /\ sync.pc = "bind"
  /\ bound' = sync.want
  /\ sync' = [sync EXCEPT !.pc = IF bound = Nowhere THEN "pull" ELSE "redrop"]
  /\ UNCHANGED <<setup, tracked, target, row, retired, cursor, queued, cadence, left>>

Redrop ==
  /\ sync.pc = "redrop"
  /\ DropSynced /\ sync' = [sync EXCEPT !.pc = "pull", !.prev = 0]
  /\ UNCHANGED <<setup, tracked, target, retired, bound, queued, cadence, left>>

\* SyncPull: what the project updated since the cursor, as one answer of the tracker.
Pull ==
  /\ sync.pc = "pull"
  /\ sync' = [sync EXCEPT !.pc = "upsert", !.seen = [i \in Listed(sync.want, sync.prev) |-> issue[i]]]
  /\ UNCHANGED <<setup, tracked, target, stored, cadence, left>>

\* Faulty variant: the tombstones are not consulted.
FaultyUpsert ==
  /\ sync.pc = "upsert"
  /\ row' = [i \in Issues |->
               IF i \in DOMAIN sync.seen
               THEN [row[i] EXCEPT !.held = "live", !.body = sync.seen[i].body, !.label = sync.seen[i].label]
               ELSE row[i]]
  /\ sync' = [sync EXCEPT !.pc = "record"]
  /\ UNCHANGED <<setup, tracked, target, retired, bound, cursor, queued, cadence, left>>

\* One transaction; it reads the tombstones inside.
Upsert ==
  /\ sync.pc = "upsert"
  /\ row' = [i \in Issues |->
               IF i \in DOMAIN sync.seen \ retired
               THEN [row[i] EXCEPT !.held = "live", !.body = sync.seen[i].body, !.label = sync.seen[i].label]
               ELSE row[i]]
  /\ sync' = [sync EXCEPT !.pc = "record"]
  /\ UNCHANGED <<setup, tracked, target, retired, bound, cursor, queued, cadence, left>>

\* Faulty variants: the cursor is the time of the pull's end, or overlaps it by one.
FaultyRecord ==
  /\ sync.pc = "record"
  /\ cursor' = clock
  /\ sync' = [sync EXCEPT !.pc = "heal"]
  /\ UNCHANGED <<setup, tracked, target, row, retired, bound, queued, cadence, left>>

\* advanceCursor
Record ==
  /\ sync.pc = "record"
  /\ cursor' = Max({sync.prev} \cup {sync.seen[i].upd : i \in DOMAIN sync.seen})
  /\ sync' = [sync EXCEPT !.pc = "heal"]
  /\ UNCHANGED <<setup, tracked, target, row, retired, bound, queued, cadence, left>>

-----------------------------------------------------------------------------
(* reconcileQueuedLabels.                                                  *)

\* Faulty variant: a label on anything that left the queue is taken for another hub's.
FaultyDrift ==
  LET known == {i \in Issues : row[i].held = "live"}
  IN {<<i, TRUE>> : i \in {j \in known : j \in queued /\ ~row[j].label}}

\* queuedLabelDrift: only a label this hub placed, or put on work it still queues, is stray.
Drift ==
  LET known == {i \in Issues : row[i].held = "live"}
  IN {<<i, TRUE>>  : i \in {j \in known : j \in queued /\ ~row[j].label}} \cup
     {<<i, FALSE>> : i \in {j \in known : j \notin queued /\ row[j].label /\ row[j].placed}}

Heal ==
  /\ sync.pc = "heal"
  /\ sync' = [sync EXCEPT !.pc = "label", !.todo = Drift]
  /\ UNCHANGED <<setup, tracked, target, stored, cadence, left>>

\* applyQueuedLabel on one issue: the tracker, the mirrored row, the placement.
Placed(i, add) ==
  /\ UpdateLabels(i, add)
  /\ row' = IF row[i].held = "none" THEN row
            ELSE [row EXCEPT ![i].label = add, ![i].placed = add]

Missing == {t \in sync.todo : t[2]}

\* The tracker may have lost the issue, may refuse the write, or all that are left.
Label(t) ==
  /\ sync.pc = "label" /\ t \in sync.todo /\ (Missing # {} => t \in Missing)
  /\ \/ /\ issue[t[1]].at # Nowhere /\ Placed(t[1], t[2])
        /\ sync' = [sync EXCEPT !.todo = @ \ {t}]
        /\ UNCHANGED left
     \/ /\ issue[t[1]].at = Nowhere
        /\ sync' = [sync EXCEPT !.todo = @ \ {t}]
        /\ UNCHANGED <<tracked, row, left>>
     \/ /\ Spend("faults")
        /\ \E rest \in {sync.todo \ {t}, sync.todo \ Missing, {}} : sync' = [sync EXCEPT !.todo = rest]
        /\ UNCHANGED <<tracked, row>>
  /\ UNCHANGED <<setup, target, retired, bound, cursor, queued, cadence>>

\* Faulty variant: only the sync a user asks for sweeps.
FaultyEndPull ==
  /\ sync.pc = "label" /\ sync.todo = {}
  /\ IF sync.by = "manual"
     THEN bound' = target /\ sync' = [ReadState(sync.by) EXCEPT !.pc = "look"] /\ UNCHANGED cadence
     ELSE Settle(TRUE, FALSE) /\ UNCHANGED bound
  /\ UNCHANGED <<setup, tracked, target, row, retired, cursor, queued, left>>

\* A manual sync always sweeps, a tick when its sweep is due.  reconcileRepo resolves
\* the binding as the pull does, and drops nothing when that moved.
EndPull ==
  /\ sync.pc = "label" /\ sync.todo = {}
  /\ IF sync.by = "manual" \/ (sync.by = "tick" /\ sweepDue)
     THEN bound' = target /\ sync' = [ReadState(sync.by) EXCEPT !.pc = "look"] /\ UNCHANGED cadence
     ELSE Settle(TRUE, FALSE) /\ UNCHANGED bound
  /\ UNCHANGED <<setup, tracked, target, row, retired, cursor, queued, left>>

-----------------------------------------------------------------------------
(* The sweep: reconcileRepo.                                               *)

\* ProjectIdentifiers: an empty project retires nothing.
Look ==
  /\ sync.pc = "look"
  /\ LET live == Listed(sync.want, 0)
     IN IF live = {} THEN Settle(TRUE, TRUE)
        ELSE sync' = [sync EXCEPT !.pc = "reconcile", !.live = live] /\ UNCHANGED cadence
  /\ UNCHANGED <<setup, tracked, target, stored, left>>

\* Reconcile stamps the rows the tracker no longer lists and revives those it does.
Reconcile ==
  /\ sync.pc = "reconcile"
  /\ LET lost == {i \in Issues \ sync.live : row[i].held = "live"}
     IN /\ row' = [i \in Issues |->
                     IF i \in lost THEN [row[i] EXCEPT !.held = "gone"]
                     ELSE IF i \in sync.live /\ row[i].held = "gone" THEN [row[i] EXCEPT !.held = "live"]
                     ELSE row[i]]
        /\ sync' = [sync EXCEPT !.pc = "prune", !.live = lost]
  /\ UNCHANGED <<setup, tracked, target, retired, bound, cursor, queued, cadence, left>>

\* dropFromQueue
Prune ==
  /\ sync.pc = "prune"
  /\ queued' = queued \ sync.live
  /\ Settle(TRUE, TRUE)
  /\ UNCHANGED <<setup, tracked, target, row, retired, bound, cursor, left>>

\* The tracker refuses a call: the binding, the pull or the list of identifiers.
\* A tick whose sweep failed backs off its sweeps alone.
Refused ==
  /\ sync.pc \in {"rebind", "bind", "pull", "look"} /\ Spend("faults")
  /\ Settle(FALSE, sync.pc = "look")
  /\ UNCHANGED <<setup, tracked, target, stored>>

-----------------------------------------------------------------------------
(* The operator, and the hub's death.                                      *)

\* afterEnqueue and dequeue label behind the queue write; a refused label is only logged.
Requeue(i, add) ==
  /\ Does("queue") /\ (i \in queued) # add /\ (add => row[i].held = "live")
  /\ queued' = IF add THEN queued \cup {i} ELSE queued \ {i}
  /\ \/ issue[i].at # Nowhere /\ Placed(i, add)
     \/ UNCHANGED <<tracked, row>>
  /\ UNCHANGED <<setup, target, retired, bound, cursor, sync, cadence>>

\* Purge and DetachToInternal: the row goes, its identifier is never mirrored again.
Retire(i) ==
  /\ Does("retire") /\ row[i].held # "none"
  /\ row' = [row EXCEPT ![i] = NoRow]
  /\ retired' = retired \cup {i} /\ queued' = queued \ {i}
  /\ UNCHANGED <<setup, tracked, target, bound, cursor, sync, cadence>>

\* .trau.ini names another project.
Retarget(t) ==
  /\ t # target /\ (Does("retargetLive") \/ (sync.pc = "idle" /\ Does("retarget")))
  /\ target' = t
  /\ UNCHANGED <<setup, tracked, stored, sync, cadence>>

\* The claims and the cadence are the hub's memory.
Crash ==
  /\ "crash" \in setup /\ Spend("faults")
  /\ sync' = Idle /\ due' = TRUE /\ sweepDue' = TRUE
  /\ UNCHANGED <<setup, tracked, target, stored>>

Syncs ==
  \/ Rebind \/ Drop \/ Reread \/ Bind \/ Redrop \/ Pull \/ Upsert \/ Record
  \/ Heal \/ (\E t \in Issues \X BOOLEAN : Label(t)) \/ EndPull
  \/ Look \/ Reconcile \/ Prune

People ==
  \/ \E i \in Issues : Edit(i) \/ Relabel(i) \/ Retire(i)
  \/ \E i \in Issues, t \in Targets \cup {Nowhere} : Move(i, t)
  \/ \E i \in Issues, add \in BOOLEAN : Requeue(i, add)
  \/ \E t \in Targets : Retarget(t)
  \/ \E by \in {"manual", "resync"} : Press(by)

Next == Tick \/ Syncs \/ Refused \/ DueAgain \/ SweepDueAgain \/ People \/ Crash

\* The syncer's ticker and timers, and a call that is not refused for ever.
Fairness == WF_vars(Tick) /\ WF_vars(Syncs) /\ WF_vars(DueAgain) /\ WF_vars(SweepDueAgain)

Spec == Init /\ [][Next]_vars /\ Fairness

-----------------------------------------------------------------------------
(* Properties.                                                             *)

\* syncRepo, advanceCursor: the cursor never runs ahead of the mirror.  What the
\* project holds and last updated at or before the cursor, no later pull will
\* return, so the mirror already has it, live and with its current content.
MissesNothing ==
  cursor > 0 /\ sync.pc # "redrop" /\ sync.pc # "drop" =>
    \A i \in Issues \ retired :
      issue[i].at = bound /\ issue[i].upd <= cursor => row[i].held = "live" /\ row[i].body = issue[i].body

\* The mirror shows the project, and nothing but the project, as the tracker has it.
Mirrored ==
  /\ bound = target
  /\ Listed(target, 0) # {} =>
     \A i \in Issues \ retired :
       /\ (row[i].held = "live") = (issue[i].at = target)
       /\ row[i].held = "live" => row[i].body = issue[i].body /\ row[i].label = issue[i].label

\* syncOne, reconcileRepo: whatever was refused, crashed, moved or retargeted on the
\* way, a tracker left alone is in the end mirrored - except that an emptied project
\* leaves its last rows standing.
MirrorConverges == <>[]Mirrored

\* reconcileQueuedLabels: in the end the tracker labels what is queued, and no
\* label this hub placed outlives its place in the queue - for the issues the
\* project still holds.
LabelsHeal ==
  <>[](\A i \in Issues : row[i].held = "live" /\ issue[i].at = target =>
         /\ i \in queued => issue[i].label
         /\ i \notin queued /\ issue[i].label => ~row[i].placed)

\* Upsert, Purge, DetachToInternal: an identifier once retired is never mirrored
\* again, by a pull that was on its way or any later one.
RetiredStaysOut == \A i \in retired : row[i].held = "none" /\ i \notin queued

=============================================================================
