------------------------------ MODULE Pipeline ------------------------------
(***************************************************************************)
(* One ticket's run through internal/pipeline: Resume and its phases, from *)
(* an empty checkpoint to a merged or a quarantined one, run after run.    *)
(*                                                                         *)
(* A run is a program counter and what it carries from one phase to the    *)
(* next.  Each step is one durable write or one effect on git, the forge   *)
(* or the tracker, so a kill, a stop, a hub outage or a hand on the PR     *)
(* falls between any two.  The checkpoint lives in the hub (`ckpt`); a run *)
(* works on the copy it hydrated (`mem`) and sends the whole field set     *)
(* with every write.                                                       *)
(*                                                                         *)
(* Work is told apart by the build that produced it: `local`, `pushed` and *)
(* the members of `base` are build numbers, 0 standing for no branch.      *)
(* Epics, stacks and folder repos are other modules' business.             *)
(***************************************************************************)
EXTENDS Checkpoint, Gates, Sequences

CONSTANTS
  Setups,        \* the configurations a ticket may run under
  MaxRepairs,    \* REPAIRS
  MaxBugfixes,   \* BUGFIXES
  Troubles,      \* how an agent, git or the forge may fail a run
  Gestures,      \* what operator, machine and hub may do
  MaxGestures,   \* how often altogether
  MaxBuilds,     \* bound on builds
  MaxPRs         \* bound on PRs

\* remote: the repo's forge; autoMerge: AUTO_MERGE; browser: VERIFY_BROWSER;
\* members and policy: the verifiers and how their verdicts are merged; ci:
\* REQUIRE_CI; skips: the gates the operator declared skipped.
Setup == [remote : {"none", "github", "bitbucket"}, autoMerge : BOOLEAN,
          browser : {"never", "auto", "always"},
          members : SUBSET Nat, policy : {"unanimous", "majority", "any-pass"},
          ci : {"off", "auto", "on"}, skips : SUBSET {"verify", "ci", "merge"}]

ASSUME SetupAssumption == \A s \in Setups : s \in Setup /\ IsFiniteSet(s.members) /\ s.members # {}
ASSUME CountAssumption == MaxRepairs \in Nat /\ MaxBugfixes \in Nat /\ MaxGestures \in Nat
ASSUME BoundAssumption == MaxBuilds \in Nat \ {0} /\ MaxPRs \in Nat \ {0}

VARIABLES
  setup,     \* the configuration the ticket runs under
  hub,       \* TRUE while the hub answers
  ckpt,      \* the checkpoint the hub holds
  tracker,   \* the issue's status: "open", "started", "review", "done", "quarantined"
  local,     \* the build on the local feature branch
  pushed,    \* the build on the remote feature branch
  base,      \* the builds that landed on the base
  prs,       \* the branch's PRs, oldest first: "open", "merged" or "closed"
  gen,       \* builds made so far
  passed,    \* builds a verifier passed, or an operator vouched for
  brief,     \* the handoff brief is there to verify against
  verdict,   \* the verdict file says pass
  parked,    \* HEAD is on the feature branch
  pc,        \* where the run is, "off" when none is
  from,      \* the phase it was asked to resume from
  mem,       \* its copy of the checkpoint
  hydrated,  \* that copy has been fetched
  tries,     \* repairs spent at the present gate
  fixes,     \* bugfixes spent at it, or the sync of an unmergeable PR
  stopped,   \* the run's context is canceled
  left       \* gestures still to come

git    == <<local, pushed, base, prs>>
files  == <<brief, verdict, parked>>
run    == <<from, tries, fixes, stopped>>
world  == <<setup, hub, tracker, git, gen, passed, files>>
vars   == <<setup, hub, ckpt, tracker, local, pushed, base, prs, gen, passed, brief, verdict,
            parked, pc, from, mem, hydrated, tries, fixes, stopped, left>>

Local     == setup.remote = "none"
AutoMerge == setup.autoMerge /\ "merge" \notin setup.skips
Skipped(gate) == gate \in setup.skips

Build == 0..MaxBuilds
Blank == [phase |-> None, pr |-> 0, branch |-> FALSE, mark |-> "", done |-> FALSE]
Row   == [phase : Phase, pr : 0..MaxPRs, branch : BOOLEAN, mark : FailureMark, done : BOOLEAN]

LastPR   == Len(prs)
LastIs(st) == LastPR # 0 /\ prs[LastPR] = st

\* The branch's merged PR, if the forge names one: gh looks at the latest PR only,
\* Bitbucket at any that ever merged.
MergedPR ==
  LET merged == {i \in DOMAIN prs : prs[i] = "merged"}
  IN  IF merged = {} \/ (setup.remote = "github" /\ ~LastIs("merged")) THEN 0
      ELSE CHOOSE i \in merged : \A j \in merged : j <= i

CloseOpen == [i \in DOMAIN prs |-> IF prs[i] = "open" THEN "closed" ELSE prs[i]]

(* ------------------- The hub-backed checkpoint store ------------------- *)

\* What Get answers: an unreachable hub reads as an empty row.
Cached == IF hydrated THEN mem ELSE IF hub THEN ckpt ELSE Blank

\* A step that only reads still hydrates.
Read ==
  /\ mem' = Cached
  /\ hydrated' = (hydrated \/ hub)
  /\ UNCHANGED ckpt

\* Set: the copy changes first, then the whole row is sent, if the hub answers.
Put(row) ==
  /\ mem' = IF hydrated \/ hub THEN row ELSE mem
  /\ hydrated' = (hydrated \/ hub)
  /\ ckpt' = IF hub THEN row ELSE ckpt

PutPhase(phase) == Put([Cached EXCEPT !.phase = phase])
PutMark(mark)   == Put([Cached EXCEPT !.mark = mark])

\* A write whose failure pauses the run, and one whose failure is ignored.
OrPause(next) == pc' = IF hub THEN next ELSE "hubpause"

\* RemoveState: the copy is forgotten, the row goes if the hub answers.
Remove ==
  /\ mem' = Blank
  /\ hydrated' = FALSE
  /\ ckpt' = IF hub THEN Blank ELSE ckpt

\* resetLocal: the branch goes on both sides, and its open PR with it, then
\* files and row.  Without a recorded branch a local one is looked up by name.
ResetLocal ==
  LET branch == Cached.branch \/ local # 0
  IN  /\ local'  = IF branch THEN 0 ELSE local
      /\ pushed' = IF branch THEN 0 ELSE pushed
      /\ prs'    = IF branch /\ pushed # 0 THEN CloseOpen ELSE prs
      /\ brief'  = FALSE /\ verdict' = FALSE /\ parked' = FALSE
      /\ Remove
      /\ UNCHANGED base

(* ------------------------------ Begin, end ----------------------------- *)

Gesture(g) == g \in Gestures /\ left > 0 /\ left' = left - 1

\* A gesture that starts a ticket over is a "forget" once its work shipped.
Restart(g) == Gesture(IF MergedPR = 0 /\ gen \notin base THEN g ELSE "forget")

\* One that drops the row and leaves the branch is a "strand" while the open PR shows
\* other work than the latest build, or work nobody passed: a run that infers its
\* phase from the parked branch takes that PR for the ticket's.
DropRow(g) ==
  /\ Restart(IF LastIs("open") /\ ~(pushed = gen /\ gen \in passed) THEN "strand" ELSE g)
  /\ ckpt' = Blank

Fresh ==
  /\ mem' = Blank /\ hydrated' = FALSE
  /\ from' = None /\ tries' = 0 /\ fixes' = 0 /\ stopped' = FALSE

\* The loop picks what to run with: the in-flight checkpoint the hub lists, the
\* branch HEAD is parked on, else the ticket from the start.
Begin ==
  /\ pc = "off" /\ hub
  /\ ckpt.phase # "quarantined"
  /\ from' = IF InFlight(ckpt.phase) THEN ckpt.phase ELSE None
  /\ pc' = IF ckpt.phase = None /\ parked /\ local # 0 THEN "infer" ELSE "resume"
  /\ UNCHANGED <<world, ckpt, mem, hydrated, tries, fixes, stopped, left>>

\* The operator runs a quarantined ticket again: the loop takes it from the
\* start, "Run once" resumes from the phase the row reads.
Rerun ==
  /\ pc = "off" /\ hub
  /\ ckpt.phase = "quarantined"
  /\ \/ Restart("rerun") /\ from' = None
     \/ Restart("runonce") /\ from' = ckpt.phase
  /\ pc' = "resume"
  /\ UNCHANGED <<world, ckpt, mem, hydrated, tries, fixes, stopped>>

\* InferredResume adopts a parked branch nothing tracks, unless it shipped.
InferredPhase ==
  CASE LastIs("open") -> "pr_open"
    [] verdict                  -> "verified"
    [] brief                    -> "handed_off"
    [] OTHER                    -> "built"

Infer ==
  /\ pc = "infer"
  /\ \/ /\ MergedPR # 0
        /\ Put([Cached EXCEPT !.branch = TRUE, !.pr = MergedPR])
        /\ pc' = "done"
        /\ UNCHANGED from
     \/ /\ MergedPR = 0
        /\ IF tracker = "done"
           THEN Read /\ UNCHANGED from
           ELSE /\ Put([Cached EXCEPT !.branch = TRUE, !.phase = InferredPhase,
                                      !.pr = IF InferredPhase = "pr_open" THEN LastPR ELSE @])
                /\ from' = InferredPhase
        /\ pc' = "resume"
  /\ UNCHANGED <<world, tries, fixes, stopped, left>>

\* The process ends; the exit cleanup leaves HEAD on the base.
End ==
  /\ pc = "end"
  /\ pc' = "off" /\ parked' = FALSE
  /\ Fresh
  /\ UNCHANGED <<setup, hub, ckpt, tracker, git, gen, passed, brief, verdict, left>>

(* -------------------------------- Resume ------------------------------- *)

\* Faulty variant: any status but Done counts as reopened.
FaultyReopened == Cached.done /\ tracker # "done" /\ ~stopped

\* Trau saw the tracker reach Done and the tracker now reads unstarted.
Reopened == Cached.done /\ tracker = "open" /\ ~stopped

\* A merged checkpoint ends the run, unless the ticket was reopened: then the
\* old attempt is cleared away.  A post-handoff checkpoint without its PR is
\* settled at once when the branch's latest PR merged.
Resume ==
  /\ pc = "resume"
  /\ \/ /\ Cached.phase = "merged" /\ ~Reopened
        /\ Read
        /\ pc' = "end"
        /\ UNCHANGED <<git, files, from>>
     \/ /\ Cached.phase = "merged" /\ Reopened
        /\ ResetLocal
        /\ from' = None
        /\ pc' = "marks"
     \/ /\ Cached.phase # "merged"
        /\ LET shipped == /\ Idx(from) >= Idx("handed_off") /\ Cached.branch /\ Cached.pr = 0
                          /\ MergedPR # 0 /\ ~stopped
           IN  IF shipped
               THEN Put([Cached EXCEPT !.pr = MergedPR]) /\ pc' = "done"
               ELSE Read /\ pc' = "marks"
        /\ UNCHANGED <<git, files, from>>
  /\ UNCHANGED <<setup, hub, tracker, gen, passed, tries, fixes, stopped, left>>

\* The retry drops the failure mark; a pinned provider that is not here pauses.
ClearFailureMarks ==
  /\ pc = "marks"
  /\ IF Cached.mark # "" THEN PutMark("") ELSE Read
  /\ pc' \in {"branch"} \cup (IF "provider" \in Troubles THEN {"pause"} ELSE {})
  /\ UNCHANGED <<world, run, left>>

\* Faulty variant: a handed-off ticket skips the verifiers.
FaultyFirstPhase ==
  CASE Idx(from) < 2  -> "build"
    [] Idx(from) = 2  -> "handoff"
    [] Idx(from) <= 4 -> "commit"
    [] OTHER          -> "ci"

\* The first phase a run resumed from `from` runs.
FirstPhase ==
  CASE Idx(from) < 2 -> "build"
    [] Idx(from) = 2 -> "handoff"
    [] Idx(from) = 3 -> "clean"
    [] Idx(from) = 4 -> "commit"
    [] OTHER         -> "ci"

\* Back onto the recorded branch.  Git answers a canceled run nothing, which
\* reads as a missing branch; a missing branch past the build resets the ticket.
RestoreBranch ==
  /\ pc = "branch"
  /\ LET exists == Cached.branch /\ local # 0 /\ ~stopped
     IN  IF exists \/ Idx(from) < 2
         THEN /\ Read
              /\ parked' = (exists \/ parked)
              /\ pc' = FirstPhase
              /\ UNCHANGED <<tracker, git, brief, verdict>>
         ELSE /\ ResetLocal
              /\ tracker' = IF stopped THEN tracker ELSE "open"
              /\ pc' = "end"
  /\ UNCHANGED <<setup, hub, gen, passed, run, left>>

(* ---------------------------- How a step fails ------------------------- *)

\* classifyPhaseErr of an unexpected error: a canceled run was stopped.
Unexpected == pc' = IF stopped THEN "stop" ELSE "fault"

\* What an agent step may end in besides an answer.
AgentFails ==
  /\ \/ "paused" \in Troubles /\ ~stopped /\ pc' = "pause"
     \/ "budget" \in Troubles /\ pc' = "giveup"
     \/ ("faulted" \in Troubles \/ stopped) /\ Unexpected
  /\ Read
  /\ UNCHANGED <<world, run, left>>

Fails == Unexpected /\ Read /\ UNCHANGED <<world, run, left>>
GivesUp == pc' = "giveup" /\ Read /\ UNCHANGED <<world, run, left>>

(* -------------------------------- Build -------------------------------- *)

StartBuild ==
  /\ pc = "build"
  /\ brief' = FALSE /\ verdict' = FALSE
  /\ PutPhase("building") /\ OrPause("cut")
  /\ UNCHANGED <<setup, hub, tracker, git, gen, passed, parked, run, left>>

\* The recorded branch is checked out, adopted from the remote or cut afresh.  A
\* branch git would not cut is a dead end, and a canceled run gets none.
CutBranch ==
  /\ pc = "cut"
  /\ \/ stopped /\ GivesUp
     \/ /\ ~stopped
        /\ LET adopted == IF local = 0 /\ Cached.branch THEN pushed ELSE local
           IN  local' = adopted /\ tracker' = IF adopted = 0 THEN "started" ELSE tracker
        /\ parked' = TRUE
        /\ Put([Cached EXCEPT !.branch = TRUE]) /\ OrPause("agent")
        /\ UNCHANGED <<setup, hub, pushed, base, prs, gen, passed, brief, verdict, run, left>>

\* A build that changed nothing faults; one that refuses the ticket undoes it.
BuildAgent ==
  /\ pc = "agent"
  /\ \/ AgentFails
     \/ "nochange" \in Troubles /\ Fails
     \/ /\ ~stopped /\ gen < MaxBuilds
        /\ gen' = gen + 1 /\ local' = gen + 1
        /\ pc' = "built"
        /\ Read
        /\ UNCHANGED <<setup, hub, tracker, pushed, base, prs, passed, files, run, left>>
     \/ /\ ~stopped /\ "refused" \in Troubles
        /\ ResetLocal
        /\ tracker' = "open"
        /\ pc' = "end"
        /\ UNCHANGED <<setup, hub, gen, passed, run, left>>

Built ==
  /\ pc = "built"
  /\ PutPhase("built") /\ OrPause("handoff")
  /\ UNCHANGED <<world, run, left>>

(* --------------------------- Handoff, verify --------------------------- *)

\* The brief is written beside the cleanup, or skipped: for a tiny diff, or
\* because no verifier is going to read it.
Handoff ==
  /\ pc = "handoff"
  /\ \/ AgentFails
     \/ /\ brief' \in (IF Skipped("verify") THEN {brief} ELSE {TRUE, brief})
        /\ Skipped("verify") \/ ~stopped
        /\ pc' = "handed"
        /\ Read
        /\ UNCHANGED <<setup, hub, tracker, git, gen, passed, verdict, parked, run, left>>

HandedOff ==
  /\ pc = "handed"
  /\ PutPhase("handed_off") /\ OrPause("brief")
  /\ UNCHANGED <<world, run, left>>

\* Cleanup fails open: only a pause or the budget ends the run here.
CleanUp ==
  /\ pc = "clean"
  /\ \/ AgentFails /\ pc' \in {"pause", "giveup"}
     \/ /\ pc' = "brief" /\ Read
        /\ UNCHANGED <<world, run, left>>

\* A brief that got lost is written again before the first verdict.
Brief ==
  /\ pc = "brief"
  /\ \/ /\ Skipped("verify")
        /\ passed' = passed \cup {local}
        /\ pc' = "verified" /\ Read
        /\ UNCHANGED <<setup, hub, tracker, git, gen, files, run, left>>
     \/ ~Skipped("verify") /\ ~brief /\ AgentFails
     \/ /\ ~Skipped("verify")
        /\ brief' \in (IF stopped THEN {brief} ELSE {TRUE, brief})
        /\ tries' = 0 /\ fixes' = 0
        /\ pc' = "verify" /\ Read
        /\ UNCHANGED <<setup, hub, tracker, git, gen, passed, verdict, parked, from, stopped, left>>

\* The members whose gated verdict may pass; a canceled run hears none of them.
Verdicts == {MergeVerdicts(setup.policy, setup.members, yes) :
               yes \in IF stopped THEN {{}} ELSE SUBSET setup.members}

\* One attempt: the test gate or the verifiers.  A pause or the budget ends the
\* run; every other agent failure is a failing verdict.
Attempt(pass, fail) ==
  \E ok \in Verdicts :
    /\ verdict' = ok
    /\ passed' = IF ok THEN passed \cup {local} ELSE passed \ {local}
    /\ pc' = IF ok THEN pass ELSE fail
    /\ Read
    /\ UNCHANGED <<setup, hub, tracker, git, gen, brief, parked, run, left>>

VerifyEnds == AgentFails /\ pc' \in {"pause", "giveup"}

Verify ==
  /\ pc = "verify"
  /\ \/ VerifyEnds
     \/ Attempt("browser", "failed")

\* Repairs first, then bugfixes, then the ticket is given up on.
Repair ==
  /\ pc = "failed"
  /\ tries < MaxRepairs \/ fixes < MaxBugfixes
  /\ \/ AgentFails
     \/ /\ ~stopped
        /\ IF tries < MaxRepairs
           THEN tries' = tries + 1 /\ UNCHANGED fixes
           ELSE fixes' = fixes + 1 /\ UNCHANGED tries
        /\ pc' = "verify" /\ Read
        /\ UNCHANGED <<world, from, stopped, left>>

VerifyGivesUp ==
  /\ pc = "failed"
  /\ tries >= MaxRepairs /\ fixes >= MaxBugfixes
  /\ GivesUp

\* A UI slice that must be driven in a browser and was not is verified once more;
\* what counts then is that the browser was driven.  No merged panel verdict
\* says it was.
BrowserGate ==
  /\ pc = "browser"
  /\ \/ /\ pc' = "verified" /\ Read
        /\ UNCHANGED <<world, run, left>>
     \/ setup.browser = "always" /\ VerifyEnds
     \/ setup.browser = "always" /\ Attempt("pause", "pause")
     \/ /\ setup.browser = "always" /\ Cardinality(setup.members) = 1
        /\ Attempt("verified", "verified")

Verified ==
  /\ pc = "verified"
  /\ PutPhase("verified") /\ OrPause("commit")
  /\ tries' = 0 /\ fixes' = 0
  /\ UNCHANGED <<world, from, stopped, left>>

(* ------------------------------ Commit, PR ----------------------------- *)

Commit ==
  /\ pc = "commit"
  /\ \/ AgentFails
     \/ /\ ~stopped
        /\ pc' = IF Local THEN "propen" ELSE "push"
        /\ Read
        /\ UNCHANGED <<world, run, left>>

Push ==
  /\ pc = "push"
  /\ \/ /\ ~stopped
        /\ pushed' = local
        /\ pc' = "openpr" /\ Read
        /\ UNCHANGED <<setup, hub, tracker, local, base, prs, gen, passed, files, run, left>>
     \/ \E probe \in {"accepted", "remote-rejected", "non-ff", "network", "auth"} :
          /\ "push" \in Troubles \/ stopped
          /\ IF ~RepairablePush(ClassifyPush(probe)) THEN Fails
             ELSE IF tries >= MaxRepairs THEN GivesUp
             ELSE \/ AgentFails
                  \/ /\ ~stopped
                     /\ tries' = tries + 1
                     /\ Read
                     /\ UNCHANGED <<world, pc, from, fixes, stopped, left>>

\* The branch's open PR is adopted, else one is opened; a create that failed
\* although the PR is there adopts it on the retry.
OpenPR ==
  /\ pc = "openpr"
  /\ \/ (stopped \/ "forge" \in Troubles) /\ Fails
     \/ /\ ~stopped /\ (LastPR < MaxPRs \/ LastIs("open"))
        /\ prs' = IF LastIs("open") THEN prs ELSE Append(prs, "open")
        /\ pc' = "recordpr" /\ Read
        /\ UNCHANGED <<setup, hub, tracker, local, pushed, base, gen, passed, files, run, left>>

RecordPR ==
  /\ pc = "recordpr"
  /\ Put([Cached EXCEPT !.pr = LastPR]) /\ OrPause("propen")
  /\ UNCHANGED <<world, run, left>>

PROpen ==
  /\ pc = "propen"
  /\ PutPhase("pr_open") /\ OrPause("review")
  /\ UNCHANGED <<world, run, left>>

\* The tracker is told as best it can be.
Tell(status) == tracker' \in (IF stopped THEN {} ELSE {status})
                              \cup (IF stopped \/ "tracker" \in Troubles THEN {tracker} ELSE {})

InReview ==
  /\ pc = "review"
  /\ Tell("review")
  /\ pc' = "ci" /\ Read
  /\ UNCHANGED <<setup, hub, git, gen, passed, files, run, left>>

(* ------------------------------ CI and merge --------------------------- *)

\* The PR the gate runs on, recovered from the branch when the row has none;
\* one that merged meanwhile settles the ticket.
FindPR ==
  /\ pc = "ci"
  /\ LET pr == IF Cached.pr # 0 THEN Cached.pr
               ELSE IF ~Cached.branch \/ stopped THEN 0
               ELSE IF MergedPR # 0 THEN MergedPR
               ELSE IF LastIs("open") THEN LastPR ELSE 0
         settled == pr # 0 /\ ~stopped /\ prs[pr] = "merged"
     IN  /\ pc' = CASE Local -> "land"
                    [] ~Local /\ pr = 0 -> "giveup"
                    [] OTHER -> IF settled THEN "done" ELSE "gate"
         /\ IF Local \/ pr = Cached.pr THEN Read ELSE Put([Cached EXCEPT !.pr = pr])
  /\ UNCHANGED <<world, run, left>>

\* What the PR's checks may come to; a canceled run sees none and waits in vain.
CheckSets == {{}} \cup {{[name |-> "unit", bucket |-> b]} : b \in Bucket}
RepoCI    == {"filtered", "covers", "elsewhere", "nothing"}
Polled ==
  IF Skipped("ci") THEN {"green"}
  ELSE {PollCI(checks, {}, ci, setup.ci) :
          checks \in IF stopped THEN {{}} ELSE CheckSets, ci \in RepoCI}
       \cup (IF stopped /\ setup.ci # "off" THEN {"timeout"} ELSE {})

CIRepairable == tries < MaxRepairs /\ ~stopped /\ (local # 0 \/ pushed # 0)

CIGate ==
  /\ pc = "gate"
  /\ \E seen \in Polled :
       pc' = CASE seen = "green" -> IF AutoMerge THEN "merge" ELSE "wait"
               [] seen = "failed" /\ CIRepairable -> "cirepair"
               [] OTHER -> "giveup"
  /\ Read
  /\ UNCHANGED <<world, run, left>>

\* Faulty variant: a CI repair is not counted.
FaultyCIRepair ==
  /\ pc = "cirepair"
  /\ \/ AgentFails
     \/ /\ ~stopped
        /\ local' = IF local = 0 THEN pushed ELSE local
        /\ pushed' = local'
        /\ pc' = "gate" /\ Read
        /\ UNCHANGED <<setup, hub, tracker, base, prs, gen, passed, files, run, left>>

\* The push of a repair may fail; the gate polls on.
CIRepair ==
  /\ pc = "cirepair"
  /\ \/ AgentFails
     \/ /\ ~stopped
        /\ tries' = tries + 1
        /\ local' = IF local = 0 THEN pushed ELSE local
        /\ pushed' \in {local'} \cup (IF "push" \in Troubles THEN {pushed} ELSE {})
        /\ pc' = "gate" /\ Read
        /\ UNCHANGED <<setup, hub, tracker, base, prs, gen, passed, files, from, fixes, stopped, left>>

\* What merging the PR does to branch and base: gh drops the local branch with
\* the remote one, the Bitbucket client only the latter.
Lands(pr) ==
  /\ prs' = [prs EXCEPT ![pr] = "merged"]
  /\ base' = base \cup {pushed}
  /\ pushed' = 0 /\ local' = (IF setup.remote = "github" THEN 0 ELSE local) /\ parked' = FALSE

Merge ==
  /\ pc = "merge"
  /\ \/ /\ prs[Cached.pr] = "open" /\ ~stopped
        /\ Lands(Cached.pr)
        /\ pc' = "done" /\ Read
        /\ UNCHANGED <<setup, hub, tracker, gen, passed, brief, verdict, run, left>>
     \/ /\ prs[Cached.pr] = "merged" /\ ~stopped
        /\ pc' = "done" /\ Read
        /\ UNCHANGED <<world, run, left>>
     \/ "foreign" \in Troubles /\ fixes = 0 /\ GivesUp
     \/ (prs[Cached.pr] = "closed" \/ stopped \/ "forge" \in Troubles) /\ Fails

\* A PR the forge calls unmergeable is synced with its base, gated again and
\* merged; a second refusal is a dead end.
Unmergeable ==
  /\ pc = "merge" /\ "conflict" \in Troubles
  /\ prs[Cached.pr] = "open" /\ ~stopped
  /\ IF fixes # 0 THEN GivesUp
     ELSE \/ GivesUp
          \/ AgentFails
          \/ /\ fixes' = 1 /\ tries' = 0
             /\ pushed' \in {local} \cup (IF "push" \in Troubles THEN {pushed} ELSE {})
             /\ pc' = "gate" /\ Read
             /\ UNCHANGED <<setup, hub, tracker, local, base, prs, gen, passed, files, from, stopped, left>>

\* AUTO_MERGE=0: the operator merges, or closes, the PR.
AwaitManualMerge ==
  /\ pc = "wait"
  /\ \/ prs[Cached.pr] = "merged" /\ pc' = "done"
     \/ prs[Cached.pr] = "closed" /\ pc' = "giveup"
     \/ prs[Cached.pr] = "open" /\ stopped /\ Unexpected
  /\ Read
  /\ UNCHANGED <<world, run, left>>

\* Without a remote the branch is squash-merged here.  A branch the base holds
\* already leaves nothing to commit, which reads as a refused merge.
LandLocally ==
  /\ pc = "land"
  /\ \/ stopped /\ Fails
     \/ /\ ~stopped /\ ~AutoMerge
        /\ pc' = "end" /\ Read
        /\ UNCHANGED <<world, run, left>>
     \/ /\ ~stopped /\ AutoMerge
        /\ \/ /\ local \notin base
              /\ base' = base \cup {local}
              /\ pc' = "done"
           \/ /\ local \in base \/ "conflict" \in Troubles
              /\ pc' = "giveup"
              /\ UNCHANGED base
        /\ parked' = FALSE /\ Read
        /\ UNCHANGED <<setup, hub, tracker, local, pushed, prs, gen, passed, brief, verdict, run,
                       left>>

\* Faulty variant: a tracker that does not answer faults the run.
FaultyMarkDone ==
  /\ pc = "done"
  /\ \/ ~stopped /\ tracker' = "done" /\ pc' = "stamp"
     \/ (stopped \/ "tracker" \in Troubles) /\ UNCHANGED tracker /\ pc' = "fault"
  /\ Read
  /\ UNCHANGED <<setup, hub, git, gen, passed, files, run, left>>

\* markDone: the tracker first, the stamp that it answered, then the checkpoint.
MarkDone ==
  /\ pc = "done"
  /\ \/ ~stopped /\ tracker' = "done" /\ pc' = "stamp"
     \/ (stopped \/ "tracker" \in Troubles) /\ UNCHANGED tracker /\ pc' = "settle"
  /\ Read
  /\ UNCHANGED <<setup, hub, git, gen, passed, files, run, left>>

StampDone ==
  /\ pc = "stamp"
  /\ Put([Cached EXCEPT !.done = TRUE])
  /\ pc' = "settle"
  /\ UNCHANGED <<world, run, left>>

Settle ==
  /\ pc = "settle"
  /\ PutPhase("merged") /\ OrPause("end")
  /\ UNCHANGED <<world, run, left>>

(* ---------------------------- How a run ends --------------------------- *)

\* Faulty variant: the branch is dropped although its push failed.
FaultyPreserve ==
  /\ pushed' \in (IF Local \/ ~parked \/ local = 0 THEN {pushed} ELSE {local, pushed})
  /\ local' = IF parked THEN 0 ELSE local
  /\ parked' = FALSE
  /\ Read
  /\ UNCHANGED <<setup, hub, tracker, base, prs, gen, passed, brief, verdict, run, left>>

\* preserveAndClean: the work is committed and pushed as best it can be.
Preserve ==
  /\ pushed' \in (IF Local \/ ~parked \/ local = 0 THEN {pushed}
                  ELSE {local} \cup (IF "push" \in Troubles THEN {pushed} ELSE {}))
  /\ parked' = FALSE
  /\ Read
  /\ UNCHANGED <<setup, hub, tracker, local, base, prs, gen, passed, brief, verdict, run, left>>

GiveUp ==
  /\ pc = "giveup"
  /\ \/ /\ Cached.phase = "quarantined"
        /\ pc' = "end" /\ Read
        /\ UNCHANGED <<world, run, left>>
     \/ Cached.phase # "quarantined" /\ Preserve /\ pc' = "quarantine"

Quarantine ==
  /\ pc = "quarantine"
  /\ PutPhase("quarantined") /\ OrPause("label")
  /\ UNCHANGED <<world, run, left>>

Label ==
  /\ pc = "label"
  /\ Tell("quarantined")
  /\ pc' = "end" /\ Read
  /\ UNCHANGED <<setup, hub, git, gen, passed, files, run, left>>

Fault == pc = "fault" /\ Preserve /\ pc' = "faulted"
Stop  == pc = "stop"  /\ Preserve /\ pc' = "stopping"

\* The failure mark, written as best it can be.
Mark ==
  /\ pc \in {"faulted", "stopping", "pause", "hubpause"}
  /\ PutMark(CASE pc = "faulted" -> "faulted" [] pc = "stopping" -> "stopped" [] OTHER -> "paused")
  /\ pc' = "end"
  /\ UNCHANGED <<world, run, left>>

(* ------------------------------- Gestures ------------------------------ *)

\* The process dies; a reboot takes the files under /tmp with it.
Kill ==
  /\ pc # "off"
  /\ \/ Gesture("kill") /\ UNCHANGED <<brief, verdict>>
     \/ Gesture("reboot") /\ brief' = FALSE /\ verdict' = FALSE
  /\ pc' = "off" /\ Fresh
  /\ UNCHANGED <<setup, hub, ckpt, tracker, git, gen, passed, parked>>

Preamble == {"infer", "resume", "marks", "branch"}

\* A stop cancels the run's context; "stop" falls on a phase, "earlystop" anywhere.
Cancel ==
  /\ pc # "off" /\ ~stopped
  /\ Gesture("earlystop") \/ (Gesture("stop") /\ pc \notin Preamble)
  /\ stopped' = TRUE
  /\ UNCHANGED <<world, ckpt, pc, from, mem, hydrated, tries, fixes>>

\* The hub stops answering, past every retry window; a "blackout" may hit a run
\* that has not fetched its checkpoint yet.
HubLost ==
  /\ hub
  /\ Gesture("blackout") \/ (Gesture("outage") /\ (hydrated \/ pc = "off"))
  /\ hub' = FALSE
  /\ UNCHANGED <<setup, ckpt, tracker, git, gen, passed, files, pc, mem, hydrated, run>>

HubBack ==
  /\ ~hub
  /\ hub' = TRUE
  /\ UNCHANGED <<setup, ckpt, tracker, git, gen, passed, files, pc, mem, hydrated, run, left>>

\* The operator merges the open PR on the forge ("hastymerge" while the
\* ticket is being built anew), or closes it.
HumanMerges ==
  /\ LET settled == Idx(ckpt.phase) \in 4..5 \/ (ckpt.phase = "quarantined" /\ pc = "off")
     IN  Gesture(IF pushed = gen /\ settled THEN "merge" ELSE "hastymerge")
  /\ LastIs("open")
  /\ prs' = [prs EXCEPT ![LastPR] = "merged"]
  /\ base' = base \cup {pushed}
  /\ UNCHANGED <<setup, hub, ckpt, tracker, local, pushed, gen, passed, files, pc, mem,
                 hydrated, run>>

HumanCloses ==
  /\ Gesture("close") /\ LastIs("open")
  /\ prs' = [prs EXCEPT ![LastPR] = "closed"]
  /\ UNCHANGED <<setup, hub, ckpt, tracker, local, pushed, base, gen, passed, files, pc, mem,
                 hydrated, run>>

\* On the tracker: a delivered ticket is reopened, or flipped by some automation;
\* an open one is filed under done.
TrackerEdited ==
  /\ \/ Gesture("reopen") /\ tracker = "done" /\ tracker' = "open"
     \/ Gesture("drift")  /\ tracker = "done" /\ tracker' = "started"
     \/ Gesture("finish") /\ tracker # "done" /\ tracker' = "done"
  /\ UNCHANGED <<setup, hub, ckpt, git, gen, passed, files, pc, mem, hydrated, run>>

\* trau --clear drops the row alone.
ClearRow ==
  /\ pc = "off" /\ hub /\ ckpt # Blank
  /\ DropRow("clear")
  /\ UNCHANGED <<world, pc, mem, hydrated, run>>

\* trau --reset, refused for a merged checkpoint.
Reset ==
  /\ pc = "off" /\ hub /\ ckpt.phase # "merged"
  /\ Restart("reset")
  /\ ResetLocal
  /\ tracker' = "open"
  /\ UNCHANGED <<setup, hub, gen, passed, pc, run>>

\* trau --requeue, refused for a merged checkpoint or PR; the checkpoint goes
\* last, and only when tracker, PR and branch were all put back.
Requeue ==
  /\ pc = "off" /\ hub /\ ckpt.phase # "merged"
  /\ Restart("requeue")
  /\ ~(ckpt.pr # 0 /\ prs[ckpt.pr] = "merged")
  /\ Tell("open")
  /\ \/ /\ tracker' = "open"
        /\ ResetLocal
     \/ /\ tracker' = "open" \/ "tracker" \in Troubles
        /\ "forge" \in Troubles
        /\ UNCHANGED <<ckpt, git, files, mem, hydrated>>
  /\ UNCHANGED <<setup, hub, gen, passed, pc, run>>

\* --status drops the checkpoint of a ticket the tracker calls finished.
Reconcile ==
  /\ pc = "off" /\ hub
  /\ StaleCheckpoint(ckpt.phase, tracker = "done")
  /\ DropRow("reconcile")
  /\ UNCHANGED <<world, pc, mem, hydrated, run>>

\* The operator worked on the branch in a terminal, which checks it out and leaves it
\* so, and advances the phase.  Only an agent's session can be taken up in one, and
\* agents run on a recorded branch.
Advance ==
  /\ Gesture("advance") /\ pc = "off" /\ hub
  /\ AdvancedPhase(ckpt.phase) # None /\ ckpt.branch /\ local # 0
  /\ parked' = TRUE
  /\ ckpt' = [ckpt EXCEPT !.phase = AdvancedPhase(ckpt.phase)]
  /\ passed' = IF ckpt'.phase = "verified" THEN passed \cup {local} ELSE passed
  /\ UNCHANGED <<setup, hub, tracker, git, gen, brief, verdict, pc, mem, hydrated, run>>

(* ---------------------------- Specification ---------------------------- *)

Phases ==
  \/ Resume \/ ClearFailureMarks \/ RestoreBranch
  \/ StartBuild \/ CutBranch \/ BuildAgent \/ Built
  \/ Handoff \/ HandedOff \/ CleanUp \/ Brief
  \/ Verify \/ Repair \/ VerifyGivesUp \/ BrowserGate \/ Verified
  \/ Commit \/ Push \/ OpenPR \/ RecordPR \/ PROpen \/ InReview
  \/ FindPR \/ CIGate \/ CIRepair \/ Merge \/ Unmergeable \/ AwaitManualMerge \/ LandLocally

Endings ==
  \/ MarkDone \/ StampDone \/ Settle
  \/ GiveUp \/ Quarantine \/ Label \/ Fault \/ Stop \/ Mark \/ End

RunStep == Infer \/ Phases \/ Endings

Hands ==
  \/ Kill \/ Cancel \/ HubLost \/ HumanMerges \/ HumanCloses \/ TrackerEdited
  \/ ClearRow \/ Reset \/ Requeue \/ Reconcile \/ Advance \/ Rerun

Init ==
  /\ setup \in Setups
  /\ hub = TRUE /\ ckpt = Blank /\ tracker = "open"
  /\ local = 0 /\ pushed = 0 /\ base = {} /\ prs = <<>> /\ gen = 0 /\ passed = {}
  /\ brief = FALSE /\ verdict = FALSE /\ parked = FALSE
  /\ pc = "off" /\ from = None /\ mem = Blank /\ hydrated = FALSE
  /\ tries = 0 /\ fixes = 0 /\ stopped = FALSE
  /\ left = MaxGestures

Next == Begin \/ RunStep \/ HubBack \/ Hands

\* A run goes on until it ends, the hub comes back, and the ticket is run again:
\* by the drain, which re-arms what can be resumed, or by the operator.
Fairness == WF_vars(RunStep) /\ WF_vars(HubBack) /\ WF_vars(Begin)

Spec == Init /\ [][Next]_vars /\ Fairness

(* ------------------------------ Properties ----------------------------- *)

Steps == {"off", "infer", "resume", "marks", "branch", "build", "cut", "agent", "built", "handoff",
          "handed", "clean", "brief", "verify", "failed", "browser", "verified", "commit", "push",
          "openpr", "recordpr", "propen", "review", "ci", "gate", "cirepair", "merge", "wait", "land",
          "done", "stamp", "settle", "giveup", "quarantine", "label", "fault", "faulted", "stop",
          "stopping", "pause", "hubpause", "end"}

\* Every variable stays in its range.
TypeOK ==
  /\ setup \in Setups /\ hub \in BOOLEAN /\ ckpt \in Row /\ mem \in Row /\ hydrated \in BOOLEAN
  /\ tracker \in {"open", "started", "review", "done", "quarantined"}
  /\ local \in Build /\ pushed \in Build /\ gen \in Build
  /\ base \subseteq Build /\ passed \subseteq Build
  /\ prs \in Seq({"open", "merged", "closed"}) /\ Len(prs) <= MaxPRs
  /\ brief \in BOOLEAN /\ verdict \in BOOLEAN /\ parked \in BOOLEAN
  /\ pc \in Steps /\ from \in Phase
  /\ tries \in 0..MaxRepairs /\ fixes \in 0..(MaxBugfixes + 1) /\ stopped \in BOOLEAN
  /\ left \in 0..MaxGestures

\* What the ticket's runs look like to whoever asked for it.
Seen ==
  CASE ckpt.phase = "merged"                                         -> "delivered"
    [] ckpt.phase # "merged" /\ pc # "off"                           -> "working"
    [] FailureClass(ckpt.phase, ckpt.mark) = "gave_up" /\ pc = "off" -> "given up"
    [] ckpt.phase = None /\ pc = "off"                               -> "open"
    [] OTHER                                                         -> "parked"

Promise == INSTANCE Delivery WITH status <- Seen, current <- gen, landed <- base

(* Through every phase, crash, outage and gesture the ticket moves as Delivery promises: *)
(* work that landed is not built again, and a delivered ticket stays delivered. *)
ImplementsDelivery == Promise!DeliverySpec

(* No run merges a build that neither a verifier nor an operator passed, although a run *)
(* may resume at the merge in another process than the one that verified. *)
LandsOnlyVerified ==
  [][base' # base /\ pc \in {"merge", "land"} => (base' \ base) \subseteq passed]_vars

(* A run never drops the branch that holds unlanded work, but where a ticket is reopened or *)
(* refused: git's empty answer, a lost row and a failed push are no reason to. *)
WorkIsKept ==
  [][local # 0 /\ local \notin base /\ local' = 0
       => pc \in {"resume", "agent"} \/ left' < left]_vars

(* Every run ends, or waits for a human to merge: repairs, bugfixes, syncs and polls *)
(* cannot feed one another for ever. *)
RunEnds == pc # "off" ~> pc \in {"off", "wait"}

(* A ticket whose recorded PR merged, by whoever's hand, is settled in the end. *)
ShippedIsSettled ==
  (ckpt.phase = "pr_open" /\ ckpt.pr # 0 /\ prs[ckpt.pr] = "merged") ~> Terminal(ckpt.phase)
=============================================================================
