------------------------------ MODULE Release ------------------------------
(***************************************************************************)
(* An epic, run by one process after another: runLoop takes its children,  *)
(* FinalizeEpic ships what they made, ExitCleanup settles what a run       *)
(* leaves behind, and the hub re-enters a release that died.               *)
(*                                                                         *)
(* A branch is the set of commits it carries, so an ancestor is a subset;  *)
(* the empty set is a branch that does not exist.  A child's commit is the *)
(* child itself.  A stacked epic has no branch of its own: its layers are  *)
(* the children's open PRs, each on the branch of the layer below.         *)
(*                                                                         *)
(* What a child does before its PR is Pipeline's business: here it is cut, *)
(* built, or not built.                                                    *)
(***************************************************************************)
EXTENDS Checkpoint, Sequences

CONSTANTS
  Kids,          \* the epic's sub-issues, numbered as the tracker lists them
  Setups,        \* the configurations the epic may run under
  MaxRepairs,    \* REPAIRS
  Resumes,       \* releaseResumeTries
  Troubles,      \* how agents, git, the forge or the tracker may fail a run
  Gestures,      \* what operator, machine and others may do
  MaxGestures,   \* how often altogether
  MaxPRs         \* bound on PRs of the epic branch

\* shape: the epic's; autoMerge: AUTO_MERGE; keeps: the forge's client leaves the
\* local branch of a merged PR alone.
Setup == [shape : {"classic", "local", "stacked"}, autoMerge : BOOLEAN, keeps : BOOLEAN]

ASSUME KidsAssumption == IsFiniteSet(Kids) /\ Kids # {} /\ Kids = 1..Cardinality(Kids)
ASSUME SetupsAssumption == Setups \subseteq Setup
ASSUME CountsAssumption == MaxRepairs \in Nat /\ Resumes \in Nat /\ MaxGestures \in Nat /\ MaxPRs \in Nat \ {0}

VARIABLES
  setup,     \* the configuration the epic runs under
  ckpt,      \* the epic's own checkpoint row
  issue,     \* the epic's issue: "open", "review" or "done"
  kid,       \* what tracker, checkpoint and forge say of each child
  base,      \* the base branch
  local,     \* the epic branch here
  remote,    \* the epic branch on the remote
  prs,       \* the epic branch's PRs, oldest first
  shipped,   \* the children whose work the base has
  finished,  \* the children whose work some run delivered
  attempts,  \* re-attempts the hub has booked for the release
  halted,    \* the operator's last word was Stop
  pc,        \* where the run is, "off" when none is
  memo,      \* it has resolved the epic branch
  mine,      \* it has put that branch on the remote
  stacked,   \* it has hung work on that branch
  cur,       \* the child in hand, or the stack's layer
  tries,     \* repairs spent at the gate
  left       \* gestures still to come

hub  == <<attempts, halted>>
git  == <<base, local, remote, prs, shipped>>
run  == <<memo, mine, stacked, cur, tries>>
books  == <<ckpt, issue, kid>>
vars == <<setup, ckpt, issue, kid, base, local, remote, prs, shipped, finished, attempts, halted,
          pc, memo, mine, stacked, cur, tries, left>>

Syncs    == {"sync1", "sync2", "sync3"}   \* merges of the base into the epic branch
Squash   == [i \in 1..MaxPRs |-> IF i = 1 THEN "squash1" ELSE "squash2"]
Extra    == Syncs \cup {"root", "drift", "fix", "squash1", "squash2"}
Ref      == [work : SUBSET Kids, rest : SUBSET Extra]

NoRef    == [work |-> {}, rest |-> {}]
Exists(ref) == ref # NoRef
Within(a, b) == a.work \subseteq b.work /\ a.rest \subseteq b.rest
Join(a, b)   == [work |-> a.work \cup b.work, rest |-> a.rest \cup b.rest]
Plus(ref, commit) == [ref EXCEPT !.rest = @ \cup {commit}]

IsLocal   == setup.shape = "local"
IsStacked == setup.shape = "stacked"

\* A child: its issue ("open", "closed", or "started" once something moved a closed
\* one back), its checkpoint, TRACKER_DONE, the commit its slice was cut at, the
\* layer below it (0 for the base, its own number when never cut), and its PR.
KidRow == [issue : {"open", "started", "closed"},
           phase : {None, "building", "pr_open", "merged", "quarantined"},
           done : BOOLEAN, pin : Ref, below : Kids \cup {0}, pr : {"none", "open", "merged", "closed"}]

\* The epic's row.  A pause's or a stop's mark keeps the release trau's own, and is
\* not told apart from none.
EpicRow == [phase : {None, "releasing", "merged", "quarantined"}, release : {"", "active", "awaiting-human"},
        mark : {"", "faulted"}]

\* A release trau owns and may re-enter.
ResumableRelease(r) == r.phase = "releasing" /\ r.release # "awaiting-human" /\ r.mark # "faulted"

LastPR == Len(prs)
OpenPR   == LastPR # 0 /\ prs[LastPR] \in {"draft", "open"}

\* The forge closes the children's PRs that target a branch somebody deleted.
Untarget(gone) ==
  kid' = [k \in Kids |-> IF gone /\ ~IsStacked /\ kid[k].pr = "open" THEN [kid[k] EXCEPT !.pr = "closed"]
                         ELSE kid[k]]

(* ------------------------------ A run begins --------------------------- *)

Gesture(g) == g \in Gestures /\ left > 0 /\ left' = left - 1

\* What the run stands waiting for is landed sooner or later: that one is not counted.
Lands(g, awaited) == g \in Gestures /\ IF awaited THEN UNCHANGED left ELSE Gesture(g)

Fresh == memo' = FALSE /\ mine' = FALSE /\ stacked' = FALSE /\ cur' = 0 /\ tries' = 0

Begin == pc' = "loop" /\ Fresh

\* The operator starts the queue over the epic, the first time or again.
Start ==
  /\ pc = "off" /\ ckpt.phase # "merged"
  /\ Gesture(IF ckpt.mark = "faulted" THEN "restart" ELSE "start")
  /\ Begin
  /\ halted' = FALSE
  /\ UNCHANGED <<setup, books, git, finished, attempts>>

\* Faulty variant: a plan whose epic is in the queue already starts over.
FaultyReattempt ==
  /\ pc = "off" /\ ~halted /\ ResumableRelease(ckpt) /\ attempts < Resumes
  /\ attempts' = 0
  /\ Begin
  /\ UNCHANGED <<setup, books, git, finished, halted, left>>

\* The hub re-enters a release that died, on a budget.
Reattempt ==
  /\ pc = "off" /\ ~halted /\ ResumableRelease(ckpt) /\ attempts < Resumes
  /\ attempts' = attempts + 1
  /\ Begin
  /\ UNCHANGED <<setup, books, git, finished, halted, left>>

\* A spent budget stamps the release faulted, which opens the gate it held.
StampReleaseSpent ==
  /\ pc = "off" /\ ~halted /\ ResumableRelease(ckpt) /\ attempts >= Resumes
  /\ ckpt' = [ckpt EXCEPT !.mark = "faulted"]
  /\ attempts' = 0
  /\ UNCHANGED <<setup, issue, kid, git, finished, halted, pc, run, left>>

Step(next) == pc' = next
Keep == UNCHANGED <<setup, hub, left>>

\* How a step fails: an error ends the run, through the exit hygiene.
Fails == Step("exit") /\ Keep /\ UNCHANGED <<books, git, finished, run>>

(* ------------------------- The epic's own branch ----------------------- *)

\* epicBranchName: the one that exists, here or on the remote, else one is cut from
\* the base and pushed as best it can be.  An unreadable remote is an error.
EpicBranchName(next, orelse) ==
  /\ Keep /\ UNCHANGED <<books, base, prs, shipped, finished, stacked, cur, tries>>
  /\ \/ /\ memo \/ Exists(local) \/ (~IsLocal /\ Exists(remote))
        /\ local' = IF memo \/ Exists(local) THEN local ELSE remote
        /\ memo' = TRUE /\ Step(next)
        /\ UNCHANGED <<remote, mine>>
     \/ /\ ~memo /\ ~Exists(local) /\ ~IsLocal /\ "remote" \in Troubles
        /\ Step(orelse)
        /\ UNCHANGED <<local, remote, memo, mine>>
     \/ /\ ~memo /\ ~Exists(local) /\ (IsLocal \/ ~Exists(remote))
        /\ local' = base /\ memo' = TRUE /\ Step(next)
        /\ mine' \in (IF IsLocal THEN {FALSE} ELSE IF "remote" \in Troubles THEN BOOLEAN ELSE {TRUE})
        /\ remote' = IF mine' THEN base ELSE remote

Cuts == {kid[k].pin : k \in Kids}
FreshSyncs == {s \in Syncs : \A r \in {base, local, remote} \cup Cuts : s \notin r.rest}

\* The next merge of the base, as far as Syncs can tell them apart.
NextSync == IF FreshSyncs = {} THEN {} ELSE {CHOOSE s \in FreshSyncs : TRUE}

\* What merging the base into `ref` makes of it; a merge that is no fast-forward is
\* a commit of its own.
MergedBase(ref) ==
  IF Within(base, ref) THEN {ref}
  ELSE IF Within(ref, base) THEN {base}
  ELSE {Plus(Join(ref, base), s) : s \in NextSync}

\* The local epic after `pull --ff-only`: level with the remote when behind it.
Pulled == IF Exists(remote) /\ Within(local, remote) THEN remote ELSE local

Diverged == Exists(remote) /\ ~Within(local, remote) /\ ~Within(remote, local)

\* What a diverged local epic alone carries: work, or only merges of the base.
LocalOnly ==
  (local.work \ remote.work) \cup (local.rest \ (remote.rest \cup base.rest \cup Syncs))

\* Faulty variant: a sync merge whose push failed is not rolled back.
FaultySyncEpicBest ==
  LET pulled == IF Diverged THEN remote ELSE Pulled
  IN  {<<m, m>> : m \in MergedBase(pulled)} \cup {<<pulled, remote>>}
      \cup (IF "remote" \in Troubles THEN {<<m, remote>> : m \in MergedBase(local)} ELSE {})

\* syncEpicBest, as pairs of what it leaves here and on the remote: the base is
\* merged in and pushed, or the merge is rolled back, or given up as conflicting.
SyncEpicBest ==
  LET pulled == IF Diverged THEN remote ELSE Pulled
  IN  {<<m, m>> : m \in MergedBase(pulled)}
      \cup (IF "conflict" \in Troubles THEN {<<pulled, remote>>} ELSE {})
      \cup (IF "remote" \in Troubles THEN {<<pulled, remote>>, <<local, remote>>} ELSE {})

(* ------------------------------- The stack ----------------------------- *)

\* stackChain: from the base upward, each layer the child recorded on top of the
\* last.  A child claims its slot in the tracker's order; a missing link ends it.
Above(under) == {k \in Kids : kid[k].below = under /\ k # under}
Chain[n \in 0..Cardinality(Kids)] ==
  IF n = 0 THEN <<>>
  ELSE LET below == Chain[n - 1]
           next  == Above(IF below = <<>> THEN 0 ELSE below[Len(below)])
       IN  IF Len(below) < n - 1 \/ next = {} THEN below
           ELSE Append(below, CHOOSE k \in next : \A j \in next : k <= j)
Stack == Chain[Cardinality(Kids)]
Layers == {Stack[i] : i \in DOMAIN Stack}
Tip == IF Stack = <<>> THEN 0 ELSE Stack[Len(Stack)]

(* ------------------------------ Its children --------------------------- *)

InFlightKids == {k \in Kids : InFlight(kid[k].phase)}
Eligible     == {k \in Kids : kid[k].issue = "open" /\ kid[k].phase = None}

\* runLoop: a release a dead finalize left comes before any ticket; then the child
\* in flight, then the next eligible one, and when none is left the finalize.
Loop ==
  /\ pc = "loop"
  /\ \/ /\ ResumableRelease(ckpt) \/ (InFlightKids = {} /\ Eligible = {})
        /\ Step("check") /\ UNCHANGED cur
     \/ /\ ~ResumableRelease(ckpt) /\ InFlightKids # {}
        /\ \E k \in InFlightKids :
             /\ cur' = k
             /\ Step(IF kid[k].phase = "building" THEN "build" ELSE IF IsStacked THEN "kidgate" ELSE "base")
     \/ /\ ~ResumableRelease(ckpt) /\ InFlightKids = {} /\ Eligible # {}
        /\ cur' \in Eligible
        /\ Step(IF IsStacked THEN "cut" ELSE "resolve")
  /\ Keep /\ UNCHANGED <<books, git, finished, memo, mine, stacked, tries>>

Resolve == pc = "resolve" /\ EpicBranchName("cut", "exit")
PRBase ==
  /\ pc = "base"
  /\ IF kid[cur].phase = "building" THEN EpicBranchName("kidpr", "exit")
     ELSE EpicBranchName("kidgate", "kidgate")

\* The slice is cut from the synced epic branch, from the base of a remote-less one,
\* or from the layer below.  An epic that diverged with work of its own stops the run.
CutSlice ==
  /\ pc = "cut"
  /\ \/ ~IsLocal /\ ~IsStacked /\ Diverged /\ LocalOnly # {} /\ Fails
     \/ /\ IsStacked \/ IsLocal \/ ~Diverged \/ LocalOnly = {} \/ "remote" \in Troubles
        /\ IF IsStacked \/ IsLocal THEN UNCHANGED <<local, remote>>
           ELSE \E after \in SyncEpicBest : local' = after[1] /\ remote' = after[2]
        /\ kid' = [kid EXCEPT ![cur].phase = "building", ![cur].pin = local',
                              ![cur].below = IF IsStacked THEN Tip ELSE @]
        /\ stacked' = ~IsStacked
        /\ Step("build")
        /\ Keep /\ UNCHANGED <<ckpt, issue, base, prs, shipped, finished, memo, mine, cur, tries>>

GiveUpOn(k) ==
  /\ kid' = [kid EXCEPT ![k].phase = "quarantined"]
  /\ Step("loop")
  /\ Keep /\ UNCHANGED <<ckpt, issue, git, finished, run>>

Build ==
  /\ pc = "build"
  /\ \/ Step(IF IsStacked THEN "kidpr" ELSE "base") /\ Keep /\ UNCHANGED <<books, git, finished, run>>
     \/ "agent" \in Troubles /\ (Fails \/ GiveUpOn(cur))

OpenKidPR ==
  /\ kid' = [kid EXCEPT ![cur].phase = "pr_open", ![cur].pr = IF IsLocal THEN @ ELSE "open"]
  /\ stacked' = (stacked \/ (~IsStacked /\ ~IsLocal))
  /\ Step("kidgate")
  /\ Keep /\ UNCHANGED <<ckpt, issue, base, local, prs, shipped, finished, memo, mine, cur, tries>>

\* No PR is opened against an epic branch whose remote lacks the commit the slice
\* was cut at; what a plain push can repair is pushed.
KidPR ==
  /\ pc = "kidpr"
  /\ \/ /\ IsLocal \/ IsStacked \/ Within(kid[cur].pin, remote)
        /\ UNCHANGED remote /\ OpenKidPR
     \/ /\ ~IsLocal /\ ~IsStacked /\ ~Within(kid[cur].pin, remote)
        /\ Within(remote, local) /\ Within(kid[cur].pin, local)
        /\ remote' = local /\ OpenKidPR
     \/ /\ ~IsLocal /\ ~IsStacked
        /\ "remote" \in Troubles \/ ~(Within(remote, local) /\ Within(kid[cur].pin, local))
        /\ ~Within(kid[cur].pin, remote) \/ "remote" \in Troubles
        /\ Fails

\* The child's gate: its PR merged by hand settles it, a red or closed one is given
\* up on, a green layer is done, and AUTO_MERGE=0 waits.
KidGate ==
  /\ pc = "kidgate"
  /\ \/ /\ kid[cur].pr = "merged" \/ (IsStacked /\ kid[cur].pr = "open")
        /\ Step("kiddone") /\ Keep /\ UNCHANGED <<books, git, finished, run>>
     \/ /\ ~IsStacked /\ setup.autoMerge /\ kid[cur].pr # "merged"
        /\ Step("kidmerge") /\ Keep /\ UNCHANGED <<books, git, finished, run>>
     \/ kid[cur].pr = "closed" /\ GiveUpOn(cur)
     \/ kid[cur].pr = "open" /\ "ci" \in Troubles /\ GiveUpOn(cur)

Has(ref) == [ref EXCEPT !.work = @ \cup {cur}]

\* The slice lands on the epic branch: on the remote, where nothing pulls it back
\* until the next sync, or here.  A squash with nothing to commit is refused.
KidMerge ==
  /\ pc = "kidmerge"
  /\ \/ /\ IF IsLocal THEN cur \notin local.work /\ Exists(local) ELSE kid[cur].pr = "open" /\ Exists(remote)
        /\ local'  = IF IsLocal THEN Has(local) ELSE local
        /\ remote' = IF IsLocal THEN remote ELSE Has(remote)
        /\ kid' = [kid EXCEPT ![cur].pr = IF IsLocal THEN @ ELSE "merged"]
        /\ Step("kiddone")
        /\ Keep /\ UNCHANGED <<ckpt, issue, base, prs, shipped, finished, run>>
     \/ /\ "conflict" \in Troubles \/ (IsLocal /\ cur \in local.work)
        /\ GiveUpOn(cur)
     \/ /\ kid[cur].pr = "merged"
        /\ Step("kiddone") /\ Keep /\ UNCHANGED <<books, git, finished, run>>
     \/ /\ ~IsLocal /\ ("forge" \in Troubles \/ kid[cur].pr = "closed" \/ ~Exists(remote))
        /\ Fails

\* markDone, whose word to the tracker may go unheard.
KidDone ==
  /\ pc = "kiddone"
  /\ \E told \in (IF "tracker" \in Troubles THEN BOOLEAN ELSE {TRUE}) :
       kid' = [kid EXCEPT ![cur].phase = "merged", ![cur].done = @ \/ told,
                          ![cur].issue = IF told THEN "closed" ELSE @]
  /\ finished' = finished \cup {cur}
  /\ Step("loop")
  /\ Keep /\ UNCHANGED <<ckpt, issue, git, run>>

(* ------------------------------ FinalizeEpic --------------------------- *)

DeliveredByTrau(k) == kid[k].phase = "merged" /\ kid[k].done
OpenSubIssues == {k \in Kids : kid[k].issue # "closed" /\ ~DeliveredByTrau(k)}

\* Nothing ships while a child is open, or while the tracker does not say; delivered
\* children that something moved back are restored as best they can be.
Check ==
  /\ pc = "check"
  /\ \/ (OpenSubIssues # {} \/ "tracker" \in Troubles) /\ Fails
     \/ /\ OpenSubIssues = {}
        /\ kid' \in {[k \in Kids |-> [kid[k] EXCEPT !.issue = "closed"]]}
                    \cup (IF "tracker" \in Troubles THEN {kid} ELSE {})
        /\ Step("release")
        /\ Keep /\ UNCHANGED <<ckpt, issue, git, finished, run>>

\* Faulty variant: an earlier release's hand-off stays on the row.
FaultyCheckpointEpicReleasing ==
  /\ pc = "release"
  /\ ckpt' = [ckpt EXCEPT !.phase = "releasing"]
  /\ cur' = IF IsStacked THEN 1 ELSE 0
  /\ Step(IF IsStacked THEN "layers" ELSE "branch")
  /\ Keep /\ UNCHANGED <<issue, kid, git, finished, memo, mine, stacked, tries>>

\* The release opens; an earlier one's hand-off is dropped, its failure class is not.
CheckpointEpicReleasing ==
  /\ pc = "release"
  /\ ckpt' = IF ckpt.phase = "merged" THEN ckpt
             ELSE [ckpt EXCEPT !.phase = "releasing", !.release = "active"]
  /\ cur' = IF IsStacked THEN 1 ELSE 0
  /\ Step(IF IsStacked THEN "layers" ELSE "branch")
  /\ Keep /\ UNCHANGED <<issue, kid, git, finished, memo, mine, stacked, tries>>

Branch == pc = "branch" /\ EpicBranchName(IF IsLocal THEN "land" ELSE "sync", "exit")

\* Faulty variant: the synced branch is pushed over whatever the remote has.
FaultySyncForMerge ==
  /\ pc = "sync"
  /\ \E pulled \in {Pulled} \cup (IF "remote" \in Troubles THEN {local} ELSE {}) :
       /\ Exists(local)
       /\ local' \in MergedBase(pulled) /\ remote' = local'
       /\ Step("pr")
       /\ Keep /\ UNCHANGED <<books, base, prs, shipped, finished, run>>

\* syncEpicForMerge: level with the remote if that can be, then the base is merged
\* in; a push that fails is passed over, a conflict is an agent's to resolve.
SyncForMerge ==
  /\ pc = "sync"
  /\ \/ (~Exists(local) \/ "remote" \in Troubles) /\ Fails
     \/ "conflict" \in Troubles /\ "agent" \in Troubles /\ Fails
     \/ \E pulled \in {Pulled} \cup (IF "remote" \in Troubles THEN {local} ELSE {}) :
          /\ Exists(local)
          /\ \/ /\ local' \in MergedBase(pulled)
                /\ remote' \in (IF Within(remote, local') THEN {local'} ELSE {remote})
                               \cup (IF "remote" \in Troubles THEN {remote} ELSE {})
                /\ Step("pr")
             \/ /\ "conflict" \in Troubles
                /\ local' = pulled /\ UNCHANGED remote
                /\ Step("conflicted")
          /\ Keep /\ UNCHANGED <<books, base, prs, shipped, finished, run>>

\* ensureEpicPR: the open one, a new one, or the merged one of a branch that has
\* nothing more to offer.
Nothing   == Exists(remote) /\ Within(remote, base)
Adoptable == OpenPR \/ (Nothing /\ ~setup.keeps /\ LastPR # 0 /\ prs[LastPR] = "merged")
Creatable == ~OpenPR /\ Exists(remote) /\ ~Within(remote, base) /\ LastPR < MaxPRs

EnsureEpicPR ==
  /\ pc \in {"pr", "conflicted"}
  /\ \/ /\ Adoptable \/ Creatable
        /\ prs' = IF Adoptable THEN prs ELSE Append(prs, "open")
        /\ IF pc = "pr"
           THEN Step("gate") /\ UNCHANGED ckpt
           ELSE Step("exit") /\ ckpt' = [ckpt EXCEPT !.release = "awaiting-human"]
        /\ Keep /\ UNCHANGED <<issue, kid, base, local, remote, shipped, finished, run>>
     \/ ("forge" \in Troubles \/ (~Adoptable /\ ~Creatable)) /\ Fails

\* A merged PR is adopted; a draft is made ready, as best it can be.
Gate ==
  /\ pc = "gate"
  /\ IF prs[LastPR] = "merged" THEN Step("merged") /\ UNCHANGED prs
     ELSE /\ prs' \in {IF prs[LastPR] = "draft" THEN [prs EXCEPT ![LastPR] = "open"] ELSE prs}
                      \cup (IF "forge" \in Troubles THEN {prs} ELSE {})
          /\ Step("poll")
  /\ Keep /\ UNCHANGED <<books, base, local, remote, shipped, finished, run>>

AwaitingHuman == [ckpt EXCEPT !.release = "awaiting-human"]

\* The epic's CI: green ships, or waits for the operator; red is repaired a few
\* times and then left for review.
PollCI ==
  /\ pc = "poll"
  /\ \/ Step(IF setup.autoMerge THEN "merge" ELSE "wait")
        /\ ckpt' = IF setup.autoMerge THEN ckpt ELSE AwaitingHuman
     \/ "ci" \in Troubles /\ Step(IF tries < MaxRepairs THEN "repair" ELSE "review") /\ UNCHANGED ckpt
  /\ Keep /\ UNCHANGED <<issue, kid, git, finished, run>>

RepairEpic ==
  /\ pc = "repair"
  /\ \/ ~Exists(local) /\ Fails
     \/ "agent" \in Troubles /\ Fails
     \/ /\ Exists(local)
        /\ tries' = tries + 1
        /\ local' = Plus(local, "fix")
        /\ remote' \in (IF Within(remote, local') THEN {local'} ELSE {remote})
                       \cup (IF "remote" \in Troubles THEN {remote} ELSE {})
        /\ Step("poll")
        /\ Keep /\ UNCHANGED <<books, base, prs, shipped, finished, memo, mine, stacked, cur>>

\* What merging the epic's PR does, by whoever's hand.
EpicLands ==
  /\ prs' = [prs EXCEPT ![LastPR] = "merged"]
  /\ base' = Plus(base, Squash[LastPR])
  /\ shipped' = shipped \cup remote.work

MergeEpic ==
  /\ pc = "merge"
  /\ \/ /\ prs[LastPR] = "merged"
        /\ Step("merged") /\ Keep /\ UNCHANGED <<books, git, finished, run>>
     \/ /\ prs[LastPR] = "open"
        /\ EpicLands
        /\ remote' = NoRef /\ local' = (IF setup.keeps THEN local ELSE NoRef)
        /\ Untarget(TRUE)
        /\ Step("merged") /\ Keep /\ UNCHANGED <<ckpt, issue, finished, run>>
     \/ (prs[LastPR] \in {"draft", "closed"} \/ "forge" \in Troubles) /\ Fails

\* AUTO_MERGE=0: a closed PR is the operator's refusal, and quarantines the epic.
AwaitEpicMerge ==
  /\ pc = "wait" /\ prs[LastPR] \in {"merged", "closed"}
  /\ IF prs[LastPR] = "merged"
     THEN Step("merged") /\ UNCHANGED ckpt
     ELSE Step("exit") /\ ckpt' = [ckpt EXCEPT !.phase = "quarantined"]
  /\ Keep /\ UNCHANGED <<issue, kid, git, finished, run>>

\* Without a remote the epic branch is squashed into the base here.
LandEpic ==
  /\ pc = "land"
  /\ \/ /\ setup.autoMerge /\ ~(local.work \subseteq shipped)
        /\ base' = Plus(base, "squash1") /\ shipped' = shipped \cup local.work
        /\ Step("merged")
        /\ Keep /\ UNCHANGED <<books, local, remote, prs, finished, run>>
     \/ /\ ~setup.autoMerge \/ "conflict" \in Troubles \/ local.work \subseteq shipped
        /\ Step("handoff") /\ Keep /\ UNCHANGED <<books, git, finished, run>>

(* ---------------------------- A stack's release ------------------------ *)

\* Bottom first, every layer must be open and green, or merged already: one that is
\* not hands the whole stack to a human.
Layer ==
  /\ pc = "layers"
  /\ LET st == IF Stack = <<>> THEN "none" ELSE kid[Stack[cur]].pr
     IN  \/ /\ st \in {"none", "closed"} \/ (st = "open" /\ "ci" \in Troubles)
            /\ Step("handoff") /\ UNCHANGED <<ckpt, cur>>
         \/ /\ st \in {"open", "merged"}
            /\ IF cur < Len(Stack) THEN cur' = cur + 1 /\ UNCHANGED <<ckpt, pc>>
               ELSE /\ Step(IF setup.autoMerge THEN "stackmerge" ELSE "stackwait")
                    /\ ckpt' = IF setup.autoMerge THEN ckpt ELSE AwaitingHuman
                    /\ UNCHANGED cur
  /\ Keep /\ UNCHANGED <<issue, kid, git, finished, memo, mine, stacked, tries>>

StackLands(layers) ==
  /\ kid' = [k \in Kids |-> IF k \in layers THEN [kid[k] EXCEPT !.pr = "merged"] ELSE kid[k]]
  /\ shipped' = shipped \cup layers

\* Faulty variant: the layers merge one after another, from the bottom.
FaultyMergeStack ==
  /\ pc = "stackmerge"
  /\ \/ /\ kid[Tip].pr = "merged"
        /\ Step("merged") /\ UNCHANGED <<books, shipped>>
     \/ \E i \in DOMAIN Stack :
          /\ kid[Stack[i]].pr = "open" /\ \A j \in 1..(i - 1) : kid[Stack[j]].pr = "merged"
          /\ StackLands({Stack[i]})
          /\ UNCHANGED <<ckpt, issue, pc>>
  /\ Keep /\ UNCHANGED <<base, local, remote, prs, finished, run>>

\* The whole stack merges, from its top, or none of it does.
MergeStack ==
  /\ pc = "stackmerge"
  /\ \/ /\ kid[Tip].pr = "merged"
        /\ Step("merged") /\ UNCHANGED <<books, shipped>>
     \/ /\ kid[Tip].pr # "merged" /\ \A k \in Layers : kid[k].pr \in {"open", "merged"}
        /\ StackLands(Layers)
        /\ Step("merged") /\ UNCHANGED <<ckpt, issue>>
     \/ /\ "forge" \in Troubles \/ \E k \in Layers : kid[k].pr = "closed"
        /\ ckpt' = AwaitingHuman
        /\ Step("exit") /\ UNCHANGED <<issue, kid, shipped>>
  /\ Keep /\ UNCHANGED <<base, local, remote, prs, finished, run>>

AwaitStackMerge ==
  /\ pc = "stackwait" /\ \A k \in Layers : kid[k].pr = "merged"
  /\ Step("merged") /\ Keep /\ UNCHANGED <<books, git, finished, run>>

(* ----------------------------- A release ends -------------------------- *)

CheckpointEpicMerged ==
  /\ pc = "merged"
  /\ ckpt' = [ckpt EXCEPT !.phase = "merged", !.release = ""]
  /\ Step("close")
  /\ Keep /\ UNCHANGED <<issue, kid, git, finished, run>>

\* The tracker's answer comes before the hand-off: without it there is none.
TellTracker ==
  /\ pc \in {"close", "review"}
  /\ \/ "tracker" \in Troubles /\ Fails
     \/ /\ issue' = IF pc = "close" THEN "done" ELSE "review"
        /\ Step(IF pc = "close" THEN "exit" ELSE "handoff")
        /\ Keep /\ UNCHANGED <<ckpt, kid, git, finished, run>>

HandOffEpic ==
  /\ pc = "handoff"
  /\ ckpt' = AwaitingHuman
  /\ Step("exit")
  /\ Keep /\ UNCHANGED <<issue, kid, git, finished, run>>

(* ------------------------------ ExitCleanup ---------------------------- *)

\* The branch as the remote has it, when that copy holds all the local one does.
RemoteAhead == ~IsLocal /\ Exists(remote) /\ Within(local, remote)

\* What the branch is judged by; an unreadable remote leaves the local copy.
SettleRefs ==
  (IF RemoteAhead THEN {remote} ELSE {local}) \cup (IF "remote" \in Troubles THEN {local} ELSE {})

\* Faulty variant: whose push put it there is not asked.
FaultyDisposable == ~stacked

\* The remote copy goes only when this run put it there and hung nothing on it.
Disposable == mine /\ ~stacked

\* A run leaves an epic branch it knows pushed and under a draft PR; one without
\* work of its own is dropped, unless this run hung a slice on it.
SettleEpicBranch ==
  /\ pc = "exit"
  /\ Step("off") /\ Fresh /\ Keep /\ UNCHANGED <<ckpt, issue, base, shipped, finished>>
  /\ IF ckpt.phase = "merged" \/ ~Exists(local) \/ IsStacked
     THEN UNCHANGED <<local, remote, prs>>
     ELSE \E ref \in SettleRefs :
            IF Within(ref, base)
            THEN /\ local' = IF stacked THEN local ELSE NoRef
                 /\ remote' \in {IF Disposable THEN NoRef ELSE remote}
                                \cup (IF "remote" \in Troubles THEN {remote} ELSE {})
                 /\ UNCHANGED prs
            ELSE IF IsLocal THEN UNCHANGED <<local, remote, prs>>
            ELSE /\ remote' \in (IF Within(remote, ref) THEN {ref} ELSE {remote})
                                \cup (IF "remote" \in Troubles THEN {remote} ELSE {})
                 /\ prs' \in (IF ~OpenPR /\ LastPR < MaxPRs /\ Within(ref, remote') THEN {Append(prs, "draft")}
                              ELSE {prs})
                             \cup (IF "forge" \in Troubles THEN {prs} ELSE {})
                 /\ UNCHANGED local
  /\ Untarget(Exists(remote) /\ ~Exists(remote'))

(* ------------------------------- Gestures ------------------------------ *)

Kill ==
  /\ pc # "off" /\ Gesture("kill")
  /\ Step("off") /\ Fresh
  /\ UNCHANGED <<setup, books, git, finished, hub>>

\* Stop ends the run where it stands; the hub marks a row whose run did not.
Stop ==
  /\ Gesture("stop") /\ ~halted
  /\ halted' = TRUE /\ attempts' = 0
  /\ pc' = IF pc = "off" THEN pc ELSE "exit"
  /\ UNCHANGED <<setup, books, git, finished, run>>

\* The operator lands a child's PR, or the stack up to it; or closes it.
HumanMergesKid ==
  /\ \E k \in Kids :
       /\ kid[k].pr = "open"
       /\ Lands("mergekid", pc = "kidgate" /\ k = cur /\ ~setup.autoMerge)
       /\ IF IsStacked
          THEN \E i \in DOMAIN Stack :
                 /\ Stack[i] = k /\ \A j \in 1..i : kid[Stack[j]].pr \in {"open", "merged"}
                 /\ StackLands({Stack[j] : j \in 1..i}) /\ UNCHANGED remote
          ELSE /\ Exists(remote)
               /\ kid' = [kid EXCEPT ![k].pr = "merged"]
               /\ remote' = [remote EXCEPT !.work = @ \cup {k}]
               /\ UNCHANGED shipped
  /\ UNCHANGED <<setup, ckpt, issue, base, local, prs, finished, hub, pc, run>>

HumanClosesKid ==
  /\ \E k \in Kids :
       \/ /\ Gesture("closekid") /\ kid[k].issue = "open"
          /\ kid' = [kid EXCEPT ![k].issue = "closed"]
       \/ /\ Gesture("closepr") /\ kid[k].pr = "open"
          /\ kid' = [kid EXCEPT ![k].pr = "closed"]
       \/ /\ Gesture("drift") /\ kid[k].issue = "closed" /\ kid[k].done
          /\ kid' = [kid EXCEPT ![k].issue = "started"]
       \/ /\ Gesture("clear") /\ pc = "off" /\ kid[k].phase # None
          /\ kid' = [kid EXCEPT ![k].phase = None, ![k].done = FALSE, ![k].pin = NoRef, ![k].below = k]
  /\ UNCHANGED <<setup, ckpt, issue, git, finished, hub, pc, run>>

\* The operator lands the epic's PR, or closes it; the base moves on.
HumanMergesEpic ==
  /\ Lands("mergeepic", pc = "wait") /\ OpenPR /\ Exists(remote)
  /\ EpicLands
  /\ remote' \in {remote, NoRef} /\ Untarget(remote' = NoRef)
  /\ UNCHANGED <<setup, ckpt, issue, local, finished, hub, pc, run>>

HumanClosesEpic ==
  /\ Gesture("closeepic") /\ OpenPR
  /\ prs' = [prs EXCEPT ![LastPR] = "closed"]
  /\ UNCHANGED <<setup, books, base, local, remote, shipped, finished, hub, pc, run>>

BaseMoves ==
  /\ Gesture("base") /\ "drift" \notin base.rest
  /\ base' = Plus(base, "drift")
  /\ UNCHANGED <<setup, books, local, remote, prs, shipped, finished, hub, pc, run>>

(* ------------------------------ Specification -------------------------- *)

RunStep ==
  \/ Loop \/ Resolve \/ PRBase \/ CutSlice \/ Build \/ KidPR \/ KidGate \/ KidMerge \/ KidDone
  \/ Check \/ CheckpointEpicReleasing \/ Branch \/ SyncForMerge \/ EnsureEpicPR \/ Gate
  \/ PollCI \/ RepairEpic \/ MergeEpic \/ AwaitEpicMerge \/ LandEpic
  \/ Layer \/ MergeStack \/ AwaitStackMerge
  \/ CheckpointEpicMerged \/ TellTracker \/ HandOffEpic \/ SettleEpicBranch

Hands ==
  \/ Start \/ Kill \/ Stop \/ HumanMergesKid \/ HumanClosesKid
  \/ HumanMergesEpic \/ HumanClosesEpic \/ BaseMoves

BlankKid(k) == [issue |-> "open", phase |-> None, done |-> FALSE, pin |-> NoRef, below |-> k, pr |-> "none"]

\* The queue has just started on a fresh epic.
Init ==
  /\ setup \in Setups
  /\ ckpt = [phase |-> None, release |-> "", mark |-> ""]
  /\ issue = "open" /\ kid = [k \in Kids |-> BlankKid(k)]
  /\ base = [work |-> {}, rest |-> {"root"}] /\ local = NoRef /\ remote = NoRef
  /\ prs = <<>> /\ shipped = {} /\ finished = {}
  /\ attempts = 0 /\ halted = FALSE
  /\ pc = "loop" /\ memo = FALSE /\ mine = FALSE /\ stacked = FALSE /\ cur = 0 /\ tries = 0
  /\ left = MaxGestures

Next == RunStep \/ Reattempt \/ StampReleaseSpent \/ Hands

\* A run left alone moves on; the hub keeps its plan for a release that died.
Fairness == WF_vars(RunStep) /\ WF_vars(Reattempt) /\ WF_vars(StampReleaseSpent)

Spec == Init /\ [][Next]_vars /\ Fairness

(* ------------------------------- Properties ---------------------------- *)

Shipping == {"branch", "sync", "pr", "conflicted", "gate", "poll", "repair", "merge", "land",
             "layers", "stackmerge"}
Waiting  == {"wait", "stackwait"}

TypeOK ==
  /\ setup \in Setups /\ ckpt \in EpicRow /\ issue \in {"open", "review", "done"}
  /\ DOMAIN kid = Kids /\ \A k \in Kids : kid[k] \in KidRow
  /\ base \in Ref /\ local \in Ref /\ remote \in Ref
  /\ LastPR <= MaxPRs /\ \A i \in DOMAIN prs : prs[i] \in {"draft", "open", "merged", "closed"}
  /\ shipped \subseteq Kids /\ finished \subseteq Kids
  /\ attempts \in 0..Resumes /\ halted \in BOOLEAN
  /\ pc \in Shipping \cup Waiting \cup
        {"off", "loop", "resolve", "base", "cut", "build", "kidpr", "kidgate", "kidmerge", "kiddone",
         "check", "release", "merged", "close", "review", "handoff", "exit"}
  /\ memo \in BOOLEAN /\ mine \in BOOLEAN /\ stacked \in BOOLEAN
  /\ cur \in Kids \cup {0} /\ tries \in 0..MaxRepairs /\ left \in 0..MaxGestures

\* An epic the books call merged has shipped all that was delivered into it
\* (FinalizeEpic, epic.go:193): no child's work stays behind on the epic branch.
EpicMeansShipped == ckpt.phase = "merged" => finished \subseteq shipped

\* What a child delivered into the epic is on the base or on a copy of the epic
\* branch: no exit, sync or reset drops the only ref that carries it
\* (exit_cleanup.go:207, epic.go:391).
LandedWorkKept ==
  ~IsStacked => \A k \in finished : k \in shipped \cup remote.work \cup local.work

\* A slice under way can ship: the remote epic branch has the commit it was cut at,
\* or a plain push of the local one brings it there.  A sync merge whose push was
\* lost is rolled back before anything is cut from it (epic.go:318).
SliceCanShip ==
  ~IsStacked /\ ~IsLocal =>
    \A k \in Kids : kid[k].phase = "building" =>
      LET epic == IF Exists(local) THEN local ELSE IF Exists(remote) THEN remote ELSE base
      IN  Within(kid[k].pin, remote) \/ (Within(remote, epic) /\ Within(kid[k].pin, epic))

\* A run that ships, or is about to, holds the repository's release gate: another
\* run reads its checkpoint as a release trau owns (releasegate.go:9).
GateHeld == pc \in Shipping => ckpt.phase = "merged" \/ ResumableRelease(ckpt)

\* Once every child is delivered, the base receives the epic in one piece and never
\* a part of it, unless the operator lands a part by hand (stacked_epic.go:16).
ReleasesWhole ==
  [][shipped' # shipped => Hands \/ finished \subseteq shipped']_vars

\* A release that dies is finished, parked for a human or given up on within the
\* hub's budget, unless the operator stops it (autoresume.go:29).
ReleaseEnds == ResumableRelease(ckpt) ~> ~ResumableRelease(ckpt) \/ halted
=============================================================================
