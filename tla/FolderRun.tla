----------------------------- MODULE FolderRun -----------------------------
(***************************************************************************)
(* One ticket run in a folder of git repositories                          *)
(* (internal/pipeline/folder.go): one census before the build, one branch  *)
(* and one PR in each child the build changed, nothing merged before all   *)
(* of them are green.  A run may be cut short after any of its steps and   *)
(* taken up by another that knows only the checkpoint and the children.    *)
(*                                                                         *)
(* Work is told apart by who made it: n > 0 is what the ticket's n-th      *)
(* attempt did, n < 0 something the operator, or another ticket, left in a *)
(* child.  What the gates and agents do inside one repository is           *)
(* Pipeline's business.                                                    *)
(***************************************************************************)
EXTENDS Checkpoint

CONSTANTS
  Kids,          \* the child repos, numbered in name order
  Setups,        \* the configurations the folder may run under
  Troubles,      \* how agents, git, hub or forge may fail a run
  Gestures,      \* what operator, machine and others may do
  MaxAccidents,  \* troubles and gestures altogether
  MaxAttempts    \* bound on attempts

\* forge: the children's; autoMerge: AUTO_MERGE; shared: the children whose base is
\* the folder's own.
Setup == [forge : {"none", "github", "bitbucket"}, autoMerge : BOOLEAN, shared : SUBSET Kids]

ASSUME KidsAssumption == IsFiniteSet(Kids) /\ Kids \subseteq Nat /\ Kids # {}
ASSUME SetupsAssumption == Setups \subseteq Setup
ASSUME BoundsAssumption == MaxAccidents \in Nat /\ MaxAttempts \in Nat \ {0}

VARIABLES
  setup,    \* the configuration the folder runs under
  ckpt,     \* the ticket's checkpoint
  head,     \* where each child's HEAD is: "base", "branch" or "else"
  loose,    \* the uncommitted work in each child
  cut,      \* the children that hold the ticket's branch
  branch,   \* what that branch carries beyond the base it was cut at
  pushed,   \* and what the remote's copy of it does
  base,     \* what has landed on each child's base
  pr,       \* the branch's latest PR in each child
  attempt,  \* attempts started so far
  found,    \* the loose work the present one started from
  held,     \* the children where an earlier one left a branch or a record
  pc,       \* where the run is, "off" when none is
  resumed,  \* it picks an interrupted run up
  todo,     \* children the loop at hand has still to reach
  shipped,  \* children it has committed
  refused,  \* some child could not be committed
  known,    \* children whose PR it knows
  green,    \* children whose checks it saw green
  left      \* troubles and gestures still to come

git   == <<head, loose, cut, branch, pushed, base, pr>>
ghost == <<attempt, found, held>>
run   == <<resumed, todo, shipped, refused, known, green>>
vars  == <<setup, ckpt, head, loose, cut, branch, pushed, base, pr, attempt, found, held, pc,
           resumed, todo, shipped, refused, known, green, left>>

Work   == ((-MaxAccidents)..MaxAttempts) \ {0}
Row    == [phase : Phase, off : SUBSET Kids, dirt : [Kids -> SUBSET Work],
           targets : SUBSET Kids, urls : SUBSET Kids]
Clean  == [c \in Kids |-> {}]
Blank  == [phase |-> None, off |-> {}, dirt |-> Clean, targets |-> {}, urls |-> {}]

Local    == setup.forge = "none"
First(s) == CHOOSE c \in s : \A d \in s : c <= d
With(f, s, x) == [c \in Kids |-> IF c \in s THEN x ELSE f[c]]

Happens(kind) == left > 0 /\ left' = left - 1 /\ kind \in Troubles \cup Gestures

(* ------------------------- What the run can tell ----------------------- *)

\* Faulty variant: what the children held before the run is ignored.
FaultyDirty == {}

\* The children with uncommitted work, untracked files included.
Dirty == {c \in Kids : loose[c] # {}}

\* changedChildren: the tree no longer reads as the census found it.
Changed == {c \in Kids : loose[c] # ckpt.dirt[c]}

\* Faulty variant: a resumed run ships what still carries loose work.
FaultyShipSet == Changed

\* folderShipSet: a resume adds what was recorded, and what holds the branch.
ShipSet == Changed \cup (IF resumed THEN ckpt.targets \cup cut ELSE {})

\* assertChildrenInBounds
OutOfBounds == Changed \cap ckpt.off # {}

\* folderRunFootprint
Footprint == IF ckpt.targets # {} THEN ckpt.targets ELSE Changed

Opened(c) == pr[c] = "open"

(* ------------------------------ Run and end ---------------------------- *)

Stays == UNCHANGED <<setup, ghost>>

\* The run is over, or dead; a fault, a stop and a give-up touch no child.
Over ==
  /\ pc' = "off" /\ resumed' = FALSE /\ todo' = {} /\ shipped' = {}
  /\ refused' = FALSE /\ known' = {} /\ green' = {}

Cuts(kind) == Happens(kind) /\ Over
Faults == Over /\ UNCHANGED left

GivesUp ==
  /\ ckpt' = [ckpt EXCEPT !.phase = "quarantined"]
  /\ Over

\* startFolderRun of a fresh run: the census, and the clean children that stand
\* elsewhere moved back onto their base.  A child that cannot be read or moved is
\* off limits, as is every dirty one.
Census(unread, stuck) ==
  LET off    == Dirty \cup unread
      parked == {c \in Kids \ off : head[c] # "base"}
  IN  /\ stuck \subseteq parked
      /\ head' = With(head, parked \ stuck, "base")
      /\ ckpt' = [ckpt EXCEPT !.phase = "building", !.off = off \cup stuck,
                              !.dirt = [c \in Kids |-> IF c \in Dirty \ unread THEN loose[c] ELSE {}]]

Fresh ==
  /\ attempt < MaxAttempts
  /\ pc' = "build" /\ resumed' = FALSE
  /\ attempt' = attempt + 1 /\ found' = loose /\ held' = cut \cup ckpt.targets
  /\ UNCHANGED <<setup, loose, cut, branch, pushed, base, pr, todo, shipped, refused, known, green>>

Begin ==
  /\ pc = "off" /\ ckpt.phase = None
  /\ Fresh
  /\ \/ Census({}, {}) /\ UNCHANGED left
     \/ Happens("unread") /\ \E c \in Kids : Census({c}, {})
     \/ Happens("park") /\ \E c \in Kids : Census({}, {c})

\* The loop takes a quarantined ticket from the start; its row keeps its keys.
Rerun ==
  /\ pc = "off" /\ ckpt.phase = "quarantined"
  /\ Happens("rerun") /\ Fresh /\ Census({}, {})

ResumePoint(phase) ==
  CASE phase = "building" -> "build"
    [] phase = "built"    -> "verify"
    [] phase = "verified" -> "ship"
    [] OTHER              -> "ci"

TakesUp ==
  /\ pc = "off"
  /\ pc' = ResumePoint(ckpt.phase) /\ resumed' = TRUE
  /\ Stays
  /\ UNCHANGED <<ckpt, git, todo, shipped, refused, known, green>>

Resume == InFlight(ckpt.phase) /\ TakesUp /\ UNCHANGED left

\* "Run once" on a quarantined ticket goes to the merge, past every other phase.
RunOnce == ckpt.phase = "quarantined" /\ Happens("runonce") /\ TakesUp

(* --------------------------- Build and verify -------------------------- *)

\* Agents leave their work loose; S is where.
Edits(S) == loose' = [c \in Kids |-> IF c \in S THEN loose[c] \cup {attempt} ELSE loose[c]]

\* The build: in some children, as told to; in none, or out of bounds; or cut short.
Build ==
  /\ pc = "build"
  /\ \E S \in SUBSET Kids :
       /\ Edits(S)
       /\ \/ /\ S # {} \/ Changed # {}
             /\ S \cap ckpt.off = {}
             /\ pc' = "built" /\ UNCHANGED <<run, left>>
          \/ /\ S \cup Changed = {} \/ S \cap ckpt.off # {}
             /\ Happens("stray")
             /\ pc' = "built" /\ UNCHANGED run
          \/ Cuts("agent")
  /\ ckpt' = [ckpt EXCEPT !.phase = "building"]
  /\ Stays
  /\ UNCHANGED <<head, cut, branch, pushed, base, pr>>

\* assertRepoChanged and assertChildrenInBounds: no change faults, a change out
\* of bounds gives the ticket up.
Built ==
  /\ pc = "built"
  /\ \/ Changed = {} /\ Over /\ UNCHANGED ckpt
     \/ OutOfBounds /\ GivesUp
     \/ /\ Changed # {} /\ ~OutOfBounds
        /\ ckpt' = [ckpt EXCEPT !.phase = "built"]
        /\ pc' = "verify" /\ UNCHANGED run
  /\ Stays
  /\ UNCHANGED <<git, left>>

\* Handoff, lint and verify, whose repairs may reach further children.
Verify ==
  /\ pc = "verify"
  /\ \/ /\ \E S \in SUBSET Kids :
             /\ Edits(S)
             /\ IF S \cap ckpt.off = {} THEN UNCHANGED left ELSE Happens("stray")
        /\ ckpt' = [ckpt EXCEPT !.phase = "verified"]
        /\ pc' = "ship" /\ UNCHANGED run
     \/ Happens("agent") /\ (GivesUp \/ (Over /\ UNCHANGED ckpt)) /\ UNCHANGED loose
  /\ Stays
  /\ UNCHANGED <<head, cut, branch, pushed, base, pr>>

(* --------------------------------- Ship -------------------------------- *)

Ship ==
  /\ pc = "ship"
  /\ \/ OutOfBounds /\ GivesUp
     \/ ~OutOfBounds /\ ShipSet = {} /\ Over /\ UNCHANGED ckpt
     \/ /\ ~OutOfBounds /\ ShipSet # {}
        /\ pc' = "cut" /\ todo' = ShipSet
        /\ known' = IF resumed THEN ckpt.targets \cap ckpt.urls ELSE {}
        /\ UNCHANGED <<ckpt, resumed, shipped, refused, green>>
  /\ Stays
  /\ UNCHANGED <<git, left>>

\* After the last child: a refusal gives up, otherwise the branches go out.
NextKid(kids, failed, done) ==
  /\ todo' = IF kids # {} THEN kids ELSE IF failed \/ Local THEN {} ELSE done \ known
  /\ pc' = CASE kids # {}                         -> "cut"
             [] kids = {} /\ failed               -> "giveup"
             [] kids = {} /\ ~failed /\ ~Local /\ done \ known # {} -> "push"
             [] OTHER                             -> "propen"

\* A child that cannot be branched or committed fails on its own.
Refuse ==
  /\ pc \in {"cut", "commit"}
  /\ Happens("git")
  /\ refused' = TRUE
  /\ NextKid(todo \ {First(todo)}, TRUE, shipped)
  /\ Stays
  /\ UNCHANGED <<ckpt, git, resumed, shipped, known, green>>

\* Faulty variant: the checkout is forced, as where an attempt is undone.
FaultyCarried(c) == IF c \in cut THEN {} ELSE loose[c]

\* The loose work a checkout of the branch carries along.
Carried(c) == loose[c]

\* commitChild: an interrupted attempt's branch is kept, else one is cut.
Cut ==
  /\ pc = "cut"
  /\ LET c == First(todo)
     IN  /\ cut' = cut \cup {c}
         /\ head' = [head EXCEPT ![c] = "branch"]
         /\ loose' = [loose EXCEPT ![c] = Carried(c)]
  /\ pc' = "commit"
  /\ Stays
  /\ UNCHANGED <<ckpt, branch, pushed, base, pr, run, left>>

Commit ==
  /\ pc = "commit"
  /\ LET c == First(todo)
     IN  /\ branch' = [branch EXCEPT ![c] = @ \cup loose[c]]
         /\ loose' = [loose EXCEPT ![c] = {}]
         /\ shipped' = shipped \cup {c}
  /\ pc' = "record"
  /\ Stays
  /\ UNCHANGED <<ckpt, head, cut, pushed, base, pr, resumed, todo, refused, known, green, left>>

\* recordShipTargets: the set so far; without a PR among them PR_URLS stays.
Recorded(done, prs) ==
  [ckpt EXCEPT !.targets = done, !.urls = IF done \cap prs = {} THEN @ ELSE done \cap prs]

Record ==
  /\ pc = "record"
  /\ \/ /\ ckpt' = Recorded(shipped, known)
        /\ NextKid(todo \ {First(todo)}, refused, shipped)
        /\ UNCHANGED <<resumed, shipped, refused, known, green, left>>
     \/ Cuts("hub") /\ UNCHANGED ckpt
  /\ Stays
  /\ UNCHANGED git

\* openChildPR: an open PR is adopted; one with nothing new cannot be created, though
\* what was squashed still looks new.
Push ==
  /\ pc = "push"
  /\ LET c == First(todo)
     IN  /\ pushed' = [pushed EXCEPT ![c] = branch[c]]
         /\ \/ /\ Opened(c) \/ pr[c] = "merged" \/ ~(branch[c] \subseteq base[c])
               /\ pr' = [pr EXCEPT ![c] = "open"]
               /\ pc' = "recordpr" /\ UNCHANGED <<run, left>>
            \/ ~Opened(c) /\ branch[c] \subseteq base[c] /\ Faults /\ UNCHANGED pr
            \/ Cuts("forge") /\ UNCHANGED pr
  /\ Stays
  /\ UNCHANGED <<ckpt, head, loose, cut, branch, base>>

RecordPR ==
  /\ pc = "recordpr"
  /\ LET c == First(todo)
     IN  \/ /\ ckpt' = Recorded(shipped, known \cup {c})
            /\ known' = known \cup {c}
            /\ todo' = todo \ {c}
            /\ pc' = IF todo = {c} THEN "propen" ELSE "push"
            /\ UNCHANGED <<resumed, shipped, refused, green, left>>
         \/ Cuts("hub") /\ UNCHANGED ckpt
  /\ Stays
  /\ UNCHANGED git

PROpen ==
  /\ pc = "propen"
  /\ \/ /\ ckpt' = [ckpt EXCEPT !.phase = "pr_open"]
        /\ pc' = "ci" /\ UNCHANGED <<run, left>>
     \/ Cuts("hub") /\ UNCHANGED ckpt
  /\ Stays
  /\ UNCHANGED git

(* ------------------------- The gate and the merge ---------------------- *)

\* folderCIAndMerge begins from what is recorded.
Gate ==
  /\ pc = "ci"
  /\ \/ ckpt.targets = {} /\ GivesUp
     \/ ckpt.targets # {} /\ Local /\ ~setup.autoMerge /\ Over /\ UNCHANGED ckpt
     \/ /\ ckpt.targets # {} /\ (Local => setup.autoMerge)
        /\ pc' = IF Local THEN "land" ELSE "poll"
        /\ todo' = ckpt.targets
        /\ UNCHANGED <<ckpt, resumed, shipped, refused, known, green>>
  /\ Stays
  /\ UNCHANGED <<git, left>>

\* Nothing merges while a child is still to be polled.
GateOpens(kids) == kids = {}

\* The first child without a PR or a green one gives the ticket up.
Poll ==
  /\ pc = "poll"
  /\ LET c == First(todo)
     IN  \/ c \notin ckpt.urls /\ GivesUp /\ UNCHANGED left
         \/ c \in ckpt.urls /\ Happens("ci") /\ GivesUp
         \/ /\ c \in ckpt.urls
            /\ green' = green \cup {c}
            /\ \/ /\ ~GateOpens(todo \ {c})
                  /\ todo' = todo \ {c}
                  /\ UNCHANGED <<pc, resumed, shipped, refused, known>>
               \/ /\ GateOpens(todo \ {c}) /\ setup.autoMerge
                  /\ pc' = "merge" /\ todo' = ckpt.targets
                  /\ UNCHANGED <<resumed, shipped, refused, known>>
            /\ UNCHANGED <<ckpt, left>>
         \/ /\ c \in ckpt.urls /\ GateOpens(todo \ {c}) /\ ~setup.autoMerge
            /\ Faults /\ UNCHANGED ckpt
  /\ Stays
  /\ UNCHANGED git

\* The forge merges an open PR and drops its branch; gh drops the local one too.
\* Asked again, GitHub calls it done and Bitbucket refuses.
ForgeMerges(c) ==
  /\ base' = [base EXCEPT ![c] = @ \cup pushed[c]]
  /\ pushed' = [pushed EXCEPT ![c] = {}]
  /\ pr' = [pr EXCEPT ![c] = "merged"]

\* Faulty variant: a PR that has merged is refused.
FaultyRemerges(c) == FALSE

Remerges(c) == pr[c] = "merged" /\ setup.forge = "github"

NextMerge(c) ==
  /\ todo' = todo \ {c}
  /\ pc' = IF todo = {c} THEN "done" ELSE pc
  /\ UNCHANGED <<resumed, shipped, refused, known, green, left>>

Merge ==
  /\ pc = "merge"
  /\ LET c == First(todo)
     IN  \/ /\ Opened(c) /\ ForgeMerges(c) /\ NextMerge(c)
            /\ IF setup.forge = "github"
               THEN /\ cut' = cut \ {c} /\ branch' = [branch EXCEPT ![c] = {}]
                    /\ head' = [head EXCEPT ![c] = IF @ = "branch" THEN "base" ELSE @]
               ELSE UNCHANGED <<cut, branch, head>>
         \/ Remerges(c) /\ NextMerge(c) /\ UNCHANGED <<head, cut, branch, pushed, base, pr>>
         \/ /\ ~Opened(c) /\ ~Remerges(c) /\ Faults
            /\ UNCHANGED <<head, cut, branch, pushed, base, pr>>
         \/ Cuts("forge") /\ UNCHANGED <<head, cut, branch, pushed, base, pr>>
  /\ Stays
  /\ UNCHANGED <<ckpt, loose>>

\* landFolderLocally.  A squash with nothing left to commit, or one that
\* conflicts, is reset, and gives the ticket up; so does a base not checked out.
Land ==
  /\ pc = "land"
  /\ LET c == First(todo)
     IN  \/ /\ ~(branch[c] \subseteq base[c])
            /\ base' = [base EXCEPT ![c] = @ \cup branch[c]]
            /\ head' = [head EXCEPT ![c] = "base"]
            /\ NextMerge(c) /\ UNCHANGED <<ckpt, loose>>
         \/ /\ IF branch[c] \subseteq base[c] THEN UNCHANGED left ELSE Happens("git")
            /\ head' = [head EXCEPT ![c] = "base"]
            /\ loose' = [loose EXCEPT ![c] = {}]
            /\ GivesUp /\ UNCHANGED base
         \/ Happens("git") /\ GivesUp /\ UNCHANGED <<head, loose, base>>
  /\ Stays
  /\ UNCHANGED <<cut, branch, pushed, pr>>

Done ==
  /\ pc = "done"
  /\ \/ ckpt' = [ckpt EXCEPT !.phase = "merged"] /\ Faults
     \/ Cuts("hub") /\ UNCHANGED ckpt
  /\ Stays
  /\ UNCHANGED git

GiveUp ==
  /\ pc = "giveup"
  /\ GivesUp
  /\ Stays
  /\ UNCHANGED <<git, left>>

(* ------------------------ Undoing and bystanders ----------------------- *)

\* The targets lose the branch on the remote, and their open PR with it; here it
\* goes from those HEAD could leave.
DropBranches(gone) ==
  /\ cut' = cut \ gone
  /\ branch' = With(branch, gone, {})
  /\ pushed' = With(pushed, ckpt.targets, {})
  /\ pr' = [c \in Kids |-> IF c \in ckpt.targets /\ Opened(c) THEN "closed" ELSE pr[c]]

\* resetLocal.  The branches are dropped first, from children checked out on the
\* base the process knows: `freed`; then the census is read back.
ResetLocal(freed) ==
  /\ DropBranches({c \in ckpt.targets : c \in freed \/ head[c] # "branch"})
  /\ head' = With(head, Footprint, "base")
  /\ loose' = With(loose, Footprint, {})
  /\ ckpt' = Blank
  /\ UNCHANGED base

\* A build that refuses the ticket and changed nothing: the run resets it, with
\* its own census at hand.
Refused ==
  /\ pc = "build" /\ Changed = {}
  /\ Cuts("refused")
  /\ ResetLocal(Kids)
  /\ Stays

Reset ==
  /\ pc = "off" /\ ckpt.phase \notin {None, "merged"}
  /\ Happens("reset")
  /\ ResetLocal(setup.shared)
  /\ Stays /\ UNCHANGED <<pc, run>>

\* Requeue: refused once a PR merged; the checkpoint goes when every child could
\* be put back, and loose work stays where no branch was.
Requeue ==
  /\ pc = "off" /\ ckpt.phase \notin {None, "merged"}
  /\ ~\E c \in ckpt.targets \cap ckpt.urls : pr[c] = "merged"
  /\ Happens("requeue")
  /\ LET put == ckpt.targets \cap cut \cap setup.shared
     IN  /\ DropBranches(put)
         /\ head' = With(head, put, "base")
         /\ loose' = With(loose, put, {})
         /\ ckpt' = IF ckpt.targets \cap cut = put THEN Blank ELSE ckpt
  /\ Stays /\ UNCHANGED <<base, pc, run>>

\* The run dies, or is stopped; nothing is set aside in a child.
Kill ==
  /\ pc # "off" /\ Cuts("kill")
  /\ Stays /\ UNCHANGED <<ckpt, git>>

\* The operator, or another ticket's run, leaves work in a child, takes it out
\* again, or stands it elsewhere, though not between a checkout and its commit.
Wip ==
  /\ Happens("wip")
  /\ \E c \in Kids : loose' = [loose EXCEPT ![c] = @ \cup {-left}]
  /\ Stays /\ UNCHANGED <<ckpt, head, cut, branch, pushed, base, pr, pc, run>>

Tidy ==
  /\ Happens("tidy")
  /\ \E c \in Kids : loose' = [loose EXCEPT ![c] = {w \in @ : w > 0}]
  /\ Stays /\ UNCHANGED <<ckpt, head, cut, branch, pushed, base, pr, pc, run>>

Elsewhere ==
  /\ Happens("elsewhere") /\ pc # "commit"
  /\ \E c \in Kids : loose[c] = {} /\ head' = [head EXCEPT ![c] = "else"]
  /\ Stays /\ UNCHANGED <<ckpt, loose, cut, branch, pushed, base, pr, pc, run>>

HumanMerges ==
  /\ Happens("merge")
  /\ \E c \in Kids : Opened(c) /\ ForgeMerges(c)
  /\ Stays /\ UNCHANGED <<ckpt, head, loose, cut, branch, pc, run>>

HumanCloses ==
  /\ Happens("close")
  /\ \E c \in Kids : Opened(c) /\ pr' = [pr EXCEPT ![c] = "closed"]
  /\ Stays /\ UNCHANGED <<ckpt, head, loose, cut, branch, pushed, base, pc, run>>

(* ---------------------------- Specification ---------------------------- *)

Init ==
  /\ setup \in Setups
  /\ ckpt = Blank /\ head = [c \in Kids |-> "base"] /\ loose = Clean /\ cut = {}
  /\ branch = Clean /\ pushed = Clean /\ base = Clean /\ pr = [c \in Kids |-> "none"]
  /\ attempt = 0 /\ found = Clean /\ held = {}
  /\ pc = "off" /\ resumed = FALSE /\ todo = {} /\ shipped = {}
  /\ refused = FALSE /\ known = {} /\ green = {}
  /\ left = MaxAccidents

RunStep ==
  \/ Build \/ Refused \/ Built \/ Verify
  \/ Ship \/ Cut \/ Commit \/ Refuse \/ Record \/ Push \/ RecordPR \/ PROpen
  \/ Gate \/ Poll \/ Merge \/ Land \/ Done \/ GiveUp

Hands ==
  \/ Rerun \/ RunOnce \/ Reset \/ Requeue \/ Kill
  \/ Wip \/ Tidy \/ Elsewhere \/ HumanMerges \/ HumanCloses

Next == Begin \/ Resume \/ RunStep \/ Hands

\* A run goes on until it ends, and what it left in flight is taken up again: by
\* the drain, which re-arms what can be resumed, or by the operator.
Fairness == WF_vars(RunStep) /\ WF_vars(Resume)

Spec == Init /\ [][Next]_vars /\ Fairness

(* ------------------------------ Properties ----------------------------- *)

TypeOK ==
  /\ setup \in Setups /\ ckpt \in Row
  /\ head \in [Kids -> {"base", "branch", "else"}] /\ loose \in [Kids -> SUBSET Work]
  /\ cut \subseteq Kids /\ branch \in [Kids -> SUBSET Work] /\ pushed \in [Kids -> SUBSET Work]
  /\ base \in [Kids -> SUBSET Work] /\ pr \in [Kids -> {"none", "open", "merged", "closed"}]
  /\ attempt \in 0..MaxAttempts /\ found \in [Kids -> SUBSET Work] /\ held \subseteq Kids
  /\ pc \in {"off", "build", "built", "verify", "ship", "cut", "commit", "record", "push",
             "recordpr", "propen", "ci", "poll", "merge", "land", "done", "giveup"}
  /\ resumed \in BOOLEAN /\ todo \subseteq Kids /\ shipped \subseteq Kids
  /\ refused \in BOOLEAN /\ known \subseteq Kids /\ green \subseteq Kids
  /\ left \in 0..MaxAccidents

\* Where the present attempt left work.
Share == {c \in Kids : attempt \in loose[c] \cup branch[c] \cup pushed[c] \cup base[c]}

\* Where it committed work that has still to land.
Pending == {c \in Kids : attempt \in (branch[c] \cup pushed[c]) \ base[c]}

(* No run that is in flight lands the attempt's work in one child before every child where *)
(* some of it is to land was recorded and, with a forge, seen green, and none of it lies *)
(* uncommitted in any: however often ship was cut short. *)
LandsWhole ==
  [][\A c \in Kids : InFlight(ckpt.phase) /\ attempt \in base'[c] \ base[c] /\ pc \in {"merge", "land"}
       => Pending \subseteq (IF Local THEN ckpt.targets ELSE green) /\ \A d \in Kids : attempt \notin loose[d]]_vars

(* What lay uncommitted in a child before the attempt began is never committed by it, not by *)
(* the run that resumes it either, in a child where no earlier attempt left a trace. *)
FoundWorkStays ==
  \A c \in Kids \ held : attempt > 0 => branch[c] \cap found[c] = {}

(* No step of a run, no death of one and no bystander loses what the attempt made in a child *)
(* where no earlier attempt left a trace: only a reset or a requeue may. *)
OwnWorkStands ==
  [][Share \ held \subseteq Share' \/ attempt' # attempt \/ Reset \/ Requeue]_vars

Landed == {c \in ckpt.targets : attempt \in base[c]}

(* A change of an attempt that found no trace of an earlier one does not stay landed in some *)
(* children only: with its PRs open, the run that is resumed lands the rest or gives the ticket *)
(* up, unless somebody closed a PR.  Bitbucket refuses the second merge, for ever. *)
HalfLandedSettles ==
  (/\ setup.autoMerge /\ setup.forge # "bitbucket"
   /\ held = {} /\ ckpt.phase = "pr_open" /\ Landed # {})
    ~> (Share \subseteq Landed \/ ckpt.phase \in {"quarantined", None} \/ \E c \in Kids : pr[c] = "closed")
=============================================================================
