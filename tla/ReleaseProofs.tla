---------------------------- MODULE ReleaseProofs ----------------------------
(***************************************************************************)
(* An epic's release, for any children, troubles and gestures: what was    *)
(* delivered into an epic branch is not lost, a slice under way can ship,  *)
(* the base receives the epic whole and its books say so, a run that ships *)
(* holds the gate, and every variable keeps to its kind.  The layers       *)
(* of a stack are found by walking up the children; what that walk finds   *)
(* is proved by induction on a set of lengths (UpTo), since the library's  *)
(* induction takes an operator.                                            *)
(***************************************************************************)
EXTENDS Release, FiniteSetTheorems, SequenceTheorems, WellFoundedInduction, TLAPS

Classic == ~IsLocal /\ ~IsStacked

\* Where a run has a child in hand, where it handles the epic's PR, and where it
\* waits on that.
KidSteps  == {"resolve", "base", "cut", "build", "kidpr", "kidgate", "kidmerge", "kiddone"}
AtPR      == {"gate", "poll", "repair", "merge", "wait"}
PRSteps   == {"sync", "pr", "conflicted"} \cup AtPR
StackStep == {"layers", "stackmerge", "stackwait"}
Ending    == {"merged", "close", "exit", "off"}
AllSteps  == KidSteps \cup PRSteps \cup StackStep \cup Ending \cup
               {"loop", "check", "release", "branch", "land", "review", "handoff"}

\* A branch that exists has a history.
IsRef(r) == r = [work |-> r.work, rest |-> r.rest] /\ (r = NoRef \/ "root" \in r.rest)

IsKid(r) ==
  /\ r = [issue |-> r.issue, phase |-> r.phase, done |-> r.done, pin |-> r.pin, below |-> r.below, pr |-> r.pr]
  /\ r.phase \in {None, "building", "pr_open", "merged", "quarantined"}
  /\ IsRef(r.pin)

PRState == {"draft", "open", "merged", "closed"}

\* The values are of their kinds, and nothing is committed to the base by name.
ShapeOK ==
  /\ setup \in Setups
  /\ ckpt \in EpicRow
  /\ IsRef(base) /\ IsRef(local) /\ IsRef(remote)
  /\ base.work = {} /\ "root" \in base.rest
  /\ DOMAIN kid = Kids /\ \A k \in Kids : IsKid(kid[k])
  /\ prs \in Seq(PRState)

\* Where a run can be, under which setup and with what.
PlaceOK ==
  /\ pc \in AllSteps
  /\ pc \in KidSteps => cur \in Kids
  /\ pc \in {"build", "kidpr"} => kid[cur].phase = "building"
  /\ pc \in PRSteps => Classic
  /\ pc \in StackStep => IsStacked
  /\ pc \in {"resolve", "base", "branch"} => ~IsStacked
  /\ pc = "land" => IsLocal
  /\ pc = "cut" /\ ~IsStacked => memo
  /\ memo => Exists(local) \/ pc \in Ending
  /\ pc \in AtPR => prs # <<>>
  /\ IsLocal => remote = NoRef /\ prs = <<>> /\ \A k \in Kids : kid[k].pr = "none"

\* Once a release has begun no child is in hand, and none will be.
OpenedOK ==
  /\ \A k \in Kids : kid[k].done => kid[k].issue # "open"
  /\ ckpt.phase # None \/ pc = "release" => \A k \in Kids : ~InFlight(kid[k].phase) /\ kid[k].issue # "open"
  /\ pc \in KidSteps => ckpt.phase = None
  /\ pc \in {"resolve", "cut", "check"} => InFlightKids = {}
  /\ pc \in Shipping \cup Waiting \cup {"merged", "close", "review", "handoff"} => ckpt.phase # None

\* Before it has, the remote has what the local branch has, and a slice that is
\* being built was cut from what both, or else the base, have still.
SliceOK ==
  Classic =>
    /\ ckpt.phase = None /\ Exists(remote) => Within(local, remote)
    /\ \A k \in Kids : kid[k].phase = "building" =>
         /\ Exists(kid[k].pin)
         /\ Within(kid[k].pin, IF Exists(local) THEN local ELSE base)
         /\ Exists(remote) => Within(kid[k].pin, remote)

\* What has been delivered, to where.
Delivered == shipped \cup (IF IsLocal THEN local.work ELSE remote.work)

DeliveredOK ==
  ~IsStacked =>
    /\ finished \subseteq Delivered
    /\ \A k \in Kids : kid[k].pr = "merged" => k \in Delivered
    /\ pc = "kiddone" => cur \in Delivered

\* A branch this run made, and hung nothing on, is bare.
MineOK ==
  Classic =>
    /\ \A k \in Kids : kid[k].pr = "open" => Exists(remote)
    /\ mine /\ ~stacked => local.work = {} /\ remote.work = {} /\ \A k \in Kids : kid[k].pr # "open"

\* What is said to be merged has been.
MergedOK ==
  /\ ckpt.phase = "merged" => pc \in {"close", "exit", "off"}
  /\ ~IsStacked /\ (ckpt.phase = "merged" \/ pc = "merged") => finished \subseteq shipped
  /\ pc \in AtPR /\ prs[LastPR] = "merged" => finished \subseteq shipped

RInv == ShapeOK /\ PlaceOK /\ OpenedOK /\ SliceOK /\ DeliveredOK /\ MineOK /\ MergedOK

\* A release that may be re-entered by nobody is not under way.
HoldsOK ==
  /\ ckpt.mark = "faulted" => pc = "off"
  /\ pc \in Shipping => ckpt.phase = "releasing" /\ ckpt.release = "active"

-----------------------------------------------------------------------------
(* Branches and children.                                                  *)

LEMMA RefIs ==
  ASSUME NEW r, IsRef(r)
  PROVE  /\ Exists(r) <=> "root" \in r.rest
         /\ r = NoRef => r.work = {} /\ r.rest = {}
         /\ Within(r, r) /\ (r = NoRef => \A s : Within(r, s))
BY DEF IsRef, Exists, NoRef, Within

LEMMA NoRefIs == IsRef(NoRef) /\ ~Exists(NoRef) /\ NoRef.work = {} /\ NoRef.rest = {}
BY DEF IsRef, Exists, NoRef

LEMMA WithinTrans ==
  ASSUME NEW r, NEW s, NEW t, Within(r, s), Within(s, t)
  PROVE  Within(r, t)
BY DEF Within

LEMMA PlusIs ==
  ASSUME NEW r, IsRef(r), Exists(r), NEW c
  PROVE  /\ IsRef(Plus(r, c)) /\ Exists(Plus(r, c)) /\ Within(r, Plus(r, c))
         /\ Plus(r, c).work = r.work /\ "root" \in Plus(r, c).rest
<1>1. Plus(r, c) = [work |-> r.work, rest |-> r.rest \cup {c}]
  BY DEF Plus, IsRef
<1>2. "root" \in r.rest
  BY RefIs
<1> QED BY <1>1, <1>2 DEF IsRef, Within, Exists, NoRef

LEMMA WorkAdded ==
  ASSUME NEW r, IsRef(r), Exists(r), NEW k, NEW s, s = [r EXCEPT !.work = @ \cup {k}]
  PROVE  IsRef(s) /\ Exists(s) /\ Within(r, s) /\ s.work = r.work \cup {k}
<1>1. s = [work |-> r.work \cup {k}, rest |-> r.rest]
  BY DEF IsRef
<1>2. "root" \in r.rest
  BY RefIs
<1> QED BY <1>1, <1>2 DEF IsRef, Within, Exists, NoRef

LEMMA MergedBaseIs ==
  ASSUME ShapeOK, NEW r, IsRef(r), NEW m \in MergedBase(r)
  PROVE  /\ IsRef(m) /\ Exists(m) /\ m.work = r.work
         /\ Within(r, m) /\ Within(base, m)
<1>1. IsRef(base) /\ base.work = {} /\ "root" \in base.rest
  BY DEF ShapeOK
<1>2. CASE Within(base, r)
  <2>1. m = r
    BY <1>2 DEF MergedBase
  <2> QED BY <1>1, <1>2, <2>1, RefIs DEF Within
<1>3. CASE ~Within(base, r) /\ Within(r, base)
  <2>1. m = base
    BY <1>3 DEF MergedBase
  <2> QED BY <1>1, <1>3, <2>1, RefIs DEF Within
<1>4. CASE ~Within(base, r) /\ ~Within(r, base)
  <2> DEFINE j == Join(r, base)
  <2>1. PICK s \in NextSync : m = Plus(j, s)
    BY <1>4 DEF MergedBase
  <2>2. j = [work |-> r.work \cup base.work, rest |-> r.rest \cup base.rest]
    BY DEF Join
  <2> HIDE DEF j
  <2>3. IsRef(j) /\ Exists(j) /\ Within(r, j) /\ Within(base, j) /\ j.work = r.work
    BY <1>1, <2>2 DEF IsRef, Exists, NoRef, Within
  <2> QED BY <2>1, <2>3, PlusIs, WithinTrans
<1> QED BY <1>2, <1>3, <1>4

\* Classic, before a release: whatever the sync leaves, both copies grow, and the
\* local one, which is what a slice is cut at, is on the remote if there is one.
LEMMA SyncIs ==
  ASSUME ShapeOK, Exists(local), NEW after \in SyncEpicBest
  PROVE  /\ IsRef(after[1]) /\ Exists(after[1]) /\ IsRef(after[2])
         /\ Within(remote, after[2]) /\ (Exists(remote) => Exists(after[2]))
         /\ after[2].work = remote.work \/ after[2].work = after[1].work
         /\ after[1].work \subseteq local.work \cup remote.work
         /\ (Exists(remote) => Within(local, remote))
              => (Exists(after[2]) => Within(after[1], after[2]))
<1> DEFINE pulled == IF Diverged THEN remote ELSE Pulled
<1>1. IsRef(local) /\ IsRef(remote)
  BY DEF ShapeOK
<1>2. /\ pulled \in {local, remote} /\ IsRef(pulled) /\ Exists(pulled) /\ Within(remote, pulled)
      /\ Exists(remote) /\ Within(local, remote) => pulled = remote
  <2>1. Within(remote, remote) /\ Within(local, local)
    BY <1>1, RefIs
  <2>2. remote = NoRef => Within(remote, local)
    BY <1>1, RefIs
  <2> QED BY <1>1, <2>1, <2>2 DEF Pulled, Diverged, Exists
<1> HIDE DEF pulled
<1>3. \/ \E m \in MergedBase(pulled) : after = <<m, m>>
      \/ after = <<pulled, remote>>
      \/ after = <<local, remote>>
  BY DEF SyncEpicBest, pulled
<1>4. CASE \E m \in MergedBase(pulled) : after = <<m, m>>
  <2>1. PICK m \in MergedBase(pulled) : after = <<m, m>>
    BY <1>4
  <2>2. /\ IsRef(m) /\ Exists(m) /\ m.work = pulled.work /\ Within(pulled, m)
        /\ Within(remote, m) /\ Within(m, m)
    BY <1>2, MergedBaseIs, RefIs, WithinTrans
  <2>3. after[1] = m /\ after[2] = m
    BY <2>1
  <2> QED BY <1>2, <2>2, <2>3
<1>5. CASE after = <<pulled, remote>>
  <2>1. after[1] = pulled /\ after[2] = remote
    BY <1>5
  <2> QED BY <1>1, <1>2, <2>1, RefIs
<1>6. CASE after = <<local, remote>>
  <2>1. after[1] = local /\ after[2] = remote
    BY <1>6
  <2> QED BY <1>1, <2>1, RefIs
<1> QED BY <1>3, <1>4, <1>5, <1>6

\* A child's row, with its phase, pin and PR replaced, or its issue and marks.
LEMMA KidIs ==
  ASSUME NEW r, IsKid(r), NEW s,
         s = [issue |-> s.issue, phase |-> s.phase, done |-> s.done, pin |-> s.pin, below |-> s.below, pr |-> s.pr],
         s.phase \in {r.phase, None, "building", "pr_open", "merged", "quarantined"},
         s.pin = r.pin \/ IsRef(s.pin)
  PROVE  IsKid(s)
BY DEF IsKid

LEMMA PhasesIs ==
  /\ InFlight("building") /\ InFlight("pr_open")
  /\ ~InFlight(None) /\ ~InFlight("merged") /\ ~InFlight("quarantined")
<1>1. Idx("building") = 1 /\ Idx("pr_open") = 5 /\ Idx("merged") = 7 /\ Idx("quarantined") = 9
  BY DEF Idx, Rank
<1>2. Idx(None) = 0
  BY DEF Idx, Rank, None
<1> QED BY <1>1, <1>2 DEF InFlight

LEMMA AppendIs ==
  ASSUME prs \in Seq(PRState), NEW x \in PRState, prs' = Append(prs, x)
  PROVE  prs' \in Seq(PRState) /\ prs' # <<>> /\ LastPR' \in Nat /\ prs'[LastPR'] = x
BY DEF LastPR

LEMMA SetLastIs ==
  ASSUME prs \in Seq(PRState), prs # <<>>, NEW x \in PRState, prs' = [prs EXCEPT ![LastPR] = x]
  PROVE  prs' \in Seq(PRState) /\ prs' # <<>> /\ LastPR' = LastPR /\ prs'[LastPR'] = x
<1>1. LastPR \in 1..Len(prs) /\ Len(prs) \in Nat
  BY EmptySeq DEF LastPR
<1>2. prs' \in Seq(PRState) /\ Len(prs') = Len(prs) /\ prs'[LastPR] = x
  BY <1>1, ExceptSeq
<1> QED BY <1>1, <1>2, EmptySeq DEF LastPR

LEMMA OpenIs == ASSUME prs \in Seq(PRState), OpenPR PROVE prs # <<>> /\ prs[LastPR] \in {"draft", "open"}
BY DEF OpenPR, LastPR

-----------------------------------------------------------------------------
(* Steps that move a run, and change nothing it has made.                  *)

Made == <<setup, kid, base, local, remote, prs, shipped, finished>>

\* Nothing is made, and the run goes where it may.
LEMMA MadeStays ==
  ASSUME RInv, UNCHANGED Made, ckpt' \in EpicRow, ckpt'.phase = None => ckpt.phase = None,
         UNCHANGED <<mine, stacked>> \/ ~mine',
         PlaceOK', OpenedOK', MergedOK', ~IsStacked /\ pc' = "kiddone" => cur' \in Delivered
  PROVE  RInv'
<1>1. ShapeOK'
  BY DEF RInv, ShapeOK, Made
<1>2. SliceOK'
  BY DEF RInv, SliceOK, Classic, IsLocal, IsStacked, Exists, Made
<1>3. DeliveredOK'
  BY DEF RInv, DeliveredOK, Delivered, IsLocal, IsStacked, Made
<1>4. MineOK'
  BY DEF RInv, MineOK, Classic, IsLocal, IsStacked, Exists, Made
<1> QED BY <1>1, <1>2, <1>3, <1>4 DEF RInv

\* A run that ends, or has died.
LEMMA ExitKeeps ==
  ASSUME RInv, UNCHANGED Made, UNCHANGED ckpt, pc' \in {"exit", "off"},
         UNCHANGED <<mine, stacked>> \/ ~mine'
  PROVE  RInv'
<1>1. PlaceOK'
  BY DEF RInv, PlaceOK, AllSteps, KidSteps, AtPR, PRSteps, StackStep, Ending, Classic, IsLocal, IsStacked, Exists, Made
<1>2. OpenedOK'
  BY DEF RInv, OpenedOK, KidSteps, Shipping, Waiting, InFlightKids, Made
<1>3. MergedOK'
  BY DEF RInv, MergedOK, AtPR, IsStacked, Made
<1>4. ckpt' \in EpicRow
  BY DEF RInv, ShapeOK
<1> QED BY <1>1, <1>2, <1>3, <1>4, MadeStays DEF KidSteps

LEMMA FailsKeeps == ASSUME RInv, Fails PROVE RInv'
BY ExitKeeps DEF Fails, Step, Keep, books, git, run, Made

LEMMA KillKeeps == ASSUME RInv, Kill PROVE RInv'
BY ExitKeeps DEF Kill, Step, Fresh, books, git, Made

LEMMA StopKeeps == ASSUME RInv, Stop PROVE RInv'
<1>1. UNCHANGED Made /\ UNCHANGED ckpt /\ UNCHANGED <<mine, stacked>>
  BY DEF Stop, books, git, run, Made
<1>2. pc' \in {"exit", "off"}
  BY DEF Stop
<1> QED BY <1>1, <1>2, ExitKeeps

LEMMA BeginKeeps ==
  ASSUME RInv, pc = "off", Begin, ckpt.phase # "merged", UNCHANGED Made, UNCHANGED ckpt
  PROVE  RInv'
<1>1. pc' = "loop" /\ memo' = FALSE /\ mine' = FALSE /\ stacked' = FALSE /\ cur' = 0
  BY DEF Begin, Fresh
<1>2. PlaceOK'
  BY <1>1 DEF RInv, PlaceOK, AllSteps, KidSteps, AtPR, PRSteps, StackStep, Ending, Classic, IsLocal, IsStacked, Made
<1>3. OpenedOK'
  BY <1>1 DEF RInv, OpenedOK, KidSteps, Shipping, Waiting, InFlightKids, Made
<1>4. MergedOK'
  BY <1>1 DEF RInv, MergedOK, AtPR, IsStacked, Made
<1>5. ckpt' \in EpicRow
  BY DEF RInv, ShapeOK
<1> QED BY <1>1, <1>2, <1>3, <1>4, <1>5, MadeStays

LEMMA StartKeeps == ASSUME RInv, Start \/ Reattempt PROVE RInv'
BY BeginKeeps DEF Start, Reattempt, ResumableRelease, books, git, Made

LEMMA StampKeeps == ASSUME RInv, StampReleaseSpent PROVE RInv'
<1>1. /\ UNCHANGED Made /\ UNCHANGED <<pc, memo, mine, stacked, cur>>
      /\ pc = "off" /\ ckpt.phase = "releasing" /\ ckpt' = [ckpt EXCEPT !.mark = "faulted"]
  BY DEF StampReleaseSpent, ResumableRelease, git, run, Made
<1>2. ckpt' \in EpicRow /\ ckpt'.phase = ckpt.phase
  BY <1>1 DEF RInv, ShapeOK, EpicRow
<1>3. PlaceOK'
  BY <1>1 DEF RInv, PlaceOK, AllSteps, KidSteps, AtPR, PRSteps, StackStep, Ending, Classic, IsLocal, IsStacked, Exists, Made
<1>4. OpenedOK'
  BY <1>1, <1>2 DEF RInv, OpenedOK, KidSteps, Shipping, Waiting, InFlightKids, Made
<1>5. MergedOK'
  BY <1>1, <1>2 DEF RInv, MergedOK, AtPR, IsStacked, Made
<1>6. ckpt.phase # None
  BY <1>1 DEF None
<1> QED BY <1>1, <1>2, <1>3, <1>4, <1>5, <1>6, MadeStays

\* A move from one step to the next, of the same kind or a later one.
LEMMA MoveKeeps ==
  ASSUME RInv, UNCHANGED Made, UNCHANGED <<ckpt, memo, mine, stacked>>,
         pc \notin Ending, pc' \in AllSteps \ {"check", "release", "resolve", "cut"},
         cur' = cur \/ cur' \in Kids \/ pc' \notin KidSteps,
         pc' \in {"build", "kidpr"} => kid[cur'].phase = "building",
         pc' \in KidSteps => pc \in KidSteps \/ (cur' \in Kids /\ ckpt.phase = None),
         pc' \in PRSteps => pc \in PRSteps,
         pc' \in AtPR => pc \in AtPR,
         pc' \in StackStep => IsStacked,
         pc' \in {"base", "branch"} => ~IsStacked,
         pc' # "land",
         pc' \in Shipping \cup Waiting \cup {"merged", "close", "review", "handoff"}
           => pc \in Shipping \cup Waiting \cup {"review"},
         pc' = "kiddone" => IsStacked \/ cur' \in Delivered,
         pc' = "merged" => IsStacked \/ finished \subseteq shipped
  PROVE  RInv'
<1>1. PlaceOK'
  BY DEF RInv, PlaceOK, AllSteps, KidSteps, AtPR, PRSteps, StackStep, Ending, Classic, IsLocal, IsStacked, Exists, Made
<1>2. OpenedOK'
  BY DEF RInv, OpenedOK, KidSteps, Shipping, Waiting, InFlightKids, Made
<1>3. ckpt.phase # "merged"
  BY DEF RInv, MergedOK, Ending
<1>4. MergedOK'
  BY <1>3 DEF RInv, MergedOK, AtPR, IsStacked, Made, LastPR
<1>5. ckpt' \in EpicRow
  BY DEF RInv, ShapeOK
<1> QED BY <1>1, <1>2, <1>4, <1>5, MadeStays

LEMMA GiveUpOnKeeps == ASSUME RInv, pc \in KidSteps, GiveUpOn(cur) PROVE RInv'
<1>1. /\ pc' = "loop" /\ kid' = [kid EXCEPT ![cur].phase = "quarantined"]
      /\ UNCHANGED <<setup, ckpt, base, local, remote, prs, shipped, finished, memo, mine, stacked, cur>>
  BY DEF GiveUpOn, Step, Keep, git, run
<1>2. cur \in Kids /\ DOMAIN kid = Kids /\ \A k \in Kids : IsKid(kid[k])
  BY DEF RInv, PlaceOK, ShapeOK
<1>3. /\ DOMAIN kid' = Kids /\ kid'[cur] = [kid[cur] EXCEPT !.phase = "quarantined"]
      /\ \A k \in Kids \ {cur} : kid'[k] = kid[k]
  BY <1>1, <1>2
<1>4. /\ IsKid(kid'[cur]) /\ kid'[cur].phase = "quarantined" /\ kid'[cur].issue = kid[cur].issue
      /\ kid'[cur].done = kid[cur].done /\ kid'[cur].pin = kid[cur].pin /\ kid'[cur].pr = kid[cur].pr
  BY <1>2, <1>3 DEF IsKid
<1>5. ShapeOK'
  BY <1>1, <1>2, <1>3, <1>4 DEF RInv, ShapeOK
<1>6. PlaceOK'
  BY <1>1, <1>3, <1>4 DEF RInv, PlaceOK, AllSteps, KidSteps, AtPR, PRSteps, StackStep, Ending, Classic, IsLocal, IsStacked, Exists
<1>7. OpenedOK'
  BY <1>1, <1>3, <1>4, PhasesIs DEF RInv, OpenedOK, KidSteps, Shipping, Waiting
<1>8. SliceOK'
  BY <1>1, <1>3, <1>4 DEF RInv, SliceOK, Classic, IsLocal, IsStacked, Exists
<1>9. DeliveredOK'
  BY <1>1, <1>3, <1>4 DEF RInv, DeliveredOK, Delivered, IsLocal, IsStacked
<1>10. MineOK'
  BY <1>1, <1>3, <1>4 DEF RInv, MineOK, Classic, IsLocal, IsStacked, Exists
<1>11. MergedOK'
  BY <1>1 DEF RInv, MergedOK, OpenedOK, AtPR, None
<1> QED BY <1>5, <1>6, <1>7, <1>8, <1>9, <1>10, <1>11 DEF RInv

-----------------------------------------------------------------------------
(* The loop over the children.                                             *)

LEMMA LoopKeeps == ASSUME RInv, Loop PROVE RInv'
<1>1. pc = "loop" /\ UNCHANGED Made /\ UNCHANGED <<ckpt, memo, mine, stacked>>
  BY DEF Loop, Keep, books, git, Made
<1>2. \/ pc' = "check" /\ InFlightKids = {}
      \/ /\ pc' \in {"build", "kidgate", "base"} /\ cur' \in Kids /\ ckpt.phase = None
         /\ pc' = "base" => ~IsStacked
         /\ pc' = "build" => kid[cur'].phase = "building"
      \/ /\ pc' \in {"cut", "resolve"} /\ cur' \in Kids /\ InFlightKids = {} /\ ckpt.phase = None
         /\ pc' = (IF IsStacked THEN "cut" ELSE "resolve")
  <2>1. ResumableRelease(ckpt) => ckpt.phase # None
    BY DEF ResumableRelease, None
  <2>2. ckpt.phase # None => InFlightKids = {} /\ Eligible = {}
    BY DEF RInv, OpenedOK, InFlightKids, Eligible
  <2>3. \/ pc' = "check" /\ (ResumableRelease(ckpt) \/ InFlightKids = {})
        \/ /\ \E k \in InFlightKids : cur' = k
           /\ pc' \in {"build", "kidgate", "base"} /\ (pc' = "base" => ~IsStacked)
           /\ pc' = "build" => kid[cur'].phase = "building"
        \/ /\ InFlightKids = {} /\ Eligible # {} /\ cur' \in Eligible
           /\ pc' = (IF IsStacked THEN "cut" ELSE "resolve")
    BY DEF Loop, Step
  <2> QED BY <2>1, <2>2, <2>3 DEF InFlightKids, Eligible
<1>3. CASE /\ pc' \in {"build", "kidgate", "base"} /\ cur' \in Kids /\ ckpt.phase = None
           /\ pc' = "base" => ~IsStacked
           /\ pc' = "build" => kid[cur'].phase = "building"
  BY <1>1, <1>3, MoveKeeps DEF Ending, AllSteps, KidSteps, PRSteps, AtPR, StackStep, Shipping, Waiting
<1>4. CASE \/ pc' = "check" /\ InFlightKids = {}
           \/ /\ pc' \in {"cut", "resolve"} /\ cur' \in Kids /\ InFlightKids = {} /\ ckpt.phase = None
              /\ pc' = (IF IsStacked THEN "cut" ELSE "resolve")
  <2>1. PlaceOK'
    BY <1>1, <1>4 DEF RInv, PlaceOK, AllSteps, KidSteps, AtPR, PRSteps, StackStep, Ending, Classic, IsLocal, IsStacked, Exists, Made
  <2>2. OpenedOK'
    BY <1>1, <1>4 DEF RInv, OpenedOK, KidSteps, Shipping, Waiting, InFlightKids, Made
  <2>3. MergedOK'
    BY <1>1, <1>4 DEF RInv, MergedOK, AtPR, IsStacked, Made
  <2>4. ckpt' \in EpicRow /\ pc' # "kiddone"
    BY <1>1, <1>4 DEF RInv, ShapeOK
  <2> QED BY <1>1, <2>1, <2>2, <2>3, <2>4, MadeStays
<1> QED BY <1>2, <1>3, <1>4

\* An epic branch is found, taken from the remote, or cut from the base.
LEMMA EpicBranchKeeps ==
  ASSUME RInv, ~IsStacked, NEW next, NEW orelse, EpicBranchName(next, orelse),
         \/ pc = "resolve" /\ next = "cut" /\ orelse = "exit"
         \/ pc = "base" /\ next = "kidpr" /\ orelse = "exit" /\ kid[cur].phase = "building"
         \/ pc = "base" /\ next = "kidgate" /\ orelse = "kidgate"
         \/ pc = "branch" /\ next = (IF IsLocal THEN "land" ELSE "sync") /\ orelse = "exit"
  PROVE  RInv'
<1>1. UNCHANGED <<setup, ckpt, kid, base, prs, shipped, finished, stacked, cur>>
  BY DEF EpicBranchName, Keep, books
<1>2. /\ IsRef(base) /\ IsRef(local) /\ IsRef(remote) /\ "root" \in base.rest /\ base.work = {}
      /\ Exists(base) /\ Within(base, base) /\ Within(local, local) /\ Within(remote, remote)
  BY RefIs DEF RInv, ShapeOK
<1>3. \/ /\ UNCHANGED <<local, remote, memo, mine>> /\ pc' = orelse
      \/ /\ memo' = TRUE /\ Exists(local') /\ pc' = next
         /\ \/ UNCHANGED <<local, remote, mine>>
            \/ ~IsLocal /\ ~Exists(local) /\ local' = remote /\ UNCHANGED <<remote, mine>>
            \/ /\ ~Exists(local) /\ (IsLocal \/ ~Exists(remote)) /\ local' = base
               /\ \/ remote' = remote /\ ~mine'
                  \/ ~IsLocal /\ remote' = base /\ mine'
  <2>1. memo /\ pc \notin Ending => Exists(local)
    BY DEF RInv, PlaceOK
  <2>2. pc \notin Ending
    BY DEF Ending
  <2> QED BY <1>2, <2>1, <2>2 DEF EpicBranchName, Step
<1>4. ShapeOK'
  BY <1>1, <1>2, <1>3 DEF RInv, ShapeOK
<1>5. PlaceOK'
  BY <1>1, <1>3 DEF RInv, PlaceOK, AllSteps, KidSteps, AtPR, PRSteps, StackStep, Ending, Classic, IsLocal, IsStacked
<1>6. OpenedOK'
  BY <1>1, <1>3 DEF RInv, OpenedOK, KidSteps, Shipping, Waiting, InFlightKids
<1>7. SliceOK'
  BY <1>1, <1>2, <1>3 DEF RInv, SliceOK, Classic, IsLocal, IsStacked, Exists
<1>8. DeliveredOK'
  BY <1>1, <1>2, <1>3, NoRefIs DEF RInv, DeliveredOK, Delivered, IsLocal, IsStacked, Exists
<1>9. MineOK'
  BY <1>1, <1>2, <1>3, NoRefIs DEF RInv, MineOK, Classic, IsLocal, IsStacked, Exists
<1>10. MergedOK'
  BY <1>1, <1>3 DEF RInv, MergedOK, AtPR, IsStacked, Exists
<1> QED BY <1>4, <1>5, <1>6, <1>7, <1>8, <1>9, <1>10 DEF RInv

LEMMA BranchesKeep == ASSUME RInv, Resolve \/ PRBase \/ Branch PROVE RInv'
<1>1. ~IsStacked
  BY DEF Resolve, PRBase, Branch, RInv, PlaceOK
<1> QED BY <1>1, EpicBranchKeeps DEF Resolve, PRBase, Branch

-----------------------------------------------------------------------------
(* A child, from the cut to its delivery.                                  *)

LEMMA CutSliceKeeps == ASSUME RInv, CutSlice PROVE RInv'
<1>1. pc = "cut" /\ cur \in Kids /\ ckpt.phase = None /\ InFlightKids = {}
  BY DEF CutSlice, RInv, PlaceOK, OpenedOK, KidSteps
<1>2. CASE Fails
  BY <1>2, FailsKeeps
<1>3. CASE /\ IF IsStacked \/ IsLocal THEN UNCHANGED <<local, remote>>
              ELSE \E after \in SyncEpicBest : local' = after[1] /\ remote' = after[2]
           /\ kid' = [kid EXCEPT ![cur].phase = "building", ![cur].pin = local',
                                 ![cur].below = IF IsStacked THEN Tip ELSE @]
           /\ stacked' = ~IsStacked
           /\ Step("build")
           /\ Keep /\ UNCHANGED <<ckpt, issue, base, prs, shipped, finished, memo, mine, cur, tries>>
  <2>1. /\ UNCHANGED <<setup, ckpt, base, prs, shipped, finished, memo, mine, cur>>
        /\ stacked' = ~IsStacked /\ pc' = "build"
    BY <1>3 DEF Step, Keep
  <2>2. ~IsStacked => Exists(local)
    BY <1>1 DEF RInv, PlaceOK, Ending
  <2>3. ckpt.phase = None /\ Classic /\ Exists(remote) => Within(local, remote)
    BY DEF RInv, SliceOK
  <2>4. /\ IsRef(local') /\ IsRef(remote')
        /\ IsLocal \/ IsStacked => UNCHANGED <<local, remote>>
        /\ Classic => /\ Exists(local') /\ Within(remote, remote') /\ (Exists(remote) => Exists(remote'))
                      /\ Exists(remote') => Within(local', remote')
                      /\ remote'.work = remote.work \/ remote'.work = local'.work
                      /\ local'.work \subseteq local.work \cup remote.work
    <3>1. CASE IsStacked \/ IsLocal
      BY <1>3, <3>1 DEF RInv, ShapeOK, Classic
    <3>2. CASE Classic
      <4>1. PICK after \in SyncEpicBest : local' = after[1] /\ remote' = after[2]
        BY <1>3, <3>2 DEF Classic
      <4>2. ShapeOK /\ Exists(local)
        BY <3>2, <2>2 DEF RInv, Classic
      <4> QED BY <1>1, <2>3, <3>2, <4>1, <4>2, SyncIs DEF Classic
    <3> QED BY <3>1, <3>2 DEF Classic
  <2>5. DOMAIN kid = Kids /\ \A k \in Kids : IsKid(kid[k])
    BY DEF RInv, ShapeOK
  <2> DEFINE b == IF IsStacked THEN Tip ELSE kid[cur].below
  <2>6. /\ DOMAIN kid' = Kids /\ \A k \in Kids \ {cur} : kid'[k] = kid[k]
        /\ kid'[cur] = [kid[cur] EXCEPT !.phase = "building", !.pin = local', !.below = b]
    BY <1>1, <1>3, <2>5
  <2> HIDE DEF b
  <2>7. /\ IsKid(kid'[cur]) /\ kid'[cur].phase = "building" /\ kid'[cur].issue = kid[cur].issue
        /\ kid'[cur].done = kid[cur].done /\ kid'[cur].pin = local' /\ kid'[cur].pr = kid[cur].pr
    BY <1>1, <2>4, <2>5, <2>6 DEF IsKid
  <2>8. /\ \A k \in Kids : /\ kid'[k].issue = kid[k].issue /\ kid'[k].done = kid[k].done
                            /\ kid'[k].pr = kid[k].pr
        /\ \A k \in Kids \ {cur} : kid'[k].phase = kid[k].phase /\ kid'[k].pin = kid[k].pin
        /\ kid'[cur].phase = "building" /\ kid'[cur].pin = local'
    BY <2>6, <2>7
  <2>9. ShapeOK'
    BY <2>1, <2>4, <2>6, <2>7 DEF RInv, ShapeOK
  <2>10. PlaceOK'
    BY <1>1, <2>1, <2>8, <2>4
       DEF RInv, PlaceOK, AllSteps, KidSteps, AtPR, PRSteps, StackStep, Ending, Classic, IsLocal, IsStacked, Exists
  <2>11. OpenedOK'
    BY <1>1, <2>1, <2>8 DEF RInv, OpenedOK, KidSteps, Shipping, Waiting
  <2>12. SliceOK'
    <3> SUFFICES ASSUME Classic
                 PROVE  /\ Exists(remote') => Within(local', remote')
                        /\ \A k \in Kids : kid'[k].phase = "building" =>
                             /\ Exists(kid'[k].pin)
                             /\ Within(kid'[k].pin, IF Exists(local') THEN local' ELSE base')
                             /\ Exists(remote') => Within(kid'[k].pin, remote')
      BY <2>1 DEF SliceOK, Classic, IsLocal, IsStacked, Exists
    <3>1. \A k \in Kids \ {cur} : kid'[k].phase # "building"
      BY <1>1, <2>8, PhasesIs DEF InFlightKids
    <3>2. Within(local', local')
      BY DEF Within
    <3> QED BY <2>4, <2>8, <3>1, <3>2
  <2>13. DeliveredOK'
    BY <2>1, <2>8, <2>4 DEF RInv, DeliveredOK, Delivered, Classic, IsLocal, IsStacked, Within
  <2>14. MineOK'
    BY <2>1, <2>8, <2>4 DEF RInv, MineOK, Classic, IsLocal, IsStacked, Exists
  <2>15. MergedOK'
    BY <1>1, <2>1 DEF MergedOK, AtPR, None
  <2> QED BY <2>9, <2>10, <2>11, <2>12, <2>13, <2>14, <2>15 DEF RInv
<1> QED BY <1>2, <1>3 DEF CutSlice

LEMMA BuildKeeps == ASSUME RInv, Build PROVE RInv'
<1>1. pc = "build" /\ ckpt.phase = None
  BY DEF Build, RInv, OpenedOK, KidSteps
<1>2. CASE Step(IF IsStacked THEN "kidpr" ELSE "base") /\ Keep /\ UNCHANGED <<books, git, finished, run>>
  <2>1. UNCHANGED Made /\ UNCHANGED <<ckpt, memo, mine, stacked, cur>>
    BY <1>2 DEF Keep, books, git, run, Made
  <2>2. pc' \in {"kidpr", "base"} /\ (pc' = "base" => ~IsStacked)
    BY <1>2 DEF Step
  <2>3. kid[cur].phase = "building"
    BY <1>1 DEF RInv, PlaceOK
  <2> QED BY <1>1, <2>1, <2>2, <2>3, MoveKeeps DEF Ending, AllSteps, KidSteps, PRSteps, AtPR, StackStep, Shipping, Waiting
<1> QED BY <1>1, <1>2, FailsKeeps, GiveUpOnKeeps DEF Build, KidSteps

LEMMA KidPRKeeps == ASSUME RInv, KidPR PROVE RInv'
<1>1. pc = "kidpr" /\ cur \in Kids /\ ckpt.phase = None
  BY DEF KidPR, RInv, PlaceOK, OpenedOK, KidSteps
<1>2. CASE Fails
  BY <1>2, FailsKeeps
<1>3. CASE /\ OpenKidPR
           /\ \/ /\ IsLocal \/ IsStacked \/ Within(kid[cur].pin, remote)
                 /\ UNCHANGED remote
              \/ /\ ~IsLocal /\ ~IsStacked
                 /\ Within(remote, local) /\ Within(kid[cur].pin, local)
                 /\ remote' = local
  <2>1. /\ UNCHANGED <<setup, ckpt, base, local, prs, shipped, finished, memo, mine, cur>>
        /\ pc' = "kidgate" /\ (Classic => stacked')
        /\ kid' = [kid EXCEPT ![cur].phase = "pr_open", ![cur].pr = IF IsLocal THEN @ ELSE "open"]
    BY <1>3 DEF OpenKidPR, Step, Keep, Classic
  <2>2. DOMAIN kid = Kids /\ \A k \in Kids : IsKid(kid[k])
    BY DEF RInv, ShapeOK
  <2> DEFINE p == IF IsLocal THEN kid[cur].pr ELSE "open"
  <2>3. /\ DOMAIN kid' = Kids /\ \A k \in Kids \ {cur} : kid'[k] = kid[k]
        /\ kid'[cur] = [kid[cur] EXCEPT !.phase = "pr_open", !.pr = p]
    BY <1>1, <2>1, <2>2
  <2>4. p = "open" \/ (IsLocal /\ p = kid[cur].pr)
    OBVIOUS
  <2> HIDE DEF p
  <2>5. /\ IsKid(kid'[cur]) /\ kid'[cur].phase = "pr_open" /\ kid'[cur].issue = kid[cur].issue
        /\ kid'[cur].done = kid[cur].done /\ kid'[cur].pin = kid[cur].pin /\ kid'[cur].pr = p
    BY <1>1, <2>2, <2>3 DEF IsKid
  <2>6. IsRef(remote) /\ IsRef(local) /\ IsRef(kid[cur].pin)
    BY <1>1 DEF RInv, ShapeOK, IsKid
  <2>7. /\ IsRef(remote') /\ Within(remote, remote') /\ (Exists(remote) => Exists(remote'))
        /\ ~Classic => UNCHANGED remote
        /\ remote' = remote \/ (Within(remote, local) /\ remote' = local)
    <3>1. Within(remote, remote)
      BY <2>6, RefIs
    <3>2. Within(remote, local) /\ Exists(remote) => Exists(local)
      BY <2>6, RefIs DEF Within
    <3> QED BY <1>3, <2>6, <3>1, <3>2 DEF Classic
  <2>8. ShapeOK'
    BY <2>1, <2>3, <2>5, <2>7 DEF RInv, ShapeOK
  <2>9. PlaceOK'
    BY <1>1, <2>1, <2>3, <2>4, <2>5, <2>7
       DEF RInv, PlaceOK, AllSteps, KidSteps, AtPR, PRSteps, StackStep, Ending, Classic, IsLocal, IsStacked, Exists
  <2>10. OpenedOK'
    BY <1>1, <2>1, <2>3, <2>5 DEF RInv, OpenedOK, KidSteps, Shipping, Waiting
  <2>11. SliceOK'
    <3> SUFFICES ASSUME Classic
                 PROVE  /\ Exists(remote') => Within(local, remote')
                        /\ \A k \in Kids \ {cur} : kid[k].phase = "building" =>
                             /\ Exists(kid[k].pin)
                             /\ Within(kid[k].pin, IF Exists(local) THEN local ELSE base)
                             /\ Exists(remote') => Within(kid[k].pin, remote')
      BY <2>1, <2>3, <2>5 DEF SliceOK, Classic, IsLocal, IsStacked, Exists
    <3>1. Within(local, local)
      BY DEF Within
    <3>2. \A k \in Kids : kid[k].phase = "building" => Exists(kid[k].pin) /\ IsRef(kid[k].pin)
      BY <2>2 DEF RInv, SliceOK, IsKid
    <3>3. CASE remote' = remote
      BY <1>1, <3>3 DEF RInv, SliceOK
    <3>4. CASE remote' = local
      BY <1>1, <3>1, <3>4 DEF RInv, SliceOK
    <3> QED BY <2>7, <3>3, <3>4
  <2>12. DeliveredOK'
    BY <2>1, <2>3, <2>4, <2>5, <2>7 DEF RInv, DeliveredOK, PlaceOK, Delivered, Classic, IsLocal, IsStacked, Within
  <2>13. MineOK'
    <3> SUFFICES ASSUME Classic
                 PROVE  Exists(remote')
      BY <2>1, <2>3, <2>5 DEF MineOK, Classic, IsLocal, IsStacked, Exists
    <3>1. Exists(kid[cur].pin) /\ Within(kid[cur].pin, remote')
      <4>1. Exists(kid[cur].pin)
        BY <1>1 DEF RInv, PlaceOK, SliceOK
      <4>2. (Within(kid[cur].pin, local) /\ remote' = local) \/ Within(kid[cur].pin, remote')
        BY <1>3, <4>1 DEF Classic
      <4> QED BY <4>1, <4>2
    <3> QED BY <2>6, <2>7, <3>1, RefIs DEF Within
  <2>14. MergedOK'
    BY <1>1, <2>1 DEF MergedOK, AtPR, None
  <2> QED BY <2>8, <2>9, <2>10, <2>11, <2>12, <2>13, <2>14 DEF RInv
<1> QED BY <1>2, <1>3 DEF KidPR

LEMMA KidGateKeeps == ASSUME RInv, KidGate PROVE RInv'
<1>1. pc = "kidgate" /\ cur \in Kids /\ ckpt.phase = None
  BY DEF KidGate, RInv, PlaceOK, OpenedOK, KidSteps
<1>2. CASE GiveUpOn(cur)
  BY <1>1, <1>2, GiveUpOnKeeps DEF KidSteps
<1>3. CASE /\ kid[cur].pr = "merged" \/ (IsStacked /\ kid[cur].pr = "open")
           /\ Step("kiddone") /\ Keep /\ UNCHANGED <<books, git, finished, run>>
  <2>1. UNCHANGED Made /\ UNCHANGED <<ckpt, memo, mine, stacked, cur>> /\ pc' = "kiddone"
    BY <1>3 DEF Step, Keep, books, git, run, Made
  <2>2. IsStacked \/ cur \in Delivered
    BY <1>1, <1>3 DEF RInv, DeliveredOK
  <2> QED BY <1>1, <2>1, <2>2, MoveKeeps DEF Ending, AllSteps, KidSteps, PRSteps, AtPR, StackStep, Shipping, Waiting
<1>4. CASE Step("kidmerge") /\ Keep /\ UNCHANGED <<books, git, finished, run>>
  <2>1. UNCHANGED Made /\ UNCHANGED <<ckpt, memo, mine, stacked, cur>> /\ pc' = "kidmerge"
    BY <1>4 DEF Step, Keep, books, git, run, Made
  <2> QED BY <1>1, <2>1, MoveKeeps DEF Ending, AllSteps, KidSteps, PRSteps, AtPR, StackStep, Shipping, Waiting
<1> QED BY <1>2, <1>3, <1>4 DEF KidGate

LEMMA KidMergeKeeps == ASSUME RInv, KidMerge PROVE RInv'
<1>1. pc = "kidmerge" /\ cur \in Kids /\ ckpt.phase = None
  BY DEF KidMerge, RInv, PlaceOK, OpenedOK, KidSteps
<1>2. CASE GiveUpOn(cur)
  BY <1>1, <1>2, GiveUpOnKeeps DEF KidSteps
<1>3. CASE Fails
  BY <1>3, FailsKeeps
<1>4. CASE /\ kid[cur].pr = "merged"
           /\ Step("kiddone") /\ Keep /\ UNCHANGED <<books, git, finished, run>>
  <2>1. UNCHANGED Made /\ UNCHANGED <<ckpt, memo, mine, stacked, cur>> /\ pc' = "kiddone"
    BY <1>4 DEF Step, Keep, books, git, run, Made
  <2>2. IsStacked \/ cur \in Delivered
    BY <1>1, <1>4 DEF RInv, DeliveredOK
  <2> QED BY <1>1, <2>1, <2>2, MoveKeeps DEF Ending, AllSteps, KidSteps, PRSteps, AtPR, StackStep, Shipping, Waiting
<1>5. CASE /\ IF IsLocal THEN cur \notin local.work /\ Exists(local) ELSE kid[cur].pr = "open" /\ Exists(remote)
           /\ local'  = IF IsLocal THEN Has(local) ELSE local
           /\ remote' = IF IsLocal THEN remote ELSE Has(remote)
           /\ kid' = [kid EXCEPT ![cur].pr = IF IsLocal THEN @ ELSE "merged"]
           /\ Step("kiddone")
           /\ Keep /\ UNCHANGED <<ckpt, issue, base, prs, shipped, finished, run>>
  <2>1. UNCHANGED <<setup, ckpt, base, prs, shipped, finished, memo, mine, stacked, cur>> /\ pc' = "kiddone"
    BY <1>5 DEF Step, Keep, run
  <2>2. /\ DOMAIN kid = Kids /\ \A k \in Kids : IsKid(kid[k])
        /\ IsRef(local) /\ IsRef(remote) /\ Within(local, local) /\ Within(remote, remote)
    BY RefIs DEF RInv, ShapeOK
  <2> DEFINE p == IF IsLocal THEN kid[cur].pr ELSE "merged"
  <2>3. /\ DOMAIN kid' = Kids /\ \A k \in Kids \ {cur} : kid'[k] = kid[k]
        /\ kid'[cur] = [kid[cur] EXCEPT !.pr = p]
    BY <1>1, <1>5, <2>2
  <2>4. (p = "merged" /\ ~IsLocal) \/ (IsLocal /\ p = kid[cur].pr)
    OBVIOUS
  <2> HIDE DEF p
  <2>5. /\ IsKid(kid'[cur]) /\ kid'[cur].phase = kid[cur].phase /\ kid'[cur].issue = kid[cur].issue
        /\ kid'[cur].done = kid[cur].done /\ kid'[cur].pin = kid[cur].pin /\ kid'[cur].pr = p
    BY <1>1, <2>2, <2>3 DEF IsKid
  <2>6. IsLocal => /\ IsRef(local') /\ Exists(local') /\ Within(local, local') /\ remote' = remote
                   /\ local'.work = local.work \cup {cur}
    BY <1>5, <2>2, WorkAdded DEF Has
  <2>7. ~IsLocal => /\ IsRef(remote') /\ Exists(remote') /\ Within(remote, remote') /\ local' = local
                    /\ remote'.work = remote.work \cup {cur} /\ kid[cur].pr = "open" /\ Exists(remote)
    BY <1>5, <2>2, WorkAdded DEF Has
  <2>8. /\ \A k \in Kids : /\ kid'[k].issue = kid[k].issue /\ kid'[k].done = kid[k].done
                            /\ kid'[k].phase = kid[k].phase /\ kid'[k].pin = kid[k].pin
        /\ \A k \in Kids \ {cur} : kid'[k].pr = kid[k].pr
        /\ IsLocal => kid'[cur].pr = kid[cur].pr
        /\ ~IsLocal => kid'[cur].pr = "merged"
    BY <2>3, <2>4, <2>5
  <2>9. ShapeOK'
    BY <1>1, <2>1, <2>2, <2>3, <2>5, <2>6, <2>7 DEF RInv, ShapeOK
  <2>10. PlaceOK'
    BY <1>1, <2>1, <2>8, <2>6, <2>7
       DEF RInv, PlaceOK, AllSteps, KidSteps, AtPR, PRSteps, StackStep, Ending, Classic, IsLocal, IsStacked, Exists
  <2>11. OpenedOK'
    BY <1>1, <2>1, <2>8 DEF RInv, OpenedOK, KidSteps, Shipping, Waiting
  <2>12. SliceOK'
    <3> SUFFICES ASSUME Classic
                 PROVE  /\ Exists(remote') => Within(local, remote')
                        /\ \A k \in Kids : kid[k].phase = "building" =>
                             /\ Exists(kid[k].pin)
                             /\ Within(kid[k].pin, IF Exists(local) THEN local ELSE base)
                             /\ Exists(remote') => Within(kid[k].pin, remote')
      BY <2>1, <2>8, <2>7 DEF SliceOK, Classic, IsLocal, IsStacked, Exists
    <3>1. Exists(remote) /\ Within(remote, remote')
      BY <2>7 DEF Classic
    <3> QED BY <1>1, <3>1, WithinTrans DEF RInv, SliceOK
  <2>13. DeliveredOK'
    BY <1>1, <2>1, <2>8, <2>6, <2>7 DEF RInv, DeliveredOK, Delivered, IsLocal, IsStacked
  <2>14. MineOK'
    BY <1>1, <2>1, <2>8, <2>7 DEF RInv, MineOK, Classic, IsLocal, IsStacked, Exists
  <2>15. MergedOK'
    BY <1>1, <2>1 DEF MergedOK, AtPR, None
  <2> QED BY <2>9, <2>10, <2>11, <2>12, <2>13, <2>14, <2>15 DEF RInv
<1> QED BY <1>2, <1>3, <1>4, <1>5 DEF KidMerge

LEMMA KidDoneKeeps == ASSUME RInv, KidDone PROVE RInv'
<1>1. pc = "kiddone" /\ cur \in Kids /\ ckpt.phase = None
  BY DEF KidDone, RInv, PlaceOK, OpenedOK, KidSteps
<1>2. /\ UNCHANGED <<setup, ckpt, base, local, remote, prs, shipped, memo, mine, stacked, cur>>
      /\ pc' = "loop" /\ finished' = finished \cup {cur}
  BY DEF KidDone, Step, Keep, git, run
<1>3. PICK told \in BOOLEAN :
        kid' = [kid EXCEPT ![cur].phase = "merged", ![cur].done = @ \/ told,
                           ![cur].issue = IF told THEN "closed" ELSE @]
  BY DEF KidDone
<1>4. DOMAIN kid = Kids /\ \A k \in Kids : IsKid(kid[k])
  BY DEF RInv, ShapeOK
<1> DEFINE d == kid[cur].done \/ told
           i == IF told THEN "closed" ELSE kid[cur].issue
<1>5. /\ DOMAIN kid' = Kids /\ \A k \in Kids \ {cur} : kid'[k] = kid[k]
      /\ kid'[cur] = [kid[cur] EXCEPT !.phase = "merged", !.done = d, !.issue = i]
  BY <1>1, <1>3, <1>4
<1>6. d => kid[cur].done \/ i = "closed"
  OBVIOUS
<1>7. i = "closed" \/ i = kid[cur].issue
  OBVIOUS
<1> HIDE DEF d, i
<1>8. kid'[cur] = [issue |-> i, phase |-> "merged", done |-> d, pin |-> kid[cur].pin, below |-> kid[cur].below,
                   pr |-> kid[cur].pr]
  BY <1>1, <1>4, <1>5 DEF IsKid
<1>9. /\ IsKid(kid'[cur]) /\ kid'[cur].phase = "merged" /\ kid'[cur].issue = i
      /\ kid'[cur].pin = kid[cur].pin /\ kid'[cur].pr = kid[cur].pr
  BY <1>1, <1>4, <1>8 DEF IsKid
<1>10. kid'[cur].done = d
  BY <1>8
<1>11. /\ \A k \in Kids : kid'[k].pin = kid[k].pin /\ kid'[k].pr = kid[k].pr
       /\ \A k \in Kids \ {cur} : kid'[k].phase = kid[k].phase
       /\ kid'[cur].phase = "merged"
  BY <1>5, <1>9
<1>12. ShapeOK'
  BY <1>2, <1>4, <1>5, <1>9 DEF RInv, ShapeOK
<1>13. PlaceOK'
  BY <1>1, <1>2, <1>11
     DEF RInv, PlaceOK, AllSteps, KidSteps, AtPR, PRSteps, StackStep, Ending, Classic, IsLocal, IsStacked, Exists
<1>14. OpenedOK'
  <2>1. \A k \in Kids : kid'[k].done => kid'[k].issue # "open"
    BY <1>5, <1>6, <1>7, <1>9, <1>10 DEF RInv, OpenedOK
  <2> QED BY <1>1, <1>2, <2>1 DEF OpenedOK, KidSteps, Shipping, Waiting
<1>15. SliceOK'
  <2>1. \A k \in Kids : kid'[k].phase = "building" => kid[k].phase = "building" /\ kid'[k].pin = kid[k].pin
    BY <1>11
  <2> QED BY <1>2, <2>1 DEF RInv, SliceOK, Classic, IsLocal, IsStacked, Exists
<1>16. DeliveredOK'
  BY <1>1, <1>2, <1>11 DEF RInv, DeliveredOK, Delivered, IsLocal, IsStacked
<1>17. MineOK'
  BY <1>1, <1>2, <1>11 DEF RInv, MineOK, Classic, IsLocal, IsStacked, Exists
<1>18. MergedOK'
  BY <1>1, <1>2 DEF MergedOK, AtPR, None
<1> QED BY <1>12, <1>13, <1>14, <1>15, <1>16, <1>17, <1>18 DEF RInv

LEMMA CheckKeeps == ASSUME RInv, Check PROVE RInv'
<1>1. pc = "check"
  BY DEF Check
<1>2. CASE Fails
  BY <1>2, FailsKeeps
<1>3. CASE /\ OpenSubIssues = {}
           /\ kid' \in {[k \in Kids |-> [kid[k] EXCEPT !.issue = "closed"]]}
                       \cup (IF "tracker" \in Troubles THEN {kid} ELSE {})
           /\ Step("release")
           /\ Keep /\ UNCHANGED <<ckpt, issue, git, finished, run>>
  <2>1. /\ UNCHANGED <<setup, ckpt, base, local, remote, prs, shipped, finished, memo, mine, stacked, cur>>
        /\ pc' = "release"
    BY <1>3 DEF Step, Keep, git, run
  <2>2. DOMAIN kid = Kids /\ \A k \in Kids : IsKid(kid[k])
    BY DEF RInv, ShapeOK
  <2>3. \/ kid' = kid
        \/ kid' = [k \in Kids |-> [kid[k] EXCEPT !.issue = "closed"]]
    BY <1>3
  <2>4. /\ DOMAIN kid' = Kids
        /\ \A k \in Kids : kid'[k] = kid[k] \/ kid'[k] = [kid[k] EXCEPT !.issue = "closed"]
    BY <2>2, <2>3
  <2>5. \A k \in Kids :
          /\ IsKid(kid'[k]) /\ kid'[k].phase = kid[k].phase /\ kid'[k].done = kid[k].done
          /\ kid'[k].pin = kid[k].pin /\ kid'[k].pr = kid[k].pr
          /\ kid'[k].issue = kid[k].issue \/ kid'[k].issue = "closed"
    BY <2>2, <2>4 DEF IsKid
  <2>6. \A k \in Kids : kid[k].issue # "open" /\ ~InFlight(kid[k].phase)
    BY <1>1, <1>3 DEF RInv, OpenedOK, OpenSubIssues, DeliveredByTrau, InFlightKids
  <2>7. ShapeOK'
    BY <2>1, <2>4, <2>5 DEF RInv, ShapeOK
  <2>8. PlaceOK'
    BY <1>1, <2>1, <2>5
       DEF RInv, PlaceOK, AllSteps, KidSteps, AtPR, PRSteps, StackStep, Ending, Classic, IsLocal, IsStacked, Exists
  <2>9. OpenedOK'
    BY <2>1, <2>5, <2>6 DEF OpenedOK, KidSteps, Shipping, Waiting
  <2>10. SliceOK'
    BY <2>1, <2>5 DEF RInv, SliceOK, Classic, IsLocal, IsStacked, Exists
  <2>11. DeliveredOK'
    BY <2>1, <2>5 DEF RInv, DeliveredOK, Delivered, IsLocal, IsStacked
  <2>12. MineOK'
    BY <2>1, <2>5 DEF RInv, MineOK, Classic, IsLocal, IsStacked, Exists
  <2>13. MergedOK'
    BY <1>1, <2>1 DEF RInv, MergedOK, AtPR, IsStacked
  <2> QED BY <2>7, <2>8, <2>9, <2>10, <2>11, <2>12, <2>13 DEF RInv
<1> QED BY <1>2, <1>3 DEF Check

LEMMA OpensKeeps == ASSUME RInv, CheckpointEpicReleasing PROVE RInv'
<1>1. /\ pc = "release" /\ UNCHANGED Made /\ UNCHANGED <<memo, mine, stacked>>
      /\ pc' = IF IsStacked THEN "layers" ELSE "branch"
      /\ ckpt' = IF ckpt.phase = "merged" THEN ckpt ELSE [ckpt EXCEPT !.phase = "releasing", !.release = "active"]
  BY DEF CheckpointEpicReleasing, Step, Keep, git, Made
<1>2. ckpt.phase # "merged" /\ ckpt \in EpicRow
  BY <1>1 DEF RInv, MergedOK, ShapeOK
<1>3. ckpt' \in EpicRow /\ ckpt'.phase = "releasing"
  BY <1>1, <1>2 DEF EpicRow
<1>4. PlaceOK'
  BY <1>1 DEF RInv, PlaceOK, AllSteps, KidSteps, AtPR, PRSteps, StackStep, Ending, Classic, IsLocal, IsStacked, Exists, Made
<1>5. OpenedOK'
  BY <1>1, <1>3 DEF RInv, OpenedOK, KidSteps, Shipping, Waiting, Made, None
<1>6. MergedOK'
  BY <1>1, <1>3 DEF MergedOK, AtPR
<1>7. pc' # "kiddone" /\ ckpt'.phase # None
  BY <1>1, <1>3 DEF None
<1> QED BY <1>1, <1>3, <1>4, <1>5, <1>6, <1>7, MadeStays

-----------------------------------------------------------------------------
(* The epic's PR.                                                          *)

\* With a release under way no child is in hand.
LEMMA UnderWay ==
  ASSUME RInv, pc \in Shipping \cup Waiting \cup {"merged", "close", "review", "handoff"}
  PROVE  ckpt.phase # None /\ \A k \in Kids : kid[k].phase # "building"
BY PhasesIs DEF RInv, OpenedOK

\* The branch grows, here and on the remote, while the PR is seen to.
LEMMA BranchGrows ==
  ASSUME RInv, pc \in PRSteps, UNCHANGED <<setup, ckpt, kid, base, shipped, finished, mine, stacked, memo, cur, prs>>,
         IsRef(local'), Exists(local'), IsRef(remote'), Within(remote, remote'),
         local'.work \subseteq local.work \cup remote.work,
         remote'.work \subseteq local.work \cup remote.work,
         pc' \in PRSteps, pc' \in AtPR => pc \in AtPR
  PROVE  RInv'
<1>1. ckpt.phase # None /\ (\A k \in Kids : kid[k].phase # "building") /\ Classic
  BY UnderWay DEF PRSteps, AtPR, Shipping, Waiting, RInv, PlaceOK
<1>2. Exists(remote) => Exists(remote')
  BY RefIs DEF RInv, ShapeOK, Within
<1>3. ShapeOK'
  BY DEF RInv, ShapeOK
<1>4. PlaceOK'
  BY <1>1 DEF RInv, PlaceOK, AllSteps, KidSteps, AtPR, PRSteps, StackStep, Ending, Classic, IsLocal, IsStacked, Exists
<1>5. OpenedOK'
  BY <1>1 DEF RInv, OpenedOK, KidSteps, PRSteps, AtPR
<1>6. SliceOK'
  BY <1>1 DEF SliceOK
<1>7. DeliveredOK'
  BY <1>1 DEF RInv, DeliveredOK, Delivered, Classic, IsLocal, IsStacked, Within, PRSteps, AtPR
<1>8. MineOK'
  BY <1>1, <1>2 DEF RInv, MineOK, Classic, IsLocal, IsStacked, Exists
<1>9. MergedOK'
  BY DEF RInv, MergedOK, AtPR, PRSteps, IsStacked, LastPR
<1> QED BY <1>3, <1>4, <1>5, <1>6, <1>7, <1>8, <1>9 DEF RInv

LEMMA SyncKeeps == ASSUME RInv, SyncForMerge PROVE RInv'
<1>1. CASE Fails
  BY <1>1, FailsKeeps
<1>2. ASSUME NEW pulled \in {Pulled} \cup (IF "remote" \in Troubles THEN {local} ELSE {}),
             /\ Exists(local)
             /\ \/ /\ local' \in MergedBase(pulled)
                   /\ remote' \in (IF Within(remote, local') THEN {local'} ELSE {remote})
                                  \cup (IF "remote" \in Troubles THEN {remote} ELSE {})
                   /\ Step("pr")
                \/ /\ "conflict" \in Troubles
                   /\ local' = pulled /\ UNCHANGED remote
                   /\ Step("conflicted")
             /\ Keep /\ UNCHANGED <<books, base, prs, shipped, finished, run>>
      PROVE  RInv'
  <2>1. /\ UNCHANGED <<setup, ckpt, kid, base, shipped, finished, mine, stacked, memo, cur, prs>>
        /\ pc' \in {"pr", "conflicted"}
    BY <1>2 DEF Keep, Step, books, run
  <2>2. /\ IsRef(local) /\ IsRef(remote) /\ Within(remote, remote) /\ Within(local, local) /\ ShapeOK
    BY RefIs DEF RInv, ShapeOK
  <2>3. pulled \in {local, remote} /\ IsRef(pulled) /\ Exists(pulled)
    BY <1>2, <2>2 DEF Pulled
  <2>4. /\ IsRef(local') /\ Exists(local')
        /\ local'.work = pulled.work
        /\ remote' = remote \/ (Within(remote, local') /\ remote' = local')
    <3>1. CASE local' \in MergedBase(pulled)
      <4>1. IsRef(local') /\ Exists(local') /\ local'.work = pulled.work
        BY <2>2, <2>3, <3>1, MergedBaseIs
      <4> QED BY <1>2, <4>1
    <3>2. CASE local' = pulled /\ UNCHANGED remote
      BY <2>3, <3>2
    <3> QED BY <1>2, <3>1, <3>2
  <2>5. /\ IsRef(remote') /\ Within(remote, remote')
        /\ local'.work \subseteq local.work \cup remote.work
        /\ remote'.work \subseteq local.work \cup remote.work
    BY <2>2, <2>3, <2>4
  <2> QED BY <2>1, <2>4, <2>5, BranchGrows DEF SyncForMerge, PRSteps, AtPR
<1> QED BY <1>1, <1>2 DEF SyncForMerge

LEMMA RepairKeeps == ASSUME RInv, RepairEpic PROVE RInv'
<1>1. CASE Fails
  BY <1>1, FailsKeeps
<1>2. CASE /\ Exists(local)
           /\ tries' = tries + 1
           /\ local' = Plus(local, "fix")
           /\ remote' \in (IF Within(remote, local') THEN {local'} ELSE {remote})
                          \cup (IF "remote" \in Troubles THEN {remote} ELSE {})
           /\ Step("poll")
           /\ Keep /\ UNCHANGED <<books, base, prs, shipped, finished, memo, mine, stacked, cur>>
  <2>1. /\ UNCHANGED <<setup, ckpt, kid, base, shipped, finished, mine, stacked, memo, cur, prs>>
        /\ pc = "repair" /\ pc' = "poll"
    BY <1>2 DEF Keep, Step, books, RepairEpic
  <2>2. IsRef(local) /\ IsRef(remote) /\ Within(remote, remote)
    BY RefIs DEF RInv, ShapeOK
  <2>3. IsRef(local') /\ Exists(local') /\ local'.work = local.work
    BY <1>2, <2>2, PlusIs
  <2>4. /\ IsRef(remote') /\ Within(remote, remote')
        /\ remote'.work \subseteq local.work \cup remote.work
    BY <1>2, <2>2, <2>3
  <2> QED BY <2>1, <2>3, <2>4, BranchGrows DEF PRSteps, AtPR
<1> QED BY <1>1, <1>2 DEF RepairEpic

\* The PRs change, and nothing else of what the run has made.
LEMMA PRsKeep ==
  ASSUME RInv, pc \in PRSteps, UNCHANGED <<setup, kid, base, local, remote, shipped, finished, memo, mine, stacked, cur>>,
         ckpt' \in EpicRow, ckpt'.phase # None, ckpt'.phase # "merged",
         prs' \in Seq(PRState), pc' \in AtPR \cup {"exit", "review"},
         pc' \in AtPR => prs' # <<>> /\ (prs'[LastPR'] = "merged" => finished \subseteq shipped)
  PROVE  RInv'
<1>1. ckpt.phase # None /\ (\A k \in Kids : kid[k].phase # "building") /\ Classic
  BY UnderWay DEF PRSteps, AtPR, Shipping, Waiting, RInv, PlaceOK
<1>2. ShapeOK'
  BY DEF RInv, ShapeOK
<1>3. PlaceOK'
  BY <1>1 DEF RInv, PlaceOK, AllSteps, KidSteps, AtPR, PRSteps, StackStep, Ending, Classic, IsLocal, IsStacked, Exists
<1>4. OpenedOK'
  BY <1>1 DEF RInv, OpenedOK, KidSteps, AtPR, None
<1>5. SliceOK'
  BY <1>1 DEF SliceOK
<1>6. DeliveredOK'
  BY <1>1 DEF RInv, DeliveredOK, Delivered, Classic, IsLocal, IsStacked, AtPR
<1>7. MineOK'
  BY <1>1 DEF RInv, MineOK, Classic, IsLocal, IsStacked, Exists
<1>8. MergedOK'
  BY DEF MergedOK, AtPR
<1> QED BY <1>2, <1>3, <1>4, <1>5, <1>6, <1>7, <1>8 DEF RInv

LEMMA Unmerged ==
  ASSUME RInv, pc \in PRSteps
  PROVE  /\ ckpt.phase # None /\ ckpt.phase # "merged" /\ ckpt \in EpicRow /\ Classic
         /\ prs \in Seq(PRState)
BY UnderWay DEF RInv, ShapeOK, PlaceOK, MergedOK, PRSteps, AtPR, Shipping, Waiting

LEMMA EnsureKeeps == ASSUME RInv, EnsureEpicPR PROVE RInv'
<1>1. pc \in PRSteps
  BY DEF EnsureEpicPR, PRSteps
<1>2. CASE Fails
  BY <1>2, FailsKeeps
<1>3. CASE /\ Adoptable \/ Creatable
           /\ prs' = IF Adoptable THEN prs ELSE Append(prs, "open")
           /\ IF pc = "pr"
              THEN Step("gate") /\ UNCHANGED ckpt
              ELSE Step("exit") /\ ckpt' = [ckpt EXCEPT !.release = "awaiting-human"]
           /\ Keep /\ UNCHANGED <<issue, kid, base, local, remote, shipped, finished, run>>
  <2>1. UNCHANGED <<setup, kid, base, local, remote, shipped, finished, memo, mine, stacked, cur>>
    BY <1>3 DEF Keep, run
  <2>2. pc' \in {"gate", "exit"} /\ ckpt' \in EpicRow /\ ckpt'.phase # None /\ ckpt'.phase # "merged"
    BY <1>1, <1>3, Unmerged DEF Step, EpicRow
  <2>3. prs' \in Seq(PRState) /\ prs' # <<>> /\ (prs'[LastPR'] = "merged" => finished \subseteq shipped)
    <3>1. CASE Adoptable
      <4>1. prs' = prs /\ prs \in Seq(PRState)
        BY <1>1, <1>3, <3>1, Unmerged
      <4>2. prs # <<>>
        BY <3>1, <4>1 DEF Adoptable, OpenPR, LastPR
      <4>3. CASE OpenPR
        BY <4>1, <4>2, <4>3 DEF OpenPR, LastPR
      <4>4. CASE Nothing
        <5>1. remote.work = {}
          BY <4>4 DEF Nothing, Within, RInv, ShapeOK
        <5>2. finished \subseteq shipped
          BY <1>1, <5>1, Unmerged DEF RInv, DeliveredOK, Delivered, Classic
        <5> QED BY <4>1, <4>2, <5>2
      <4> QED BY <3>1, <4>3, <4>4 DEF Adoptable
    <3>2. CASE ~Adoptable
      <4>1. prs' = Append(prs, "open") /\ "open" \in PRState
        BY <1>3, <3>2 DEF PRState
      <4> QED BY <1>1, <4>1, AppendIs, Unmerged
    <3> QED BY <3>1, <3>2
  <2> QED BY <1>1, <2>1, <2>2, <2>3, PRsKeep DEF AtPR
<1> QED BY <1>2, <1>3 DEF EnsureEpicPR

LEMMA GateKeeps == ASSUME RInv, Gate PROVE RInv'
<1>1. /\ pc = "gate" /\ prs \in Seq(PRState) /\ prs # <<>> /\ ckpt.phase # "merged"
      /\ UNCHANGED Made \/ UNCHANGED <<setup, kid, base, local, remote, shipped, finished, memo, mine, stacked, cur>>
      /\ UNCHANGED <<ckpt, memo, mine, stacked, cur>>
  BY Unmerged DEF Gate, Keep, books, run, RInv, PlaceOK, AtPR, PRSteps
<1>2. CASE prs[LastPR] = "merged" /\ pc' = "merged" /\ UNCHANGED prs
  <2>1. finished \subseteq shipped
    BY <1>1, <1>2 DEF RInv, MergedOK, AtPR
  <2>2. UNCHANGED Made
    BY <1>2 DEF Gate, Keep, books, Made
  <2> QED BY <1>1, <1>2, <2>1, <2>2, MoveKeeps
        DEF Ending, AllSteps, KidSteps, PRSteps, AtPR, StackStep, Shipping, Waiting
<1>3. CASE prs[LastPR] # "merged" /\ pc' = "poll" /\ (prs' = prs \/ prs' = [prs EXCEPT ![LastPR] = "open"])
  <2>1. "open" \in PRState
    BY DEF PRState
  <2>2. prs' \in Seq(PRState) /\ prs' # <<>> /\ prs'[LastPR'] # "merged"
    <3>1. CASE prs' = prs
      BY <1>1, <1>3, <3>1 DEF LastPR
    <3>2. CASE prs' = [prs EXCEPT ![LastPR] = "open"]
      BY <1>1, <3>2, <2>1, SetLastIs
    <3> QED BY <1>3, <3>1, <3>2
  <2>3. UNCHANGED <<setup, kid, base, local, remote, shipped, finished, memo, mine, stacked, cur>>
    BY DEF Gate, Keep, books, run
  <2>4. pc \in PRSteps /\ ckpt' \in EpicRow /\ ckpt'.phase # None /\ ckpt'.phase # "merged"
    BY <1>1, Unmerged DEF PRSteps, AtPR
  <2> QED BY <1>1, <1>3, <2>2, <2>3, <2>4, PRsKeep DEF AtPR
<1> QED BY <1>2, <1>3 DEF Gate, Step

LEMMA PollKeeps == ASSUME RInv, PollCI PROVE RInv'
<1>1. /\ pc = "poll" /\ UNCHANGED <<setup, kid, base, local, remote, prs, shipped, finished, memo, mine, stacked, cur>>
      /\ pc' \in {"merge", "wait", "repair", "review"}
      /\ UNCHANGED ckpt \/ ckpt' = AwaitingHuman
  BY DEF PollCI, Keep, Step, git, run
<1>2. /\ prs \in Seq(PRState) /\ prs # <<>> /\ prs[LastPR] = "merged" => finished \subseteq shipped
      /\ UNCHANGED prs
  BY <1>1, Unmerged DEF RInv, PlaceOK, MergedOK, AtPR, PRSteps
<1>3. pc \in PRSteps /\ ckpt' \in EpicRow /\ ckpt'.phase # None /\ ckpt'.phase # "merged"
  BY <1>1, Unmerged DEF AwaitingHuman, EpicRow, PRSteps, AtPR
<1>4. LastPR' = LastPR
  BY <1>2 DEF LastPR
<1>5. prs' \in Seq(PRState) /\ prs' # <<>> /\ (prs'[LastPR'] = "merged" => finished \subseteq shipped)
  BY <1>1, <1>2, <1>4, Unmerged DEF RInv, PlaceOK, MergedOK, AtPR, PRSteps
<1> QED BY <1>1, <1>3, <1>5, PRsKeep DEF AtPR

LEMMA AwaitKeeps == ASSUME RInv, AwaitEpicMerge PROVE RInv'
<1>1. /\ pc = "wait" /\ UNCHANGED <<setup, kid, base, local, remote, prs, shipped, finished, memo, mine, stacked, cur>>
  BY DEF AwaitEpicMerge, Keep, git, run
<1>2. CASE prs[LastPR] = "merged" /\ pc' = "merged" /\ UNCHANGED ckpt
  <2>1. finished \subseteq shipped /\ UNCHANGED Made
    BY <1>1, <1>2 DEF RInv, MergedOK, AtPR, Made
  <2> QED BY <1>1, <1>2, <2>1, MoveKeeps
        DEF Ending, AllSteps, KidSteps, PRSteps, AtPR, StackStep, Shipping, Waiting
<1>3. CASE pc' = "exit" /\ ckpt' = [ckpt EXCEPT !.phase = "quarantined"]
  <2>1. /\ pc \in PRSteps /\ prs' \in Seq(PRState)
        /\ ckpt' \in EpicRow /\ ckpt'.phase # None /\ ckpt'.phase # "merged"
    BY <1>1, <1>3, Unmerged DEF EpicRow, PRSteps, AtPR, None
  <2> QED BY <1>1, <1>3, <2>1, PRsKeep DEF AtPR
<1> QED BY <1>2, <1>3 DEF AwaitEpicMerge, Step

\* A merge closes the PRs of the children that target the branch it drops.
LEMMA UntargetIs ==
  ASSUME ShapeOK, NEW gone \in BOOLEAN, Untarget(gone)
  PROVE  /\ DOMAIN kid' = Kids
         /\ \A k \in Kids : /\ IsKid(kid'[k]) /\ kid'[k].issue = kid[k].issue /\ kid'[k].done = kid[k].done
                            /\ kid'[k].phase = kid[k].phase /\ kid'[k].pin = kid[k].pin
                            /\ kid'[k].pr = kid[k].pr \/ (kid[k].pr = "open" /\ kid'[k].pr = "closed")
         /\ gone /\ ~IsStacked => \A k \in Kids : kid'[k].pr # "open"
<1>1. kid' = [k \in Kids |-> IF gone /\ ~IsStacked /\ kid[k].pr = "open" THEN [kid[k] EXCEPT !.pr = "closed"]
                             ELSE kid[k]]
  BY DEF Untarget
<1>2. \A k \in Kids : IsKid(kid[k])
  BY DEF ShapeOK
<1>3. ASSUME NEW k \in Kids
      PROVE  /\ IsKid(kid'[k]) /\ kid'[k].issue = kid[k].issue /\ kid'[k].done = kid[k].done
             /\ kid'[k].phase = kid[k].phase /\ kid'[k].pin = kid[k].pin
             /\ kid'[k].pr = kid[k].pr \/ (kid[k].pr = "open" /\ kid'[k].pr = "closed")
             /\ gone /\ ~IsStacked => kid'[k].pr # "open"
  <2>1. CASE gone /\ ~IsStacked /\ kid[k].pr = "open"
    <3>1. kid'[k] = [kid[k] EXCEPT !.pr = "closed"]
      BY <1>1, <2>1
    <3> QED BY <1>2, <3>1, <2>1 DEF IsKid
  <2>2. CASE ~(gone /\ ~IsStacked /\ kid[k].pr = "open")
    <3>1. kid'[k] = kid[k]
      BY <1>1, <2>2
    <3> QED BY <1>2, <3>1, <2>2
  <2> QED BY <2>1, <2>2
<1> QED BY <1>1, <1>3

\* The epic's PR lands, by whoever's hand.
LEMMA EpicLandsIs ==
  ASSUME RInv, EpicLands, prs # <<>>
  PROVE  /\ prs' \in Seq(PRState) /\ prs' # <<>> /\ prs'[LastPR'] = "merged"
         /\ IsRef(base') /\ base'.work = {} /\ "root" \in base'.rest /\ Within(base, base')
         /\ shipped' = shipped \cup remote.work
<1>1. prs' \in Seq(PRState) /\ prs' # <<>> /\ prs'[LastPR'] = "merged"
  <2>1. prs \in Seq(PRState) /\ "merged" \in PRState /\ prs' = [prs EXCEPT ![LastPR] = "merged"]
    BY DEF EpicLands, RInv, ShapeOK, PRState
  <2> QED BY <2>1, SetLastIs
<1>2. IsRef(base') /\ base'.work = {} /\ "root" \in base'.rest /\ Within(base, base')
  <2>1. IsRef(base) /\ Exists(base) /\ base.work = {}
    BY RefIs DEF RInv, ShapeOK
  <2>2. base' = Plus(base, Squash[LastPR])
    BY DEF EpicLands
  <2> QED BY <2>1, <2>2, PlusIs
<1> QED BY <1>1, <1>2 DEF EpicLands

LEMMA MergeEpicKeeps == ASSUME RInv, MergeEpic PROVE RInv'
<1>1. pc = "merge" /\ Classic /\ prs # <<>> /\ ckpt.phase # "merged" /\ ckpt.phase # None
  BY Unmerged DEF MergeEpic, RInv, PlaceOK, AtPR, PRSteps
<1>2. CASE Fails
  BY <1>2, FailsKeeps
<1>3. CASE prs[LastPR] = "merged" /\ Step("merged") /\ Keep /\ UNCHANGED <<books, git, finished, run>>
  <2>1. finished \subseteq shipped
    BY <1>1, <1>3 DEF RInv, MergedOK, AtPR
  <2>2. UNCHANGED Made /\ UNCHANGED <<ckpt, memo, mine, stacked, cur>> /\ pc' = "merged"
    BY <1>3 DEF Keep, Step, books, git, run, Made
  <2> QED BY <1>1, <2>1, <2>2, MoveKeeps
        DEF Ending, AllSteps, KidSteps, PRSteps, AtPR, StackStep, Shipping, Waiting
<1>4. CASE /\ prs[LastPR] = "open"
           /\ EpicLands
           /\ remote' = NoRef /\ local' = (IF setup.keeps THEN local ELSE NoRef)
           /\ Untarget(TRUE)
           /\ Step("merged") /\ Keep /\ UNCHANGED <<ckpt, issue, finished, run>>
  <2>1. /\ UNCHANGED <<setup, ckpt, finished, memo, mine, stacked, cur>> /\ pc' = "merged"
        /\ remote' = NoRef /\ (local' = local \/ local' = NoRef)
    BY <1>4 DEF Keep, Step, run
  <2>2. /\ prs' \in Seq(PRState) /\ prs' # <<>>
        /\ IsRef(base') /\ base'.work = {} /\ "root" \in base'.rest /\ Within(base, base')
        /\ shipped' = shipped \cup remote.work
    BY <1>1, <1>4, EpicLandsIs
  <2>3. /\ DOMAIN kid' = Kids
        /\ \A k \in Kids : /\ IsKid(kid'[k]) /\ kid'[k].issue = kid[k].issue /\ kid'[k].done = kid[k].done
                           /\ kid'[k].phase = kid[k].phase /\ kid'[k].pin = kid[k].pin
                           /\ kid'[k].pr = kid[k].pr \/ (kid[k].pr = "open" /\ kid'[k].pr = "closed")
        /\ ~IsStacked => \A k \in Kids : kid'[k].pr # "open"
    <3>1. ShapeOK
      BY DEF RInv
    <3> QED BY <1>4, <3>1, UntargetIs
  <2>4. \A k \in Kids : kid[k].phase # "building"
    BY <1>1, UnderWay DEF Shipping
  <2>5. ShapeOK'
    BY <2>1, <2>2, <2>3, NoRefIs DEF RInv, ShapeOK
  <2>6. PlaceOK'
    BY <1>1, <2>1
       DEF RInv, PlaceOK, AllSteps, KidSteps, AtPR, PRSteps, StackStep, Ending, Classic, IsLocal, IsStacked, Exists
  <2>7. OpenedOK'
    BY <1>1, <2>1, <2>3 DEF RInv, OpenedOK, KidSteps, Shipping, Waiting
  <2>8. SliceOK'
    BY <1>1, <2>1, <2>3, <2>4 DEF SliceOK
  <2>9. DeliveredOK'
    BY <1>1, <2>1, <2>2, <2>3, NoRefIs DEF RInv, DeliveredOK, Delivered, Classic, IsLocal, IsStacked
  <2>10. MineOK'
    BY <1>1, <2>1, <2>3, NoRefIs DEF RInv, MineOK, Classic, IsLocal, IsStacked
  <2>11. MergedOK'
    BY <1>1, <2>1, <2>2 DEF RInv, MergedOK, DeliveredOK, Delivered, AtPR, Classic, IsLocal, IsStacked
  <2> QED BY <2>5, <2>6, <2>7, <2>8, <2>9, <2>10, <2>11 DEF RInv
<1> QED BY <1>2, <1>3, <1>4 DEF MergeEpic

LEMMA LandEpicKeeps == ASSUME RInv, LandEpic PROVE RInv'
<1>1. pc = "land" /\ IsLocal /\ ~IsStacked /\ ckpt.phase # None
  BY DEF LandEpic, RInv, PlaceOK, OpenedOK, Shipping, IsLocal, IsStacked
<1>2. CASE Step("handoff") /\ Keep /\ UNCHANGED <<books, git, finished, run>>
  <2>1. UNCHANGED Made /\ UNCHANGED <<ckpt, memo, mine, stacked, cur>> /\ pc' = "handoff"
    BY <1>2 DEF Keep, Step, books, git, run, Made
  <2> QED BY <1>1, <2>1, MoveKeeps
        DEF Ending, AllSteps, KidSteps, PRSteps, AtPR, StackStep, Shipping, Waiting
<1>3. CASE /\ setup.autoMerge /\ ~(local.work \subseteq shipped)
           /\ base' = Plus(base, "squash1") /\ shipped' = shipped \cup local.work
           /\ Step("merged")
           /\ Keep /\ UNCHANGED <<books, local, remote, prs, finished, run>>
  <2>1. UNCHANGED <<setup, ckpt, kid, local, remote, prs, finished, memo, mine, stacked, cur>> /\ pc' = "merged"
    BY <1>3 DEF Keep, Step, books, run
  <2>2. IsRef(base') /\ base'.work = {} /\ "root" \in base'.rest
    BY <1>3, PlusIs, RefIs DEF RInv, ShapeOK
  <2>3. ShapeOK'
    BY <2>1, <2>2 DEF RInv, ShapeOK
  <2>4. PlaceOK'
    BY <1>1, <2>1
       DEF RInv, PlaceOK, AllSteps, KidSteps, AtPR, PRSteps, StackStep, Ending, Classic, IsLocal, IsStacked, Exists
  <2>5. OpenedOK'
    BY <1>1, <2>1 DEF RInv, OpenedOK, KidSteps
  <2>6. SliceOK' /\ MineOK'
    BY <1>1, <2>1 DEF SliceOK, MineOK, Classic, IsLocal
  <2>7. DeliveredOK'
    BY <1>1, <1>3, <2>1 DEF RInv, DeliveredOK, Delivered, IsLocal, IsStacked
  <2>8. MergedOK'
    BY <1>1, <1>3, <2>1 DEF RInv, MergedOK, DeliveredOK, Delivered, AtPR, IsStacked
  <2> QED BY <2>3, <2>4, <2>5, <2>6, <2>7, <2>8 DEF RInv
<1> QED BY <1>2, <1>3 DEF LandEpic

-----------------------------------------------------------------------------
(* A stack's release, and how a release ends.                              *)

\* The row changes, and the run goes on to its end.
LEMMA RowKeeps ==
  ASSUME RInv, UNCHANGED Made, UNCHANGED <<memo, mine, stacked>>,
         pc \in Shipping \cup Waiting \cup {"merged", "close", "review", "handoff"},
         ckpt' \in EpicRow, ckpt'.phase # None,
         \/ pc' = "exit"
         \/ pc = "layers" /\ pc' \in StackStep /\ IsStacked
         \/ pc' \in {"handoff"} /\ (pc \in {"layers", "review"})
         \/ pc' = "close" /\ (IsStacked \/ finished \subseteq shipped),
         ckpt'.phase = "merged"
           => pc' \in {"close", "exit"} /\ (IsStacked \/ finished \subseteq shipped)
  PROVE  RInv'
<1>1. ckpt.phase # None /\ \A k \in Kids : ~InFlight(kid[k].phase) /\ kid[k].issue # "open"
  BY DEF RInv, OpenedOK
<1>2. PlaceOK'
  <2>1. memo => Exists(local) \/ pc' \in Ending
    <3>1. CASE pc' \in Ending
      BY <3>1
    <3>2. CASE pc' \in StackStep \cup {"handoff"}
      <4>1. pc \in {"layers", "review"}
        BY <3>2 DEF StackStep
      <4> QED BY <4>1 DEF RInv, PlaceOK, Ending
    <3> QED BY <3>1, <3>2 DEF Ending
  <2> QED BY <2>1
        DEF RInv, PlaceOK, AllSteps, KidSteps, AtPR, PRSteps, StackStep, Ending, Classic, IsLocal, IsStacked, Exists, Made
<1>3. OpenedOK'
  BY <1>1 DEF RInv, OpenedOK, KidSteps, StackStep, Made
<1>4. MergedOK'
  BY DEF MergedOK, AtPR, IsStacked, Made, StackStep
<1> QED BY <1>1, <1>2, <1>3, <1>4, MadeStays DEF StackStep

LEMMA AwaitingIs ==
  ASSUME RInv, pc \in Shipping \cup Waiting \cup {"review", "handoff"}
  PROVE  /\ ckpt \in EpicRow /\ ckpt.phase # None /\ ckpt.phase # "merged"
         /\ AwaitingHuman \in EpicRow /\ AwaitingHuman.phase # None /\ AwaitingHuman.phase # "merged"
<1>1. ckpt \in EpicRow /\ ckpt.phase # None /\ ckpt.phase # "merged"
  BY DEF RInv, ShapeOK, OpenedOK, MergedOK, Shipping, Waiting
<1> QED BY <1>1 DEF AwaitingHuman, EpicRow

LEMMA LayerKeeps == ASSUME RInv, Layer PROVE RInv'
<1>1. pc = "layers" /\ UNCHANGED Made /\ UNCHANGED <<memo, mine, stacked>>
  BY DEF Layer, Keep, git, Made
<1>2. IsStacked
  BY <1>1 DEF RInv, PlaceOK, StackStep
<1>3. \/ pc' = "handoff" /\ UNCHANGED ckpt
      \/ pc' = "layers" /\ UNCHANGED ckpt
      \/ pc' \in {"stackmerge", "stackwait"} /\ (UNCHANGED ckpt \/ ckpt' = AwaitingHuman)
  BY <1>1 DEF Layer, Step
<1>4. ckpt' \in EpicRow /\ ckpt'.phase # None /\ ckpt'.phase # "merged"
  BY <1>1, <1>3, AwaitingIs DEF Shipping
<1> QED BY <1>1, <1>2, <1>3, <1>4, RowKeeps DEF Shipping, StackStep

\* The layers' PRs merge, in a stack: of what else is tracked there, nothing changes.
LEMMA StackLandsIs ==
  ASSUME RInv, IsStacked, NEW layers, StackLands(layers),
         UNCHANGED <<setup, ckpt, base, local, remote, prs, finished, memo, mine, stacked, cur>>,
         UNCHANGED pc \/ (pc = "stackmerge" /\ pc' = "merged")
  PROVE  RInv'
<1>1. DOMAIN kid = Kids /\ \A k \in Kids : IsKid(kid[k])
  BY DEF RInv, ShapeOK
<1>2. kid' = [k \in Kids |-> IF k \in layers THEN [kid[k] EXCEPT !.pr = "merged"] ELSE kid[k]]
  BY DEF StackLands
<1>3. DOMAIN kid' = Kids /\ \A k \in Kids : kid'[k] = kid[k] \/ kid'[k] = [kid[k] EXCEPT !.pr = "merged"]
  BY <1>2
<1>4. \A k \in Kids : /\ IsKid(kid'[k]) /\ kid'[k].issue = kid[k].issue /\ kid'[k].done = kid[k].done
                      /\ kid'[k].phase = kid[k].phase /\ kid'[k].pin = kid[k].pin
  BY <1>1, <1>3 DEF IsKid
<1>5. ~Classic /\ ~IsLocal
  BY DEF Classic, IsLocal, IsStacked
<1>6. ShapeOK'
  BY <1>3, <1>4 DEF RInv, ShapeOK
<1>7. PlaceOK'
  BY <1>4, <1>5
     DEF RInv, PlaceOK, AllSteps, KidSteps, AtPR, PRSteps, StackStep, Ending, Classic, IsLocal, IsStacked, Exists
<1>8. OpenedOK'
  BY <1>4 DEF RInv, OpenedOK, KidSteps, Shipping, Waiting, InFlightKids
<1>9. SliceOK' /\ DeliveredOK' /\ MineOK'
  BY <1>5 DEF SliceOK, DeliveredOK, MineOK, Classic, IsLocal, IsStacked
<1>10. MergedOK'
  BY <1>5 DEF RInv, PlaceOK, MergedOK, AtPR, PRSteps, IsStacked
<1> QED BY <1>6, <1>7, <1>8, <1>9, <1>10 DEF RInv

LEMMA MergeStackKeeps == ASSUME RInv, MergeStack PROVE RInv'
<1>1. /\ pc = "stackmerge" /\ IsStacked
      /\ UNCHANGED <<setup, base, local, remote, prs, finished, memo, mine, stacked, cur>>
  BY DEF MergeStack, Keep, run, RInv, PlaceOK, StackStep
<1>2. CASE pc' = "merged" /\ UNCHANGED <<books, shipped>>
  <2>1. UNCHANGED Made /\ UNCHANGED <<ckpt, memo, mine, stacked, cur>>
    BY <1>1, <1>2 DEF books, Made
  <2> QED BY <1>1, <1>2, <2>1, MoveKeeps
        DEF Ending, AllSteps, KidSteps, PRSteps, AtPR, StackStep, Shipping, Waiting
<1>3. CASE StackLands(Layers) /\ pc' = "merged" /\ UNCHANGED <<ckpt, issue>>
  BY <1>1, <1>3, StackLandsIs
<1>4. CASE ckpt' = AwaitingHuman /\ pc' = "exit" /\ UNCHANGED <<issue, kid, shipped>>
  <2>1. UNCHANGED Made
    BY <1>1, <1>4 DEF Made
  <2>2. ckpt' \in EpicRow /\ ckpt'.phase # None /\ ckpt'.phase # "merged"
    BY <1>1, <1>4, AwaitingIs DEF Shipping
  <2> QED BY <1>1, <1>4, <2>1, <2>2, RowKeeps DEF Shipping
<1> QED BY <1>2, <1>3, <1>4 DEF MergeStack, Step

LEMMA AwaitStackKeeps == ASSUME RInv, AwaitStackMerge PROVE RInv'
<1>1. pc = "stackwait" /\ pc' = "merged" /\ UNCHANGED Made /\ UNCHANGED <<ckpt, memo, mine, stacked, cur>>
  BY DEF AwaitStackMerge, Step, Keep, books, git, run, Made
<1>2. IsStacked
  BY <1>1 DEF RInv, PlaceOK, StackStep
<1> QED BY <1>1, <1>2, MoveKeeps
      DEF Ending, AllSteps, KidSteps, PRSteps, AtPR, StackStep, Shipping, Waiting

LEMMA CheckpointKeeps == ASSUME RInv, CheckpointEpicMerged PROVE RInv'
<1>1. /\ pc = "merged" /\ pc' = "close" /\ UNCHANGED Made /\ UNCHANGED <<memo, mine, stacked>>
      /\ ckpt' = [ckpt EXCEPT !.phase = "merged", !.release = ""]
  BY DEF CheckpointEpicMerged, Step, Keep, git, run, Made
<1>2. ckpt' \in EpicRow /\ ckpt'.phase = "merged"
  BY <1>1 DEF RInv, ShapeOK, EpicRow
<1>3. IsStacked \/ finished \subseteq shipped
  BY <1>1 DEF RInv, MergedOK
<1> QED BY <1>1, <1>2, <1>3, RowKeeps DEF None

LEMMA TellKeeps == ASSUME RInv, TellTracker PROVE RInv'
<1>1. CASE Fails
  BY <1>1, FailsKeeps
<1>2. CASE /\ issue' = IF pc = "close" THEN "done" ELSE "review"
           /\ Step(IF pc = "close" THEN "exit" ELSE "handoff")
           /\ Keep /\ UNCHANGED <<ckpt, kid, git, finished, run>>
  <2>1. /\ UNCHANGED Made /\ UNCHANGED <<ckpt, memo, mine, stacked, cur>>
        /\ (pc = "close" /\ pc' = "exit") \/ (pc = "review" /\ pc' = "handoff")
    BY <1>2 DEF TellTracker, Step, Keep, git, run, Made
  <2>2. CASE pc = "close" /\ pc' = "exit"
    BY <2>1, <2>2, ExitKeeps
  <2>3. CASE pc = "review" /\ pc' = "handoff"
    BY <2>1, <2>3, MoveKeeps
      DEF Ending, AllSteps, KidSteps, PRSteps, AtPR, StackStep, Shipping, Waiting
  <2> QED BY <2>1, <2>2, <2>3
<1> QED BY <1>1, <1>2 DEF TellTracker

LEMMA HandOffKeeps == ASSUME RInv, HandOffEpic PROVE RInv'
<1>1. pc = "handoff" /\ pc' = "exit" /\ UNCHANGED Made /\ UNCHANGED <<memo, mine, stacked>> /\ ckpt' = AwaitingHuman
  BY DEF HandOffEpic, Step, Keep, git, run, Made
<1> QED BY <1>1, AwaitingIs, RowKeeps

\* Where no run is, nothing of a run is tracked: what the branches, the children's
\* rows and the PRs may do there.
LEMMA OffKeeps ==
  ASSUME RInv, pc' = "off", ~IsStacked, ~mine', UNCHANGED <<setup, ckpt, base, shipped, finished>>,
         IsRef(local'), IsRef(remote'), prs' \in Seq(PRState),
         DOMAIN kid' = Kids,
         \A k \in Kids : /\ IsKid(kid'[k]) /\ kid'[k].issue = kid[k].issue /\ kid'[k].done = kid[k].done
                         /\ kid'[k].phase = kid[k].phase /\ kid'[k].pin = kid[k].pin
                         /\ kid'[k].pr = kid[k].pr \/ (kid[k].pr = "open" /\ kid'[k].pr = "closed"),
         IsLocal => remote' = NoRef /\ prs' = prs,
         Classic /\ ckpt.phase = None /\ Exists(remote') => Within(local', remote'),
         Classic => \A k \in Kids : kid[k].phase = "building" =>
           /\ Within(kid[k].pin, IF Exists(local') THEN local' ELSE base)
           /\ Exists(remote') => Within(kid[k].pin, remote'),
         (IF IsLocal THEN local.work \subseteq local'.work ELSE remote.work \subseteq remote'.work),
         Exists(remote') \/ ~Exists(remote) \/ \A k \in Kids : kid'[k].pr # "open"
  PROVE  RInv'
<1>1. ShapeOK'
  BY DEF RInv, ShapeOK
<1>2. PlaceOK'
  BY DEF RInv, PlaceOK, AllSteps, KidSteps, AtPR, PRSteps, StackStep, Ending, Classic, IsLocal, IsStacked, Exists
<1>3. OpenedOK'
  BY DEF RInv, OpenedOK, KidSteps, Shipping, Waiting, InFlightKids
<1>4. SliceOK'
  BY DEF RInv, SliceOK, Classic, IsLocal, IsStacked, Exists
<1>5. DeliveredOK'
  BY DEF RInv, DeliveredOK, Delivered, IsLocal, IsStacked
<1>6. MineOK'
  BY DEF RInv, MineOK, Classic, IsLocal, IsStacked, Exists
<1>7. MergedOK'
  BY DEF RInv, MergedOK, AtPR, IsStacked
<1> QED BY <1>1, <1>2, <1>3, <1>4, <1>5, <1>6, <1>7 DEF RInv

LEMMA SettleKeeps == ASSUME RInv, SettleEpicBranch PROVE RInv'
<1>1. /\ pc = "exit" /\ pc' = "off" /\ ~memo' /\ ~mine' /\ ~stacked'
      /\ UNCHANGED <<setup, ckpt, base, shipped, finished>>
      /\ Untarget(Exists(remote) /\ ~Exists(remote'))
  BY DEF SettleEpicBranch, Step, Fresh, Keep
<1> DEFINE gone == Exists(remote) /\ ~Exists(remote')
<1>2. gone \in BOOLEAN /\ ShapeOK /\ Untarget(gone)
  BY <1>1 DEF RInv
<1>3. /\ DOMAIN kid' = Kids
      /\ \A k \in Kids : /\ IsKid(kid'[k]) /\ kid'[k].issue = kid[k].issue /\ kid'[k].done = kid[k].done
                         /\ kid'[k].phase = kid[k].phase /\ kid'[k].pin = kid[k].pin
                         /\ kid'[k].pr = kid[k].pr \/ (kid[k].pr = "open" /\ kid'[k].pr = "closed")
      /\ gone /\ ~IsStacked => \A k \in Kids : kid'[k].pr # "open"
  BY <1>2, UntargetIs
<1>4. CASE UNCHANGED <<local, remote, prs>>
  <2>1. DOMAIN kid' = Kids /\ \A k \in Kids : kid'[k] = kid[k]
    BY <1>1, <1>4 DEF Untarget
  <2> HIDE DEF gone
  <2>2. ShapeOK'
    BY <1>1, <1>3, <1>4 DEF RInv, ShapeOK
  <2>3. PlaceOK'
    BY <1>1, <1>4, <2>1
       DEF RInv, PlaceOK, AllSteps, KidSteps, AtPR, PRSteps, StackStep, Ending, Classic, IsLocal, IsStacked, Exists
  <2>4. OpenedOK'
    BY <1>1, <2>1 DEF RInv, OpenedOK, KidSteps, Shipping, Waiting, InFlightKids
  <2>5. SliceOK'
    BY <1>1, <1>4, <2>1 DEF RInv, SliceOK, Classic, IsLocal, IsStacked, Exists
  <2>6. DeliveredOK'
    BY <1>1, <1>4, <2>1 DEF RInv, DeliveredOK, Delivered, IsLocal, IsStacked
  <2>7. MineOK'
    BY <1>1, <1>4, <2>1 DEF RInv, MineOK, Classic, IsLocal, IsStacked, Exists
  <2>8. MergedOK'
    BY <1>1 DEF RInv, MergedOK, AtPR, IsStacked
  <2> QED BY <2>2, <2>3, <2>4, <2>5, <2>6, <2>7, <2>8 DEF RInv
<1>5. CASE ckpt.phase # "merged" /\ Exists(local) /\ ~IsStacked
  <2> HIDE DEF gone
  <2>1. PICK ref \in SettleRefs :
          \/ /\ Within(ref, base) /\ local' = (IF stacked THEN local ELSE NoRef)
             /\ remote' = remote \/ (Disposable /\ remote' = NoRef)
             /\ UNCHANGED prs
          \/ ~Within(ref, base) /\ IsLocal /\ UNCHANGED <<local, remote, prs>>
          \/ /\ ~Within(ref, base) /\ ~IsLocal
             /\ remote' = remote \/ (remote' = ref /\ Within(remote, ref))
             /\ prs' = prs \/ prs' = Append(prs, "draft")
             /\ UNCHANGED local
    BY <1>5 DEF SettleEpicBranch
  <2>2. /\ IsRef(base) /\ IsRef(local) /\ IsRef(remote) /\ Within(local, local) /\ Within(remote, remote)
        /\ base.work = {}
    BY RefIs DEF RInv, ShapeOK
  <2>3. /\ IsRef(ref) /\ Exists(ref) /\ Within(local, ref)
        /\ (ref = local \/ (~IsLocal /\ ref = remote))
    BY <1>5, <2>2 DEF SettleRefs, RemoteAhead
  <2>4. CASE UNCHANGED <<local, remote, prs>>
    BY <1>4, <2>4
  <2>5. CASE /\ Within(ref, base) /\ local' = (IF stacked THEN local ELSE NoRef)
             /\ remote' = remote \/ (Disposable /\ remote' = NoRef)
             /\ UNCHANGED prs
    <3>1. local' = local \/ (~stacked /\ local' = NoRef)
      BY <2>5
    <3>2. remote' = remote \/ (mine /\ ~stacked /\ remote' = NoRef)
      BY <2>5 DEF Disposable
    <3>3. local.work = {} /\ Within(local, base)
      BY <2>2, <2>3, <2>5, WithinTrans DEF Within
    <3>4. IsRef(local') /\ IsRef(remote') /\ prs' \in Seq(PRState)
      BY <2>2, <2>5, <3>1, <3>2, NoRefIs DEF RInv, ShapeOK
    <3>5. IsLocal => remote' = NoRef /\ prs' = prs
      BY <2>5, <3>2 DEF RInv, PlaceOK
    <3>6. Classic /\ ckpt.phase = None /\ Exists(remote') => Within(local', remote')
      BY <2>2, <3>1, <3>2, NoRefIs, RefIs DEF RInv, SliceOK
    <3>7. ASSUME Classic, NEW k \in Kids, kid[k].phase = "building"
          PROVE  /\ Within(kid[k].pin, IF Exists(local') THEN local' ELSE base)
                 /\ Exists(remote') => Within(kid[k].pin, remote')
      <4>1. /\ Within(kid[k].pin, local) /\ (Exists(remote) => Within(kid[k].pin, remote))
        BY <1>5, <3>7 DEF RInv, SliceOK
      <4>2. Within(kid[k].pin, base)
        BY <3>3, <4>1, WithinTrans
      <4> QED BY <3>1, <3>2, <4>1, <4>2, NoRefIs
    <3>8. IF IsLocal THEN local.work \subseteq local'.work ELSE remote.work \subseteq remote'.work
      <4>1. CASE IsLocal
        BY <3>3, <4>1
      <4>2. CASE ~IsLocal
        <5>1. mine /\ ~stacked => remote.work = {}
          BY <1>5, <4>2 DEF RInv, MineOK, Classic
        <5> QED BY <3>2, <4>2, <5>1
      <4> QED BY <4>1, <4>2
    <3>9. Exists(remote') \/ ~Exists(remote) \/ \A k \in Kids : kid'[k].pr # "open"
      BY <1>3, <1>5 DEF gone
    <3> QED BY <1>1, <1>3, <1>5, <3>4, <3>5, <3>6, <3>7, <3>8, <3>9, OffKeeps
  <2>6. CASE /\ ~IsLocal
             /\ remote' = remote \/ (remote' = ref /\ Within(remote, ref))
             /\ prs' = prs \/ prs' = Append(prs, "draft")
             /\ UNCHANGED local
    <3>1. Within(remote, remote') /\ IsRef(remote') /\ IsRef(local')
      BY <2>2, <2>3, <2>6
    <3>2. prs' \in Seq(PRState)
      <4>1. prs \in Seq(PRState) /\ "draft" \in PRState
        BY DEF RInv, ShapeOK, PRState
      <4> QED BY <2>6, <4>1, AppendIs
    <3>3. Classic
      BY <1>5, <2>6 DEF Classic
    <3>4. ckpt.phase = None /\ Exists(remote') => Within(local', remote')
      BY <2>2, <2>3, <2>6, <3>3 DEF RInv, SliceOK
    <3>5. ASSUME NEW k \in Kids, kid[k].phase = "building"
          PROVE  /\ Within(kid[k].pin, IF Exists(local') THEN local' ELSE base)
                 /\ Exists(remote') => Within(kid[k].pin, remote')
      <4>1. Within(kid[k].pin, local) /\ (Exists(remote) => Within(kid[k].pin, remote))
        BY <1>5, <3>3, <3>5 DEF RInv, SliceOK
      <4>2. Within(kid[k].pin, ref)
        BY <2>3, <4>1, WithinTrans
      <4> QED BY <1>5, <2>6, <4>1, <4>2
    <3>6. IF IsLocal THEN local.work \subseteq local'.work ELSE remote.work \subseteq remote'.work
      BY <2>6, <3>1 DEF Within
    <3>7. Exists(remote') \/ ~Exists(remote)
      BY <2>3, <2>6
    <3> QED BY <1>1, <1>3, <1>5, <2>6, <3>1, <3>2, <3>4, <3>5, <3>6, <3>7, OffKeeps
  <2> QED BY <2>1, <2>4, <2>5, <2>6
<1> QED BY <1>4, <1>5 DEF SettleEpicBranch

-----------------------------------------------------------------------------
(* What operator, machine and others do.                                   *)

\* The operator's hand on a child's PR: the remote gains the work it lands.
LEMMA MergesKidKeeps == ASSUME RInv, HumanMergesKid PROVE RInv'
<1>1. UNCHANGED <<setup, ckpt, issue, base, local, prs, finished, pc, memo, mine, stacked, cur>>
  BY DEF HumanMergesKid, run
<1>2. PICK k \in Kids :
        /\ kid[k].pr = "open"
        /\ IF IsStacked
           THEN \E i \in DOMAIN Stack : StackLands({Stack[j] : j \in 1..i}) /\ UNCHANGED remote
           ELSE /\ Exists(remote)
                /\ kid' = [kid EXCEPT ![k].pr = "merged"]
                /\ remote' = [remote EXCEPT !.work = @ \cup {k}]
                /\ UNCHANGED shipped
  BY DEF HumanMergesKid
<1>3. CASE IsStacked
  BY <1>1, <1>2, <1>3, StackLandsIs
<1>4. CASE ~IsStacked
  <2>1. /\ kid' = [kid EXCEPT ![k].pr = "merged"] /\ UNCHANGED shipped /\ Exists(remote)
        /\ DOMAIN kid = Kids /\ \A j \in Kids : IsKid(kid[j])
    BY <1>2, <1>4 DEF RInv, ShapeOK
  <2>2. Classic
    BY <1>4, <2>1 DEF RInv, PlaceOK, Classic, Exists
  <2>3. IsRef(remote') /\ Exists(remote') /\ Within(remote, remote') /\ remote'.work = remote.work \cup {k}
    <3>1. IsRef(remote) /\ Exists(remote) /\ remote' = [remote EXCEPT !.work = @ \cup {k}]
      BY <1>2, <1>4 DEF RInv, ShapeOK
    <3> QED BY <3>1, WorkAdded
  <2>4. /\ DOMAIN kid' = Kids /\ kid'[k] = [kid[k] EXCEPT !.pr = "merged"]
        /\ \A j \in Kids \ {k} : kid'[j] = kid[j]
    BY <2>1
  <2>5. /\ IsKid(kid'[k]) /\ kid'[k].issue = kid[k].issue /\ kid'[k].done = kid[k].done
        /\ kid'[k].phase = kid[k].phase /\ kid'[k].pin = kid[k].pin /\ kid'[k].pr = "merged"
    BY <2>1, <2>4 DEF IsKid
  <2>6. ShapeOK'
    BY <1>1, <2>1, <2>3, <2>4, <2>5 DEF RInv, ShapeOK
  <2>7. PlaceOK'
    BY <1>1, <2>2, <2>4, <2>5
       DEF RInv, PlaceOK, AllSteps, KidSteps, AtPR, PRSteps, StackStep, Ending, Classic, IsLocal, IsStacked, Exists
  <2>8. OpenedOK'
    <3>1. \A j \in Kids : kid'[j].phase = kid[j].phase /\ kid'[j].issue = kid[j].issue /\ kid'[j].done = kid[j].done
      BY <2>4, <2>5
    <3>2. InFlightKids' = InFlightKids
      BY <3>1 DEF InFlightKids
    <3> QED BY <1>1, <3>1, <3>2 DEF RInv, OpenedOK
  <2>9. SliceOK'
    <3>1. ckpt.phase = None => Within(local, remote')
      BY <2>1, <2>2, <2>3, WithinTrans DEF RInv, SliceOK
    <3>2. ASSUME NEW j \in Kids, kid[j].phase = "building"
          PROVE  /\ Exists(kid[j].pin) /\ Within(kid[j].pin, IF Exists(local) THEN local ELSE base)
                 /\ Within(kid[j].pin, remote')
      <4>1. /\ Exists(kid[j].pin) /\ Within(kid[j].pin, IF Exists(local) THEN local ELSE base)
            /\ Within(kid[j].pin, remote)
        BY <2>1, <2>2, <3>2 DEF RInv, SliceOK
      <4> QED BY <2>3, <4>1, WithinTrans
    <3>3. \A j \in Kids : kid'[j].phase = kid[j].phase /\ kid'[j].pin = kid[j].pin
      BY <2>4, <2>5
    <3> QED BY <1>1, <3>1, <3>2, <3>3 DEF SliceOK, Exists
  <2>10. DeliveredOK'
    BY <1>1, <2>1, <2>2, <2>3, <2>4, <2>5 DEF RInv, DeliveredOK, Delivered, Classic, IsLocal, IsStacked
  <2>11. MineOK'
    BY <1>1, <1>2, <2>2, <2>3, <2>4, <2>5 DEF RInv, MineOK, Classic, IsLocal, IsStacked
  <2>12. MergedOK'
    BY <1>1, <2>1 DEF RInv, MergedOK, AtPR, IsStacked, LastPR
  <2> QED BY <2>6, <2>7, <2>8, <2>9, <2>10, <2>11, <2>12 DEF RInv
<1> QED BY <1>3, <1>4

\* A child is closed, its PR is, something moves it back, or its books are dropped.
LEMMA ClosesKidKeeps == ASSUME RInv, HumanClosesKid PROVE RInv'
<1>1. UNCHANGED <<setup, ckpt, base, local, remote, prs, shipped, finished, pc, memo, mine, stacked, cur>>
  BY DEF HumanClosesKid, git, run
<1>2. PICK k \in Kids :
        \/ kid' = [kid EXCEPT ![k].issue = "closed"]
        \/ kid[k].pr = "open" /\ kid' = [kid EXCEPT ![k].pr = "closed"]
        \/ kid[k].issue = "closed" /\ kid' = [kid EXCEPT ![k].issue = "started"]
        \/ /\ pc = "off"
           /\ kid' = [kid EXCEPT ![k].phase = None, ![k].done = FALSE, ![k].pin = NoRef, ![k].below = k]
  BY DEF HumanClosesKid
<1>3. DOMAIN kid = Kids /\ \A j \in Kids : IsKid(kid[j])
  BY DEF RInv, ShapeOK
<1>4. DOMAIN kid' = Kids /\ \A j \in Kids \ {k} : kid'[j] = kid[j]
  BY <1>2, <1>3
<1>5. /\ IsKid(kid'[k])
      /\ kid'[k].issue = kid[k].issue \/ kid'[k].issue # "open"
      /\ kid'[k].done => kid[k].done
      /\ kid'[k].pr = kid[k].pr \/ (kid[k].pr = "open" /\ kid'[k].pr = "closed")
      /\ \/ kid'[k].phase = kid[k].phase /\ kid'[k].pin = kid[k].pin
         \/ kid'[k].phase = None /\ pc = "off"
  <2>1. CASE kid' = [kid EXCEPT ![k].issue = "closed"]
    <3>1. kid'[k] = [kid[k] EXCEPT !.issue = "closed"]
      BY <1>3, <2>1
    <3> QED BY <1>3, <3>1 DEF IsKid
  <2>2. CASE kid[k].pr = "open" /\ kid' = [kid EXCEPT ![k].pr = "closed"]
    <3>1. kid'[k] = [kid[k] EXCEPT !.pr = "closed"]
      BY <1>3, <2>2
    <3> QED BY <1>3, <2>2, <3>1 DEF IsKid
  <2>3. CASE kid' = [kid EXCEPT ![k].issue = "started"]
    <3>1. kid'[k] = [kid[k] EXCEPT !.issue = "started"]
      BY <1>3, <2>3
    <3> QED BY <1>3, <3>1 DEF IsKid
  <2>4. CASE /\ pc = "off"
             /\ kid' = [kid EXCEPT ![k].phase = None, ![k].done = FALSE, ![k].pin = NoRef, ![k].below = k]
    <3>1. kid'[k] = [kid[k] EXCEPT !.phase = None, !.done = FALSE, !.pin = NoRef, !.below = k]
      BY <1>3, <2>4
    <3> QED BY <1>3, <2>4, <3>1, NoRefIs DEF IsKid
  <2> QED BY <1>2, <2>1, <2>2, <2>3, <2>4
<1>6. None # "building" /\ ~InFlight(None)
  BY PhasesIs DEF None
<1>7. ShapeOK'
  BY <1>1, <1>3, <1>4, <1>5 DEF RInv, ShapeOK
<1>8. PlaceOK'
  BY <1>1, <1>4, <1>5
     DEF RInv, PlaceOK, AllSteps, KidSteps, AtPR, PRSteps, StackStep, Ending, Classic, IsLocal, IsStacked, Exists
<1>9. OpenedOK'
  BY <1>1, <1>4, <1>5, <1>6 DEF RInv, OpenedOK, KidSteps, Shipping, Waiting, InFlightKids
<1>10. SliceOK'
  BY <1>1, <1>4, <1>5, <1>6 DEF RInv, SliceOK, Classic, IsLocal, IsStacked, Exists
<1>11. DeliveredOK'
  BY <1>1, <1>4, <1>5 DEF RInv, DeliveredOK, Delivered, IsLocal, IsStacked
<1>12. MineOK'
  BY <1>1, <1>4, <1>5 DEF RInv, MineOK, Classic, IsLocal, IsStacked, Exists
<1>13. MergedOK'
  BY <1>1 DEF RInv, MergedOK, AtPR, IsStacked, LastPR
<1> QED BY <1>7, <1>8, <1>9, <1>10, <1>11, <1>12, <1>13 DEF RInv

LEMMA MergesEpicKeeps == ASSUME RInv, HumanMergesEpic PROVE RInv'
<1>1. /\ UNCHANGED <<setup, ckpt, local, finished, pc, memo, mine, stacked, cur>>
      /\ OpenPR /\ Exists(remote) /\ EpicLands
      /\ remote' \in {remote, NoRef} /\ Untarget(remote' = NoRef)
  BY DEF HumanMergesEpic, run
<1>2. prs \in Seq(PRState) /\ prs # <<>>
  BY <1>1, OpenIs DEF RInv, ShapeOK
<1>3. /\ prs' \in Seq(PRState) /\ prs' # <<>>
      /\ IsRef(base') /\ base'.work = {} /\ "root" \in base'.rest /\ Within(base, base')
      /\ shipped' = shipped \cup remote.work
  BY <1>1, <1>2, EpicLandsIs
<1> DEFINE gone == remote' = NoRef
<1>4. /\ DOMAIN kid' = Kids
      /\ \A k \in Kids : /\ IsKid(kid'[k]) /\ kid'[k].issue = kid[k].issue /\ kid'[k].done = kid[k].done
                         /\ kid'[k].phase = kid[k].phase /\ kid'[k].pin = kid[k].pin
                         /\ kid'[k].pr = kid[k].pr \/ (kid[k].pr = "open" /\ kid'[k].pr = "closed")
      /\ gone /\ ~IsStacked => \A k \in Kids : kid'[k].pr # "open"
  <2>1. ShapeOK /\ gone \in BOOLEAN /\ Untarget(gone)
    BY <1>1 DEF RInv
  <2> HIDE DEF gone
  <2> QED BY <2>1, UntargetIs
<1>5. ~IsLocal
  BY <1>1 DEF RInv, PlaceOK, Exists
<1>6. IsRef(remote') /\ (Exists(remote') => remote' = remote) /\ (~Exists(remote') => gone)
  BY <1>1, NoRefIs DEF RInv, ShapeOK, Exists
<1>7. ShapeOK'
  BY <1>1, <1>3, <1>4, <1>6 DEF RInv, ShapeOK
<1>8. PlaceOK'
  BY <1>1, <1>3, <1>4, <1>5
     DEF RInv, PlaceOK, AllSteps, KidSteps, AtPR, PRSteps, StackStep, Ending, Classic, IsLocal, IsStacked, Exists
<1>9. OpenedOK'
  <2>1. InFlightKids' = InFlightKids
    BY <1>4 DEF InFlightKids
  <2> QED BY <1>1, <1>4, <2>1 DEF RInv, OpenedOK
<1>10. SliceOK'
  <2>1. ASSUME Classic
        PROVE  /\ ckpt.phase = None /\ Exists(remote') => Within(local, remote')
               /\ \A k \in Kids : kid[k].phase = "building" =>
                    /\ Exists(kid[k].pin)
                    /\ Within(kid[k].pin, IF Exists(local) THEN local ELSE base')
                    /\ Exists(remote') => Within(kid[k].pin, remote')
    <3>1. ckpt.phase = None /\ Exists(remote') => Within(local, remote')
      BY <1>1, <1>6, <2>1 DEF RInv, SliceOK
    <3>2. ASSUME NEW k \in Kids, kid[k].phase = "building"
          PROVE  /\ Exists(kid[k].pin)
                 /\ Within(kid[k].pin, IF Exists(local) THEN local ELSE base')
                 /\ Exists(remote') => Within(kid[k].pin, remote')
      <4>1. /\ Exists(kid[k].pin) /\ Within(kid[k].pin, IF Exists(local) THEN local ELSE base)
            /\ Exists(remote) /\ Within(kid[k].pin, remote)
        BY <1>1, <2>1, <3>2 DEF RInv, SliceOK
      <4>2. Within(kid[k].pin, base) => Within(kid[k].pin, base')
        BY <1>3, WithinTrans
      <4> QED BY <1>6, <4>1, <4>2
    <3> QED BY <3>1, <3>2
  <2> QED BY <1>1, <1>4, <2>1 DEF SliceOK, Classic, IsLocal, IsStacked, Exists
<1>11. DeliveredOK'
  <2>1. shipped \cup remote.work \subseteq shipped' \cup remote'.work
    BY <1>3
  <2> QED BY <1>1, <1>4, <1>5, <2>1 DEF RInv, DeliveredOK, Delivered, IsLocal, IsStacked
<1>12. MineOK'
  <2>1. remote'.work = remote.work \/ remote'.work = {}
    BY <1>1, NoRefIs
  <2>2. Classic /\ gone => \A k \in Kids : kid'[k].pr # "open"
    BY <1>4 DEF Classic
  <2>3. Classic => \A k \in Kids : kid'[k].pr = "open" => Exists(remote')
    BY <1>6, <2>2
  <2>4. Classic /\ mine /\ ~stacked => local.work = {} /\ remote'.work = {} /\ \A k \in Kids : kid'[k].pr # "open"
    BY <1>4, <2>1 DEF RInv, MineOK
  <2> QED BY <1>1, <2>3, <2>4 DEF MineOK, Classic, IsLocal, IsStacked, Exists
<1>13. MergedOK'
  <2>1. ~IsStacked => finished \subseteq shipped'
    BY <1>3, <1>5 DEF RInv, DeliveredOK, Delivered
  <2>2. pc \in AtPR => ~IsStacked
    BY DEF RInv, PlaceOK, PRSteps, Classic
  <2> QED BY <1>1, <2>1, <2>2 DEF RInv, MergedOK, IsStacked
<1> QED BY <1>7, <1>8, <1>9, <1>10, <1>11, <1>12, <1>13 DEF RInv

LEMMA ClosesEpicKeeps == ASSUME RInv, HumanClosesEpic PROVE RInv'
<1>1. /\ UNCHANGED <<setup, ckpt, kid, base, local, remote, shipped, finished, pc, memo, mine, stacked, cur>>
      /\ OpenPR /\ prs' = [prs EXCEPT ![LastPR] = "closed"]
  BY DEF HumanClosesEpic, books, run
<1>2. prs' \in Seq(PRState) /\ prs' # <<>> /\ prs'[LastPR'] = "closed"
  <2>1. prs \in Seq(PRState) /\ prs # <<>> /\ "closed" \in PRState
    BY <1>1, OpenIs DEF RInv, ShapeOK, PRState
  <2> QED BY <1>1, <2>1, SetLastIs
<1>3. ~IsLocal
  BY <1>1, OpenIs DEF RInv, ShapeOK, PlaceOK
<1>4. ShapeOK'
  BY <1>1, <1>2 DEF RInv, ShapeOK
<1>5. PlaceOK'
  BY <1>1, <1>2, <1>3
     DEF RInv, PlaceOK, AllSteps, KidSteps, AtPR, PRSteps, StackStep, Ending, Classic, IsLocal, IsStacked, Exists
<1>6. OpenedOK'
  BY <1>1 DEF RInv, OpenedOK, KidSteps, Shipping, Waiting, InFlightKids
<1>7. SliceOK' /\ DeliveredOK' /\ MineOK'
  BY <1>1 DEF RInv, SliceOK, DeliveredOK, Delivered, MineOK, Classic, IsLocal, IsStacked, Exists
<1>8. MergedOK'
  BY <1>1, <1>2 DEF RInv, MergedOK, AtPR, IsStacked
<1> QED BY <1>4, <1>5, <1>6, <1>7, <1>8 DEF RInv

LEMMA BaseKeeps == ASSUME RInv, BaseMoves PROVE RInv'
<1>1. /\ UNCHANGED <<setup, ckpt, kid, local, remote, prs, shipped, finished, pc, memo, mine, stacked, cur>>
      /\ base' = Plus(base, "drift")
  BY DEF BaseMoves, books, run
<1>2. IsRef(base') /\ base'.work = {} /\ "root" \in base'.rest /\ Within(base, base')
  BY <1>1, PlusIs, RefIs DEF RInv, ShapeOK
<1>3. ShapeOK'
  BY <1>1, <1>2 DEF RInv, ShapeOK
<1>4. PlaceOK'
  BY <1>1
     DEF RInv, PlaceOK, AllSteps, KidSteps, AtPR, PRSteps, StackStep, Ending, Classic, IsLocal, IsStacked, Exists
<1>5. OpenedOK'
  BY <1>1 DEF RInv, OpenedOK, KidSteps, Shipping, Waiting, InFlightKids
<1>6. SliceOK'
  <2>1. \A k \in Kids : Within(kid[k].pin, base) => Within(kid[k].pin, base')
    BY <1>2, WithinTrans
  <2> QED BY <1>1, <2>1 DEF RInv, SliceOK, Classic, IsLocal, IsStacked, Exists
<1>7. DeliveredOK' /\ MineOK'
  BY <1>1 DEF RInv, DeliveredOK, Delivered, MineOK, Classic, IsLocal, IsStacked, Exists
<1>8. MergedOK'
  BY <1>1 DEF RInv, MergedOK, AtPR, IsStacked, LastPR
<1> QED BY <1>3, <1>4, <1>5, <1>6, <1>7, <1>8 DEF RInv

-----------------------------------------------------------------------------
(* The invariant.                                                          *)

LEMMA InitHolds == Init => RInv
<1> SUFFICES ASSUME Init PROVE RInv
  OBVIOUS
<1>1. /\ setup \in Setups /\ ckpt = [phase |-> None, release |-> "", mark |-> ""]
      /\ kid = [k \in Kids |-> BlankKid(k)]
      /\ base = [work |-> {}, rest |-> {"root"}] /\ local = NoRef /\ remote = NoRef
      /\ prs = <<>> /\ shipped = {} /\ finished = {}
      /\ pc = "loop" /\ memo = FALSE /\ mine = FALSE /\ stacked = FALSE
  BY DEF Init
<1>2. /\ DOMAIN kid = Kids
      /\ \A k \in Kids : IsKid(kid[k]) /\ kid[k].issue = "open" /\ ~kid[k].done /\ kid[k].pr = "none" /\ kid[k].phase = None
  BY <1>1, NoRefIs DEF BlankKid, IsKid
<1>3. ShapeOK
  <2>1. IsRef(base) /\ base.work = {} /\ "root" \in base.rest
    BY <1>1 DEF IsRef
  <2>2. ckpt \in EpicRow
    BY <1>1 DEF EpicRow
  <2>3. prs \in Seq(PRState)
    BY <1>1, EmptySeq
  <2> QED BY <1>1, <1>2, <2>1, <2>2, <2>3, NoRefIs DEF ShapeOK
<1>4. PlaceOK
  BY <1>1, <1>2 DEF PlaceOK, AllSteps, KidSteps, AtPR, PRSteps, StackStep, Ending
<1>5. OpenedOK
  BY <1>1, <1>2 DEF OpenedOK, KidSteps, Shipping, Waiting
<1>6. SliceOK
  BY <1>1, <1>2, NoRefIs DEF SliceOK, None
<1>7. DeliveredOK /\ MineOK /\ MergedOK
  BY <1>1, <1>2 DEF DeliveredOK, MineOK, MergedOK, AtPR, None
<1> QED BY <1>3, <1>4, <1>5, <1>6, <1>7 DEF RInv

LEMMA StutterKeeps == ASSUME RInv, UNCHANGED vars PROVE RInv'
<1>1. UNCHANGED <<setup, ckpt, kid, base, local, remote, prs, shipped, finished, pc, memo, mine, stacked, cur>>
  BY DEF vars
<1>2. ShapeOK' /\ PlaceOK'
  BY <1>1 DEF RInv, ShapeOK, PlaceOK, Classic, IsLocal, IsStacked, Exists
<1>3. OpenedOK' /\ MergedOK'
  BY <1>1 DEF RInv, OpenedOK, MergedOK, InFlightKids, IsStacked, LastPR
<1>4. SliceOK' /\ DeliveredOK' /\ MineOK'
  BY <1>1 DEF RInv, SliceOK, DeliveredOK, Delivered, MineOK, Classic, IsLocal, IsStacked, Exists
<1> QED BY <1>2, <1>3, <1>4 DEF RInv

LEMMA RInvNext == RInv /\ [Next]_vars => RInv'
<1> SUFFICES ASSUME RInv, [Next]_vars PROVE RInv'
  OBVIOUS
<1>1. CASE Loop \/ Resolve \/ PRBase \/ CutSlice \/ Build \/ KidPR \/ KidGate \/ KidMerge \/ KidDone
  BY <1>1, LoopKeeps, BranchesKeep, CutSliceKeeps, BuildKeeps, KidPRKeeps, KidGateKeeps, KidMergeKeeps, KidDoneKeeps
<1>2. CASE Check \/ CheckpointEpicReleasing \/ Branch \/ SyncForMerge \/ EnsureEpicPR \/ Gate
  BY <1>2, CheckKeeps, OpensKeeps, BranchesKeep, SyncKeeps, EnsureKeeps, GateKeeps
<1>3. CASE PollCI \/ RepairEpic \/ MergeEpic \/ AwaitEpicMerge \/ LandEpic
  BY <1>3, PollKeeps, RepairKeeps, MergeEpicKeeps, AwaitKeeps, LandEpicKeeps
<1>4. CASE Layer \/ MergeStack \/ AwaitStackMerge
  BY <1>4, LayerKeeps, MergeStackKeeps, AwaitStackKeeps
<1>5. CASE CheckpointEpicMerged \/ TellTracker \/ HandOffEpic \/ SettleEpicBranch
  BY <1>5, CheckpointKeeps, TellKeeps, HandOffKeeps, SettleKeeps
<1>6. CASE Reattempt \/ StampReleaseSpent
  BY <1>6, StartKeeps, StampKeeps
<1>7. CASE Hands
  BY <1>7, StartKeeps, KillKeeps, StopKeeps, MergesKidKeeps, ClosesKidKeeps, MergesEpicKeeps, ClosesEpicKeeps,
     BaseKeeps DEF Hands
<1>8. CASE UNCHANGED vars
  BY <1>8, StutterKeeps
<1> QED BY <1>1, <1>2, <1>3, <1>4, <1>5, <1>6, <1>7, <1>8 DEF Next, RunStep

LEMMA ReleaseSound == Spec => []RInv
BY InitHolds, RInvNext, PTL DEF Spec

-----------------------------------------------------------------------------
(* Theorems.                                                               *)

\* In every behaviour of an epic that has a branch, under any setup, troubles and
\* gestures, what a child delivered is on the base or on a copy of the branch: no
\* exit, sync or reset drops the only one that carries it (exit_cleanup.go:207,
\* epic.go:391).
THEOREM DeliveredWorkIsKept == Spec => []LandedWorkKept
<1>1. RInv => LandedWorkKept
  BY DEF RInv, DeliveredOK, Delivered, LandedWorkKept
<1> QED BY <1>1, ReleaseSound, PTL

\* In every behaviour a slice that is being built can ship: what it was cut at is on
\* the remote epic branch, or a plain push brings it there (epic.go:318).
THEOREM SlicesShip == Spec => []SliceCanShip
<1>1. RInv => SliceCanShip
  <2> SUFFICES ASSUME RInv, Classic, NEW k \in Kids, kid[k].phase = "building",
                      NEW epic, epic = IF Exists(local) THEN local ELSE IF Exists(remote) THEN remote ELSE base
               PROVE  Within(kid[k].pin, remote) \/ (Within(remote, epic) /\ Within(kid[k].pin, epic))
    BY DEF SliceCanShip, Classic
  <2>1. /\ Within(kid[k].pin, IF Exists(local) THEN local ELSE base)
        /\ Exists(remote) => Within(kid[k].pin, remote)
    BY DEF RInv, SliceOK
  <2>2. ~Exists(remote) => Within(remote, epic)
    BY RefIs DEF RInv, ShapeOK, Exists
  <2> QED BY <2>1, <2>2
<1> QED BY <1>1, ReleaseSound, PTL

\* In every behaviour of an epic with a branch of its own, books that call it merged
\* tell the truth: the base has what every child delivered (epic.go:193).
THEOREM MergedMeansShipped == Spec => [](~IsStacked => EpicMeansShipped)
<1>1. RInv => (~IsStacked => EpicMeansShipped)
  BY DEF RInv, MergedOK, EpicMeansShipped
<1> QED BY <1>1, ReleaseSound, PTL

\* What is on the base changes by the two merges of an epic, or by hand.
LEMMA WholeStep ==
  ASSUME RInv, ~IsStacked, [Next]_vars, shipped' # shipped
  PROVE  Hands \/ finished \subseteq shipped'
<1>1. CASE Loop \/ Resolve \/ PRBase \/ CutSlice \/ Build \/ KidPR \/ KidGate \/ KidMerge \/ KidDone
  BY <1>1 DEF Loop, Resolve, PRBase, CutSlice, Build, KidPR, KidGate, KidMerge, KidDone, EpicBranchName, Fails,
     GiveUpOn, OpenKidPR, git
<1>2. CASE Check \/ CheckpointEpicReleasing \/ Branch \/ SyncForMerge \/ EnsureEpicPR \/ Gate
  BY <1>2 DEF Check, CheckpointEpicReleasing, Branch, SyncForMerge, EnsureEpicPR, Gate, EpicBranchName, Fails, git
<1>3. CASE PollCI \/ RepairEpic \/ AwaitEpicMerge
  BY <1>3 DEF PollCI, RepairEpic, AwaitEpicMerge, Fails, git
<1>4. CASE MergeEpic
  <2>1. EpicLands
    BY <1>4 DEF MergeEpic, Fails, git
  <2>2. pc \in AtPR
    BY <1>4 DEF MergeEpic, AtPR
  <2>3. ~IsLocal
    BY <2>2 DEF RInv, PlaceOK, PRSteps, Classic
  <2> QED BY <2>1, <2>3 DEF EpicLands, RInv, DeliveredOK, Delivered
<1>5. CASE LandEpic
  <2>1. IsLocal /\ shipped' = shipped \cup local.work
    BY <1>5 DEF LandEpic, git, RInv, PlaceOK
  <2> QED BY <2>1 DEF RInv, DeliveredOK, Delivered
<1>6. CASE Layer \/ MergeStack \/ AwaitStackMerge
  <2>1. pc \in StackStep
    BY <1>6 DEF Layer, MergeStack, AwaitStackMerge, StackStep
  <2> QED BY <2>1 DEF RInv, PlaceOK
<1>7. CASE CheckpointEpicMerged \/ TellTracker \/ HandOffEpic \/ SettleEpicBranch
  BY <1>7 DEF CheckpointEpicMerged, TellTracker, HandOffEpic, SettleEpicBranch, Fails, git
<1>8. CASE Reattempt \/ StampReleaseSpent
  BY <1>8 DEF Reattempt, StampReleaseSpent, git
<1>9. CASE UNCHANGED vars
  BY <1>9 DEF vars
<1> QED BY <1>1, <1>2, <1>3, <1>4, <1>5, <1>6, <1>7, <1>8, <1>9 DEF Next, RunStep

\* In every behaviour of an epic with a branch of its own, a step of trau that
\* changes the base puts there all that has been delivered (stacked_epic.go:16).
THEOREM ReleasesInOnePiece == Spec /\ []~IsStacked => ReleasesWhole
<1>1. RInv /\ ~IsStacked /\ [Next]_vars => [shipped' # shipped => Hands \/ finished \subseteq shipped']_vars
  BY WholeStep
<1> QED BY <1>1, ReleaseSound, PTL DEF Spec, ReleasesWhole

-----------------------------------------------------------------------------
(* The gate.                                                               *)

\* A release the hub has given up on stays given up on.
Abandoned == "restart" \notin Gestures

LEMMA HoldsNext == ASSUME Abandoned, RInv, HoldsOK, [Next]_vars PROVE HoldsOK'
<1>1. CASE Loop
  BY <1>1 DEF HoldsOK, Loop, Step, Keep, books, Shipping
<1>2. CASE Resolve \/ PRBase \/ Branch
  <2>1. UNCHANGED ckpt /\ pc # "off"
    BY <1>2 DEF Resolve, PRBase, Branch, EpicBranchName, books
  <2>2. pc' \in Shipping => pc \in Shipping
    BY <1>2 DEF Resolve, PRBase, Branch, EpicBranchName, Step, Shipping
  <2> QED BY <2>1, <2>2 DEF HoldsOK
<1>3. CASE CutSlice \/ Build \/ KidPR \/ KidGate \/ KidMerge \/ KidDone
  <2>1. UNCHANGED ckpt /\ pc # "off"
    BY <1>3 DEF CutSlice, Build, KidPR, KidGate, KidMerge, KidDone, OpenKidPR, Fails, GiveUpOn, books
  <2>2. pc' \notin Shipping
    BY <1>3 DEF CutSlice, Build, KidPR, KidGate, KidMerge, KidDone, OpenKidPR, Fails, GiveUpOn, Step, Shipping
  <2> QED BY <2>1, <2>2 DEF HoldsOK
<1>4. CASE Check
  BY <1>4 DEF HoldsOK, Check, Fails, Step, books, Shipping
<1>5. CASE CheckpointEpicReleasing
  <2>1. pc = "release" /\ ckpt.phase # "merged" /\ ckpt \in EpicRow
    BY <1>5 DEF CheckpointEpicReleasing, RInv, MergedOK, ShapeOK
  <2>2. ckpt' = [ckpt EXCEPT !.phase = "releasing", !.release = "active"]
    BY <1>5, <2>1 DEF CheckpointEpicReleasing
  <2> QED BY <2>1, <2>2 DEF HoldsOK, EpicRow
<1>6. CASE SyncForMerge \/ RepairEpic \/ MergeEpic \/ LandEpic \/ Gate
  <2>1. UNCHANGED ckpt /\ pc \in Shipping
    BY <1>6 DEF SyncForMerge, RepairEpic, MergeEpic, LandEpic, Gate, Fails, books, Shipping
  <2> QED BY <2>1 DEF HoldsOK, Shipping
<1>7. CASE EnsureEpicPR \/ PollCI \/ Layer \/ MergeStack
  <2>1. pc \in Shipping
    BY <1>7 DEF EnsureEpicPR, PollCI, Layer, MergeStack, Shipping
  <2>2. UNCHANGED ckpt \/ (ckpt' = [ckpt EXCEPT !.release = "awaiting-human"] /\ pc' \notin Shipping)
    BY <1>7 DEF EnsureEpicPR, PollCI, Layer, MergeStack, AwaitingHuman, Fails, Step, books, Shipping
  <2>3. ckpt \in EpicRow
    BY DEF RInv, ShapeOK
  <2> QED BY <2>1, <2>2, <2>3 DEF HoldsOK, Shipping, EpicRow
<1>8. CASE AwaitEpicMerge \/ AwaitStackMerge \/ CheckpointEpicMerged \/ TellTracker \/ HandOffEpic
  <2>1. pc # "off" /\ pc' \notin Shipping /\ ckpt'.mark = ckpt.mark
    <3>1. pc # "off" /\ pc' \notin Shipping
      BY <1>8 DEF AwaitEpicMerge, AwaitStackMerge, CheckpointEpicMerged, TellTracker, HandOffEpic, Fails, Step, Shipping
    <3>2. \/ UNCHANGED ckpt \/ ckpt' = [ckpt EXCEPT !.phase = "quarantined"]
          \/ ckpt' = [ckpt EXCEPT !.phase = "merged", !.release = ""]
          \/ ckpt' = [ckpt EXCEPT !.release = "awaiting-human"]
      BY <1>8 DEF AwaitEpicMerge, AwaitStackMerge, CheckpointEpicMerged, TellTracker, HandOffEpic, AwaitingHuman,
         Fails, books
    <3>3. ckpt \in EpicRow
      BY DEF RInv, ShapeOK
    <3> QED BY <3>1, <3>2, <3>3 DEF EpicRow
  <2> QED BY <2>1 DEF HoldsOK
<1>9. CASE SettleEpicBranch
  BY <1>9 DEF HoldsOK, SettleEpicBranch, Step, Shipping
<1>10. CASE Reattempt \/ StampReleaseSpent
  BY <1>10 DEF HoldsOK, Reattempt, StampReleaseSpent, ResumableRelease, Begin, books, Shipping
<1>11. CASE Start
  <2>1. ckpt.mark # "faulted"
    BY <1>11 DEF Start, Gesture, Abandoned
  <2> QED BY <1>11, <2>1 DEF HoldsOK, Start, Begin, books, Shipping
<1>12. CASE Kill \/ Stop
  BY <1>12 DEF HoldsOK, Kill, Stop, Step, books, Shipping
<1>13. CASE HumanMergesKid \/ HumanClosesKid \/ HumanMergesEpic \/ HumanClosesEpic \/ BaseMoves \/ UNCHANGED vars
  <2>1. UNCHANGED <<ckpt, pc>>
    BY <1>13 DEF HumanMergesKid, HumanClosesKid, HumanMergesEpic, HumanClosesEpic, BaseMoves, books, vars
  <2> QED BY <2>1 DEF HoldsOK
<1> QED BY <1>1, <1>2, <1>3, <1>4, <1>5, <1>6, <1>7, <1>8, <1>9, <1>10, <1>11, <1>12, <1>13
      DEF Next, RunStep, Hands

\* In every behaviour in which no operator starts a release over that the hub has
\* given up on, a run that ships has a checkpoint the other runs' release gate reads
\* as a release trau owns (releasegate.go:9).
THEOREM GateIsHeld == ASSUME Abandoned PROVE Spec => []GateHeld
<1>1. Init => HoldsOK
  <2> SUFFICES ASSUME Init PROVE HoldsOK
    OBVIOUS
  <2>1. ckpt = [phase |-> None, release |-> "", mark |-> ""] /\ pc = "loop"
    BY DEF Init
  <2>2. ckpt.mark = ""
    BY <2>1
  <2> QED BY <2>1, <2>2 DEF HoldsOK, Shipping
<1>2. RInv /\ HoldsOK /\ [Next]_vars => HoldsOK'
  BY HoldsNext
<1>3. HoldsOK => GateHeld
  BY DEF HoldsOK, GateHeld, ResumableRelease, Shipping
<1> QED BY <1>1, <1>2, <1>3, ReleaseSound, PTL DEF Spec

-----------------------------------------------------------------------------
(* Chains of layers.                                                       *)

\* A property of 0 that passes from each number to the next one holds up to N.
LEMMA UpTo ==
  ASSUME NEW N \in Nat, NEW S, 0 \in S, \A n \in 0..N : n < N /\ n \in S => n + 1 \in S
  PROVE  0..N \subseteq S
<1> SUFFICES ASSUME NEW bad \in 0..N, bad \notin S PROVE FALSE
  OBVIOUS
<1> DEFINE Bad   == {n \in 0..N : n \notin S}
           Below == {0..n : n \in Bad}
<1>1. PICK B \in Below : \A C \in Below : ~(<<C, B>> \in StrictSubsetOrdering(Nat))
  <2>1. Below \subseteq FiniteSubsetsOf(Nat)
    <3> SUFFICES ASSUME NEW n \in Bad PROVE 0..n \in FiniteSubsetsOf(Nat)
      OBVIOUS
    <3>1. n \in Int /\ 0 \in Int /\ 0..n \subseteq Nat
      OBVIOUS
    <3>2. IsFiniteSet(0..n)
      BY <3>1, FS_Interval
    <3> QED BY <3>1, <3>2 DEF FiniteSubsetsOf
  <2>2. Below # {}
    OBVIOUS
  <2> HIDE DEF Below
  <2> QED BY <2>1, <2>2, FS_StrictSubsetOrderingWellFounded, WFMin
<1>2. PICK m \in Bad : B = 0..m
  OBVIOUS
<1>3. m \in 1..N /\ m - 1 \in 0..N /\ (m - 1) + 1 = m
  OBVIOUS
<1>4. m - 1 \in Bad
  BY <1>3
<1>5. 0..(m - 1) \subseteq 0..m /\ 0..(m - 1) # 0..m /\ 0..(m - 1) \subseteq Nat /\ 0..m \subseteq Nat
  <2>1. m \in 0..m /\ m \notin 0..(m - 1)
    BY <1>3
  <2> QED BY <1>3, <2>1
<1>6. <<0..(m - 1), B>> \in StrictSubsetOrdering(Nat)
  BY <1>2, <1>5 DEF StrictSubsetOrdering
<1> QED BY <1>1, <1>4, <1>6

Size == Cardinality(Kids)

LEMMA KidsAre == Size \in Nat /\ Kids = 1..Size /\ 0 \notin Kids /\ IsFiniteSet(Kids) /\ Size > 0
<1>1. Size \in Nat
  BY KidsAssumption, FS_CardinalityType DEF Size
<1> QED BY <1>1, KidsAssumption DEF Size

\* With b naming the layer below each child: who stands on u, the chain that n links
\* on top of c make, and the chains of every length.
On(b, u) == {k \in Kids : b[k] = u /\ k # u}
Last(c)  == IF c = <<>> THEN 0 ELSE c[Len(c)]
Link(b, c, n) ==
  IF Len(c) < n - 1 \/ On(b, Last(c)) = {} THEN c
  ELSE Append(c, CHOOSE k \in On(b, Last(c)) : \A j \in On(b, Last(c)) : k <= j)
IsChain(f, b, N) == f = [n \in 0..N |-> IF n = 0 THEN <<>> ELSE Link(b, f[n - 1], n)]

LEMMA ChainExists == ASSUME NEW b PROVE \E f : IsChain(f, b, Size)
<1> DEFINE S == {N \in Nat : \E f : IsChain(f, b, N)}
<1>1. 0 \in S
  <2> DEFINE f == [n \in 0..0 |-> <<>>]
  <2>1. IsChain(f, b, 0)
    BY DEF IsChain
  <2> QED BY <2>1
<1>2. ASSUME NEW N \in Nat, N \in S
      PROVE  N + 1 \in S
  <2>1. PICK f : IsChain(f, b, N)
    BY <1>2
  <2> DEFINE g == [n \in 0..(N + 1) |-> IF n = N + 1 THEN Link(b, f[N], N + 1) ELSE f[n]]
  <2>2. ASSUME NEW n \in 0..(N + 1)
        PROVE  g[n] = IF n = 0 THEN <<>> ELSE Link(b, g[n - 1], n)
    <3>1. CASE n = N + 1
      <4>1. n # 0 /\ n - 1 = N /\ N \in 0..(N + 1) /\ N # N + 1
        BY <3>1
      <4> QED BY <3>1, <4>1
    <3>2. CASE n # N + 1
      <4>1. n \in 0..N /\ g[n] = f[n]
        BY <3>2
      <4>2. f[n] = IF n = 0 THEN <<>> ELSE Link(b, f[n - 1], n)
        BY <4>1, <2>1 DEF IsChain
      <4>3. n # 0 => n - 1 \in 0..(N + 1) /\ n - 1 # N + 1
        BY <4>1
      <4> QED BY <4>1, <4>2, <4>3
    <3> QED BY <3>1, <3>2
  <2>3. g = [n \in 0..(N + 1) |-> IF n = 0 THEN <<>> ELSE Link(b, g[n - 1], n)]
    <3> HIDE DEF g
    <3>1. g = [n \in 0..(N + 1) |-> g[n]]
      BY DEF g
    <3> QED BY <3>1, <2>2
  <2>4. IsChain(g, b, N + 1)
    BY <2>3 DEF IsChain
  <2> HIDE DEF g
  <2> QED BY <2>4
<1> HIDE DEF S
<1>3. 0..Size \subseteq S
  BY <1>1, <1>2, KidsAre, UpTo
<1>4. Size \in 0..Size
  BY KidsAre
<1> QED BY <1>3, <1>4 DEF S

LEMMA ChainSteps ==
  ASSUME NEW f, NEW b, IsChain(f, b, Size)
  PROVE  /\ f[0] = <<>>
         /\ \A n \in 0..Size : n < Size => f[n + 1] = Link(b, f[n], n + 1)
<1>1. \A n \in 0..Size : f[n] = IF n = 0 THEN <<>> ELSE Link(b, f[n - 1], n)
  BY DEF IsChain
<1>2. 0 \in 0..Size
  BY KidsAre
<1>3. ASSUME NEW n \in 0..Size, n < Size
      PROVE  f[n + 1] = Link(b, f[n], n + 1)
  <2>1. n + 1 \in 0..Size /\ n + 1 # 0 /\ (n + 1) - 1 = n
    BY <1>3, KidsAre
  <2> QED BY <1>1, <2>1
<1> QED BY <1>1, <1>2, <1>3

LEMMA ChainIsOne ==
  ASSUME NEW f, NEW g, NEW b, IsChain(f, b, Size), IsChain(g, b, Size)
  PROVE  f = g
<1> DEFINE S == {n \in 0..Size : f[n] = g[n]}
<1>1. 0 \in S
  BY ChainSteps, KidsAre
<1>2. \A n \in 0..Size : n < Size /\ n \in S => n + 1 \in S
  BY ChainSteps, KidsAre
<1>3. 0..Size \subseteq S
  <2> HIDE DEF S
  <2> QED BY <1>1, <1>2, KidsAre, UpTo
<1>4. f = [n \in 0..Size |-> f[n]] /\ g = [n \in 0..Size |-> g[n]]
  BY DEF IsChain
<1> QED BY <1>3, <1>4

\* A chain has at most n layers, each on the one before it, none twice; a shorter one
\* has nothing left to lay on its top.
Linked(b, c, n) ==
  /\ c \in Seq(Kids) /\ Len(c) <= n
  /\ \A i \in 1..Len(c) : c[i] \in On(b, IF i = 1 THEN 0 ELSE c[i - 1])
  /\ \A i, j \in 1..Len(c) : c[i] = c[j] => i = j
  /\ Len(c) < n => On(b, Last(c)) = {}

LEMMA LeastOn ==
  ASSUME NEW T, T \subseteq Kids, T # {}
  PROVE  (CHOOSE k \in T : \A j \in T : k <= j) \in T
<1> DEFINE N == Size  S == {n \in 0..N : \A j \in T : n <= j}
<1>1. \E k \in T : \A j \in T : k <= j
  <2> SUFFICES ASSUME \A k \in T : \E j \in T : j < k
               PROVE  FALSE
    <3>1. \A k, j \in T : k <= j \/ j < k
      BY KidsAre
    <3> QED BY <3>1
  <2>1. 0 \in S
    BY KidsAre
  <2>2. ASSUME NEW n \in 0..N, n < N /\ n \in S
        PROVE  n + 1 \in S
    <3>1. ASSUME NEW j \in T PROVE n + 1 <= j
      <4>1. j \in 1..Size /\ n <= j
        BY <2>2, KidsAre
      <4>2. PICK i \in T : i < j
        OBVIOUS
      <4>3. i \in 1..Size /\ n <= i
        BY <2>2, KidsAre
      <4> QED BY <4>1, <4>2, <4>3
    <3>2. n + 1 \in 0..N
      BY <2>2, KidsAre
    <3> QED BY <3>1, <3>2
  <2> HIDE DEF S
  <2>3. 0..N \subseteq S
    BY <2>1, <2>2, KidsAre, UpTo
  <2>4. N \in 0..N
    BY KidsAre
  <2>5. ASSUME NEW j \in T PROVE j = N
    <3>1. N <= j /\ j \in 1..N /\ N \in Nat
      BY <2>3, <2>4, KidsAre DEF S
    <3> QED BY <3>1
  <2>6. PICK k \in T : TRUE
    OBVIOUS
  <2>7. PICK j \in T : j < k
    OBVIOUS
  <2>8. k = N /\ j = N
    BY <2>5
  <2> QED BY <2>7, <2>8, KidsAre
<1> QED BY <1>1

LEMMA AddsLast ==
  ASSUME NEW c \in Seq(Kids), NEW k \in Kids
  PROVE  /\ Append(c, k) \in Seq(Kids) /\ Len(Append(c, k)) = Len(c) + 1 /\ Len(c) \in Nat
         /\ \A i \in 1..Len(c) : Append(c, k)[i] = c[i] /\ c[i] \in Kids
         /\ Append(c, k)[Len(c) + 1] = k
         /\ Last(Append(c, k)) = k /\ Append(c, k) # <<>>
         /\ Last(c) \in Kids \cup {0}
         /\ c # <<>> => Len(c) > 0 /\ Last(c) = c[Len(c)]
         /\ c = <<>> => Len(c) = 0 /\ Last(c) = 0
<1>1. /\ Append(c, k) \in Seq(Kids) /\ Len(Append(c, k)) = Len(c) + 1 /\ Len(c) \in Nat
      /\ \A i \in 1..Len(c) : Append(c, k)[i] = c[i] /\ c[i] \in Kids
      /\ Append(c, k)[Len(c) + 1] = k
  BY LenProperties, ElementOfSeq
<1>2. Append(c, k) # <<>>
  BY <1>1, EmptySeq
<1>3. c # <<>> => Len(c) > 0
  BY <1>1, EmptySeq
<1> QED BY <1>1, <1>2, <1>3, EmptySeq DEF Last

LEMMA ChainLinked ==
  ASSUME NEW f, NEW b, IsChain(f, b, Size)
  PROVE  \A n \in 0..Size : Linked(b, f[n], n)
<1> DEFINE S == {n \in 0..Size : Linked(b, f[n], n)}
<1>1. 0 \in S
  <2>1. f[0] = <<>> /\ Len(<<>>) = 0 /\ <<>> \in Seq(Kids) /\ 0 \in 0..Size
    BY ChainSteps, KidsAre, EmptySeq
  <2>2. Linked(b, <<>>, 0)
    BY <2>1 DEF Linked
  <2> QED BY <2>1, <2>2
<1>2. ASSUME NEW n \in 0..Size, n < Size /\ n \in S
      PROVE  n + 1 \in S
  <2> DEFINE c == f[n]  T == On(b, Last(c))
  <2>1. /\ n + 1 \in 0..Size /\ n \in Nat /\ (n + 1) - 1 = n /\ f[n + 1] = Link(b, c, n + 1)
        /\ Linked(b, c, n) /\ T \subseteq Kids
    BY <1>2, ChainSteps, KidsAre DEF On
  <2> HIDE DEF c
  <2>2. CASE Len(c) < n \/ T = {}
    <3>1. f[n + 1] = c
      BY <2>1, <2>2 DEF Link
    <3>2. Linked(b, c, n + 1)
      BY <2>1, <2>2, LenProperties DEF Linked
    <3> QED BY <2>1, <3>1, <3>2
  <2>3. CASE Len(c) = n /\ T # {}
    <3> DEFINE k == CHOOSE k \in T : \A j \in T : k <= j
    <3>1. k \in T /\ k \in Kids
      BY <2>1, <2>3, LeastOn
    <3>2. f[n + 1] = Append(c, k)
      BY <2>1, <2>3 DEF Link
    <3> HIDE DEF k
    <3> DEFINE d == Append(c, k)
    <3>3. /\ c \in Seq(Kids) /\ d \in Seq(Kids) /\ Len(d) = n + 1 /\ d[n + 1] = k
          /\ \A i \in 1..n : d[i] = c[i] /\ c[i] \in Kids
      BY <2>1, <2>3, <3>1, AddsLast DEF Linked
    <3> HIDE DEF d
    <3>0. \A i, j \in 1..n : c[i] = c[j] => i = j
      BY <2>1, <2>3 DEF Linked
    <3>4. k \in On(b, IF n + 1 = 1 THEN 0 ELSE d[n])
      <4>1. CASE n = 0
        <5>1. c = <<>> /\ Last(c) = 0
          BY <4>1, <2>3, <3>3, EmptySeq DEF Last
        <5> QED BY <5>1, <3>1, <4>1
      <4>2. CASE n # 0
        <5>1. c # <<>> /\ Last(c) = c[n] /\ n \in 1..n
          BY <4>2, <2>3, <2>1, <3>3, <3>1, AddsLast
        <5> QED BY <5>1, <3>1, <3>3, <4>2, <2>1
      <4> QED BY <4>1, <4>2
    <3>5. ASSUME NEW i \in 1..(n + 1)
          PROVE  d[i] \in On(b, IF i = 1 THEN 0 ELSE d[i - 1])
      <4>1. CASE i = n + 1
        BY <4>1, <3>3, <3>4, <2>1
      <4>2. CASE i # n + 1
        <5>1. i \in 1..n /\ (i # 1 => i - 1 \in 1..n)
          BY <4>2, <2>1
        <5> QED BY <5>1, <3>3, <2>1, <2>3 DEF Linked
      <4> QED BY <4>1, <4>2
    <3>6. ASSUME NEW i \in 1..n
          PROVE  c[i] # k
      <4> SUFFICES ASSUME c[i] = k PROVE FALSE
        OBVIOUS
      <4>1. n # 0 /\ n \in 1..n /\ d[n] = c[n] /\ b[k] = c[n] /\ c[n] \in Kids
        BY <2>1, <3>3, <3>4 DEF On
      <4>2. b[k] = IF i = 1 THEN 0 ELSE c[i - 1]
        BY <2>1, <2>3 DEF Linked, On
      <4>3. i # 1 /\ c[i - 1] = c[n] /\ i - 1 \in 1..n
        BY <4>1, <4>2, KidsAre, <2>1
      <4>4. i - 1 = n
        BY <4>1, <4>3, <2>1, <2>3 DEF Linked
      <4> QED BY <4>4, <2>1
    <3>7. ASSUME NEW i \in 1..(n + 1), NEW j \in 1..(n + 1), d[i] = d[j]
          PROVE  i = j
      <4>1. CASE i \in 1..n /\ j \in 1..n
        <5>1. c[i] = c[j]
          BY <4>1, <3>3, <3>7
        <5> QED BY <5>1, <4>1, <3>0
      <4>2. ASSUME NEW l \in 1..n PROVE d[l] # d[n + 1]
        BY <3>3, <3>6
      <4>3. (i \in 1..n \/ i = n + 1) /\ (j \in 1..n \/ j = n + 1)
        BY <2>1
      <4> QED BY <4>1, <4>2, <4>3, <3>7
    <3>8. Linked(b, d, n + 1)
      <4>1. Len(d) <= n + 1 /\ ~(Len(d) < n + 1)
        BY <3>3, <2>1
      <4> QED BY <4>1, <3>3, <3>5, <3>7 DEF Linked
    <3> QED BY <2>1, <3>2, <3>8 DEF d
  <2>4. Len(c) < n \/ Len(c) = n
    BY <2>1, LenProperties DEF Linked
  <2> QED BY <2>2, <2>3, <2>4
<1> HIDE DEF S
<1>3. 0..Size \subseteq S
  BY <1>1, <1>2, KidsAre, UpTo
<1> QED BY <1>3 DEF S

\* A chain that has stopped growing is as long as it gets.
LEMMA ChainStuck ==
  ASSUME NEW f, NEW b, IsChain(f, b, Size), NEW n \in 0..Size, Len(f[n]) < n
  PROVE  f[Size] = f[n]
<1> DEFINE S == {m \in 0..Size : m >= n => f[m] = f[n]}
<1>0. Len(f[n]) \in Nat
  BY ChainLinked, LenProperties DEF Linked
<1>1. 0 \in S
  BY <1>0, KidsAre
<1>2. ASSUME NEW m \in 0..Size, m < Size /\ m \in S
      PROVE  m + 1 \in S
  <2>1. m + 1 \in 0..Size /\ (m + 1) - 1 = m
    BY <1>2, KidsAre
  <2>2. CASE m >= n
    <3>1. f[m] = f[n] /\ Len(f[m]) < m
      BY <1>0, <1>2, <2>2
    <3>2. f[m + 1] = Link(b, f[m], m + 1)
      BY <1>2, ChainSteps
    <3> QED BY <2>1, <3>1, <3>2 DEF Link
  <2>3. CASE ~(m >= n)
    BY <2>1, <2>3
  <2> QED BY <2>2, <2>3
<1> HIDE DEF S
<1>3. 0..Size \subseteq S
  BY <1>1, <1>2, KidsAre, UpTo
<1>4. Size \in 0..Size /\ Size >= n
  BY KidsAre
<1> QED BY <1>3, <1>4 DEF S

\* The chain that n links make once c, on which nothing stands, is laid on the top.
LEMMA ChainGrows ==
  ASSUME NEW b, NEW c \in Kids, b[c] = c,
         NEW f, IsChain(f, b, Size), \A k \in Kids : b[k] # k => \E i \in 1..Len(f[Size]) : f[Size][i] = k,
         NEW d, d[c] = Last(f[Size]), \A k \in Kids \ {c} : d[k] = b[k],
         NEW g, IsChain(g, d, Size)
  PROVE  g[Size] = Append(f[Size], c)
<1> DEFINE s == f[Size]
<1>1. Size \in 0..Size /\ Size \in Nat /\ 0 \notin Kids /\ c # 0
  BY KidsAre
<1>2. /\ s \in Seq(Kids) /\ Len(s) <= Size /\ Len(s) \in Nat
      /\ \A i \in 1..Len(s) : s[i] \in On(b, IF i = 1 THEN 0 ELSE s[i - 1])
      /\ \A i, j \in 1..Len(s) : s[i] = s[j] => i = j
      /\ Len(s) < Size => On(b, Last(s)) = {}
      /\ Last(s) \in Kids \cup {0}
  BY <1>1, ChainLinked, AddsLast DEF Linked
<1> HIDE DEF s
<1>3. ASSUME NEW i \in 1..Len(s) PROVE s[i] # c /\ s[i] \in Kids
  BY <1>2 DEF On
<1>4. Len(s) < Size
  <2> SUFFICES ASSUME Len(s) = Size PROVE FALSE
    BY <1>2, <1>1
  <2> DEFINE T == Kids \ {c}
  <2>1. IsFiniteSet(T) /\ Cardinality(T) = Size - 1
    BY KidsAre, FS_RemoveElement DEF Size
  <2>2. IsFiniteSet(1..Size) /\ Cardinality(1..Size) = Size
    BY KidsAre DEF Size
  <2>3. Cardinality(T) < Cardinality(1..Size)
    BY <2>1, <2>2, <1>1
  <2> DEFINE h == [i \in 1..Size |-> s[i]]
  <2>4. h \in [1..Size -> T]
    BY <1>3
  <2> HIDE DEF h, T
  <2>5. \E x, y \in 1..Size : x # y /\ h[x] = h[y]
    BY <2>1, <2>2, <2>3, <2>4, FS_PigeonHole
  <2> QED BY <2>5, <1>2 DEF h
<1>5. On(b, Last(s)) = {} /\ Last(s) # c
  <2>1. Last(s) # c
    <3>1. s # <<>> => Last(s) = s[Len(s)] /\ Len(s) \in 1..Len(s)
      BY <1>2, EmptySeq DEF Last
    <3> QED BY <1>1, <1>3, <3>1 DEF Last
  <2> QED BY <1>2, <1>4, <2>1
<1>6. On(d, Last(s)) = {c} /\ \A u : u # Last(s) => On(d, u) = On(b, u)
  <2>1. d[c] = Last(s)
    BY DEF s
  <2>2. ASSUME NEW k PROVE k \in On(d, Last(s)) <=> k = c
    <3>1. k # c /\ k \in Kids => d[k] = b[k]
      OBVIOUS
    <3> QED BY <1>5, <2>1, <3>1 DEF On
  <2>3. On(d, Last(s)) = {c}
    BY <2>2
  <2>4. ASSUME NEW u, u # Last(s) PROVE On(d, u) = On(b, u)
    <3>1. \A k \in Kids : d[k] = u /\ k # u <=> b[k] = u /\ k # u
      <4> SUFFICES ASSUME NEW k \in Kids PROVE d[k] = u /\ k # u <=> b[k] = u /\ k # u
        OBVIOUS
      <4>1. CASE k = c
        BY <2>1, <2>4, <4>1
      <4>2. CASE k # c
        BY <4>2
      <4> QED BY <4>1, <4>2
    <3> QED BY <3>1 DEF On
  <2> QED BY <2>3, <2>4
<1>7. On(d, c) = {}
  <2> SUFFICES ASSUME NEW k \in On(b, c) PROVE FALSE
    BY <1>5, <1>6
  <2>1. k \in Kids /\ b[k] = c /\ k # c
    BY DEF On
  <2>2. PICK i \in 1..Len(s) : s[i] = k
    BY <2>1 DEF s
  <2>3. c = IF i = 1 THEN 0 ELSE s[i - 1]
    BY <1>2, <2>1, <2>2 DEF On
  <2>4. i # 1 => i - 1 \in 1..Len(s)
    BY <1>2
  <2> QED BY <1>1, <1>3, <2>3, <2>4
<1> DEFINE S == {n \in 0..Size : g[n] = IF Len(f[n]) = n THEN f[n] ELSE Append(f[n], c)}
<1>8. 0 \in S
  BY ChainSteps, <1>1, EmptySeq, KidsAre
<1>9. ASSUME NEW n \in 0..Size, n < Size /\ n \in S
      PROVE  n + 1 \in S
  <2> DEFINE e == f[n]
  <2>1. /\ n + 1 \in 0..Size /\ n \in Nat /\ (n + 1) - 1 = n
        /\ f[n + 1] = Link(b, e, n + 1) /\ g[n + 1] = Link(d, g[n], n + 1)
        /\ g[n] = IF Len(e) = n THEN e ELSE Append(e, c)
    BY <1>9, <1>1, ChainSteps
  <2>2. Linked(b, e, n) /\ Linked(b, f[n + 1], n + 1) /\ e \in Seq(Kids) /\ Len(e) \in Nat /\ Len(e) <= n
    BY <1>9, <2>1, ChainLinked, LenProperties DEF Linked
  <2>3. f[n + 1] = e => s = e
    <3>1. f[n + 1] = e => Len(f[n + 1]) < n + 1
      BY <2>1, <2>2
    <3> QED BY <2>1, <3>1, ChainStuck DEF s
  <2> HIDE DEF e
  <2>4. CASE Len(e) = n /\ On(b, Last(e)) = {}
    <3>1. f[n + 1] = e /\ s = e /\ g[n] = e
      BY <2>1, <2>3, <2>4 DEF Link
    <3>2. (CHOOSE k \in On(d, Last(e)) : \A j \in On(d, Last(e)) : k <= j) = c
      <4>1. On(d, Last(e)) = {c} /\ c <= c
        BY <1>6, <3>1, KidsAre
      <4> QED BY <4>1
    <3>3. g[n + 1] = Append(e, c)
      BY <1>6, <2>1, <2>4, <3>1, <3>2 DEF Link
    <3> QED BY <2>1, <2>4, <3>1, <3>3
  <2>5. CASE Len(e) = n /\ On(b, Last(e)) # {}
    <3>1. On(d, Last(e)) = On(b, Last(e)) /\ g[n] = e
      BY <1>5, <1>6, <2>1, <2>5
    <3>2. g[n + 1] = f[n + 1]
      BY <2>1, <3>1 DEF Link
    <3>3. (CHOOSE k \in On(b, Last(e)) : \A j \in On(b, Last(e)) : k <= j) \in Kids
      BY <2>5, LeastOn DEF On
    <3>4. Len(f[n + 1]) = n + 1
      BY <2>1, <2>2, <2>5, <3>3, AddsLast DEF Link
    <3> QED BY <2>1, <3>2, <3>4
  <2>6. CASE Len(e) # n
    <3>1. f[n + 1] = e /\ s = e /\ g[n] = Append(e, c) /\ Len(e) < n
      BY <2>1, <2>2, <2>3, <2>6 DEF Link
    <3>2. Last(g[n]) = c
      BY <2>2, <3>1, AddsLast
    <3>3. g[n + 1] = g[n]
      BY <1>7, <2>1, <3>2 DEF Link
    <3> QED BY <2>1, <2>2, <3>1, <3>3
  <2> QED BY <2>4, <2>5, <2>6
<1> HIDE DEF S
<1>10. 0..Size \subseteq S
  BY <1>8, <1>9, KidsAre, UpTo
<1>11. Size \in S
  BY <1>1, <1>10
<1>12. g[Size] = IF Len(s) = Size THEN s ELSE Append(s, c)
  BY <1>11 DEF S, s
<1>13. g[Size] = Append(s, c)
  BY <1>4, <1>12
<1> QED BY <1>13 DEF s

\* The layer each child names, and the links of the stack over them.
Unders == [k \in Kids |-> kid[k].below]

LEMMA AboveIs == \A u : Above(u) = On(Unders, u)
BY DEF Above, On, Unders

LEMMA StackIsChain == IsChain(Chain, Unders, Size)
<1> DEFINE Body(below, n) ==
      LET next == Above(IF below = <<>> THEN 0 ELSE below[Len(below)])
      IN  IF Len(below) < n - 1 \/ next = {} THEN below
          ELSE Append(below, CHOOSE k \in next : \A j \in next : k <= j)
    Links(g) == [n \in 0..Cardinality(Kids) |-> IF n = 0 THEN <<>> ELSE Body(g[n - 1], n)]
<1>1. Chain = CHOOSE g : g = Links(g)
  BY DEF Chain
<1>2. ASSUME NEW c, NEW n PROVE Body(c, n) = Link(Unders, c, n)
  <2> DEFINE u == IF c = <<>> THEN 0 ELSE c[Len(c)]
  <2>1. Above(u) = On(Unders, u) /\ Last(c) = u
    BY AboveIs DEF Last
  <2> HIDE DEF u
  <2>2. Body(c, n) = LET next == Above(u)
                     IN  IF Len(c) < n - 1 \/ next = {} THEN c
                         ELSE Append(c, CHOOSE k \in next : \A j \in next : k <= j)
    BY DEF u
  <2> QED BY <2>1, <2>2 DEF Link
<1> HIDE DEF Body
<1>3. ASSUME NEW g PROVE Links(g) = [n \in 0..Size |-> IF n = 0 THEN <<>> ELSE Link(Unders, g[n - 1], n)]
  BY <1>2 DEF Size
<1> HIDE DEF Links
<1>4. PICK g : g = Links(g)
  BY <1>3, ChainExists DEF IsChain
<1>5. Chain = Links(Chain)
  BY <1>1, <1>4
<1> QED BY <1>3, <1>5 DEF IsChain

LEMMA StackIsChainNext == IsChain(Chain', Unders', Size)
<1>1. IsChain(Chain, Unders, Size)'
  BY StackIsChain, PTL
<1> QED BY <1>1

LEMMA StackIs ==
  /\ Stack \in Seq(Kids) /\ Len(Stack) \in Nat /\ Len(Stack) <= Size
  /\ DOMAIN Stack = 1..Len(Stack) /\ \A i \in 1..Len(Stack) : Stack[i] \in Kids
  /\ Layers \subseteq Kids /\ \A k \in Layers : kid[k].below # k
  /\ \A i, j \in 1..Len(Stack) : Stack[i] = Stack[j] => i = j
  /\ Tip = Last(Stack) /\ Tip \in Kids \cup {0}
  /\ Stack # <<>> => Len(Stack) \in 1..Len(Stack) /\ Tip = Stack[Len(Stack)] /\ Tip \in Layers
<1>1. Size \in 0..Size /\ Stack = Chain[Size]
  BY KidsAre DEF Stack, Size
<1>2. /\ Stack \in Seq(Kids) /\ Len(Stack) <= Size /\ Len(Stack) \in Nat
      /\ \A i \in 1..Len(Stack) : Stack[i] \in On(Unders, IF i = 1 THEN 0 ELSE Stack[i - 1])
      /\ \A i, j \in 1..Len(Stack) : Stack[i] = Stack[j] => i = j
  BY <1>1, StackIsChain, ChainLinked, LenProperties DEF Linked
<1>3. DOMAIN Stack = 1..Len(Stack) /\ \A i \in 1..Len(Stack) : Stack[i] \in Kids
  BY <1>2, LenProperties DEF On
<1>4. ASSUME NEW k \in Layers PROVE k \in Kids /\ kid[k].below # k
  <2>1. PICK i \in 1..Len(Stack) : Stack[i] = k
    BY <1>3 DEF Layers
  <2>2. k \in Kids /\ k # IF i = 1 THEN 0 ELSE Stack[i - 1]
    BY <1>2, <2>1 DEF On
  <2>3. Unders[k] = IF i = 1 THEN 0 ELSE Stack[i - 1]
    BY <1>2, <2>1 DEF On
  <2> QED BY <2>2, <2>3 DEF Unders
<1>5. Tip = Last(Stack)
  BY DEF Tip, Last
<1>6. Stack # <<>> => Len(Stack) \in 1..Len(Stack) /\ Tip = Stack[Len(Stack)]
  BY <1>2, <1>5, EmptySeq DEF Last
<1>7. Stack # <<>> => Tip \in Layers
  BY <1>3, <1>6 DEF Layers
<1>8. Stack = <<>> => Tip = 0
  BY <1>5 DEF Last
<1> QED BY <1>2, <1>3, <1>4, <1>5, <1>6, <1>7, <1>8

LEMMA StackSame ==
  ASSUME \A k \in Kids : kid'[k].below = kid[k].below
  PROVE  Stack' = Stack /\ Layers' = Layers
<1>1. Unders' = Unders
  BY DEF Unders
<1>2. Chain' = Chain
  BY <1>1, StackIsChain, StackIsChainNext, ChainIsOne
<1>3. Stack' = Stack
  BY <1>2 DEF Stack
<1> QED BY <1>3 DEF Layers

LEMMA StackGrows ==
  ASSUME NEW c \in Kids, kid[c].below = c, \A k \in Kids : kid[k].below # k => k \in Layers,
         kid'[c].below = Tip, \A k \in Kids \ {c} : kid'[k].below = kid[k].below
  PROVE  Stack' = Append(Stack, c) /\ Layers' = Layers \cup {c} /\ c \notin Layers
<1>1. Stack = Chain[Size] /\ Stack' = Chain'[Size]
  BY DEF Stack, Size
<1>2. ASSUME NEW k \in Kids, Unders[k] # k
      PROVE  \E i \in 1..Len(Stack) : Stack[i] = k
  <2>1. k \in Layers
    BY <1>2 DEF Unders
  <2> QED BY <2>1, StackIs DEF Layers
<1>3. Unders[c] = c /\ (Unders')[c] = Last(Stack) /\ \A k \in Kids \ {c} : (Unders')[k] = Unders[k]
  BY StackIs DEF Unders
<1>4. Stack' = Append(Stack, c)
  BY <1>1, <1>2, <1>3, StackIsChain, StackIsChainNext, ChainGrows
<1>5. /\ Len(Stack') = Len(Stack) + 1 /\ Len(Stack) \in Nat
      /\ \A i \in 1..Len(Stack) : Stack'[i] = Stack[i]
      /\ Stack'[Len(Stack) + 1] = c
  BY <1>4, StackIs, AddsLast
<1>6. DOMAIN Stack' = 1..(Len(Stack) + 1) /\ DOMAIN Stack = 1..Len(Stack)
  BY <1>4, <1>5, StackIs, AddsLast, LenProperties
<1>7. Layers' = {Stack'[i] : i \in DOMAIN Stack'}
  BY DEF Layers
<1>8. Layers' = Layers \cup {c}
  BY <1>5, <1>6, <1>7 DEF Layers
<1> QED BY <1>4, <1>8, StackIs

-----------------------------------------------------------------------------
(* The stack.                                                              *)

\* Nobody drops the row of a child, and with it the record of the layer below.
RowsStay == "clear" \notin Gestures

Laid(k) == kid[k].below # k

\* Every child begun has a layer in the stack; a layer that is merged is on the base,
\* and so are those below it.
LayersOK ==
  /\ \A k \in Kids : Laid(k) => k \in Layers
  /\ \A k \in Kids : kid[k].phase # None <=> Laid(k)
  /\ finished \subseteq Layers
  /\ \A k \in Kids : kid[k].phase \in {None, "building"} => kid[k].pr = "none"
  /\ \A k \in Kids : kid[k].pr = "merged" => k \in shipped
  /\ \A i, j \in DOMAIN Stack : i < j /\ kid[Stack[j]].pr = "merged" => kid[Stack[i]].pr = "merged"

\* The child in hand has its layer, a stack that merges has one, and what is merged
\* has shipped.
LayerOK ==
  /\ pc \in {"build", "kidpr", "kidgate", "kiddone"} => Laid(cur)
  /\ pc = "cut" => ~Laid(cur)
  /\ pc # "kidmerge"
  /\ pc \in {"stackmerge", "stackwait"} => Stack # <<>>
  /\ (ckpt.phase = "merged" \/ pc = "merged") => finished \subseteq shipped

StackOK == IsStacked => LayersOK /\ LayerOK

LEMMA LayersKeep ==
  ASSUME LayersOK, shipped \subseteq shipped',
         \A k \in Kids : /\ kid'[k].below = kid[k].below /\ (kid'[k].phase = None <=> kid[k].phase = None)
                         /\ kid'[k].pr = "merged" <=> kid[k].pr = "merged"
                         /\ kid'[k].phase \in {None, "building"} => kid'[k].pr = "none",
         \A k \in finished' : k \in finished \/ (k \in Kids /\ Laid(k))
  PROVE  LayersOK' /\ Stack' = Stack
<1>1. Stack' = Stack /\ Layers' = Layers
  BY StackSame
<1>2. \A k \in Kids : Laid(k)' <=> Laid(k)
  BY DEF Laid
<1>3. finished' \subseteq Layers'
  BY <1>1 DEF LayersOK
<1>4. \A i \in DOMAIN Stack : Stack[i] \in Kids
  BY StackIs
<1>5. \A i, j \in DOMAIN Stack' :
        i < j /\ kid'[Stack'[j]].pr = "merged" => kid'[Stack'[i]].pr = "merged"
  BY <1>1, <1>4 DEF LayersOK
<1> QED BY <1>1, <1>2, <1>3, <1>5 DEF LayersOK

\* The layers up to one of them are landed.
LEMMA LandsKeeps ==
  ASSUME LayersOK, ShapeOK, UNCHANGED finished, NEW n \in 1..Len(Stack),
         StackLands({Stack[i] : i \in 1..n}), \A i \in 1..n : kid[Stack[i]].pr \in {"open", "merged"}
  PROVE  LayersOK' /\ Stack' = Stack /\ shipped \subseteq shipped'
<1> DEFINE L == {Stack[i] : i \in 1..n}
<1>1. /\ shipped' = shipped \cup L
      /\ \A k \in Kids : kid'[k] = IF k \in L THEN [kid[k] EXCEPT !.pr = "merged"] ELSE kid[k]
  BY DEF StackLands
<1>2. L \subseteq Kids /\ \A k \in L : kid[k].pr \in {"open", "merged"}
  BY StackIs
<1>3. ASSUME NEW k \in Kids
      PROVE  /\ kid'[k].below = kid[k].below /\ kid'[k].phase = kid[k].phase
             /\ kid'[k].pr = IF k \in L THEN "merged" ELSE kid[k].pr
  <2>1. kid[k] = [issue |-> kid[k].issue, phase |-> kid[k].phase, done |-> kid[k].done, pin |-> kid[k].pin,
                  below |-> kid[k].below, pr |-> kid[k].pr]
    BY DEF ShapeOK, IsKid
  <2> HIDE DEF L
  <2> QED BY <1>1, <2>1
<1>4. Stack' = Stack /\ Layers' = Layers
  BY <1>3, StackSame
<1>5. \A k \in Kids : Laid(k)' <=> Laid(k)
  BY <1>3 DEF Laid
<1>6. \A k \in Kids : kid'[k].phase \in {None, "building"} => kid'[k].pr = "none"
  <2> HIDE DEF L
  <2> QED BY <1>2, <1>3 DEF LayersOK
<1>7. \A k \in Kids : kid'[k].pr = "merged" => k \in shipped'
  <2> HIDE DEF L
  <2> QED BY <1>1, <1>3 DEF LayersOK
<1>8. ASSUME NEW i \in DOMAIN Stack', NEW j \in DOMAIN Stack', i < j, kid'[Stack'[j]].pr = "merged"
      PROVE  kid'[Stack'[i]].pr = "merged"
  <2>1. i \in 1..Len(Stack) /\ j \in 1..Len(Stack) /\ Stack[i] \in Kids /\ Stack[j] \in Kids
    BY <1>4, StackIs
  <2>2. CASE Stack[j] \in L
    <3>1. PICK m \in 1..n : Stack[m] = Stack[j]
      BY <2>2
    <3>2. m = j
      BY <2>1, <3>1, StackIs
    <3>3. i \in 1..n
      BY <1>8, <2>1, <3>1, <3>2
    <3> QED BY <1>3, <1>4, <2>1, <3>3
  <2>3. CASE Stack[j] \notin L
    <3>1. kid[Stack[j]].pr = "merged"
      BY <1>3, <1>4, <1>8, <2>1, <2>3
    <3>2. kid[Stack[i]].pr = "merged"
      BY <1>8, <2>1, <3>1, StackIs DEF LayersOK
    <3> QED BY <1>3, <1>4, <2>1, <3>2
  <2> QED BY <2>2, <2>3
<1>9. finished' \subseteq Layers'
  BY <1>4 DEF LayersOK
<1>10. \A k \in Kids : (Laid(k)' => k \in Layers') /\ (kid'[k].phase # None <=> Laid(k)')
  BY <1>3, <1>4, <1>5 DEF LayersOK
<1> HIDE DEF L
<1> QED BY <1>1, <1>4, <1>6, <1>7, <1>8, <1>9, <1>10 DEF LayersOK

\* A new layer on top.
LEMMA CutKeeps ==
  ASSUME LayersOK, ShapeOK, UNCHANGED <<finished, shipped, cur>>, cur \in Kids, ~Laid(cur),
         kid'[cur].below = Tip, kid'[cur].phase = "building", kid'[cur].pr = kid[cur].pr,
         \A k \in Kids \ {cur} : kid'[k] = kid[k]
  PROVE  LayersOK' /\ Laid(cur)'
<1>1. kid[cur].below = cur /\ kid[cur].phase = None /\ kid[cur].pr = "none"
  BY DEF LayersOK, Laid
<1>2. /\ Stack' = Append(Stack, cur) /\ Layers' = Layers \cup {cur} /\ cur \notin Layers
  BY <1>1, StackGrows DEF LayersOK, Laid
<1>3. Tip # cur
  BY <1>2, StackIs, KidsAre DEF Last
<1>4. Laid(cur)' /\ \A k \in Kids \ {cur} : Laid(k)' <=> Laid(k)
  BY <1>3 DEF Laid
<1>5. "building" # None
  BY DEF None
<1>6. ASSUME NEW k \in Kids
      PROVE  (Laid(k)' => k \in Layers') /\ (kid'[k].phase # None <=> Laid(k)')
  <2>1. CASE k = cur
    BY <1>2, <1>4, <1>5, <2>1
  <2>2. CASE k # cur
    BY <1>2, <1>4, <2>2 DEF LayersOK
  <2> QED BY <2>1, <2>2
<1>7. \A k \in Kids : /\ kid'[k].phase \in {None, "building"} => kid'[k].pr = "none"
                      /\ kid'[k].pr = "merged" => k \in shipped'
  BY <1>1 DEF LayersOK
<1>8. ASSUME NEW i \in DOMAIN Stack', NEW j \in DOMAIN Stack', i < j, kid'[Stack'[j]].pr = "merged"
      PROVE  kid'[Stack'[i]].pr = "merged"
  <2>1. /\ DOMAIN Stack' = 1..(Len(Stack) + 1) /\ DOMAIN Stack = 1..Len(Stack) /\ Len(Stack) \in Nat
        /\ \A m \in 1..Len(Stack) : Stack'[m] = Stack[m] /\ Stack[m] \in Kids /\ Stack[m] # cur
        /\ Stack'[Len(Stack) + 1] = cur
    <3>1. \A m \in 1..Len(Stack) : Stack[m] \in Layers
      BY StackIs DEF Layers
    <3> QED BY <1>2, <3>1, StackIs, AddsLast, LenProperties
  <2>2. j # Len(Stack) + 1
    BY <1>1, <1>8, <2>1
  <2>3. i \in DOMAIN Stack /\ j \in DOMAIN Stack
    BY <1>8, <2>1, <2>2
  <2> QED BY <1>8, <2>1, <2>3 DEF LayersOK
<1>9. finished' \subseteq Layers'
  BY <1>2 DEF LayersOK
<1> QED BY <1>4, <1>6, <1>7, <1>8, <1>9 DEF LayersOK

\* Steps that leave the children, and what has shipped, alone.
LEMMA StackStays ==
  ASSUME IsStacked => LayersOK, UNCHANGED <<setup, kid, shipped, finished>>, IsStacked => LayerOK'
  PROVE  StackOK'
<1>1. IsStacked' <=> IsStacked
  BY DEF IsStacked
<1>2. ASSUME LayersOK PROVE LayersOK'
  BY <1>2, LayersKeep DEF LayersOK
<1> QED BY <1>1, <1>2 DEF StackOK

LEMMA FailsStack == ASSUME StackOK, Fails PROVE StackOK'
<1>1. UNCHANGED <<setup, kid, shipped, finished, ckpt>> /\ pc' = "exit"
  BY DEF Fails, Step, Keep, books, git
<1> QED BY <1>1, StackStays DEF StackOK, LayerOK

\* A run begins, or ends.
LEMMA EndsStack ==
  ASSUME RInv, StackOK,
         Start \/ Reattempt \/ StampReleaseSpent \/ Kill \/ Stop \/ SettleEpicBranch \/ TellTracker \/ HandOffEpic
  PROVE  StackOK'
<1>1. CASE Start \/ Reattempt \/ Kill \/ Stop
  <2>1. UNCHANGED <<setup, kid, shipped, finished, ckpt>>
    BY <1>1 DEF Start, Reattempt, Kill, Stop, books, git
  <2>2. pc' \in {"loop", "off", "exit"}
    BY <1>1 DEF Start, Reattempt, Kill, Stop, Begin, Step
  <2> QED BY <2>1, <2>2, StackStays DEF StackOK, LayerOK
<1>2. CASE StampReleaseSpent
  <2>1. UNCHANGED <<setup, kid, shipped, finished, pc>> /\ pc = "off" /\ ckpt'.phase = ckpt.phase
    BY <1>2 DEF StampReleaseSpent, git, RInv, ShapeOK, EpicRow
  <2> QED BY <2>1, StackStays DEF StackOK, LayerOK
<1>3. CASE TellTracker
  <2>1. UNCHANGED <<setup, kid, shipped, finished, ckpt>> /\ pc' \in {"exit", "handoff"}
    BY <1>3 DEF TellTracker, Fails, Step, Keep, books, git
  <2> QED BY <2>1, StackStays DEF StackOK, LayerOK
<1>4. CASE HandOffEpic
  <2>1. UNCHANGED <<setup, kid, shipped, finished>> /\ pc' = "exit" /\ ckpt'.phase = ckpt.phase
    BY <1>4 DEF HandOffEpic, AwaitingHuman, Step, Keep, git, RInv, ShapeOK, EpicRow
  <2> QED BY <2>1, StackStays DEF StackOK, LayerOK
<1>5. CASE SettleEpicBranch
  <2>1. UNCHANGED <<setup, shipped, finished, ckpt>> /\ pc' = "off"
    BY <1>5 DEF SettleEpicBranch, Step, Keep
  <2>2. IsStacked => \A k \in Kids : kid'[k] = kid[k]
    BY <1>5 DEF SettleEpicBranch, Untarget
  <2>3. IsStacked => LayersOK'
    BY <2>1, <2>2, LayersKeep DEF StackOK, LayersOK
  <2>4. IsStacked' <=> IsStacked
    BY <2>1 DEF IsStacked
  <2> QED BY <2>1, <2>3, <2>4 DEF StackOK, LayerOK
<1> QED BY <1>1, <1>2, <1>3, <1>4, <1>5

LEMMA LoopStack == ASSUME RInv, StackOK, Loop PROVE StackOK'
<1>1. UNCHANGED <<setup, kid, shipped, finished, ckpt>> /\ pc = "loop"
  BY DEF Loop, Keep, books, git
<1>2. CASE Step("check")
  <2>1. pc' = "check"
    BY <1>2 DEF Step
  <2> QED BY <1>1, <2>1, StackStays DEF StackOK, LayerOK
<1>3. CASE \E k \in InFlightKids : cur' = k /\ Step(IF kid[k].phase = "building" THEN "build" ELSE IF IsStacked THEN "kidgate" ELSE "base")
  <2>1. PICK k \in InFlightKids : cur' = k
    BY <1>3
  <2>2. k \in Kids /\ kid[k].phase # None
    BY <2>1, PhasesIs DEF InFlightKids
  <2>3. pc' \in {"build", "kidgate", "base"}
    BY <1>3 DEF Step
  <2>4. IsStacked => Laid(cur)'
    BY <1>1, <2>1, <2>2 DEF StackOK, LayersOK, Laid
  <2> QED BY <1>1, <2>3, <2>4, StackStays DEF StackOK, LayerOK
<1>4. CASE cur' \in Eligible /\ Step(IF IsStacked THEN "cut" ELSE "resolve")
  <2>1. cur' \in Kids /\ kid[cur'].phase = None /\ pc' \in {"cut", "resolve"}
    BY <1>4 DEF Eligible, Step
  <2>2. IsStacked => ~Laid(cur)'
    BY <1>1, <2>1 DEF StackOK, LayersOK, Laid
  <2> QED BY <1>1, <2>1, <2>2, StackStays DEF StackOK, LayerOK
<1> QED BY <1>2, <1>3, <1>4 DEF Loop

\* A child gives way, or moves on: the layer below it stays what it was.
LEMMA KidStack ==
  ASSUME RInv, StackOK, Laid(cur), cur \in Kids, UNCHANGED <<setup, shipped, ckpt>>,
         kid[cur].phase # None \/ ~IsStacked,
         \A k \in Kids \ {cur} : kid'[k] = kid[k],
         kid'[cur].below = kid[cur].below,
         kid'[cur].phase \in {"pr_open", "merged", "quarantined"},
         kid'[cur].pr = "merged" <=> kid[cur].pr = "merged",
         finished' = finished \/ (finished' = finished \cup {cur} /\ ckpt.phase # "merged"),
         IsStacked => pc' = "loop" \/ (pc' \in {"kidgate", "kiddone"} /\ UNCHANGED cur)
  PROVE  StackOK'
<1> SUFFICES ASSUME IsStacked PROVE LayersOK' /\ LayerOK'
  BY DEF StackOK, IsStacked
<1>1. None \notin {"pr_open", "merged", "quarantined", "building"}
  BY DEF None
<1>2. LayersOK'
  <2>1. ASSUME NEW k \in Kids
        PROVE  /\ kid'[k].below = kid[k].below /\ (kid'[k].phase = None <=> kid[k].phase = None)
               /\ kid'[k].pr = "merged" <=> kid[k].pr = "merged"
               /\ kid'[k].phase \in {None, "building"} => kid'[k].pr = "none"
    <3>1. CASE k = cur
      BY <1>1, <3>1
    <3>2. CASE k # cur
      BY <3>2 DEF StackOK, LayersOK
    <3> QED BY <3>1, <3>2
  <2>2. \A k \in finished' : k \in finished \/ (k \in Kids /\ Laid(k))
    OBVIOUS
  <2> QED BY <2>1, <2>2, LayersKeep DEF StackOK
<1>3. Laid(cur) => kid'[cur].below # cur
  BY DEF Laid
<1> QED BY <1>2, <1>3 DEF StackOK, LayerOK, Laid

LEMMA CutStack == ASSUME RInv, StackOK, CutSlice PROVE StackOK'
<1>1. CASE Fails
  BY <1>1, FailsStack
<1>2. CASE ~Fails
  <2>1. /\ UNCHANGED <<setup, shipped, finished, ckpt, cur>> /\ pc = "cut" /\ pc' = "build"
        /\ kid' = [kid EXCEPT ![cur].phase = "building", ![cur].pin = local',
                              ![cur].below = IF IsStacked THEN Tip ELSE @]
    BY <1>2 DEF CutSlice, Step, Keep
  <2>2. IsStacked' <=> IsStacked
    BY <2>1 DEF IsStacked
  <2> SUFFICES ASSUME IsStacked PROVE LayersOK' /\ LayerOK'
    BY <2>2 DEF StackOK
  <2>3. cur \in Kids /\ ~Laid(cur) /\ ShapeOK /\ LayersOK
    BY <2>1 DEF RInv, PlaceOK, KidSteps, StackOK, LayerOK
  <2>4. /\ kid'[cur].below = Tip /\ kid'[cur].phase = "building" /\ kid'[cur].pr = kid[cur].pr
        /\ \A k \in Kids \ {cur} : kid'[k] = kid[k]
    <3>1. DOMAIN kid = Kids /\ kid[cur] = [issue |-> kid[cur].issue, phase |-> kid[cur].phase, done |-> kid[cur].done,
             pin |-> kid[cur].pin, below |-> kid[cur].below, pr |-> kid[cur].pr]
      BY <2>3 DEF ShapeOK, IsKid
    <3>2. DOMAIN kid' = Kids /\ \A k \in Kids \ {cur} : kid'[k] = kid[k]
      BY <2>1, <2>3, <3>1
    <3>3. kid'[cur].below = Tip
      BY <2>1, <2>3, <3>1
    <3>4. kid'[cur].phase = "building"
      BY <2>1, <2>3, <3>1
    <3>5. kid'[cur].pr = kid[cur].pr
      BY <2>1, <2>3, <3>1
    <3> QED BY <3>2, <3>3, <3>4, <3>5
  <2>5. LayersOK' /\ Laid(cur)'
    BY <2>1, <2>3, <2>4, CutKeeps
  <2> QED BY <2>1, <2>5 DEF StackOK, LayerOK
<1> QED BY <1>1, <1>2

LEMMA GiveUpStack ==
  ASSUME RInv, StackOK, GiveUpOn(cur), pc \in {"build", "kidpr", "kidgate", "kidmerge"}
  PROVE  StackOK'
<1>1. /\ UNCHANGED <<setup, shipped, finished, ckpt>> /\ pc' = "loop"
      /\ kid' = [kid EXCEPT ![cur].phase = "quarantined"]
  BY DEF GiveUpOn, Step, Keep, git, run
<1>2. IsStacked' <=> IsStacked
  BY <1>1 DEF IsStacked
<1> SUFFICES ASSUME IsStacked PROVE StackOK'
  BY <1>2 DEF StackOK
<1>3. cur \in Kids /\ Laid(cur) /\ kid[cur].phase # None
  BY DEF RInv, PlaceOK, KidSteps, StackOK, LayersOK, LayerOK
<1>4. /\ kid'[cur].below = kid[cur].below /\ kid'[cur].phase = "quarantined" /\ kid'[cur].pr = kid[cur].pr
      /\ \A k \in Kids \ {cur} : kid'[k] = kid[k]
  BY <1>1, <1>3 DEF RInv, ShapeOK, IsKid
<1> QED BY <1>1, <1>3, <1>4, KidStack

LEMMA BuildStack == ASSUME RInv, StackOK, Build PROVE StackOK'
<1>1. CASE Fails \/ GiveUpOn(cur)
  BY <1>1, FailsStack, GiveUpStack DEF Build
<1>2. CASE ~Fails /\ ~GiveUpOn(cur)
  <2>1. /\ UNCHANGED <<setup, kid, shipped, finished, ckpt, cur>> /\ pc = "build"
        /\ pc' = IF IsStacked THEN "kidpr" ELSE "base"
    BY <1>2 DEF Build, Step, Keep, books, git, run
  <2>2. IsStacked => Laid(cur)'
    BY <2>1 DEF StackOK, LayerOK, Laid
  <2> QED BY <2>1, <2>2, StackStays DEF StackOK, LayerOK
<1> QED BY <1>1, <1>2

LEMMA KidPRStack == ASSUME RInv, StackOK, KidPR PROVE StackOK'
<1>1. CASE Fails
  BY <1>1, FailsStack
<1>2. CASE OpenKidPR
  <2>1. /\ UNCHANGED <<setup, shipped, finished, ckpt, cur>> /\ pc = "kidpr" /\ pc' = "kidgate"
        /\ kid' = [kid EXCEPT ![cur].phase = "pr_open", ![cur].pr = IF IsLocal THEN @ ELSE "open"]
    BY <1>2 DEF KidPR, OpenKidPR, Step, Keep
  <2>2. IsStacked' <=> IsStacked
    BY <2>1 DEF IsStacked
  <2> SUFFICES ASSUME IsStacked PROVE StackOK'
    BY <2>2 DEF StackOK
  <2>3. cur \in Kids /\ Laid(cur) /\ kid[cur].phase = "building" /\ kid[cur].pr = "none" /\ ~IsLocal
    BY <2>1 DEF RInv, PlaceOK, KidSteps, StackOK, LayersOK, LayerOK, IsStacked, IsLocal
  <2>4. /\ kid'[cur].below = kid[cur].below /\ kid'[cur].phase = "pr_open" /\ kid'[cur].pr = "open"
        /\ \A k \in Kids \ {cur} : kid'[k] = kid[k]
    BY <2>1, <2>3 DEF RInv, ShapeOK, IsKid
  <2>5. kid[cur].phase # None
    BY <2>3 DEF None
  <2> QED BY <2>1, <2>3, <2>4, <2>5, KidStack
<1> QED BY <1>1, <1>2 DEF KidPR

LEMMA KidGateStack == ASSUME RInv, StackOK, KidGate PROVE StackOK'
<1>1. CASE GiveUpOn(cur)
  BY <1>1, GiveUpStack DEF KidGate
<1>2. CASE ~GiveUpOn(cur)
  <2>1. /\ UNCHANGED <<setup, kid, shipped, finished, ckpt, cur>> /\ pc = "kidgate"
        /\ pc' = "kiddone" \/ (pc' = "kidmerge" /\ ~IsStacked)
    BY <1>2 DEF KidGate, Step, Keep, books, git, run
  <2>2. IsStacked => Laid(cur)'
    BY <2>1 DEF StackOK, LayerOK, Laid
  <2> QED BY <2>1, <2>2, StackStays DEF StackOK, LayerOK
<1> QED BY <1>1, <1>2

LEMMA KidMergeStack == ASSUME RInv, StackOK, KidMerge PROVE StackOK'
<1>1. ~IsStacked /\ UNCHANGED setup
  BY DEF KidMerge, StackOK, LayerOK, Fails, GiveUpOn, Keep
<1> QED BY <1>1 DEF StackOK, IsStacked

LEMMA KidDoneStack == ASSUME RInv, StackOK, KidDone PROVE StackOK'
<1>1. /\ UNCHANGED <<setup, shipped, ckpt>> /\ pc = "kiddone" /\ pc' = "loop" /\ finished' = finished \cup {cur}
      /\ \E told \in BOOLEAN : kid' = [kid EXCEPT ![cur].phase = "merged", ![cur].done = @ \/ told,
                                                  ![cur].issue = IF told THEN "closed" ELSE @]
  BY DEF KidDone, Step, Keep, git
<1>2. IsStacked' <=> IsStacked
  BY <1>1 DEF IsStacked
<1> SUFFICES ASSUME IsStacked PROVE StackOK'
  BY <1>2 DEF StackOK
<1>3. cur \in Kids /\ Laid(cur) /\ kid[cur].phase # None /\ ckpt.phase # "merged"
  BY <1>1 DEF RInv, PlaceOK, OpenedOK, KidSteps, StackOK, LayersOK, LayerOK, None
<1>4. /\ kid'[cur].below = kid[cur].below /\ kid'[cur].phase = "merged" /\ kid'[cur].pr = kid[cur].pr
      /\ \A k \in Kids \ {cur} : kid'[k] = kid[k]
  BY <1>1, <1>3 DEF RInv, ShapeOK, IsKid
<1> QED BY <1>1, <1>3, <1>4, KidStack

LEMMA CheckStack == ASSUME RInv, StackOK, Check PROVE StackOK'
<1>1. CASE Fails
  BY <1>1, FailsStack
<1>2. CASE ~Fails
  <2>1. /\ UNCHANGED <<setup, shipped, finished, ckpt>> /\ pc' = "release"
        /\ kid' \in {[k \in Kids |-> [kid[k] EXCEPT !.issue = "closed"]], kid}
    BY <1>2 DEF Check, Step, Keep, git
  <2>2. ASSUME NEW k \in Kids
        PROVE  /\ kid'[k].below = kid[k].below /\ kid'[k].phase = kid[k].phase /\ kid'[k].pr = kid[k].pr
    BY <2>1 DEF RInv, ShapeOK, IsKid
  <2>3. IsStacked => LayersOK'
    BY <2>1, <2>2, LayersKeep DEF StackOK, LayersOK
  <2>4. IsStacked' <=> IsStacked
    BY <2>1 DEF IsStacked
  <2> QED BY <2>1, <2>3, <2>4 DEF StackOK, LayerOK
<1> QED BY <1>1, <1>2

LEMMA OpensStack == ASSUME RInv, StackOK, CheckpointEpicReleasing PROVE StackOK'
<1>1. UNCHANGED <<setup, kid, shipped, finished>> /\ pc = "release" /\ pc' \in {"layers", "branch"}
  BY DEF CheckpointEpicReleasing, Step, Keep, git
<1>2. ckpt'.phase \in {"merged", "releasing"} /\ (ckpt'.phase = "merged" => ckpt.phase = "merged")
  BY DEF CheckpointEpicReleasing, RInv, ShapeOK, EpicRow
<1> QED BY <1>1, <1>2, StackStays DEF StackOK, LayerOK

\* What an epic with a branch of its own goes through.
LEMMA BranchStack ==
  ASSUME RInv, StackOK,
         \/ Resolve \/ PRBase \/ Branch \/ SyncForMerge \/ EnsureEpicPR \/ Gate \/ PollCI \/ RepairEpic
         \/ MergeEpic \/ AwaitEpicMerge \/ LandEpic
  PROVE  StackOK'
<1>1. CASE Resolve \/ PRBase \/ Branch
  <2>1. pc \in {"resolve", "base", "branch"} /\ UNCHANGED setup
    BY <1>1 DEF Resolve, PRBase, Branch, EpicBranchName, Keep
  <2> QED BY <2>1 DEF RInv, PlaceOK, StackOK, IsStacked
<1>2. CASE SyncForMerge \/ EnsureEpicPR \/ Gate \/ PollCI \/ RepairEpic \/ MergeEpic \/ AwaitEpicMerge
  <2>1. pc \in PRSteps /\ UNCHANGED setup
    BY <1>2 DEF SyncForMerge, EnsureEpicPR, Gate, PollCI, RepairEpic, MergeEpic, AwaitEpicMerge, Fails, Keep,
       PRSteps, AtPR
  <2> QED BY <2>1 DEF RInv, PlaceOK, Classic, StackOK, IsStacked
<1>3. CASE LandEpic
  <2>1. pc = "land" /\ UNCHANGED setup
    BY <1>3 DEF LandEpic, Keep
  <2> QED BY <2>1 DEF RInv, PlaceOK, StackOK, IsStacked, IsLocal
<1> QED BY <1>1, <1>2, <1>3

LEMMA LayerStack == ASSUME RInv, StackOK, Layer PROVE StackOK'
<1>1. UNCHANGED <<setup, kid, shipped, finished>> /\ pc = "layers"
  BY DEF Layer, Keep, git
<1>2. pc' \in {"handoff", "layers"} \/ (pc' \in {"stackmerge", "stackwait"} /\ Stack # <<>>)
  BY DEF Layer, Step
<1>3. ckpt'.phase = ckpt.phase
  BY DEF Layer, AwaitingHuman, RInv, ShapeOK, EpicRow
<1>4. Stack' = Stack
  BY <1>1, StackSame
<1> QED BY <1>1, <1>2, <1>3, <1>4, StackStays DEF StackOK, LayerOK

LEMMA TopMerged ==
  ASSUME LayersOK, Stack # <<>>, kid[Tip].pr = "merged"
  PROVE  \A k \in Layers : kid[k].pr = "merged"
<1> SUFFICES ASSUME NEW i \in DOMAIN Stack PROVE kid[Stack[i]].pr = "merged"
  BY DEF Layers
<1>1. Len(Stack) \in DOMAIN Stack /\ Tip = Stack[Len(Stack)] /\ i <= Len(Stack) /\ i \in Nat
  BY StackIs
<1>2. i = Len(Stack) \/ i < Len(Stack)
  BY <1>1, StackIs
<1> QED BY <1>1, <1>2 DEF LayersOK

LEMMA MergeStackStack == ASSUME RInv, StackOK, MergeStack PROVE StackOK'
<1>1. /\ UNCHANGED <<setup, finished>> /\ pc = "stackmerge" /\ IsStacked /\ LayersOK /\ Stack # <<>> /\ ShapeOK
      /\ IsStacked'
  BY DEF MergeStack, Keep, RInv, PlaceOK, StackStep, StackOK, LayerOK, IsStacked
<1>2. CASE kid[Tip].pr = "merged" /\ Step("merged") /\ UNCHANGED <<books, shipped>>
  <2>1. finished \subseteq shipped
    BY <1>1, <1>2, TopMerged, StackIs DEF LayersOK
  <2>2. pc' = "merged" /\ UNCHANGED <<setup, kid, shipped, finished, ckpt>>
    BY <1>1, <1>2 DEF Step, books
  <2> QED BY <1>1, <2>1, <2>2, StackStays DEF LayerOK
<1>3. CASE /\ \A k \in Layers : kid[k].pr \in {"open", "merged"}
           /\ StackLands(Layers) /\ Step("merged") /\ UNCHANGED <<ckpt, issue>>
  <2>1. Len(Stack) \in 1..Len(Stack) /\ Layers = {Stack[i] : i \in 1..Len(Stack)}
    BY <1>1, StackIs DEF Layers
  <2>2. LayersOK'
    BY <1>1, <1>3, <2>1, LandsKeeps
  <2>3. finished' \subseteq shipped' /\ pc' = "merged"
    BY <1>1, <1>3 DEF StackLands, LayersOK, Step
  <2> QED BY <2>2, <2>3 DEF StackOK, LayerOK
<1>4. CASE ckpt' = AwaitingHuman /\ Step("exit") /\ UNCHANGED <<issue, kid, shipped>>
  <2>1. pc' = "exit" /\ ckpt'.phase = ckpt.phase
    BY <1>1, <1>4 DEF AwaitingHuman, Step, ShapeOK, EpicRow
  <2> QED BY <1>1, <1>4, <2>1, StackStays DEF StackOK, LayerOK
<1> QED BY <1>2, <1>3, <1>4 DEF MergeStack

LEMMA AwaitStackStack == ASSUME RInv, StackOK, AwaitStackMerge PROVE StackOK'
<1>1. UNCHANGED <<setup, kid, shipped, finished, ckpt>> /\ pc = "stackwait" /\ pc' = "merged"
  BY DEF AwaitStackMerge, Step, Keep, books, git
<1>2. IsStacked /\ LayersOK
  BY <1>1 DEF RInv, PlaceOK, StackStep, StackOK
<1>3. finished \subseteq shipped
  BY <1>2, StackIs DEF AwaitStackMerge, LayersOK
<1> QED BY <1>1, <1>2, <1>3, StackStays DEF LayerOK

LEMMA CheckpointStack == ASSUME RInv, StackOK, CheckpointEpicMerged PROVE StackOK'
<1>1. UNCHANGED <<setup, kid, shipped, finished>> /\ pc = "merged" /\ pc' = "close"
  BY DEF CheckpointEpicMerged, Step, Keep, git
<1> QED BY <1>1, StackStays DEF StackOK, LayerOK

LEMMA HandsStack ==
  ASSUME RowsStay, RInv, StackOK,
         HumanMergesKid \/ HumanClosesKid \/ HumanMergesEpic \/ HumanClosesEpic \/ BaseMoves \/ UNCHANGED vars
  PROVE  StackOK'
<1>0. UNCHANGED <<setup, finished, ckpt, pc, cur>> /\ (IsStacked' <=> IsStacked)
  BY DEF HumanMergesKid, HumanClosesKid, HumanMergesEpic, HumanClosesEpic, BaseMoves, run, git, vars, books, IsStacked
<1> SUFFICES ASSUME IsStacked PROVE StackOK'
  BY <1>0 DEF StackOK
<1>1. LayersOK /\ LayerOK /\ ShapeOK
  BY DEF StackOK, RInv
<1>2. ASSUME LayersOK', Stack' = Stack, shipped \subseteq shipped',
             \A k \in Kids : kid'[k].below = kid[k].below,
             pc \in {"build", "kidpr", "kidgate", "kiddone", "cut"} => cur \in Kids
      PROVE  StackOK'
  <2>1. cur \in Kids => (Laid(cur)' <=> Laid(cur))
    BY <1>0, <1>2 DEF Laid
  <2> QED BY <1>0, <1>1, <1>2, <2>1 DEF StackOK, LayerOK
<1>3. pc \in {"build", "kidpr", "kidgate", "kiddone", "cut"} => cur \in Kids
  BY DEF RInv, PlaceOK, KidSteps
<1>4. CASE HumanMergesKid
  <2>1. PICK i \in DOMAIN Stack : /\ \A j \in 1..i : kid[Stack[j]].pr \in {"open", "merged"}
                                  /\ StackLands({Stack[j] : j \in 1..i})
    BY <1>4 DEF HumanMergesKid
  <2>2. i \in 1..Len(Stack)
    BY StackIs
  <2>3. LayersOK' /\ Stack' = Stack /\ shipped \subseteq shipped'
    BY <1>0, <1>1, <2>1, <2>2, LandsKeeps
  <2>4. \A k \in Kids : kid'[k].below = kid[k].below
    BY <1>1, <2>1 DEF StackLands, ShapeOK, IsKid
  <2> QED BY <1>2, <1>3, <2>3, <2>4
<1>5. CASE HumanClosesKid
  <2>1. PICK k \in Kids : \/ kid' = [kid EXCEPT ![k].issue = "closed"]
                          \/ kid[k].pr = "open" /\ kid' = [kid EXCEPT ![k].pr = "closed"]
                          \/ kid' = [kid EXCEPT ![k].issue = "started"]
    BY <1>5 DEF HumanClosesKid, Gesture, RowsStay
  <2>2. UNCHANGED shipped
    BY <1>5 DEF HumanClosesKid, git
  <2>3. kid[k].pr = "open" => kid[k].phase \notin {None, "building"}
    BY <1>1 DEF LayersOK
  <2>4. ASSUME NEW j \in Kids
        PROVE  /\ kid'[j].below = kid[j].below /\ kid'[j].phase = kid[j].phase
               /\ kid'[j].pr = "merged" <=> kid[j].pr = "merged"
               /\ kid'[j].phase \in {None, "building"} => kid'[j].pr = "none"
    <3>1. kid[j].phase \in {None, "building"} => kid[j].pr = "none"
      BY <1>1 DEF LayersOK
    <3> QED BY <1>1, <2>1, <2>3, <3>1 DEF ShapeOK, IsKid
  <2>5. LayersOK' /\ Stack' = Stack
    BY <1>0, <1>1, <2>2, <2>4, LayersKeep
  <2> QED BY <1>2, <1>3, <2>2, <2>4, <2>5
<1>6. CASE HumanMergesEpic \/ HumanClosesEpic \/ BaseMoves \/ UNCHANGED vars
  <2>1. \A k \in Kids : kid'[k] = kid[k]
    BY <1>6 DEF HumanMergesEpic, HumanClosesEpic, BaseMoves, Untarget, books, vars
  <2>2. shipped \subseteq shipped'
    BY <1>6 DEF HumanMergesEpic, HumanClosesEpic, BaseMoves, EpicLands, git, vars
  <2>3. LayersOK' /\ Stack' = Stack
    BY <1>0, <1>1, <2>1, <2>2, LayersKeep DEF LayersOK
  <2> QED BY <1>2, <1>3, <2>1, <2>2, <2>3
<1> QED BY <1>4, <1>5, <1>6

LEMMA StackInit == Init => StackOK
<1> SUFFICES ASSUME Init PROVE StackOK
  OBVIOUS
<1>1. \A k \in Kids : kid[k].below = k /\ kid[k].phase = None /\ kid[k].pr = "none"
  BY DEF Init, BlankKid
<1>2. Layers = {}
  BY <1>1, StackIs
<1>3. DOMAIN Stack = {}
  BY <1>2 DEF Layers
<1>4. finished = {} /\ pc = "loop" /\ ckpt.phase = None
  BY DEF Init
<1> QED BY <1>1, <1>2, <1>3, <1>4 DEF StackOK, LayersOK, LayerOK, Laid, None

LEMMA StackNext == ASSUME RowsStay, RInv, StackOK, [Next]_vars PROVE StackOK'
BY EndsStack, LoopStack, CutStack, BuildStack, KidPRStack, KidGateStack, KidMergeStack, KidDoneStack, CheckStack,
   OpensStack, BranchStack, LayerStack, MergeStackStack, AwaitStackStack, CheckpointStack, HandsStack
   DEF Next, RunStep, Hands

LEMMA StackSound == ASSUME RowsStay PROVE Spec => []StackOK
<1>1. RInv /\ StackOK /\ [Next]_vars => StackOK'
  BY StackNext
<1> QED BY <1>1, StackInit, ReleaseSound, PTL DEF Spec

\* In every behaviour in which nobody drops a child's row, an epic of whatever shape
\* that the books call merged has shipped all that was delivered into it
\* (FinalizeEpic, epic.go:193).
THEOREM MergedIsShipped == ASSUME RowsStay PROVE Spec => []EpicMeansShipped
<1>1. RInv /\ StackOK => EpicMeansShipped
  BY DEF RInv, MergedOK, StackOK, LayerOK, EpicMeansShipped
<1> QED BY <1>1, ReleaseSound, StackSound, PTL

LEMMA StackWhole ==
  ASSUME RInv, StackOK, IsStacked, [Next]_vars, shipped' # shipped
  PROVE  Hands \/ finished \subseteq shipped'
<1>1. CASE Loop \/ Resolve \/ PRBase \/ CutSlice \/ Build \/ KidPR \/ KidGate \/ KidMerge \/ KidDone
  BY <1>1 DEF Loop, Resolve, PRBase, CutSlice, Build, KidPR, KidGate, KidMerge, KidDone, EpicBranchName, Fails,
     GiveUpOn, OpenKidPR, git
<1>2. CASE Check \/ CheckpointEpicReleasing \/ Branch \/ SyncForMerge \/ EnsureEpicPR \/ Gate
  BY <1>2 DEF Check, CheckpointEpicReleasing, Branch, SyncForMerge, EnsureEpicPR, Gate, EpicBranchName, Fails, git
<1>3. CASE PollCI \/ RepairEpic \/ AwaitEpicMerge
  BY <1>3 DEF PollCI, RepairEpic, AwaitEpicMerge, Fails, git
<1>4. CASE MergeEpic \/ LandEpic
  <2>1. pc \in PRSteps \cup {"land"}
    BY <1>4 DEF MergeEpic, LandEpic, PRSteps, AtPR
  <2> QED BY <2>1 DEF RInv, PlaceOK, Classic, IsStacked, IsLocal
<1>5. CASE MergeStack
  <2>1. shipped' = shipped \cup Layers
    BY <1>5 DEF MergeStack, StackLands
  <2> QED BY <2>1 DEF StackOK, LayersOK
<1>6. CASE Layer \/ AwaitStackMerge \/ CheckpointEpicMerged \/ TellTracker \/ HandOffEpic \/ SettleEpicBranch
  BY <1>6 DEF Layer, AwaitStackMerge, CheckpointEpicMerged, TellTracker, HandOffEpic, SettleEpicBranch, Fails, git
<1>7. CASE Reattempt \/ StampReleaseSpent \/ UNCHANGED vars
  BY <1>7 DEF Reattempt, StampReleaseSpent, git, vars
<1> QED BY <1>1, <1>2, <1>3, <1>4, <1>5, <1>6, <1>7 DEF Next, RunStep

\* In every behaviour in which nobody drops a child's row, a step of trau that changes
\* the base puts there all that has been delivered, a stack's layers included
\* (stacked_epic.go:16).
THEOREM ReleasesAreWhole == ASSUME RowsStay PROVE Spec => ReleasesWhole
<1>1. RInv /\ StackOK /\ [Next]_vars => [shipped' # shipped => Hands \/ finished \subseteq shipped']_vars
  BY WholeStep, StackWhole
<1> QED BY <1>1, ReleaseSound, StackSound, PTL DEF Spec, ReleasesWhole

-----------------------------------------------------------------------------
(* Types.                                                                  *)

\* What a branch may carry.
CleanRef(r) == r.work \subseteq Kids /\ r.rest \subseteq Extra

CleanKid(r) ==
  /\ CleanRef(r.pin) /\ r.issue \in {"open", "started", "closed"} /\ r.done \in BOOLEAN
  /\ r.below \in Kids \cup {0} /\ r.pr \in {"none", "open", "merged", "closed"}

RefsTyped == CleanRef(base) /\ CleanRef(local) /\ CleanRef(remote)
KidsTyped == \A k \in Kids : CleanKid(kid[k])
WorkTyped == shipped \subseteq Kids /\ finished \subseteq Kids /\ LastPR <= MaxPRs

\* A repair that has begun is within the budget.
RunTyped ==
  /\ issue \in {"open", "review", "done"}
  /\ attempts \in 0..Resumes /\ halted \in BOOLEAN /\ left \in 0..MaxGestures
  /\ memo \in BOOLEAN /\ mine \in BOOLEAN /\ stacked \in BOOLEAN
  /\ cur \in Kids \cup {0} /\ tries \in 0..MaxRepairs
  /\ pc = "repair" => tries < MaxRepairs

Typed == RefsTyped /\ KidsTyped /\ WorkTyped /\ RunTyped

LEMMA TypedIs == ASSUME RInv, Typed PROVE TypeOK
<1>1. ASSUME NEW r, IsRef(r), CleanRef(r) PROVE r \in Ref
  BY <1>1 DEF IsRef, CleanRef, Ref
<1>2. base \in Ref /\ local \in Ref /\ remote \in Ref
  BY <1>1 DEF RInv, ShapeOK, Typed, RefsTyped
<1>3. ASSUME NEW k \in Kids PROVE kid[k] \in KidRow
  <2>1. IsKid(kid[k]) /\ CleanKid(kid[k])
    BY DEF RInv, ShapeOK, Typed, KidsTyped
  <2>2. kid[k].pin \in Ref
    BY <1>1, <2>1 DEF IsKid, CleanKid
  <2> QED BY <2>1, <2>2 DEF IsKid, CleanKid, KidRow
<1>4. pc \in Shipping \cup Waiting \cup
        {"off", "loop", "resolve", "base", "cut", "build", "kidpr", "kidgate", "kidmerge", "kiddone",
         "check", "release", "merged", "close", "review", "handoff", "exit"}
  BY DEF RInv, PlaceOK, AllSteps, KidSteps, PRSteps, AtPR, StackStep, Ending, Shipping, Waiting
<1>5. \A i \in DOMAIN prs : prs[i] \in {"draft", "open", "merged", "closed"}
  BY DEF RInv, ShapeOK, PRState
<1> QED BY <1>2, <1>3, <1>4, <1>5 DEF TypeOK, RInv, ShapeOK, Typed, WorkTyped, RunTyped

-----------------------------------------------------------------------------
(* The run's own, and the hub's.                                           *)

LEMMA FreshIs == ASSUME Fresh PROVE memo' = FALSE /\ mine' = FALSE /\ stacked' = FALSE /\ cur' = 0 /\ tries' = 0
BY DEF Fresh

LEMMA RunStays ==
  ASSUME RunTyped, issue' \in {"open", "review", "done"}, UNCHANGED hub, left' \in 0..MaxGestures,
         UNCHANGED run \/ Fresh, pc' # "repair"
  PROVE  RunTyped'
<1>1. attempts' = attempts /\ halted' = halted
  BY DEF hub
<1>2. CASE UNCHANGED run
  BY <1>1, <1>2 DEF run, RunTyped
<1>3. CASE Fresh
  BY <1>1, <1>3, FreshIs, CountsAssumption DEF RunTyped
<1> QED BY <1>2, <1>3

LEMMA GestureIs ==
  ASSUME RunTyped, NEW g, NEW w, Gesture(g) \/ Lands(g, w)
  PROVE  left' \in 0..MaxGestures
BY CountsAssumption DEF Gesture, Lands, RunTyped

LEMMA BranchRun ==
  ASSUME RunTyped, NEW a, a # "repair", NEW b, b # "repair", EpicBranchName(a, b)
  PROVE  RunTyped'
<1>1. UNCHANGED <<issue, attempts, halted, left, stacked, cur, tries>>
  BY DEF EpicBranchName, Keep, hub, books
<1>2. memo' \in BOOLEAN /\ mine' \in BOOLEAN /\ pc' # "repair"
  BY DEF EpicBranchName, Step, RunTyped
<1> QED BY <1>1, <1>2 DEF RunTyped

LEMMA RunMoves ==
  ASSUME RInv, RunTyped, Next
  PROVE  RunTyped'
<1> USE DEF RunTyped
<1>1. CASE Loop
  BY <1>1, KidsAre DEF Loop, Keep, Step, books, hub, InFlightKids, Eligible
<1>2. CASE Resolve \/ PRBase \/ Branch
  BY <1>2, BranchRun DEF Resolve, PRBase, Branch
<1>3. CASE CutSlice
  <2>1. CASE Fails
    BY <2>1, RunStays DEF Fails, Step, Keep, books
  <2>2. CASE ~Fails
    BY <1>3, <2>2 DEF CutSlice, Keep, Step, hub
  <2> QED BY <2>1, <2>2
<1>4. CASE Build
  BY <1>4, RunStays DEF Build, Fails, GiveUpOn, Keep, Step, books
<1>5. CASE KidPR
  <2>1. CASE Fails
    BY <2>1, RunStays DEF Fails, Step, Keep, books
  <2>2. CASE OpenKidPR
    BY <2>2 DEF OpenKidPR, Keep, Step, hub
  <2> QED BY <1>5, <2>1, <2>2 DEF KidPR
<1>6. CASE KidGate
  BY <1>6, RunStays DEF KidGate, Fails, GiveUpOn, Keep, Step, books
<1>7. CASE KidMerge
  BY <1>7, RunStays DEF KidMerge, Fails, GiveUpOn, Keep, Step, books
<1>8. CASE KidDone
  BY <1>8, RunStays DEF KidDone, Keep, Step
<1>9. CASE Check
  BY <1>9, RunStays DEF Check, Fails, Keep, Step, books
<1>10. CASE CheckpointEpicReleasing
  BY <1>10, KidsAre DEF CheckpointEpicReleasing, Keep, Step, hub
<1>11. CASE SyncForMerge
  BY <1>11, RunStays DEF SyncForMerge, Fails, Keep, Step, books
<1>12. CASE EnsureEpicPR
  BY <1>12, RunStays DEF EnsureEpicPR, Fails, Keep, Step, books
<1>13. CASE Gate
  BY <1>13, RunStays DEF Gate, Keep, Step, books
<1>14. CASE PollCI
  BY <1>14 DEF PollCI, Keep, Step, hub, run
<1>15. CASE RepairEpic
  <2>1. CASE Fails
    BY <2>1, RunStays DEF Fails, Step, Keep, books
  <2>2. CASE ~Fails
    BY <1>15, <2>2, CountsAssumption DEF RepairEpic, Keep, Step, hub, books
  <2> QED BY <2>1, <2>2
<1>16. CASE MergeEpic
  BY <1>16, RunStays DEF MergeEpic, Fails, Keep, Step, books
<1>17. CASE AwaitEpicMerge
  BY <1>17, RunStays DEF AwaitEpicMerge, Keep, Step
<1>18. CASE LandEpic
  BY <1>18, RunStays DEF LandEpic, Keep, Step, books
<1>19. CASE Layer
  <2>1. pc' # "repair" /\ UNCHANGED <<issue, attempts, halted, left, memo, mine, stacked, tries>>
    BY <1>19 DEF Layer, Keep, Step, hub
  <2>2. cur' = cur \/ (cur' = cur + 1 /\ cur < Len(Stack))
    BY <1>19 DEF Layer
  <2>3. cur' \in Kids \cup {0}
    BY <2>2, KidsAre, StackIs
  <2> QED BY <2>1, <2>3
<1>20. CASE MergeStack
  BY <1>20, RunStays DEF MergeStack, Keep, Step, books
<1>21. CASE AwaitStackMerge
  BY <1>21, RunStays DEF AwaitStackMerge, Keep, Step, books
<1>22. CASE CheckpointEpicMerged
  BY <1>22, RunStays DEF CheckpointEpicMerged, Keep, Step
<1>23. CASE TellTracker
  BY <1>23, RunStays DEF TellTracker, Fails, Keep, Step, books
<1>24. CASE HandOffEpic
  BY <1>24, RunStays DEF HandOffEpic, Keep, Step
<1>25. CASE SettleEpicBranch
  BY <1>25, RunStays DEF SettleEpicBranch, Keep, Step
<1>26. CASE Start
  <2>1. left' \in 0..MaxGestures
    BY <1>26, GestureIs DEF Start
  <2>2. Fresh /\ pc' = "loop" /\ issue' = issue /\ attempts' = attempts /\ halted' = FALSE
    BY <1>26 DEF Start, Begin, books
  <2>3. memo' = FALSE /\ mine' = FALSE /\ stacked' = FALSE /\ cur' = 0 /\ tries' = 0
    BY <2>2, FreshIs
  <2>4. halted' \in BOOLEAN /\ memo' \in BOOLEAN /\ mine' \in BOOLEAN /\ stacked' \in BOOLEAN
    BY <2>2, <2>3
  <2>5. attempts' \in 0..Resumes /\ tries' \in 0..MaxRepairs /\ issue' \in {"open", "review", "done"}
    BY <2>2, <2>3, CountsAssumption
  <2>6. cur' \in Kids \cup {0} /\ pc' # "repair"
    BY <2>2, <2>3
  <2> QED BY <2>1, <2>4, <2>5, <2>6
<1>27. CASE Reattempt
  BY <1>27, FreshIs, CountsAssumption DEF Reattempt, Begin, books
<1>28. CASE StampReleaseSpent
  BY <1>28, CountsAssumption DEF StampReleaseSpent, run
<1>29. CASE Kill
  <2>1. left' \in 0..MaxGestures
    BY <1>29, GestureIs DEF Kill
  <2> QED BY <1>29, <2>1, RunStays DEF Kill, Step, books
<1>30. CASE Stop
  <2>1. left' \in 0..MaxGestures
    BY <1>30, GestureIs DEF Stop
  <2> QED BY <1>30, <2>1, CountsAssumption DEF Stop, books, run
<1>31. CASE HumanMergesKid
  <2>1. left' \in 0..MaxGestures
    BY <1>31, GestureIs DEF HumanMergesKid
  <2> QED BY <1>31, <2>1 DEF HumanMergesKid, hub, run
<1>32. CASE HumanClosesKid
  <2>1. left' \in 0..MaxGestures
    BY <1>32, GestureIs DEF HumanClosesKid
  <2> QED BY <1>32, <2>1 DEF HumanClosesKid, hub, run
<1>33. CASE HumanMergesEpic
  <2>1. left' \in 0..MaxGestures
    BY <1>33, GestureIs DEF HumanMergesEpic
  <2> QED BY <1>33, <2>1 DEF HumanMergesEpic, hub, run
<1>34. CASE HumanClosesEpic
  <2>1. left' \in 0..MaxGestures
    BY <1>34, GestureIs DEF HumanClosesEpic
  <2> QED BY <1>34, <2>1 DEF HumanClosesEpic, hub, run, books
<1>35. CASE BaseMoves
  <2>1. left' \in 0..MaxGestures
    BY <1>35, GestureIs DEF BaseMoves
  <2> QED BY <1>35, <2>1 DEF BaseMoves, hub, run, books
<1> QED BY <1>1, <1>2, <1>3, <1>4, <1>5, <1>6, <1>7, <1>8, <1>9, <1>10, <1>11, <1>12, <1>13, <1>14, <1>15,
           <1>16, <1>17, <1>18, <1>19, <1>20, <1>21, <1>22, <1>23, <1>24, <1>25, <1>26, <1>27, <1>28, <1>29,
           <1>30, <1>31, <1>32, <1>33, <1>34, <1>35 DEF Next, RunStep, Hands

-----------------------------------------------------------------------------
(* What branches carry.                                                    *)

LEMMA CleanPlus ==
  ASSUME NEW r, CleanRef(r), r = [work |-> r.work, rest |-> r.rest], NEW c \in Extra
  PROVE  CleanRef(Plus(r, c))
<1>1. Plus(r, c) = [work |-> r.work, rest |-> r.rest \cup {c}]
  BY DEF Plus
<1> QED BY <1>1 DEF CleanRef

LEMMA CleanMerged ==
  ASSUME CleanRef(base), NEW r, CleanRef(r), NEW m \in MergedBase(r)
  PROVE  CleanRef(m)
<1>1. CASE m \in {r, base}
  BY <1>1
<1>2. CASE m \notin {r, base}
  <2>1. PICK s \in NextSync : m = Plus(Join(r, base), s)
    BY <1>2 DEF MergedBase
  <2>2. s \in Extra
    BY <2>1 DEF NextSync, FreshSyncs, Extra
  <2>3. Join(r, base) = [work |-> r.work \cup base.work, rest |-> r.rest \cup base.rest]
    BY DEF Join
  <2>4. CleanRef(Join(r, base))
    BY <2>3 DEF CleanRef
  <2> HIDE DEF Join
  <2> QED BY <2>1, <2>2, <2>3, <2>4, CleanPlus
<1> QED BY <1>1, <1>2

LEMMA CleanSync ==
  ASSUME RefsTyped, NEW after \in SyncEpicBest
  PROVE  CleanRef(after[1]) /\ CleanRef(after[2])
<1> DEFINE pulled == IF Diverged THEN remote ELSE Pulled
<1>1. CleanRef(pulled) /\ CleanRef(base) /\ CleanRef(local) /\ CleanRef(remote)
  BY DEF RefsTyped, Pulled
<1> HIDE DEF pulled
<1>2. \/ \E m \in MergedBase(pulled) : after = <<m, m>>
      \/ after = <<pulled, remote>>
      \/ after = <<local, remote>>
  BY DEF SyncEpicBest, pulled
<1> QED BY <1>1, <1>2, CleanMerged

LEMMA CleanNoRef == CleanRef(NoRef)
BY DEF CleanRef, NoRef

LEMMA RefsStay == ASSUME RefsTyped, UNCHANGED git PROVE RefsTyped'
BY DEF git, RefsTyped, CleanRef

LEMMA BranchRefs ==
  ASSUME RefsTyped, NEW a, NEW b, EpicBranchName(a, b)
  PROVE  RefsTyped'
<1>1. UNCHANGED base /\ local' \in {base, local, remote} /\ remote' \in {base, remote}
  BY DEF EpicBranchName
<1> QED BY <1>1 DEF RefsTyped, CleanRef

LEMMA LandsRefs ==
  ASSUME RInv, RefsTyped, LastPR <= MaxPRs, prs # <<>>, EpicLands
  PROVE  CleanRef(base')
<1>1. LastPR \in 1..MaxPRs
  <2>1. Len(prs) \in Nat /\ Len(prs) # 0
    BY EmptySeq DEF RInv, ShapeOK
  <2> QED BY <2>1, CountsAssumption DEF LastPR
<1>2. Squash[LastPR] \in Extra
  BY <1>1 DEF Squash, Extra
<1>3. base = [work |-> base.work, rest |-> base.rest] /\ CleanRef(base)
  BY DEF RInv, ShapeOK, IsRef, RefsTyped
<1> QED BY <1>2, <1>3, CleanPlus DEF EpicLands

LEMMA RefsMove ==
  ASSUME RInv, Typed, Next
  PROVE  RefsTyped'
<1>0. RefsTyped /\ CleanRef(base) /\ CleanRef(local) /\ CleanRef(remote)
  BY DEF Typed, RefsTyped
<1>r. IsRef(base) /\ IsRef(local) /\ IsRef(remote)
  BY DEF RInv, ShapeOK
<1>g. CASE UNCHANGED <<base, local, remote>>
  BY <1>0, <1>g DEF RefsTyped, CleanRef
<1>1. CASE Loop \/ Build \/ KidGate \/ KidDone \/ Check \/ CheckpointEpicReleasing
  <2>1. UNCHANGED <<base, local, remote>>
    BY <1>1 DEF Loop, Build, KidGate, KidDone, Check, CheckpointEpicReleasing, Fails, GiveUpOn, git
  <2> QED BY <1>g, <2>1
<1>2. CASE Resolve \/ PRBase \/ Branch
  BY <1>0, <1>2, BranchRefs DEF Resolve, PRBase, Branch
<1>3. CASE CutSlice
  <2>1. CASE UNCHANGED <<local, remote>>
    <3>1. UNCHANGED base
      BY <1>3 DEF CutSlice, Fails, git
    <3> QED BY <1>g, <2>1, <3>1
  <2>2. CASE ~UNCHANGED <<local, remote>>
    <3>1. UNCHANGED base /\ \E after \in SyncEpicBest : local' = after[1] /\ remote' = after[2]
      BY <1>3, <2>2 DEF CutSlice, Fails, git
    <3> QED BY <1>0, <3>1, CleanSync DEF RefsTyped, CleanRef
  <2> QED BY <2>1, <2>2
<1>4. CASE KidPR
  <2>1. UNCHANGED <<base, local>> /\ remote' \in {local, remote}
    BY <1>4 DEF KidPR, Fails, OpenKidPR, git
  <2> QED BY <1>0, <2>1 DEF RefsTyped, CleanRef
<1>5. CASE KidMerge
  <2>1. cur \in Kids
    BY <1>5 DEF KidMerge, RInv, PlaceOK, KidSteps
  <2>2. UNCHANGED base /\ local' \in {local, Has(local)} /\ remote' \in {remote, Has(remote)}
    BY <1>5 DEF KidMerge, Fails, GiveUpOn, git
  <2>3. ASSUME NEW r, IsRef(r), CleanRef(r) PROVE CleanRef(Has(r))
    <3>1. Has(r) = [work |-> r.work \cup {cur}, rest |-> r.rest]
      BY <2>3 DEF Has, IsRef
    <3> QED BY <2>1, <2>3, <3>1 DEF CleanRef
  <2>4. CleanRef(Has(local)) /\ CleanRef(Has(remote))
    BY <1>0, <1>r, <2>3
  <2>5. CleanRef(base') /\ CleanRef(local') /\ CleanRef(remote')
    BY <1>0, <2>2, <2>4
  <2> QED BY <2>5 DEF RefsTyped, CleanRef
<1>6. CASE SyncForMerge
  <2>1. CASE UNCHANGED git
    BY <1>0, <2>1, RefsStay
  <2>2. CASE ~UNCHANGED git
    <3>1. PICK pulled \in {Pulled, local} :
            /\ local' \in MergedBase(pulled) \/ local' = pulled
            /\ remote' \in {remote, local'} /\ UNCHANGED base
      BY <1>6, <2>2 DEF SyncForMerge, Fails
    <3>2. CleanRef(pulled)
      BY <1>0 DEF Pulled
    <3>3. CleanRef(local')
      BY <1>0, <3>1, <3>2, CleanMerged
    <3> QED BY <1>0, <3>1, <3>3 DEF RefsTyped, CleanRef
  <2> QED BY <2>1, <2>2
<1>7. CASE EnsureEpicPR \/ Gate \/ PollCI \/ AwaitEpicMerge
  <2>1. UNCHANGED <<base, local, remote>>
    BY <1>7 DEF EnsureEpicPR, Gate, PollCI, AwaitEpicMerge, Fails, git
  <2> QED BY <1>g, <2>1
<1>8. CASE RepairEpic
  <2>1. CASE UNCHANGED git
    BY <1>0, <2>1, RefsStay
  <2>2. CASE ~UNCHANGED git
    <3>1. local' = Plus(local, "fix") /\ remote' \in {remote, local'} /\ UNCHANGED base
      BY <1>8, <2>2 DEF RepairEpic, Fails
    <3>2. "fix" \in Extra /\ local = [work |-> local.work, rest |-> local.rest]
      BY <1>r DEF Extra, IsRef
    <3>3. CleanRef(local')
      BY <1>0, <3>1, <3>2, CleanPlus
    <3> QED BY <1>0, <3>1, <3>3 DEF RefsTyped, CleanRef
  <2> QED BY <2>1, <2>2
<1>9. CASE MergeEpic
  <2>1. CASE UNCHANGED git
    BY <1>0, <2>1, RefsStay
  <2>2. CASE ~UNCHANGED git
    <3>1. EpicLands /\ remote' = NoRef /\ local' \in {local, NoRef}
      BY <1>9, <2>2 DEF MergeEpic, Fails
    <3>2. prs # <<>>
      BY <1>9 DEF MergeEpic, RInv, PlaceOK, AtPR
    <3>3. CleanRef(base')
      BY <1>0, <3>1, <3>2, LandsRefs DEF Typed, WorkTyped
    <3> QED BY <1>0, <3>1, <3>3, CleanNoRef DEF RefsTyped, CleanRef
  <2> QED BY <2>1, <2>2
<1>10. CASE LandEpic
  <2>1. UNCHANGED <<local, remote>> /\ base' \in {base, Plus(base, "squash1")}
    BY <1>10 DEF LandEpic, git
  <2>2. CleanRef(Plus(base, "squash1"))
    BY <1>0, <1>r, CleanPlus DEF Extra, IsRef
  <2>3. CleanRef(base')
    BY <1>0, <2>1, <2>2
  <2> QED BY <1>0, <2>1, <2>3 DEF RefsTyped, CleanRef
<1>11. CASE Layer \/ MergeStack \/ AwaitStackMerge \/ CheckpointEpicMerged \/ TellTracker \/ HandOffEpic
  <2>1. UNCHANGED <<base, local, remote>>
    BY <1>11 DEF Layer, MergeStack, AwaitStackMerge, CheckpointEpicMerged, TellTracker, HandOffEpic, Fails, git
  <2> QED BY <1>g, <2>1
<1>12. CASE SettleEpicBranch
  <2>1. UNCHANGED base /\ local' \in {local, NoRef} /\ remote' \in {local, remote, NoRef}
    BY <1>12 DEF SettleEpicBranch, SettleRefs
  <2> QED BY <1>0, <2>1, CleanNoRef DEF RefsTyped, CleanRef
<1>13. CASE Start \/ Reattempt \/ StampReleaseSpent \/ Kill \/ Stop \/ HumanClosesKid \/ HumanClosesEpic
  <2>1. UNCHANGED <<base, local, remote>>
    BY <1>13 DEF Start, Reattempt, StampReleaseSpent, Kill, Stop, HumanClosesKid, HumanClosesEpic, git
  <2> QED BY <1>g, <2>1
<1>14. CASE HumanMergesKid
  <2>1. CASE UNCHANGED remote
    <3>1. UNCHANGED <<base, local>>
      BY <1>14 DEF HumanMergesKid
    <3> QED BY <1>g, <2>1, <3>1
  <2>2. CASE ~UNCHANGED remote
    <3>1. PICK k \in Kids : remote' = [remote EXCEPT !.work = @ \cup {k}] /\ UNCHANGED <<base, local>>
      BY <1>14, <2>2 DEF HumanMergesKid
    <3>2. remote' = [work |-> remote.work \cup {k}, rest |-> remote.rest]
      BY <1>r, <3>1 DEF IsRef
    <3> QED BY <1>0, <3>1, <3>2 DEF RefsTyped, CleanRef
  <2> QED BY <2>1, <2>2
<1>15. CASE HumanMergesEpic
  <2>1. EpicLands /\ remote' \in {remote, NoRef} /\ UNCHANGED local /\ OpenPR
    BY <1>15 DEF HumanMergesEpic
  <2>2. prs # <<>>
    BY <2>1, OpenIs DEF RInv, ShapeOK
  <2>3. CleanRef(base')
    BY <1>0, <2>1, <2>2, LandsRefs DEF Typed, WorkTyped
  <2> QED BY <1>0, <2>1, <2>3, CleanNoRef DEF RefsTyped, CleanRef
<1>16. CASE BaseMoves
  <2>1. UNCHANGED <<local, remote>> /\ base' = Plus(base, "drift")
    BY <1>16 DEF BaseMoves
  <2>2. CleanRef(Plus(base, "drift"))
    BY <1>0, <1>r, CleanPlus DEF Extra, IsRef
  <2> QED BY <1>0, <2>1, <2>2 DEF RefsTyped, CleanRef
<1> QED BY <1>1, <1>2, <1>3, <1>4, <1>5, <1>6, <1>7, <1>8, <1>9, <1>10, <1>11, <1>12, <1>13, <1>14, <1>15,
           <1>16 DEF Next, RunStep, Hands

-----------------------------------------------------------------------------
(* What the books say of the children, and what they have delivered.       *)

\* Another row has the kinds of the one it comes from, but where it is known.
LEMMA CleanKidIs ==
  ASSUME NEW r, CleanKid(r), NEW s,
         s.pin = r.pin \/ CleanRef(s.pin),
         s.issue \in {r.issue, "open", "started", "closed"},
         s.done = r.done \/ s.done \in BOOLEAN,
         s.below = r.below \/ s.below \in Kids \cup {0},
         s.pr \in {r.pr, "none", "open", "merged", "closed"}
  PROVE  CleanKid(s)
BY DEF CleanKid

LEMMA KidsStay == ASSUME KidsTyped, UNCHANGED kid PROVE KidsTyped'
BY DEF KidsTyped, CleanKid, CleanRef

\* One child's row is replaced.
LEMMA OneKid ==
  ASSUME KidsTyped, NEW c \in Kids, \A k \in Kids \ {c} : kid'[k] = kid[k], CleanKid(kid'[c])
  PROVE  KidsTyped'
<1>1. \A k \in Kids : CleanKid(kid'[k])
  BY DEF KidsTyped
<1> QED BY <1>1 DEF KidsTyped, CleanKid, CleanRef

LEMMA GiveUpKids ==
  ASSUME ShapeOK, KidsTyped, cur \in Kids, GiveUpOn(cur)
  PROVE  KidsTyped'
<1>1. DOMAIN kid = Kids /\ IsKid(kid[cur]) /\ CleanKid(kid[cur])
  BY DEF ShapeOK, KidsTyped
<1>2. /\ \A k \in Kids \ {cur} : kid'[k] = kid[k]
      /\ kid'[cur] = [kid[cur] EXCEPT !.phase = "quarantined"]
  BY <1>1 DEF GiveUpOn
<1>3. /\ kid'[cur].pin = kid[cur].pin /\ kid'[cur].issue = kid[cur].issue /\ kid'[cur].done = kid[cur].done
      /\ kid'[cur].below = kid[cur].below /\ kid'[cur].pr = kid[cur].pr
  BY <1>1, <1>2 DEF IsKid
<1>4. CleanKid(kid'[cur])
  BY <1>1, <1>3, CleanKidIs
<1> QED BY <1>2, <1>4, OneKid

LEMMA OpenKids ==
  ASSUME ShapeOK, KidsTyped, cur \in Kids, OpenKidPR
  PROVE  KidsTyped'
<1>1. DOMAIN kid = Kids /\ IsKid(kid[cur]) /\ CleanKid(kid[cur])
  BY DEF ShapeOK, KidsTyped
<1> DEFINE p == IF IsLocal THEN kid[cur].pr ELSE "open"
<1>2. /\ \A k \in Kids \ {cur} : kid'[k] = kid[k]
      /\ kid'[cur] = [kid[cur] EXCEPT !.phase = "pr_open", !.pr = p]
  BY <1>1 DEF OpenKidPR
<1>3. p \in {kid[cur].pr, "open"}
  OBVIOUS
<1> HIDE DEF p
<1>4. /\ kid'[cur].pin = kid[cur].pin /\ kid'[cur].issue = kid[cur].issue /\ kid'[cur].done = kid[cur].done
      /\ kid'[cur].below = kid[cur].below /\ kid'[cur].pr = p
  BY <1>1, <1>2 DEF IsKid
<1>5. CleanKid(kid'[cur])
  BY <1>1, <1>3, <1>4, CleanKidIs
<1> QED BY <1>2, <1>5, OneKid

LEMMA PRKid ==
  ASSUME ShapeOK, KidsTyped, NEW c \in Kids, NEW p \in {"merged", "closed"},
         kid' = [kid EXCEPT ![c].pr = p]
  PROVE  KidsTyped'
<1>1. DOMAIN kid = Kids /\ IsKid(kid[c]) /\ CleanKid(kid[c])
  BY DEF ShapeOK, KidsTyped
<1>2. (\A k \in Kids \ {c} : kid'[k] = kid[k]) /\ kid'[c] = [kid[c] EXCEPT !.pr = p]
  BY <1>1
<1>3. /\ kid'[c].pin = kid[c].pin /\ kid'[c].issue = kid[c].issue /\ kid'[c].done = kid[c].done
      /\ kid'[c].below = kid[c].below /\ kid'[c].pr = p
  BY <1>1, <1>2 DEF IsKid
<1>4. CleanKid(kid'[c])
  BY <1>1, <1>3, CleanKidIs
<1> QED BY <1>2, <1>4, OneKid

\* The PRs of some of them are settled.
LEMMA SomeKids ==
  ASSUME ShapeOK, KidsTyped, NEW p \in {"merged", "closed"}, NEW L,
         \A k \in Kids : kid'[k] = IF k \in L THEN [kid[k] EXCEPT !.pr = p] ELSE kid[k]
  PROVE  KidsTyped'
<1>1. ASSUME NEW k \in Kids PROVE CleanKid(kid'[k])
  <2>1. IsKid(kid[k]) /\ CleanKid(kid[k])
    BY DEF ShapeOK, KidsTyped
  <2>2. CASE k \in L
    <3>1. kid'[k] = [kid[k] EXCEPT !.pr = p]
      BY <2>2
    <3>2. /\ kid'[k].pin = kid[k].pin /\ kid'[k].issue = kid[k].issue /\ kid'[k].done = kid[k].done
          /\ kid'[k].below = kid[k].below /\ kid'[k].pr = p
      BY <2>1, <3>1 DEF IsKid
    <3> QED BY <2>1, <3>2, CleanKidIs
  <2>3. CASE k \notin L
    BY <2>1, <2>3
  <2> QED BY <2>2, <2>3
<1> QED BY <1>1 DEF KidsTyped, CleanKid, CleanRef

LEMMA UntargetKids == ASSUME ShapeOK, KidsTyped, NEW gone, Untarget(gone) PROVE KidsTyped'
<1> DEFINE L == {k \in Kids : gone /\ ~IsStacked /\ kid[k].pr = "open"}
<1>1. \A k \in Kids : kid'[k] = IF k \in L THEN [kid[k] EXCEPT !.pr = "closed"] ELSE kid[k]
  BY DEF Untarget
<1> HIDE DEF L
<1> QED BY <1>1, SomeKids

LEMMA StackKids == ASSUME ShapeOK, KidsTyped, NEW L, StackLands(L) PROVE KidsTyped'
<1>1. \A k \in Kids : kid'[k] = IF k \in L THEN [kid[k] EXCEPT !.pr = "merged"] ELSE kid[k]
  BY DEF StackLands
<1> QED BY <1>1, SomeKids

LEMMA KidsMove ==
  ASSUME RInv, Typed, RefsTyped', Next
  PROVE  KidsTyped'
<1>0. /\ KidsTyped /\ ShapeOK /\ DOMAIN kid = Kids
      /\ \A k \in Kids : IsKid(kid[k]) /\ CleanKid(kid[k])
  BY DEF Typed, KidsTyped, RInv, ShapeOK
<1>c. pc \in KidSteps => cur \in Kids
  BY DEF RInv, PlaceOK
<1>g. CASE UNCHANGED kid
  BY <1>0, <1>g, KidsStay
<1>1. CASE Loop \/ Resolve \/ PRBase \/ Branch
  <2>1. UNCHANGED kid
    BY <1>1 DEF Loop, Resolve, PRBase, Branch, EpicBranchName, books
  <2> QED BY <1>g, <2>1
<1>2. CASE CutSlice
  <2>1. CASE UNCHANGED kid
    BY <2>1, <1>g
  <2>2. CASE ~UNCHANGED kid
    <3> DEFINE b == IF IsStacked THEN Tip ELSE kid[cur].below
    <3>1. cur \in Kids
      BY <1>2, <1>c DEF CutSlice, KidSteps
    <3>2. /\ \A k \in Kids \ {cur} : kid'[k] = kid[k]
          /\ kid'[cur] = [kid[cur] EXCEPT !.phase = "building", !.pin = local', !.below = b]
      BY <1>0, <1>2, <2>2, <3>1 DEF CutSlice, Fails, books
    <3>3. b \in {kid[cur].below} \cup Kids \cup {0}
      BY StackIs
    <3>4. CleanRef(local')
      BY DEF RefsTyped, CleanRef
    <3> HIDE DEF b
    <3>5. /\ kid'[cur].pin = local' /\ kid'[cur].issue = kid[cur].issue /\ kid'[cur].done = kid[cur].done
          /\ kid'[cur].below = b /\ kid'[cur].pr = kid[cur].pr
      BY <1>0, <3>1, <3>2 DEF IsKid
    <3>6. CleanKid(kid'[cur])
      BY <1>0, <3>1, <3>3, <3>4, <3>5, CleanKidIs
    <3> QED BY <1>0, <3>1, <3>2, <3>6, OneKid
  <2> QED BY <2>1, <2>2
<1>3. CASE Build
  <2>1. UNCHANGED kid \/ (GiveUpOn(cur) /\ cur \in Kids)
    BY <1>3, <1>c DEF Build, Fails, books, KidSteps
  <2> QED BY <1>0, <1>g, <2>1, GiveUpKids
<1>4. CASE KidPR
  <2>1. UNCHANGED kid \/ (OpenKidPR /\ cur \in Kids)
    BY <1>4, <1>c DEF KidPR, Fails, books, KidSteps
  <2> QED BY <1>0, <1>g, <2>1, OpenKids
<1>5. CASE KidGate
  <2>1. UNCHANGED kid \/ (GiveUpOn(cur) /\ cur \in Kids)
    BY <1>5, <1>c DEF KidGate, Fails, books, KidSteps
  <2> QED BY <1>0, <1>g, <2>1, GiveUpKids
<1>6. CASE KidMerge
  <2>1. cur \in Kids
    BY <1>6, <1>c DEF KidMerge, KidSteps
  <2>2. \/ UNCHANGED kid
        \/ GiveUpOn(cur)
        \/ kid' = [kid EXCEPT ![cur].pr = "merged"]
        \/ IsLocal /\ kid' = [kid EXCEPT ![cur].pr = @]
    BY <1>6 DEF KidMerge, Fails, books
  <2>3. ASSUME kid' = [kid EXCEPT ![cur].pr = @] PROVE KidsTyped'
    <3>1. (\A k \in Kids \ {cur} : kid'[k] = kid[k]) /\ kid'[cur] = [kid[cur] EXCEPT !.pr = kid[cur].pr]
      BY <1>0, <2>1, <2>3
    <3>2. kid'[cur] = kid[cur]
      BY <1>0, <2>1, <3>1 DEF IsKid
    <3> QED BY <1>0, <2>1, <3>1, <3>2, OneKid
  <2> QED BY <1>0, <1>g, <2>1, <2>2, <2>3, GiveUpKids, PRKid
<1>7. CASE KidDone
  <2>1. cur \in Kids
    BY <1>7, <1>c DEF KidDone, KidSteps
  <2>2. PICK told \in BOOLEAN :
          kid' = [kid EXCEPT ![cur].phase = "merged", ![cur].done = @ \/ told,
                             ![cur].issue = IF told THEN "closed" ELSE @]
    BY <1>7 DEF KidDone
  <2> DEFINE d == kid[cur].done \/ told
             i == IF told THEN "closed" ELSE kid[cur].issue
  <2>3. /\ \A k \in Kids \ {cur} : kid'[k] = kid[k]
        /\ kid'[cur] = [kid[cur] EXCEPT !.phase = "merged", !.done = d, !.issue = i]
    BY <1>0, <2>1, <2>2
  <2>4. d \in BOOLEAN /\ i \in {kid[cur].issue, "closed"}
    BY <2>2
  <2> HIDE DEF d, i
  <2>5. /\ kid'[cur].pin = kid[cur].pin /\ kid'[cur].issue = i /\ kid'[cur].done = d
        /\ kid'[cur].below = kid[cur].below /\ kid'[cur].pr = kid[cur].pr
    BY <1>0, <2>1, <2>3 DEF IsKid
  <2>6. CleanKid(kid'[cur])
    BY <1>0, <2>1, <2>4, <2>5, CleanKidIs
  <2> QED BY <1>0, <2>1, <2>3, <2>6, OneKid
<1>8. CASE Check
  <2>1. UNCHANGED kid \/ kid' = [k \in Kids |-> [kid[k] EXCEPT !.issue = "closed"]]
    BY <1>8 DEF Check, Fails, books
  <2>2. CASE kid' = [k \in Kids |-> [kid[k] EXCEPT !.issue = "closed"]]
    <3>1. ASSUME NEW k \in Kids PROVE CleanKid(kid'[k])
      <4>1. kid'[k] = [kid[k] EXCEPT !.issue = "closed"]
        BY <2>2
      <4>2. /\ kid'[k].pin = kid[k].pin /\ kid'[k].issue = "closed" /\ kid'[k].done = kid[k].done
            /\ kid'[k].below = kid[k].below /\ kid'[k].pr = kid[k].pr
        BY <1>0, <4>1 DEF IsKid
      <4> QED BY <1>0, <4>2, CleanKidIs
    <3> QED BY <3>1 DEF KidsTyped, CleanKid, CleanRef
  <2> QED BY <1>g, <2>1, <2>2
<1>9. CASE CheckpointEpicReleasing \/ SyncForMerge \/ EnsureEpicPR \/ Gate \/ PollCI \/ RepairEpic
  <2>1. UNCHANGED kid
    BY <1>9 DEF CheckpointEpicReleasing, SyncForMerge, EnsureEpicPR, Gate, PollCI, RepairEpic, Fails, books
  <2> QED BY <1>g, <2>1
<1>10. CASE MergeEpic
  <2>1. UNCHANGED kid \/ Untarget(TRUE)
    BY <1>10 DEF MergeEpic, Fails, books
  <2> QED BY <1>0, <1>g, <2>1, UntargetKids
<1>11. CASE AwaitEpicMerge \/ LandEpic \/ Layer \/ AwaitStackMerge \/ CheckpointEpicMerged \/ TellTracker \/ HandOffEpic
  <2>1. UNCHANGED kid
    BY <1>11 DEF AwaitEpicMerge, LandEpic, Layer, AwaitStackMerge, CheckpointEpicMerged, TellTracker, HandOffEpic,
       Fails, books
  <2> QED BY <1>g, <2>1
<1>12. CASE MergeStack
  <2>1. UNCHANGED kid \/ StackLands(Layers)
    BY <1>12 DEF MergeStack, books
  <2> QED BY <1>0, <1>g, <2>1, StackKids
<1>13. CASE SettleEpicBranch
  <2>1. PICK gone \in BOOLEAN : Untarget(gone)
    BY <1>13 DEF SettleEpicBranch
  <2> QED BY <1>0, <2>1, UntargetKids
<1>14. CASE Start \/ Reattempt \/ StampReleaseSpent \/ Kill \/ Stop \/ HumanClosesEpic \/ BaseMoves
  <2>1. UNCHANGED kid
    BY <1>14 DEF Start, Reattempt, StampReleaseSpent, Kill, Stop, HumanClosesEpic, BaseMoves, books
  <2> QED BY <1>g, <2>1
<1>15. CASE HumanMergesKid
  <2>1. \/ \E L : StackLands(L)
        \/ \E k \in Kids : kid' = [kid EXCEPT ![k].pr = "merged"]
    BY <1>15 DEF HumanMergesKid
  <2> QED BY <1>0, <2>1, StackKids, PRKid
<1>16. CASE HumanClosesKid
  <2>1. PICK k \in Kids :
          \/ kid' = [kid EXCEPT ![k].issue = "closed"]
          \/ kid' = [kid EXCEPT ![k].pr = "closed"]
          \/ kid' = [kid EXCEPT ![k].issue = "started"]
          \/ kid' = [kid EXCEPT ![k].phase = None, ![k].done = FALSE, ![k].pin = NoRef, ![k].below = k]
    BY <1>16 DEF HumanClosesKid
  <2>2. ASSUME NEW i \in {"closed", "started"}, kid' = [kid EXCEPT ![k].issue = i] PROVE KidsTyped'
    <3>1. (\A j \in Kids \ {k} : kid'[j] = kid[j]) /\ kid'[k] = [kid[k] EXCEPT !.issue = i]
      BY <1>0, <2>2
    <3>2. /\ kid'[k].pin = kid[k].pin /\ kid'[k].issue = i /\ kid'[k].done = kid[k].done
          /\ kid'[k].below = kid[k].below /\ kid'[k].pr = kid[k].pr
      BY <1>0, <3>1 DEF IsKid
    <3>3. CleanKid(kid'[k])
      BY <1>0, <2>2, <3>2, CleanKidIs
    <3> QED BY <1>0, <3>1, <3>3, OneKid
  <2>3. ASSUME kid' = [kid EXCEPT ![k].phase = None, ![k].done = FALSE, ![k].pin = NoRef, ![k].below = k]
        PROVE  KidsTyped'
    <3>1. /\ \A j \in Kids \ {k} : kid'[j] = kid[j]
          /\ kid'[k] = [kid[k] EXCEPT !.phase = None, !.done = FALSE, !.pin = NoRef, !.below = k]
      BY <1>0, <2>3
    <3>2. /\ kid'[k].pin = NoRef /\ kid'[k].issue = kid[k].issue /\ kid'[k].done = FALSE
          /\ kid'[k].below = k /\ kid'[k].pr = kid[k].pr
      BY <1>0, <3>1 DEF IsKid
    <3>3. CleanKid(kid'[k])
      BY <1>0, <3>2, CleanNoRef, CleanKidIs
    <3> QED BY <1>0, <3>1, <3>3, OneKid
  <2> QED BY <1>0, <2>1, <2>2, <2>3, PRKid
<1>17. CASE HumanMergesEpic
  <2>1. PICK gone \in BOOLEAN : Untarget(gone)
    BY <1>17 DEF HumanMergesEpic
  <2> QED BY <1>0, <2>1, UntargetKids
<1> QED BY <1>1, <1>2, <1>3, <1>4, <1>5, <1>6, <1>7, <1>8, <1>9, <1>10, <1>11, <1>12, <1>13, <1>14, <1>15,
           <1>16, <1>17 DEF Next, RunStep, Hands

LEMMA WorkMoves ==
  ASSUME RInv, Typed, Next
  PROVE  WorkTyped'
<1>0. /\ shipped \subseteq Kids /\ finished \subseteq Kids /\ local.work \subseteq Kids /\ remote.work \subseteq Kids
      /\ LastPR <= MaxPRs /\ prs \in Seq(PRState) /\ LastPR \in Nat /\ MaxPRs \in Nat
  BY CountsAssumption DEF Typed, WorkTyped, RefsTyped, CleanRef, RInv, ShapeOK, LastPR
<1>1. shipped' \subseteq Kids
  <2>1. CASE MergeEpic \/ HumanMergesEpic
    BY <1>0, <2>1 DEF MergeEpic, HumanMergesEpic, EpicLands, Fails, git
  <2>2. CASE LandEpic
    BY <1>0, <2>2 DEF LandEpic, git
  <2>3. CASE MergeStack
    BY <1>0, <2>3, StackIs DEF MergeStack, StackLands
  <2>4. CASE HumanMergesKid
    <3>1. UNCHANGED shipped \/ \E i \in DOMAIN Stack : StackLands({Stack[j] : j \in 1..i})
      BY <2>4 DEF HumanMergesKid
    <3>2. ASSUME NEW i \in DOMAIN Stack PROVE {Stack[j] : j \in 1..i} \subseteq Kids
      <4>1. i \in 1..Len(Stack) /\ Len(Stack) \in Nat
        BY StackIs
      <4> QED BY <4>1, StackIs
    <3> QED BY <1>0, <3>1, <3>2 DEF StackLands
  <2>5. CASE UNCHANGED shipped
    BY <1>0, <2>5
  <2>6. \/ UNCHANGED shipped
        \/ MergeEpic \/ HumanMergesEpic \/ LandEpic \/ MergeStack \/ HumanMergesKid
    BY DEF Next, RunStep, Hands, Loop, Resolve, PRBase, Branch, EpicBranchName, CutSlice, Build, KidPR, OpenKidPR,
       KidGate, KidMerge, KidDone, Check, CheckpointEpicReleasing, SyncForMerge, EnsureEpicPR, Gate, PollCI, RepairEpic,
       AwaitEpicMerge, Layer, AwaitStackMerge, CheckpointEpicMerged, TellTracker, HandOffEpic, SettleEpicBranch, Start,
       Kill, Stop, HumanClosesKid, HumanClosesEpic, BaseMoves, Reattempt, StampReleaseSpent, Fails, GiveUpOn, git
  <2> QED BY <2>1, <2>2, <2>3, <2>4, <2>5, <2>6
<1>2. finished' \subseteq Kids
  <2>1. CASE KidDone
    <3>1. cur \in Kids
      BY <2>1 DEF KidDone, RInv, PlaceOK, KidSteps
    <3> QED BY <1>0, <2>1, <3>1 DEF KidDone
  <2>2. UNCHANGED finished \/ KidDone
    BY DEF Next, RunStep, Hands, Loop, Resolve, PRBase, Branch, EpicBranchName, CutSlice, Build, KidPR, OpenKidPR,
       KidGate, KidMerge, Check, CheckpointEpicReleasing, SyncForMerge, EnsureEpicPR, Gate, PollCI, RepairEpic,
       AwaitEpicMerge, Layer, AwaitStackMerge, CheckpointEpicMerged, TellTracker, HandOffEpic, SettleEpicBranch, Start,
       Kill, Stop, HumanClosesKid, HumanClosesEpic, BaseMoves, Reattempt, StampReleaseSpent, Fails, GiveUpOn,
       MergeEpic, LandEpic, MergeStack, HumanMergesKid, HumanMergesEpic
  <2> QED BY <1>0, <2>1, <2>2
<1>3. LastPR' <= MaxPRs
  <2>1. \/ UNCHANGED prs
        \/ LastPR < MaxPRs /\ \E x \in PRState : prs' = Append(prs, x)
        \/ \E i, x : prs' = [prs EXCEPT ![i] = x]
    <3>1. CASE EnsureEpicPR
      BY <3>1 DEF EnsureEpicPR, Creatable, Fails, git, PRState
    <3>2. CASE Gate
      BY <3>2 DEF Gate
    <3>3. CASE MergeEpic \/ HumanMergesEpic \/ HumanClosesEpic
      BY <3>3 DEF MergeEpic, HumanMergesEpic, HumanClosesEpic, EpicLands, Fails, git
    <3>4. CASE SettleEpicBranch
      BY <3>4 DEF SettleEpicBranch, PRState
    <3>5. CASE ~(EnsureEpicPR \/ Gate \/ MergeEpic \/ HumanMergesEpic \/ HumanClosesEpic \/ SettleEpicBranch)
      <4>1. UNCHANGED prs
        BY <3>5 DEF Next, RunStep, Hands, Loop, Resolve, PRBase, Branch, EpicBranchName, CutSlice, Build, KidPR,
           OpenKidPR, KidGate, KidMerge, KidDone, Check, CheckpointEpicReleasing, SyncForMerge, PollCI, RepairEpic,
           AwaitEpicMerge, LandEpic, Layer, MergeStack, AwaitStackMerge, CheckpointEpicMerged, TellTracker,
           HandOffEpic, Start, Kill, Stop, HumanMergesKid, HumanClosesKid, BaseMoves, Reattempt,
           StampReleaseSpent, Fails, GiveUpOn, git
      <4> QED BY <4>1
    <3> QED BY <3>1, <3>2, <3>3, <3>4, <3>5
  <2>2. CASE UNCHANGED prs
    BY <1>0, <2>2 DEF LastPR
  <2>3. ASSUME LastPR < MaxPRs, NEW x \in PRState, prs' = Append(prs, x) PROVE LastPR' <= MaxPRs
    <3>1. Len(prs') = Len(prs) + 1
      BY <1>0, <2>3, AppendProperties
    <3> QED BY <1>0, <2>3, <3>1 DEF LastPR
  <2>4. ASSUME NEW i, NEW x, prs' = [prs EXCEPT ![i] = x] PROVE LastPR' <= MaxPRs
    <3>1. DOMAIN prs' = DOMAIN prs /\ DOMAIN prs = 1..Len(prs) /\ Len(prs) \in Nat
      BY <1>0, <2>4
    <3>2. prs' \in Seq(PRState)
      BY RInvNext DEF RInv, ShapeOK
    <3>3. DOMAIN prs' = 1..Len(prs') /\ Len(prs') \in Nat
      BY <3>2, LenProperties
    <3>4. Len(prs') = Len(prs)
      BY <3>1, <3>3
    <3> QED BY <1>0, <3>4 DEF LastPR
  <2> QED BY <2>1, <2>2, <2>3, <2>4
<1> QED BY <1>1, <1>2, <1>3 DEF WorkTyped

LEMMA TypedNext == ASSUME RInv, Typed, [Next]_vars PROVE Typed'
<1>1. CASE Next
  BY <1>1, RefsMove, KidsMove, WorkMoves, RunMoves DEF Typed
<1>2. CASE UNCHANGED vars
  <2>1. UNCHANGED <<pc, issue, attempts, halted, left, memo, mine, stacked, cur, tries>>
    BY <1>2 DEF vars
  <2>2. UNCHANGED <<kid, base, local, remote, prs, shipped, finished>>
    BY <1>2 DEF vars
  <2>3. RunTyped'
    BY <2>1 DEF Typed, RunTyped
  <2>4. RefsTyped' /\ WorkTyped'
    BY <2>2 DEF Typed, RefsTyped, CleanRef, WorkTyped, LastPR
  <2>5. KidsTyped'
    BY <2>2, KidsStay DEF Typed
  <2> QED BY <2>3, <2>4, <2>5 DEF Typed
<1> QED BY <1>1, <1>2

LEMMA TypedInit == Init => Typed
<1> SUFFICES ASSUME Init PROVE Typed
  OBVIOUS
<1>1. RefsTyped
  BY CleanNoRef DEF Init, RefsTyped, CleanRef, Extra
<1>2. ASSUME NEW k \in Kids PROVE CleanKid(kid[k])
  <2>1. kid[k] = BlankKid(k)
    BY DEF Init
  <2> QED BY <2>1, CleanNoRef DEF BlankKid, CleanKid
<1>3. WorkTyped
  <2>1. prs = <<>> /\ shipped = {} /\ finished = {}
    BY DEF Init
  <2>2. Len(prs) = 0
    BY <2>1
  <2> QED BY <2>1, <2>2, CountsAssumption DEF WorkTyped, LastPR
<1>4. RunTyped
  <2>1. halted \in BOOLEAN /\ memo \in BOOLEAN /\ mine \in BOOLEAN /\ stacked \in BOOLEAN
    BY DEF Init
  <2>2. attempts \in 0..Resumes /\ left \in 0..MaxGestures /\ tries \in 0..MaxRepairs
    <3>1. attempts = 0 /\ left = MaxGestures /\ tries = 0
      BY DEF Init
    <3> QED BY <3>1, CountsAssumption
  <2>3. issue \in {"open", "review", "done"} /\ cur \in Kids \cup {0} /\ pc # "repair"
    BY DEF Init
  <2> QED BY <2>1, <2>2, <2>3 DEF RunTyped
<1> QED BY <1>1, <1>2, <1>3, <1>4 DEF Typed, KidsTyped

\* Every variable keeps to its kind, for any children, setups, troubles and
\* gestures: branches carry commits of this epic only, a PR number is within the
\* bound, and a run repairs a red epic at most as often as its budget says
\* (pipeline/epic.go:524).
THEOREM ReleaseTyped == Spec => []TypeOK
<1>1. Spec => [](RInv /\ Typed)
  <2>1. Init => RInv /\ Typed
    BY InitHolds, TypedInit
  <2>2. (RInv /\ Typed) /\ [Next]_vars => (RInv /\ Typed)'
    BY RInvNext, TypedNext
  <2> QED BY <2>1, <2>2, PTL DEF Spec
<1>2. RInv /\ Typed => TypeOK
  BY TypedIs
<1> QED BY <1>1, <1>2, PTL
=============================================================================
