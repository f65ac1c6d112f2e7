-------------------------- MODULE FolderRunProofs --------------------------
(***************************************************************************)
(* One ticket in a folder of repositories, for any children, attempts and  *)
(* accidents: the work an attempt found is never committed, the work it    *)
(* made is not lost, and nothing of it lands before all of it is recorded  *)
(* and green.  The invariant says what holds of the children and the row   *)
(* whether or not a run is at them (GitOK), and how far a run has come     *)
(* (RunOK).                                                                *)
(***************************************************************************)
EXTENDS FolderRun, FiniteSetTheorems, WellFoundedInduction, TLAPS

\* The attempt's work has left a child's tree.
Made(c) == attempt \in branch[c] \cup pushed[c] \cup base[c]

Loop   == {"cut", "commit", "record"}
Out    == {"push", "recordpr", "propen"}
Active == Loop \cup Out

PhaseSet == {None, "building", "built", "verified", "pr_open", "merged", "quarantined"}

\* Work is older than the attempt, or its own, and none of its own was there before.
AgesOK ==
  /\ \A c \in Kids : \A w \in loose[c] \cup branch[c] \cup pushed[c] \cup base[c] : w <= attempt
  /\ \A c \in Kids : attempt \notin ckpt.dirt[c]

\* What holds a commit, or an open PR, is a branch.
HeldOK == \A c \in Kids : branch[c] # {} \/ pushed[c] # {} \/ Opened(c) => c \in cut

\* A child that held loose work, and no trace of the ticket, is off limits and untouched.
FoundOK ==
  \A c \in Kids \ held : found[c] # {} =>
    /\ c \notin cut \cup ckpt.targets
    /\ ckpt.phase # None => c \in ckpt.off

\* A branch that is this attempt's alone holds all it made there.
OwnOK ==
  \A c \in Kids \ held :
    /\ attempt \in pushed[c] => attempt \in branch[c] \cup base[c]
    /\ Opened(c) /\ attempt \in branch[c] => attempt \in pushed[c] \cup base[c]
    /\ Opened(c) \/ c \in ckpt.targets
         => attempt \notin loose[c] /\ ckpt.phase \notin {"building", "built"}

\* How far the attempt has come, by the phase its row reads.
PhaseOK ==
  /\ ckpt.phase \in PhaseSet
  /\ attempt = 0 => pc = "off" /\ ckpt.phase = None
  /\ ckpt.phase \in {"building", "built"} => \A c \in Kids : ~Made(c)
  /\ ckpt.phase = "pr_open" => Pending \subseteq ckpt.targets /\ \A c \in Kids : attempt \notin loose[c]

GitOK == AgesOK /\ HeldOK /\ FoundOK /\ OwnOK /\ PhaseOK

\* The phase the row reads at each step of a run.
ReadsOK ==
  /\ pc \in {"build", "built"} => ckpt.phase = "building"
  /\ pc = "verify" => ckpt.phase = "built"
  /\ pc \in Active \cup {"ship", "giveup"} => ckpt.phase = "verified"
  /\ pc \in {"ci", "poll", "merge", "land", "done"} => ckpt.phase \in {"pr_open", "quarantined"}

\* What a run has shipped, and has still to.
ShipOK ==
  /\ pc \in {"off", "build", "built", "verify", "ship"} => shipped = {} /\ ~refused
  /\ pc = "ship" /\ ~resumed => \A c \in Kids : ~Made(c)
  /\ pc \in Loop \cup {"push", "recordpr", "poll", "merge", "land"} => todo # {}
  /\ pc = "commit" => First(todo) \in cut
  /\ pc = "record" => First(todo) \in shipped
  /\ pc \in {"push", "recordpr"} => todo \subseteq shipped
  /\ pc \in Active => shipped \subseteq cut /\ \A c \in shipped : attempt \notin loose[c]
  /\ pc \in Active => \A c \in Kids \ held : found[c] # {} => c \notin shipped
  /\ pc \in Loop => \A c \in Kids \ held : found[c] # {} => c \notin todo
  /\ pc \in Loop /\ ~refused => \A c \in Kids : attempt \in loose[c] => c \in todo \cup shipped
  /\ pc \in Loop /\ ~refused => Pending \subseteq todo \cup shipped
  /\ pc \in Out => Pending \subseteq shipped /\ \A c \in Kids : attempt \notin loose[c]
  /\ pc \in Out => ckpt.targets = shipped

\* What it has seen green, and has still to land.
LandOK ==
  /\ pc \in {"poll", "merge", "land"} => todo \subseteq ckpt.targets
  /\ pc = "poll" => ckpt.targets \subseteq todo \cup green
  /\ pc = "merge" => ckpt.targets \subseteq green
  /\ pc = "land" => Local

RunOK == ReadsOK /\ ShipOK /\ LandOK

FInv == TypeOK /\ GitOK /\ RunOK

-----------------------------------------------------------------------------
(* What the operators return.                                              *)

LEMMA FirstIs == ASSUME NEW s \in SUBSET Kids, s # {} PROVE First(s) \in s /\ First(s) \in Kids
<1> DEFINE Below == {0..n : n \in s}
<1>1. PICK B \in Below : \A C \in Below : ~(<<C, B>> \in StrictSubsetOrdering(Nat))
  <2>1. Below \subseteq FiniteSubsetsOf(Nat)
    <3> SUFFICES ASSUME NEW n \in s PROVE 0..n \in FiniteSubsetsOf(Nat)
      OBVIOUS
    <3>1. n \in Int /\ 0 \in Int /\ 0..n \subseteq Nat
      BY KidsAssumption
    <3>2. IsFiniteSet(0..n)
      BY <3>1, FS_Interval
    <3> QED BY <3>1, <3>2 DEF FiniteSubsetsOf
  <2>2. Below # {}
    OBVIOUS
  <2> HIDE DEF Below
  <2> QED BY <2>1, <2>2, FS_StrictSubsetOrderingWellFounded, WFMin
<1>2. PICK m \in s : B = 0..m
  OBVIOUS
<1>3. \A n \in s : ~(n < m)
  <2> SUFFICES ASSUME NEW n \in s, n < m PROVE FALSE
    OBVIOUS
  <2>1. 0..n \subseteq 0..m /\ 0..n # 0..m /\ 0..n \subseteq Nat /\ 0..m \subseteq Nat
    BY KidsAssumption
  <2>2. <<0..n, B>> \in StrictSubsetOrdering(Nat)
    BY <2>1, <1>2 DEF StrictSubsetOrdering
  <2> QED BY <2>2, <1>1
<1>4. \A d \in s : m <= d
  BY <1>3, KidsAssumption
<1> QED BY <1>4 DEF First

LEMMA WithIs ==
  ASSUME NEW T, NEW f \in [Kids -> T], NEW s, NEW x \in T
  PROVE  /\ With(f, s, x) \in [Kids -> T]
         /\ \A c \in Kids : With(f, s, x)[c] = IF c \in s THEN x ELSE f[c]
BY DEF With

LEMMA ExceptIs ==
  ASSUME NEW T, NEW f \in [Kids -> T], NEW c \in Kids, NEW x \in T
  PROVE  /\ [f EXCEPT ![c] = x] \in [Kids -> T]
         /\ [f EXCEPT ![c] = x][c] = x
         /\ \A d \in Kids \ {c} : [f EXCEPT ![c] = x][d] = f[d]
OBVIOUS

LEMMA HappensIs ==
  ASSUME TypeOK, NEW kind, Happens(kind)
  PROVE  left' \in 0..MaxAccidents /\ left \in 1..MaxAccidents
BY BoundsAssumption DEF TypeOK, Happens

LEMMA CutsIs ==
  ASSUME TypeOK, NEW kind, Cuts(kind)
  PROVE  Over /\ left' \in 0..MaxAccidents
BY HappensIs DEF Cuts

\* The row reads p, and keeps the rest.
Reads(p) ==
  /\ ckpt' \in Row /\ ckpt'.phase = p
  /\ ckpt'.off = ckpt.off /\ ckpt'.dirt = ckpt.dirt
  /\ ckpt'.targets = ckpt.targets /\ ckpt'.urls = ckpt.urls

LEMMA PhasesIn == PhaseSet \subseteq Phase
BY DEF PhaseSet, Phase, Rank, None

LEMMA InFlightIs ==
  ASSUME NEW p \in PhaseSet
  PROVE  InFlight(p) => p \in {"building", "built", "verified", "pr_open"}
<1>1. Idx("merged") = 7 /\ Idx("quarantined") = 9
  BY DEF Idx, Rank
<1>2. Idx(None) = 0
  BY DEF Idx, Rank, None
<1> QED BY <1>1, <1>2 DEF PhaseSet, InFlight

LEMMA RephasedReads ==
  ASSUME TypeOK, NEW p \in PhaseSet, ckpt' = [ckpt EXCEPT !.phase = p]
  PROVE  Reads(p)
BY PhasesIn DEF TypeOK, Row, Reads

LEMMA KeptReads == ASSUME TypeOK, UNCHANGED ckpt PROVE Reads(ckpt.phase)
BY DEF TypeOK, Reads

LEMMA GivesUpIs == ASSUME TypeOK, GivesUp PROVE Over /\ Reads("quarantined")
BY RephasedReads DEF GivesUp, PhaseSet

LEMMA RecordedIs ==
  ASSUME TypeOK, NEW s \in SUBSET Kids, NEW k \in SUBSET Kids, ckpt' = Recorded(s, k)
  PROVE  /\ ckpt' \in Row /\ ckpt'.phase = ckpt.phase /\ ckpt'.off = ckpt.off
         /\ ckpt'.dirt = ckpt.dirt /\ ckpt'.targets = s
<1> DEFINE u == IF s \cap k = {} THEN ckpt.urls ELSE s \cap k
<1>1. u \in SUBSET Kids /\ ckpt' = [ckpt EXCEPT !.targets = s, !.urls = u]
  BY DEF TypeOK, Row, Recorded
<1> HIDE DEF u
<1> QED BY <1>1 DEF TypeOK, Row

LEMMA BlankIs ==
  /\ Blank \in Row /\ Blank.phase = None /\ Blank.targets = {} /\ \A c \in Kids : Blank.dirt[c] = {}
BY PhasesIn DEF Blank, Row, Clean, PhaseSet

LEMMA WorkIs ==
  ASSUME TypeOK, NEW n \in 1..MaxAccidents
  PROVE  /\ Work \subseteq Int /\ 0 \notin Work /\ -n \in Work /\ attempt \in 0..MaxAttempts
         /\ (attempt # 0 => attempt \in Work) /\ -n < attempt
BY BoundsAssumption DEF Work, TypeOK

LEMMA AttemptIs ==
  ASSUME TypeOK
  PROVE  /\ Work \subseteq Int /\ 0 \notin Work /\ attempt \in 0..MaxAttempts /\ (attempt # 0 => attempt \in Work)
         /\ attempt \in Int
BY BoundsAssumption DEF Work, TypeOK

LEMMA NextKidIs ==
  ASSUME NEW kids \in SUBSET Kids, NEW failed \in BOOLEAN, NEW done \in SUBSET Kids,
         known \subseteq Kids, NextKid(kids, failed, done)
  PROVE  \/ kids # {} /\ todo' = kids /\ pc' = "cut"
         \/ kids = {} /\ failed /\ todo' = {} /\ pc' = "giveup"
         \/ kids = {} /\ ~failed /\ todo' # {} /\ todo' \subseteq done /\ pc' = "push"
         \/ kids = {} /\ ~failed /\ todo' \subseteq done /\ pc' = "propen"
<1>1. CASE kids # {}
  BY <1>1 DEF NextKid
<1>2. CASE kids = {} /\ failed
  BY <1>2 DEF NextKid
<1>3. CASE kids = {} /\ ~failed /\ ~Local /\ done \ known # {}
  BY <1>3 DEF NextKid
<1>4. CASE kids = {} /\ ~failed /\ ~(~Local /\ done \ known # {})
  BY <1>4 DEF NextKid
<1> QED BY <1>1, <1>2, <1>3, <1>4

-----------------------------------------------------------------------------
(* What most steps have in common.                                         *)

\* A run that is over has nothing to keep to.
LEMMA OverRuns == ASSUME Over PROVE RunOK'
BY DEF Over, RunOK, ReadsOK, ShipOK, LandOK, Active, Loop, Out

LEMMA OverTypes ==
  ASSUME TypeOK, Over, Stays, ckpt' \in Row, left' \in 0..MaxAccidents,
         head' \in [Kids -> {"base", "branch", "else"}], loose' \in [Kids -> SUBSET Work],
         cut' \subseteq Kids, branch' \in [Kids -> SUBSET Work], pushed' \in [Kids -> SUBSET Work],
         base' \in [Kids -> SUBSET Work], pr' \in [Kids -> {"none", "open", "merged", "closed"}]
  PROVE  TypeOK'
BY DEF TypeOK, Over, Stays, ghost

\* The children are as they were, and the row reads on.
LEMMA GitStays ==
  ASSUME TypeOK, GitOK, UNCHANGED git, Stays, NEW p \in PhaseSet, Reads(p), attempt = 0 => pc' = "off" /\ p = None,
         p # None => ckpt.phase # None,
         p \in {"building", "built"} => ckpt.phase \in {"building", "built"},
         p = "pr_open" => ckpt.phase = "pr_open"
                            \/ (Pending \subseteq ckpt.targets /\ \A c \in Kids : attempt \notin loose[c])
  PROVE  GitOK'
<1>1. AgesOK'
  BY DEF GitOK, AgesOK, git, Stays, ghost, Reads
<1>2. HeldOK' /\ FoundOK'
  BY DEF GitOK, HeldOK, FoundOK, Opened, git, Stays, ghost, Reads
<1>3. OwnOK'
  BY DEF GitOK, OwnOK, Opened, git, Stays, ghost, Reads
<1>4. PhaseOK'
  BY DEF GitOK, PhaseOK, Made, Pending, git, Stays, ghost, Reads
<1> QED BY <1>1, <1>2, <1>3, <1>4 DEF GitOK

\* A run that works has an attempt, and a row.
LEMMA AtWork == ASSUME FInv, pc # "off" PROVE attempt # 0 /\ attempt \in Work /\ ckpt.phase # None
<1>1. attempt # 0
  BY DEF FInv, GitOK, PhaseOK
<1>2. ckpt.phase # None
  BY DEF FInv, RunOK, ReadsOK, TypeOK, Active, Loop, Out, None
<1> QED BY <1>1, <1>2, AttemptIs DEF FInv

\* A run that ends where it is, in what it read or given up, keeps everything.
LEMMA EndKeeps ==
  ASSUME FInv, pc # "off", Over, UNCHANGED git, Stays, left' \in 0..MaxAccidents,
         NEW p \in {ckpt.phase, "quarantined", "merged"}, Reads(p)
  PROVE  FInv'
<1>1. attempt # 0 /\ ckpt.phase # None /\ p \in PhaseSet
  BY AtWork DEF FInv, GitOK, PhaseOK, PhaseSet
<1>2. GitOK'
  BY <1>1, GitStays DEF FInv
<1>3. TypeOK'
  BY OverTypes DEF FInv, TypeOK, git, Reads
<1> QED BY <1>2, <1>3, OverRuns DEF FInv

\* A step of a run at work that only reads the children.
LEMMA WorkKeeps ==
  ASSUME FInv, pc # "off", UNCHANGED git, Stays, RunOK',
         pc' \in {"off", "build", "built", "verify", "ship", "cut", "commit", "record", "push",
                  "recordpr", "propen", "ci", "poll", "merge", "land", "done", "giveup"},
         resumed' \in BOOLEAN, todo' \subseteq Kids, shipped' \subseteq Kids, refused' \in BOOLEAN,
         known' \subseteq Kids, green' \subseteq Kids, left' \in 0..MaxAccidents,
         NEW p \in PhaseSet, Reads(p), p # None,
         p \in {"building", "built"} => ckpt.phase \in {"building", "built"},
         p = "pr_open" => ckpt.phase = "pr_open"
                            \/ (Pending \subseteq ckpt.targets /\ \A c \in Kids : attempt \notin loose[c])
  PROVE  FInv'
<1>1. attempt # 0 /\ ckpt.phase # None
  BY AtWork
<1>2. GitOK'
  BY <1>1, GitStays DEF FInv
<1>3. TypeOK'
  BY DEF FInv, TypeOK, git, Stays, ghost, Reads
<1> QED BY <1>2, <1>3 DEF FInv

\* What happens in the children beside a run leaves it where it was.
LEMMA RunStays ==
  ASSUME RunOK, UNCHANGED <<pc, run, ckpt, ghost, cut, setup>>,
         \A c \in Kids : attempt \in loose'[c] => attempt \in loose[c],
         Pending' \subseteq Pending, \A c \in Kids : Made(c)' => Made(c),
         shipped \subseteq Kids
  PROVE  RunOK'
<1>1. ReadsOK' /\ LandOK'
  BY DEF RunOK, ReadsOK, LandOK, run, Local
<1>2. ShipOK'
  BY DEF RunOK, ShipOK, run, ghost, Active, Loop, Out
<1> QED BY <1>1, <1>2 DEF RunOK

-----------------------------------------------------------------------------
(* A run begins, or is taken up.                                           *)

LEMMA FreshKeeps ==
  ASSUME FInv, pc = "off", Fresh, left' \in 0..MaxAccidents,
         NEW unread \in SUBSET Kids, NEW stuck \in SUBSET Kids, Census(unread, stuck)
  PROVE  FInv'
<1>1. /\ attempt' = attempt + 1 /\ found' = loose /\ held' = cut \cup ckpt.targets
      /\ pc' = "build" /\ resumed' = FALSE
      /\ UNCHANGED <<setup, loose, cut, branch, pushed, base, pr, todo, shipped, refused, known, green>>
  BY DEF Fresh
<1>2. attempt' \in 1..MaxAttempts /\ attempt' \in Work
  BY <1>1, BoundsAssumption DEF Fresh, FInv, TypeOK, Work
<1>3. /\ ckpt' \in Row /\ ckpt'.phase = "building" /\ ckpt'.targets = ckpt.targets
      /\ ckpt'.off = Dirty \cup unread \cup stuck
      /\ \A c \in Kids : ckpt'.dirt[c] \subseteq loose[c]
  <2> DEFINE d == [c \in Kids |-> IF c \in Dirty \ unread THEN loose[c] ELSE {}]
             o == Dirty \cup unread \cup stuck
  <2>1. d \in [Kids -> SUBSET Work] /\ \A c \in Kids : d[c] \subseteq loose[c]
    BY DEF FInv, TypeOK
  <2>2. o \in SUBSET Kids
    BY DEF Dirty
  <2>3. ckpt' = [ckpt EXCEPT !.phase = "building", !.off = o, !.dirt = d]
    BY DEF Census
  <2>4. "building" \in Phase
    BY PhasesIn DEF PhaseSet
  <2> HIDE DEF d, o
  <2>5. ckpt' \in Row /\ ckpt'.phase = "building" /\ ckpt'.targets = ckpt.targets /\ ckpt'.dirt = d /\ ckpt'.off = o
    BY <2>1, <2>2, <2>3, <2>4 DEF FInv, TypeOK, Row
  <2> QED BY <2>1, <2>5 DEF o
<1>4. head' \in [Kids -> {"base", "branch", "else"}]
  <2>1. PICK s \in SUBSET Kids : head' = With(head, s, "base")
    BY DEF Census
  <2> QED BY <2>1 DEF With, FInv, TypeOK
<1>5. \A c \in Kids : attempt' \notin loose[c] \cup branch[c] \cup pushed[c] \cup base[c]
  <2>1. \A c \in Kids : \A w \in loose[c] \cup branch[c] \cup pushed[c] \cup base[c] : w \in Int /\ w <= attempt
    BY AttemptIs DEF FInv, GitOK, AgesOK, TypeOK
  <2>2. attempt \in Int
    BY AttemptIs DEF FInv
  <2> QED BY <2>1, <2>2, <1>1
<1>6. TypeOK'
  <2>1. held' \subseteq Kids /\ attempt' \in 0..MaxAttempts
    BY <1>1, <1>2, BoundsAssumption DEF FInv, TypeOK, Row
  <2> QED BY <1>1, <1>3, <1>4, <2>1 DEF FInv, TypeOK
<1>7. AgesOK'
  <2>1. \A c \in Kids : \A w \in loose[c] \cup branch[c] \cup pushed[c] \cup base[c] : w <= attempt'
    BY <1>1, AttemptIs DEF FInv, GitOK, AgesOK, TypeOK
  <2> QED BY <2>1, <1>1, <1>3, <1>5 DEF AgesOK
<1>8. HeldOK'
  BY <1>1 DEF FInv, GitOK, HeldOK, Opened
<1>9. FoundOK'
  BY <1>1, <1>3 DEF FoundOK, Dirty
<1>10. OwnOK'
  BY <1>1, <1>3, <1>5 DEF FInv, GitOK, HeldOK, OwnOK, Opened
<1>11. PhaseOK'
  BY <1>1, <1>2, <1>3, <1>5 DEF PhaseOK, PhaseSet, Made
<1>12. RunOK'
  <2>1. shipped' = {} /\ ~refused'
    BY <1>1 DEF FInv, RunOK, ShipOK
  <2> QED BY <1>1, <1>3, <2>1 DEF RunOK, ReadsOK, ShipOK, LandOK, Active, Loop, Out
<1> QED BY <1>6, <1>7, <1>8, <1>9, <1>10, <1>11, <1>12 DEF FInv, GitOK

LEMMA BeginKeeps == ASSUME FInv, Begin PROVE FInv'
<1>1. CASE Census({}, {}) /\ UNCHANGED left
  BY <1>1, FreshKeeps DEF Begin, FInv, TypeOK
<1>2. ASSUME Happens("unread"), NEW c \in Kids, Census({c}, {}) PROVE FInv'
  BY <1>2, FreshKeeps, HappensIs DEF Begin, FInv
<1>3. ASSUME Happens("park"), NEW c \in Kids, Census({}, {c}) PROVE FInv'
  BY <1>3, FreshKeeps, HappensIs DEF Begin, FInv
<1> QED BY <1>1, <1>2, <1>3 DEF Begin

LEMMA RerunKeeps == ASSUME FInv, Rerun PROVE FInv'
BY FreshKeeps, HappensIs DEF Rerun, FInv

LEMMA TakesUpKeeps ==
  ASSUME FInv, TakesUp, left' \in 0..MaxAccidents,
         ckpt.phase \in {"building", "built", "verified", "pr_open", "quarantined"}
  PROVE  FInv'
<1>1. /\ pc = "off" /\ resumed' = TRUE /\ UNCHANGED git /\ UNCHANGED ckpt /\ Stays
      /\ UNCHANGED <<todo, shipped, refused, known, green>>
  BY DEF TakesUp
<1>2. /\ ckpt.phase = "building" => pc' = "build"
      /\ ckpt.phase = "built" => pc' = "verify"
      /\ ckpt.phase = "verified" => pc' = "ship"
      /\ ckpt.phase \in {"pr_open", "quarantined"} => pc' = "ci"
  BY DEF TakesUp, ResumePoint
<1>3. GitOK'
  <2>1. attempt # 0 /\ ckpt.phase \in PhaseSet
    BY DEF FInv, GitOK, PhaseOK, None
  <2> QED BY <1>1, <2>1, GitStays, KeptReads DEF FInv
<1>4. TypeOK'
  BY <1>1, <1>2 DEF FInv, TypeOK, git, Stays, ghost
<1>5. RunOK'
  <2>1. shipped' = {} /\ ~refused'
    BY <1>1 DEF FInv, RunOK, ShipOK
  <2> QED BY <1>1, <1>2, <2>1 DEF RunOK, ReadsOK, ShipOK, LandOK, Active, Loop, Out
<1> QED BY <1>3, <1>4, <1>5 DEF FInv

LEMMA ResumeKeeps == ASSUME FInv, Resume PROVE FInv'
<1>1. ckpt.phase \in {"building", "built", "verified", "pr_open"}
  BY InFlightIs DEF Resume, FInv, GitOK, PhaseOK
<1> QED BY <1>1, TakesUpKeeps DEF Resume, FInv, TypeOK

LEMMA RunOnceKeeps == ASSUME FInv, RunOnce PROVE FInv'
BY TakesUpKeeps, HappensIs DEF RunOnce, FInv

-----------------------------------------------------------------------------
(* Agents at work.                                                         *)

\* An edit before anything is shipped: the children hold no branch that is this
\* attempt's alone.
LEMMA EditsKeeps ==
  ASSUME FInv, pc \in {"build", "verify"}, NEW S \in SUBSET Kids, Edits(S), Stays,
         UNCHANGED <<head, cut, branch, pushed, base, pr>>,
         NEW p \in {"building", "verified"}, Reads(p), left' \in 0..MaxAccidents,
         \/ Over
         \/ pc = "build" /\ p = "building" /\ pc' = "built" /\ UNCHANGED run
         \/ pc = "verify" /\ p = "verified" /\ pc' = "ship" /\ UNCHANGED run
  PROVE  FInv'
<1>1. attempt # 0 /\ attempt \in Work /\ attempt \in Int /\ ckpt.phase \in {"building", "built"}
  BY AtWork, AttemptIs DEF FInv, RunOK, ReadsOK
<1>2. /\ loose' \in [Kids -> SUBSET Work]
      /\ \A c \in Kids : loose'[c] \subseteq loose[c] \cup {attempt}
  BY <1>1 DEF Edits, FInv, TypeOK
<1>3. AgesOK'
  BY <1>1, <1>2 DEF FInv, GitOK, AgesOK, Stays, ghost, Reads
<1>4. HeldOK' /\ FoundOK'
  BY <1>1 DEF FInv, GitOK, HeldOK, FoundOK, Opened, Stays, ghost, Reads, None
<1>5. OwnOK'
  BY <1>1 DEF FInv, GitOK, OwnOK, Opened, Stays, ghost, Reads
<1>6. PhaseOK'
  BY <1>1 DEF FInv, GitOK, PhaseOK, PhaseSet, Made, Stays, ghost, Reads
<1>7. shipped = {} /\ ~refused
  BY DEF FInv, RunOK, ShipOK
<1>8. \A c \in Kids : ~Made(c)'
  BY <1>1 DEF FInv, GitOK, PhaseOK, Made, Stays, ghost
<1>9. TypeOK' /\ RunOK'
  <2>1. CASE Over
    <3>1. TypeOK'
      BY <2>1, <1>2, OverTypes DEF FInv, TypeOK, Reads
    <3> QED BY <2>1, <3>1, OverRuns
  <2>2. CASE pc' = "built" /\ p = "building" /\ UNCHANGED run
    <3>1. TypeOK'
      BY <2>2, <1>2 DEF FInv, TypeOK, run, Reads, Stays, ghost
    <3>2. RunOK'
      BY <2>2, <1>7 DEF RunOK, ReadsOK, ShipOK, LandOK, run, Reads, Active, Loop, Out
    <3> QED BY <3>1, <3>2
  <2>3. CASE pc' = "ship" /\ p = "verified" /\ UNCHANGED run
    <3>1. TypeOK'
      BY <2>3, <1>2 DEF FInv, TypeOK, run, Reads, Stays, ghost
    <3>2. RunOK'
      BY <2>3, <1>7, <1>8 DEF RunOK, ReadsOK, ShipOK, LandOK, run, Reads, Active, Loop, Out
    <3> QED BY <3>1, <3>2
  <2> QED BY <2>1, <2>2, <2>3
<1> QED BY <1>3, <1>4, <1>5, <1>6, <1>9 DEF FInv, GitOK

LEMMA BuildKeeps == ASSUME FInv, Build PROVE FInv'
<1>1. pc = "build" /\ Stays /\ UNCHANGED <<head, cut, branch, pushed, base, pr>> /\ Reads("building")
  BY RephasedReads DEF Build, PhaseSet, FInv
<1>2. PICK S \in SUBSET Kids :
        /\ Edits(S)
        /\ \/ pc' = "built" /\ UNCHANGED run /\ (UNCHANGED left \/ Happens("stray"))
           \/ Cuts("agent")
  BY DEF Build
<1>3. left' \in 0..MaxAccidents
  BY <1>2, HappensIs, CutsIs DEF FInv, TypeOK
<1>4. Over \/ (pc' = "built" /\ UNCHANGED run)
  BY <1>2 DEF Cuts
<1> QED BY <1>1, <1>2, <1>3, <1>4, EditsKeeps

LEMMA BuiltKeeps == ASSUME FInv, Built PROVE FInv'
<1>1. pc = "built" /\ Stays /\ UNCHANGED git /\ left' \in 0..MaxAccidents /\ ckpt.phase = "building"
  BY DEF Built, FInv, TypeOK, RunOK, ReadsOK
<1>2. CASE Over /\ UNCHANGED ckpt
  BY <1>1, <1>2, EndKeeps, KeptReads DEF FInv
<1>3. CASE GivesUp
  BY <1>1, <1>3, EndKeeps, GivesUpIs DEF FInv
<1>4. CASE ckpt' = [ckpt EXCEPT !.phase = "built"] /\ pc' = "verify" /\ UNCHANGED run
  <2>1. Reads("built") /\ "built" \in PhaseSet /\ "built" # None
    BY <1>4, RephasedReads DEF PhaseSet, FInv, None
  <2>2. RunOK'
    BY <1>1, <1>4, <2>1 DEF FInv, RunOK, ReadsOK, ShipOK, LandOK, Reads, run, Active, Loop, Out
  <2>3. /\ resumed' \in BOOLEAN /\ todo' \subseteq Kids /\ shipped' \subseteq Kids /\ refused' \in BOOLEAN
        /\ known' \subseteq Kids /\ green' \subseteq Kids
    BY <1>4 DEF FInv, TypeOK, run
  <2> QED BY <1>1, <1>4, <2>1, <2>2, <2>3, WorkKeeps
<1> QED BY <1>2, <1>3, <1>4 DEF Built

LEMMA VerifyKeeps == ASSUME FInv, Verify PROVE FInv'
<1>1. pc = "verify" /\ Stays /\ UNCHANGED <<head, cut, branch, pushed, base, pr>>
  BY DEF Verify
<1>2. CASE /\ \E S \in SUBSET Kids :
                /\ Edits(S)
                /\ IF S \cap ckpt.off = {} THEN UNCHANGED left ELSE Happens("stray")
           /\ ckpt' = [ckpt EXCEPT !.phase = "verified"]
           /\ pc' = "ship" /\ UNCHANGED run
  <2>1. PICK S \in SUBSET Kids : Edits(S) /\ (UNCHANGED left \/ Happens("stray"))
    BY <1>2
  <2>2. Reads("verified") /\ left' \in 0..MaxAccidents
    BY <1>2, <2>1, HappensIs, RephasedReads DEF PhaseSet, FInv, TypeOK
  <2> QED BY <1>1, <1>2, <2>1, <2>2, EditsKeeps
<1>3. CASE Happens("agent") /\ (GivesUp \/ (Over /\ UNCHANGED ckpt)) /\ UNCHANGED loose
  <2>1. UNCHANGED git /\ left' \in 0..MaxAccidents
    BY <1>1, <1>3, HappensIs DEF git, FInv
  <2> QED BY <1>1, <1>3, <2>1, EndKeeps, KeptReads, GivesUpIs DEF FInv
<1> QED BY <1>2, <1>3 DEF Verify

-----------------------------------------------------------------------------
(* The children are committed, one after the other.                        *)

\* Between two steps of the loop over the children.
LEMMA NextKidRuns ==
  ASSUME FInv, pc \in Loop, NEW kids \in SUBSET Kids, NEW failed \in BOOLEAN, NEW done \in SUBSET Kids,
         NextKid(kids, failed, done), refused' = failed, shipped' = done, shipped = done,
         UNCHANGED <<git, ghost, setup>>, ckpt'.phase = ckpt.phase,
         kids \subseteq todo, failed \/ (todo \subseteq kids \cup done /\ ~refused),
         ~failed => ckpt'.targets = done
  PROVE  RunOK' /\ pc' \in {"cut", "giveup", "push", "propen"} /\ todo' \subseteq Kids
<1>1. \/ kids # {} /\ todo' = kids /\ pc' = "cut"
      \/ kids = {} /\ failed /\ todo' = {} /\ pc' = "giveup"
      \/ kids = {} /\ ~failed /\ todo' # {} /\ todo' \subseteq done /\ pc' = "push"
      \/ kids = {} /\ ~failed /\ todo' \subseteq done /\ pc' = "propen"
  BY NextKidIs DEF FInv, TypeOK
<1>2. pc' \in {"cut", "giveup", "push", "propen"} /\ todo' \subseteq Kids
  BY <1>1
<1>3. ReadsOK' /\ LandOK'
  BY <1>1 DEF FInv, RunOK, ReadsOK, LandOK, Active, Loop, Out
<1>4. /\ done \subseteq cut /\ \A c \in done : attempt \notin loose[c]
      /\ \A c \in Kids \ held : found[c] # {} => c \notin done /\ c \notin todo
      /\ ~refused => Pending \subseteq todo \cup done /\ \A c \in Kids : attempt \in loose[c] => c \in todo \cup done
  BY DEF FInv, RunOK, ShipOK, Active
<1>5. Pending' = Pending
  BY DEF Pending, git, ghost
<1>6. ShipOK'
  <2>1. CASE kids # {} /\ todo' = kids /\ pc' = "cut"
    BY <2>1, <1>4, <1>5 DEF ShipOK, Active, Loop, Out, git, ghost
  <2>2. CASE pc' = "giveup"
    BY <2>2 DEF ShipOK, Active, Loop, Out
  <2>3. CASE kids = {} /\ ~failed /\ todo' \subseteq done /\ pc' \in {"push", "propen"} /\ (pc' = "push" => todo' # {})
    <3>1. Pending' \subseteq done /\ \A c \in Kids : attempt \notin loose[c]
      BY <2>3, <1>4, <1>5
    <3> QED BY <2>3, <3>1, <1>4 DEF ShipOK, Active, Loop, Out, git, ghost
  <2> QED BY <1>1, <2>1, <2>2, <2>3
<1> QED BY <1>2, <1>3, <1>6 DEF RunOK

LEMMA ShipKeeps == ASSUME FInv, Ship PROVE FInv'
<1>1. pc = "ship" /\ Stays /\ UNCHANGED git /\ left' \in 0..MaxAccidents /\ ckpt.phase = "verified"
  BY DEF Ship, FInv, TypeOK, RunOK, ReadsOK
<1>2. CASE GivesUp
  BY <1>1, <1>2, EndKeeps, GivesUpIs DEF FInv
<1>3. CASE Over /\ UNCHANGED ckpt
  BY <1>1, <1>3, EndKeeps, KeptReads DEF FInv
<1>4. CASE /\ ~OutOfBounds /\ ShipSet # {}
           /\ pc' = "cut" /\ todo' = ShipSet
           /\ known' = IF resumed THEN ckpt.targets \cap ckpt.urls ELSE {}
           /\ UNCHANGED <<ckpt, resumed, shipped, refused, green>>
  <2>1. Reads("verified") /\ "verified" \in PhaseSet /\ "verified" # None
    BY <1>1, <1>4, KeptReads DEF PhaseSet, FInv, None
  <2>2. /\ todo' \subseteq Kids /\ known' \subseteq Kids
        /\ UNCHANGED <<resumed, shipped, refused, green>>
        /\ resumed' \in BOOLEAN /\ shipped' \subseteq Kids /\ refused' \in BOOLEAN /\ green' \subseteq Kids
    BY <1>4 DEF FInv, TypeOK, Row, ShipSet, Changed
  <2>3. shipped' = {} /\ todo' # {}
    BY <1>1, <1>4 DEF FInv, RunOK, ShipOK
  <2>4. \A c \in Kids \ held : found[c] # {} => c \notin todo'
    <3> SUFFICES ASSUME NEW c \in Kids \ held, found[c] # {} PROVE c \notin todo'
      OBVIOUS
    <3>1. c \notin cut \cup ckpt.targets /\ c \in ckpt.off
      BY <1>1 DEF FInv, GitOK, FoundOK, None
    <3>2. c \notin Changed
      BY <3>1, <1>4 DEF OutOfBounds
    <3> QED BY <3>1, <3>2, <1>4 DEF ShipSet
  <2>5. \A c \in Kids : attempt \in loose[c] => c \in todo'
    BY <1>4 DEF FInv, GitOK, AgesOK, ShipSet, Changed
  <2>6. Pending \subseteq todo'
    <3>1. CASE resumed
      BY <3>1, <1>4 DEF FInv, GitOK, HeldOK, ShipSet, Pending
    <3>2. CASE ~resumed
      BY <3>2, <1>1 DEF FInv, RunOK, ShipOK, Pending, Made
    <3> QED BY <3>1, <3>2
  <2>7. Pending' = Pending
    BY <1>1 DEF Pending, git, Stays, ghost
  <2>8. ShipOK'
    BY <1>1, <1>4, <2>3, <2>4, <2>5, <2>6, <2>7 DEF ShipOK, Active, Loop, Out, git, Stays, ghost
  <2>9. RunOK'
    BY <1>1, <1>4, <2>8 DEF RunOK, ReadsOK, LandOK, Active, Loop, Out
  <2> QED BY <1>1, <1>4, <2>1, <2>2, <2>9, WorkKeeps
<1> QED BY <1>2, <1>3, <1>4 DEF Ship

LEMMA RefuseKeeps == ASSUME FInv, Refuse PROVE FInv'
<1>1. /\ pc \in {"cut", "commit"} /\ Stays /\ UNCHANGED git /\ left' \in 0..MaxAccidents
      /\ UNCHANGED <<ckpt, resumed, shipped, known, green>> /\ refused' = TRUE
      /\ NextKid(todo \ {First(todo)}, TRUE, shipped)
  BY HappensIs DEF Refuse, FInv
<1>2. ckpt.phase = "verified"
  BY <1>1 DEF FInv, RunOK, ReadsOK, Active, Loop
<1>3. Reads("verified") /\ "verified" \in PhaseSet /\ "verified" # None
  BY <1>1, <1>2, KeptReads DEF PhaseSet, FInv, None
<1>4. RunOK' /\ pc' \in {"cut", "giveup", "push", "propen"} /\ todo' \subseteq Kids
  <2>1. (todo \ {First(todo)}) \in SUBSET Kids /\ shipped \in SUBSET Kids
    BY DEF FInv, TypeOK
  <2> QED BY <1>1, <2>1, NextKidRuns DEF Stays, Loop
<1>5. resumed' \in BOOLEAN /\ shipped' \subseteq Kids /\ known' \subseteq Kids /\ green' \subseteq Kids
  BY <1>1 DEF FInv, TypeOK
<1> QED BY <1>1, <1>2, <1>3, <1>4, <1>5, WorkKeeps

LEMMA CutKeeps == ASSUME FInv, Cut PROVE FInv'
<1> DEFINE c == First(todo)
<1>1. /\ pc = "cut" /\ pc' = "commit" /\ Stays
      /\ UNCHANGED <<ckpt, branch, pushed, base, pr, run, left>>
      /\ cut' = cut \cup {c} /\ head' = [head EXCEPT ![c] = "branch"]
      /\ loose' = [loose EXCEPT ![c] = Carried(c)]
  BY DEF Cut
<1>2. c \in todo /\ c \in Kids
  BY <1>1, FirstIs DEF FInv, TypeOK, RunOK, ShipOK, Loop
<1>3. \A d \in Kids \ held : found[d] # {} => d # c
  BY <1>1, <1>2 DEF FInv, RunOK, ShipOK, Loop
<1>4. First(todo)' = c
  BY <1>1 DEF First, run
<1> HIDE DEF c
<1>5. head' \in [Kids -> {"base", "branch", "else"}] /\ UNCHANGED loose /\ cut' \subseteq Kids
  BY <1>1, <1>2 DEF FInv, TypeOK, Carried
<1>6. TypeOK'
  BY <1>1, <1>5 DEF FInv, TypeOK, run, Stays, ghost
<1>7. AgesOK' /\ HeldOK' /\ OwnOK' /\ PhaseOK'
  BY <1>1, <1>5 DEF FInv, GitOK, AgesOK, HeldOK, OwnOK, PhaseOK, Opened, Made, Pending, Stays, ghost
<1>8. FoundOK'
  BY <1>1, <1>3 DEF FInv, GitOK, FoundOK, Stays, ghost
<1>9. Pending' = Pending /\ c \in cut'
  BY <1>1 DEF Pending, Stays, ghost
<1>10. ReadsOK' /\ LandOK'
  BY <1>1 DEF FInv, RunOK, ReadsOK, LandOK, Active, Loop, Out
<1>11. ShipOK'
  BY <1>1, <1>4, <1>5, <1>9 DEF FInv, RunOK, ShipOK, run, Active, Loop, Out, Stays, ghost
<1> QED BY <1>6, <1>7, <1>8, <1>10, <1>11 DEF FInv, GitOK, RunOK

LEMMA CommitKeeps == ASSUME FInv, Commit PROVE FInv'
<1> DEFINE c == First(todo)
<1>1. /\ pc = "commit" /\ pc' = "record" /\ Stays /\ shipped' = shipped \cup {c}
      /\ UNCHANGED <<ckpt, head, cut, pushed, base, pr, resumed, todo, refused, known, green, left>>
      /\ branch' = [branch EXCEPT ![c] = @ \cup loose[c]]
      /\ loose' = [loose EXCEPT ![c] = {}]
  BY DEF Commit
<1>2. c \in todo /\ c \in Kids /\ c \in cut
  BY <1>1, FirstIs DEF FInv, TypeOK, RunOK, ShipOK, Loop
<1>3. First(todo)' = c
  BY <1>1 DEF First
<1> HIDE DEF c
<1>4. /\ branch' \in [Kids -> SUBSET Work] /\ loose' \in [Kids -> SUBSET Work]
      /\ branch'[c] = branch[c] \cup loose[c] /\ loose'[c] = {}
      /\ \A d \in Kids \ {c} : branch'[d] = branch[d] /\ loose'[d] = loose[d]
  BY <1>1, <1>2 DEF FInv, TypeOK
<1>5. ckpt.phase = "verified" /\ attempt # 0
  BY <1>1, AtWork DEF FInv, RunOK, ReadsOK, Active, Loop
<1>6. TypeOK'
  BY <1>1, <1>2, <1>4 DEF FInv, TypeOK, Stays, ghost
<1>7. AgesOK'
  BY <1>1, <1>4 DEF FInv, GitOK, AgesOK, Stays, ghost
<1>8. HeldOK' /\ FoundOK'
  BY <1>1, <1>2, <1>4 DEF FInv, GitOK, HeldOK, FoundOK, Opened, Stays, ghost
<1>9. OwnOK'
  BY <1>1, <1>2, <1>4 DEF FInv, GitOK, OwnOK, Opened, Stays, ghost
<1>10. PhaseOK'
  BY <1>1, <1>5 DEF PhaseOK, PhaseSet, Stays, ghost
<1>11. Pending' \subseteq Pending \cup {c}
  BY <1>1, <1>4 DEF Pending, Stays, ghost
<1>12. ReadsOK' /\ LandOK'
  BY <1>1 DEF FInv, RunOK, ReadsOK, LandOK, Active, Loop, Out
<1>13. ShipOK'
  BY <1>1, <1>2, <1>3, <1>4, <1>11 DEF FInv, RunOK, ShipOK, Active, Loop, Out, Stays, ghost
<1> QED BY <1>6, <1>7, <1>8, <1>9, <1>10, <1>12, <1>13 DEF FInv, GitOK, RunOK

\* The row learns which children were committed.
LEMMA RecordsGit ==
  ASSUME FInv, pc \in {"record", "recordpr"}, UNCHANGED git, Stays, pc' # "off",
         NEW k \in SUBSET Kids, ckpt' = Recorded(shipped, k)
  PROVE  GitOK' /\ ckpt' \in Row /\ ckpt'.phase = "verified" /\ ckpt'.targets = shipped
<1>1. /\ ckpt' \in Row /\ ckpt'.phase = "verified" /\ ckpt'.off = ckpt.off
      /\ ckpt'.dirt = ckpt.dirt /\ ckpt'.targets = shipped /\ ckpt.phase = "verified"
  BY RecordedIs DEF FInv, TypeOK, RunOK, ReadsOK, Active, Loop, Out
<1>2. /\ \A c \in shipped : attempt \notin loose[c]
      /\ \A c \in Kids \ held : found[c] # {} => c \notin shipped
  BY DEF FInv, RunOK, ShipOK, Active, Loop, Out
<1>3. AgesOK' /\ HeldOK'
  BY <1>1 DEF FInv, GitOK, AgesOK, HeldOK, Opened, git, Stays, ghost
<1>4. FoundOK'
  BY <1>1, <1>2 DEF FInv, GitOK, FoundOK, git, Stays, ghost, None
<1>5. OwnOK'
  BY <1>1, <1>2 DEF FInv, GitOK, OwnOK, Opened, git, Stays, ghost
<1>6. PhaseOK'
  BY <1>1, AtWork DEF PhaseOK, PhaseSet, Stays, ghost
<1> QED BY <1>1, <1>3, <1>4, <1>5, <1>6 DEF GitOK

LEMMA RecordKeeps == ASSUME FInv, Record PROVE FInv'
<1>1. pc = "record" /\ Stays /\ UNCHANGED git
  BY DEF Record
<1>2. CASE Cuts("hub") /\ UNCHANGED ckpt
  BY <1>1, <1>2, EndKeeps, KeptReads, CutsIs DEF FInv
<1>3. CASE /\ ckpt' = Recorded(shipped, known)
           /\ NextKid(todo \ {First(todo)}, refused, shipped)
           /\ UNCHANGED <<resumed, shipped, refused, known, green, left>>
  <2>1. /\ (todo \ {First(todo)}) \in SUBSET Kids /\ shipped \in SUBSET Kids /\ known \in SUBSET Kids
        /\ refused \in BOOLEAN
    BY DEF FInv, TypeOK
  <2>2. First(todo) \in shipped
    BY <1>1 DEF FInv, RunOK, ShipOK
  <2>3. ckpt'.phase = ckpt.phase /\ ckpt'.targets = shipped
    BY <1>3, <2>1, RecordedIs DEF FInv
  <2>4. RunOK' /\ pc' \in {"cut", "giveup", "push", "propen"} /\ todo' \subseteq Kids
    <3>1. refused' = refused /\ shipped' = shipped /\ UNCHANGED <<git, ghost, setup>>
      BY <1>1, <1>3 DEF Stays
    <3> QED BY <1>1, <1>3, <2>1, <2>2, <2>3, <3>1, NextKidRuns DEF Loop
  <2>5. GitOK' /\ ckpt' \in Row
    BY <1>1, <1>3, <2>1, <2>4, RecordsGit
  <2>6. TypeOK'
    BY <1>1, <1>3, <2>4, <2>5 DEF FInv, TypeOK, git, Stays, ghost
  <2> QED BY <2>4, <2>5, <2>6 DEF FInv
<1> QED BY <1>2, <1>3 DEF Record

-----------------------------------------------------------------------------
(* Branches are pushed, PRs opened and recorded.                           *)

LEMMA PushKeeps == ASSUME FInv, Push PROVE FInv'
<1> DEFINE c == First(todo)
<1>1. /\ pc = "push" /\ Stays /\ UNCHANGED <<ckpt, head, loose, cut, branch, base>>
      /\ pushed' = [pushed EXCEPT ![c] = branch[c]]
      /\ \/ pr' = [pr EXCEPT ![c] = "open"] /\ pc' = "recordpr" /\ UNCHANGED <<run, left>>
         \/ Over /\ UNCHANGED pr /\ (UNCHANGED left \/ Cuts("forge"))
  BY DEF Push, Faults, Cuts
<1>2. c \in todo /\ c \in Kids
  BY <1>1, FirstIs DEF FInv, TypeOK, RunOK, ShipOK
<1>3. /\ c \in shipped /\ c \in cut /\ c \in ckpt.targets /\ attempt \notin loose[c]
      /\ ckpt.phase = "verified" /\ attempt # 0
  BY <1>1, <1>2, AtWork DEF FInv, RunOK, ReadsOK, ShipOK, Active, Out
<1> HIDE DEF c
<1>4. /\ pushed' \in [Kids -> SUBSET Work] /\ pushed'[c] = branch[c]
      /\ \A d \in Kids \ {c} : pushed'[d] = pushed[d]
  BY <1>1, <1>2 DEF FInv, TypeOK
<1>5. /\ pr' \in [Kids -> {"none", "open", "merged", "closed"}]
      /\ \A d \in Kids \ {c} : pr'[d] = pr[d]
  BY <1>1, <1>2 DEF FInv, TypeOK
<1>6. AgesOK'
  BY <1>1, <1>4 DEF FInv, GitOK, AgesOK, Stays, ghost
<1>7. HeldOK' /\ FoundOK'
  BY <1>1, <1>3, <1>4, <1>5 DEF FInv, GitOK, HeldOK, FoundOK, Opened, Stays, ghost
<1>8. OwnOK'
  BY <1>1, <1>3, <1>4, <1>5 DEF FInv, GitOK, OwnOK, Opened, Stays, ghost
<1>9. PhaseOK'
  BY <1>1, <1>3 DEF PhaseOK, PhaseSet, Stays, ghost
<1>10. GitOK'
  BY <1>6, <1>7, <1>8, <1>9 DEF GitOK
<1>11. CASE pc' = "recordpr" /\ UNCHANGED <<run, left>>
  <2>1. TypeOK'
    BY <1>1, <1>4, <1>5, <1>11 DEF FInv, TypeOK, run, Stays, ghost
  <2>2. Pending' \subseteq Pending
    BY <1>1, <1>4 DEF Pending, Stays, ghost
  <2>3. RunOK'
    BY <1>1, <1>11, <2>2 DEF FInv, RunOK, ReadsOK, ShipOK, LandOK, run, Active, Loop, Out, Stays, ghost
  <2> QED BY <1>10, <2>1, <2>3 DEF FInv
<1>12. CASE Over /\ (UNCHANGED left \/ Cuts("forge"))
  <2>1. left' \in 0..MaxAccidents
    BY <1>12, CutsIs DEF FInv, TypeOK
  <2>2. TypeOK'
    BY <1>1, <1>4, <1>5, <1>12, <2>1, OverTypes DEF FInv, TypeOK
  <2> QED BY <1>10, <1>12, <2>2, OverRuns DEF FInv
<1> QED BY <1>1, <1>11, <1>12

LEMMA RecordPRKeeps == ASSUME FInv, RecordPR PROVE FInv'
<1> DEFINE c == First(todo)
<1>1. pc = "recordpr" /\ Stays /\ UNCHANGED git
  BY DEF RecordPR
<1>2. CASE Cuts("hub") /\ UNCHANGED ckpt
  BY <1>1, <1>2, EndKeeps, KeptReads, CutsIs DEF FInv
<1>3. CASE /\ ckpt' = Recorded(shipped, known \cup {c})
           /\ known' = known \cup {c} /\ todo' = todo \ {c}
           /\ pc' = IF todo = {c} THEN "propen" ELSE "push"
           /\ UNCHANGED <<resumed, shipped, refused, green, left>>
  <2>1. c \in todo /\ c \in Kids
    BY <1>1, FirstIs DEF FInv, TypeOK, RunOK, ShipOK, Out
  <2> HIDE DEF c
  <2>2. (known \cup {c}) \in SUBSET Kids /\ pc' \in {"push", "propen"}
    BY <1>3, <2>1 DEF FInv, TypeOK
  <2>3. GitOK' /\ ckpt' \in Row /\ ckpt'.phase = "verified" /\ ckpt'.targets = shipped
    <3> DEFINE k == known \cup {c}
    <3>1. k \in SUBSET Kids /\ ckpt' = Recorded(shipped, k)
      BY <1>3, <2>2
    <3> HIDE DEF k
    <3> QED BY <1>1, <2>2, <3>1, RecordsGit
  <2>4. TypeOK'
    BY <1>1, <1>3, <2>2, <2>3 DEF FInv, TypeOK, git, Stays, ghost
  <2>5. Pending' = Pending
    BY <1>1 DEF Pending, git, Stays, ghost
  <2>6. pc' = "push" => todo' # {}
    BY <1>3, <2>1
  <2>7. ShipOK'
    BY <1>1, <1>3, <2>2, <2>3, <2>5, <2>6 DEF FInv, RunOK, ShipOK, Active, Loop, Out, git, Stays, ghost
  <2>8. ReadsOK' /\ LandOK'
    BY <2>2, <2>3 DEF ReadsOK, LandOK, Active, Loop, Out
  <2> QED BY <2>3, <2>4, <2>7, <2>8 DEF FInv, RunOK
<1> QED BY <1>2, <1>3 DEF RecordPR

LEMMA PROpenKeeps == ASSUME FInv, PROpen PROVE FInv'
<1>1. pc = "propen" /\ Stays /\ UNCHANGED git
  BY DEF PROpen
<1>2. CASE Cuts("hub") /\ UNCHANGED ckpt
  BY <1>1, <1>2, EndKeeps, KeptReads, CutsIs DEF FInv
<1>3. CASE /\ ckpt' = [ckpt EXCEPT !.phase = "pr_open"]
           /\ pc' = "ci" /\ UNCHANGED <<run, left>>
  <2>1. Reads("pr_open") /\ "pr_open" \in PhaseSet /\ "pr_open" # None
    BY <1>3, RephasedReads DEF PhaseSet, FInv, None
  <2>2. Pending \subseteq ckpt.targets /\ \A c \in Kids : attempt \notin loose[c]
    BY <1>1 DEF FInv, RunOK, ShipOK, Active, Out
  <2>3. RunOK'
    BY <1>3, <2>1 DEF RunOK, ReadsOK, ShipOK, LandOK, Reads, Active, Loop, Out
  <2>4. /\ resumed' \in BOOLEAN /\ todo' \subseteq Kids /\ shipped' \subseteq Kids /\ refused' \in BOOLEAN
        /\ known' \subseteq Kids /\ green' \subseteq Kids /\ left' \in 0..MaxAccidents
    BY <1>3 DEF FInv, TypeOK, run
  <2> QED BY <1>1, <1>3, <2>1, <2>2, <2>3, <2>4, WorkKeeps
<1> QED BY <1>2, <1>3 DEF PROpen

-----------------------------------------------------------------------------
(* The gate, and what lands.                                               *)

LEMMA Settling == ASSUME FInv, pc \in {"ci", "poll", "merge", "land", "done"}
                  PROVE  /\ ckpt.phase \in {"pr_open", "quarantined"} /\ ckpt.phase # None
                         /\ ckpt.phase \in PhaseSet /\ attempt # 0
BY AtWork DEF FInv, RunOK, ReadsOK, PhaseSet

LEMMA GateKeeps == ASSUME FInv, Gate PROVE FInv'
<1>1. pc = "ci" /\ Stays /\ UNCHANGED git /\ left' \in 0..MaxAccidents
  BY DEF Gate, FInv, TypeOK
<1>2. CASE GivesUp
  BY <1>1, <1>2, EndKeeps, GivesUpIs DEF FInv
<1>3. CASE Over /\ UNCHANGED ckpt
  BY <1>1, <1>3, EndKeeps, KeptReads DEF FInv
<1>4. CASE /\ ckpt.targets # {} /\ (Local => setup.autoMerge)
           /\ pc' = IF Local THEN "land" ELSE "poll"
           /\ todo' = ckpt.targets
           /\ UNCHANGED <<ckpt, resumed, shipped, refused, known, green>>
  <2>1. /\ todo' \subseteq Kids /\ resumed' \in BOOLEAN /\ shipped' \subseteq Kids /\ refused' \in BOOLEAN
        /\ known' \subseteq Kids /\ green' \subseteq Kids
    BY <1>4 DEF FInv, TypeOK, Row
  <2>2. pc' \in {"land", "poll"} /\ (pc' = "land" => Local')
    BY <1>1, <1>4 DEF Local, Stays
  <2>3. RunOK'
    BY <1>1, <1>4, <2>2, Settling DEF RunOK, ReadsOK, ShipOK, LandOK, Active, Loop, Out
  <2> QED BY <1>1, <1>4, <2>1, <2>2, <2>3, WorkKeeps, KeptReads, Settling DEF FInv
<1> QED BY <1>2, <1>3, <1>4 DEF Gate

LEMMA PollKeeps == ASSUME FInv, Poll PROVE FInv'
<1> DEFINE c == First(todo)
<1>1. pc = "poll" /\ Stays /\ UNCHANGED git /\ left' \in 0..MaxAccidents
  BY HappensIs DEF Poll, FInv, TypeOK, Faults
<1>2. CASE GivesUp
  BY <1>1, <1>2, EndKeeps, GivesUpIs DEF FInv
<1>3. CASE Over /\ UNCHANGED ckpt
  BY <1>1, <1>3, EndKeeps, KeptReads DEF FInv
<1>4. CASE /\ c \in ckpt.urls
           /\ green' = green \cup {c}
           /\ \/ /\ ~GateOpens(todo \ {c})
                 /\ todo' = todo \ {c}
                 /\ UNCHANGED <<pc, resumed, shipped, refused, known>>
              \/ /\ GateOpens(todo \ {c}) /\ setup.autoMerge
                 /\ pc' = "merge" /\ todo' = ckpt.targets
                 /\ UNCHANGED <<resumed, shipped, refused, known>>
           /\ UNCHANGED <<ckpt, left>>
  <2>1. c \in todo /\ c \in Kids
    BY <1>1, FirstIs DEF FInv, TypeOK, RunOK, ShipOK
  <2>2. ckpt.targets \subseteq todo \cup green /\ todo \subseteq ckpt.targets
    BY <1>1 DEF FInv, RunOK, LandOK
  <2> HIDE DEF c
  <2>3. /\ todo' \subseteq Kids /\ resumed' \in BOOLEAN /\ shipped' \subseteq Kids /\ refused' \in BOOLEAN
        /\ known' \subseteq Kids /\ green' \subseteq Kids /\ pc' \in {"poll", "merge"}
    BY <1>1, <1>4, <2>1 DEF FInv, TypeOK, Row
  <2>4. /\ todo' # {} /\ todo' \subseteq ckpt'.targets
        /\ pc' = "poll" => ckpt'.targets \subseteq todo' \cup green'
        /\ pc' = "merge" => ckpt'.targets \subseteq green'
    BY <1>1, <1>4, <2>1, <2>2 DEF GateOpens
  <2>5. RunOK'
    BY <1>1, <1>4, <2>3, <2>4, Settling DEF RunOK, ReadsOK, ShipOK, LandOK, Active, Loop, Out
  <2> QED BY <1>1, <1>4, <2>3, <2>5, WorkKeeps, KeptReads, Settling DEF FInv
<1> QED BY <1>2, <1>3, <1>4 DEF Poll, Faults

\* A merge takes the branch's pushed work onto the base, and may drop the branch.
LEMMA MergesGit ==
  ASSUME TypeOK, GitOK, Stays, UNCHANGED <<ckpt, loose>>, NEW c \in Kids, ForgeMerges(c),
         \/ UNCHANGED <<cut, branch>>
         \/ /\ cut' = cut \ {c} /\ branch' = [branch EXCEPT ![c] = {}]
            /\ ckpt.phase \notin {"building", "built"},
         attempt = 0 => pc' = "off"
  PROVE  /\ GitOK' /\ Pending' \subseteq Pending
         /\ base' \in [Kids -> SUBSET Work] /\ pushed' \in [Kids -> SUBSET Work]
         /\ branch' \in [Kids -> SUBSET Work] /\ cut' \subseteq Kids
         /\ pr' \in [Kids -> {"none", "open", "merged", "closed"}]
         /\ \A d \in Kids : Made(d)' => Made(d)
<1>1. /\ base' \in [Kids -> SUBSET Work] /\ base'[c] = base[c] \cup pushed[c]
      /\ \A d \in Kids \ {c} : base'[d] = base[d]
  BY DEF ForgeMerges, TypeOK
<1>2. /\ pushed' \in [Kids -> SUBSET Work] /\ pushed'[c] = {}
      /\ \A d \in Kids \ {c} : pushed'[d] = pushed[d]
  BY DEF ForgeMerges, TypeOK
<1>3. /\ pr' \in [Kids -> {"none", "open", "merged", "closed"}] /\ ~Opened(c)'
      /\ \A d \in Kids \ {c} : pr'[d] = pr[d]
  BY DEF ForgeMerges, TypeOK, Opened
<1>4. /\ branch' \in [Kids -> SUBSET Work] /\ cut' \subseteq cut /\ cut \ {c} \subseteq cut'
      /\ branch'[c] # {} => c \in cut' \/ c \notin cut
      /\ branch'[c] \subseteq branch[c]
      /\ \A d \in Kids \ {c} : branch'[d] = branch[d]
  BY DEF TypeOK
<1>5. AgesOK'
  BY <1>1, <1>2, <1>4 DEF GitOK, AgesOK, Stays, ghost
<1>6. HeldOK'
  BY <1>2, <1>3, <1>4 DEF GitOK, HeldOK, Opened
<1>7. FoundOK'
  BY <1>4 DEF GitOK, FoundOK, Stays, ghost
<1>8. OwnOK'
  <2> SUFFICES ASSUME NEW d \in Kids \ held
               PROVE  /\ attempt \in pushed'[d] => attempt \in branch'[d] \cup base'[d]
                      /\ Opened(d)' /\ attempt \in branch'[d] => attempt \in pushed'[d] \cup base'[d]
                      /\ Opened(d)' \/ d \in ckpt.targets
                           => attempt \notin loose[d] /\ ckpt.phase \notin {"building", "built"}
    BY DEF OwnOK, Stays, ghost
  <2>1. CASE d = c
    BY <2>1, <1>2, <1>3 DEF GitOK, OwnOK
  <2>2. CASE d # c
    BY <2>2, <1>1, <1>2, <1>3, <1>4 DEF GitOK, OwnOK, Opened
  <2> QED BY <2>1, <2>2
<1>9. Pending' \subseteq Pending
  BY <1>1, <1>2, <1>4 DEF Pending, Stays, ghost
<1>10. \A d \in Kids : Made(d)' => Made(d)
  BY <1>1, <1>2, <1>4 DEF Made, Stays, ghost
<1>11. PhaseOK'
  BY <1>9, <1>10 DEF GitOK, PhaseOK, Stays, ghost
<1> QED BY <1>1, <1>2, <1>3, <1>4, <1>5, <1>6, <1>7, <1>8, <1>9, <1>10, <1>11 DEF GitOK, TypeOK

\* One more child has landed.
LEMMA NextMergeRuns ==
  ASSUME FInv, pc \in {"merge", "land"}, NEW c \in todo, NextMerge(c), UNCHANGED <<setup, ckpt>>
  PROVE  RunOK' /\ pc' \in {"merge", "land", "done"} /\ todo' \subseteq Kids
<1>1. /\ todo' = todo \ {c} /\ pc' = (IF todo = {c} THEN "done" ELSE pc)
      /\ UNCHANGED <<resumed, shipped, refused, known, green, left>>
  BY DEF NextMerge
<1>2. pc' \in {"merge", "land", "done"} /\ (pc' = "done" \/ (pc' = pc /\ todo' # {}))
  BY <1>1
<1>3. RunOK'
  BY <1>1, <1>2, Settling DEF FInv, RunOK, ReadsOK, ShipOK, LandOK, Local, Active, Loop, Out
<1> QED BY <1>1, <1>2, <1>3 DEF FInv, TypeOK

LEMMA MergeKeeps == ASSUME FInv, Merge PROVE FInv'
<1> DEFINE c == First(todo)
<1>1. pc = "merge" /\ Stays /\ UNCHANGED <<ckpt, loose>>
  BY DEF Merge
<1>2. c \in todo /\ c \in Kids
  BY <1>1, FirstIs DEF FInv, TypeOK, RunOK, ShipOK
<1> HIDE DEF c
<1>3. CASE Over /\ left' \in 0..MaxAccidents /\ UNCHANGED <<head, cut, branch, pushed, base, pr>>
  BY <1>1, <1>3, EndKeeps, KeptReads DEF FInv, git
<1>4. CASE NextMerge(c) /\ UNCHANGED <<head, cut, branch, pushed, base, pr>>
  <2>1. RunOK' /\ pc' \in {"merge", "land", "done"} /\ todo' \subseteq Kids
    BY <1>1, <1>2, <1>4, NextMergeRuns DEF Stays
  <2>2. UNCHANGED git /\ UNCHANGED <<resumed, shipped, refused, known, green, left>>
    BY <1>1, <1>4 DEF NextMerge, git
  <2>3. TypeOK'
    BY <1>1, <2>1, <2>2 DEF FInv, TypeOK, git, Stays, ghost
  <2>4. GitOK'
    BY <1>1, <2>2, GitStays, KeptReads, Settling DEF FInv
  <2> QED BY <2>1, <2>3, <2>4 DEF FInv
<1>5. CASE /\ Opened(c) /\ ForgeMerges(c) /\ NextMerge(c)
           /\ IF setup.forge = "github"
              THEN /\ cut' = cut \ {c} /\ branch' = [branch EXCEPT ![c] = {}]
                   /\ head' = [head EXCEPT ![c] = IF @ = "branch" THEN "base" ELSE @]
              ELSE UNCHANGED <<cut, branch, head>>
  <2>1. RunOK' /\ pc' \in {"merge", "land", "done"} /\ todo' \subseteq Kids
    BY <1>1, <1>2, <1>5, NextMergeRuns DEF Stays
  <2>2. \/ UNCHANGED <<cut, branch>>
        \/ cut' = cut \ {c} /\ branch' = [branch EXCEPT ![c] = {}]
    BY <1>5
  <2>3. ckpt.phase \notin {"building", "built"} /\ attempt # 0
    BY <1>1, Settling
  <2>4. /\ GitOK' /\ base' \in [Kids -> SUBSET Work] /\ pushed' \in [Kids -> SUBSET Work]
        /\ branch' \in [Kids -> SUBSET Work] /\ cut' \subseteq Kids
        /\ pr' \in [Kids -> {"none", "open", "merged", "closed"}]
    BY <1>1, <1>2, <1>5, <2>2, <2>3, MergesGit DEF FInv
  <2>5. head' \in [Kids -> {"base", "branch", "else"}]
    BY <1>5 DEF FInv, TypeOK
  <2>6. UNCHANGED <<resumed, shipped, refused, known, green, left>>
    BY <1>5 DEF NextMerge
  <2>7. TypeOK'
    BY <1>1, <2>1, <2>4, <2>5, <2>6 DEF FInv, TypeOK, Stays, ghost
  <2> QED BY <2>1, <2>4, <2>7 DEF FInv
<1> QED BY <1>3, <1>4, <1>5, CutsIs DEF Merge, Faults, FInv, TypeOK, c

LEMMA LandKeeps == ASSUME FInv, Land PROVE FInv'
<1> DEFINE c == First(todo)
<1>1. pc = "land" /\ Stays /\ UNCHANGED <<cut, branch, pushed, pr>>
  BY DEF Land
<1>2. c \in todo /\ c \in Kids
  BY <1>1, FirstIs DEF FInv, TypeOK, RunOK, ShipOK
<1> HIDE DEF c
<1>3. CASE Happens("git") /\ GivesUp /\ UNCHANGED <<head, loose, base>>
  <2>1. UNCHANGED git /\ left' \in 0..MaxAccidents
    BY <1>1, <1>3, HappensIs DEF git, FInv
  <2> QED BY <1>1, <1>3, <2>1, EndKeeps, GivesUpIs DEF FInv
<1>4. CASE /\ ~(branch[c] \subseteq base[c])
           /\ base' = [base EXCEPT ![c] = @ \cup branch[c]]
           /\ head' = [head EXCEPT ![c] = "base"]
           /\ NextMerge(c) /\ UNCHANGED <<ckpt, loose>>
  <2>1. RunOK' /\ pc' \in {"merge", "land", "done"} /\ todo' \subseteq Kids
    BY <1>1, <1>2, <1>4, NextMergeRuns DEF Stays
  <2>2. /\ base' \in [Kids -> SUBSET Work] /\ base'[c] = base[c] \cup branch[c]
        /\ \A d \in Kids \ {c} : base'[d] = base[d]
    BY <1>2, <1>4 DEF FInv, TypeOK
  <2>3. ckpt.phase \notin {"building", "built"} /\ attempt # 0
    BY <1>1, Settling
  <2>4. Pending' \subseteq Pending
    BY <1>1, <2>2 DEF Pending, Stays, ghost
  <2>5. AgesOK'
    BY <1>1, <1>4, <2>2 DEF FInv, GitOK, AgesOK, Stays, ghost
  <2>6. HeldOK' /\ FoundOK'
    BY <1>1, <1>4 DEF FInv, GitOK, HeldOK, FoundOK, Opened, Stays, ghost
  <2>7. OwnOK'
    BY <1>1, <1>4, <2>2 DEF FInv, GitOK, OwnOK, Opened, Stays, ghost
  <2>8. PhaseOK'
    BY <1>1, <1>4, <2>3, <2>4 DEF FInv, GitOK, PhaseOK, Stays, ghost
  <2>9. UNCHANGED <<resumed, shipped, refused, known, green, left>>
    BY <1>4 DEF NextMerge
  <2>10. TypeOK'
    BY <1>1, <1>4, <2>1, <2>2, <2>9 DEF FInv, TypeOK, Stays, ghost
  <2> QED BY <2>1, <2>5, <2>6, <2>7, <2>8, <2>10 DEF FInv, GitOK
<1>5. CASE /\ IF branch[c] \subseteq base[c] THEN UNCHANGED left ELSE Happens("git")
           /\ head' = [head EXCEPT ![c] = "base"]
           /\ loose' = [loose EXCEPT ![c] = {}]
           /\ GivesUp /\ UNCHANGED base
  <2>1. Over /\ Reads("quarantined") /\ left' \in 0..MaxAccidents
    BY <1>5, GivesUpIs, HappensIs DEF FInv, TypeOK
  <2>2. loose' \in [Kids -> SUBSET Work] /\ \A d \in Kids : loose'[d] \subseteq loose[d]
    BY <1>5 DEF FInv, TypeOK
  <2>3. attempt # 0
    BY <1>1, Settling
  <2>4. AgesOK' /\ HeldOK' /\ PhaseOK'
    BY <1>1, <1>5, <2>1, <2>2, <2>3
       DEF FInv, GitOK, AgesOK, HeldOK, PhaseOK, PhaseSet, Opened, Stays, ghost, Reads
  <2>5. FoundOK'
    BY <1>1, <1>5, <2>1, Settling DEF FInv, GitOK, FoundOK, Stays, ghost, Reads
  <2>6. OwnOK'
    BY <1>1, <1>5, <2>1, <2>2 DEF FInv, GitOK, OwnOK, Opened, Stays, ghost, Reads
  <2>7. TypeOK'
    BY <1>1, <1>5, <2>1, <2>2, OverTypes DEF FInv, TypeOK, Reads
  <2> QED BY <2>1, <2>4, <2>5, <2>6, <2>7, OverRuns DEF FInv, GitOK
<1> QED BY <1>3, <1>4, <1>5 DEF Land, c

LEMMA DoneKeeps == ASSUME FInv, Done PROVE FInv'
<1>1. pc = "done" /\ Stays /\ UNCHANGED git
  BY DEF Done
<1>2. CASE ckpt' = [ckpt EXCEPT !.phase = "merged"] /\ Faults
  BY <1>1, <1>2, EndKeeps, RephasedReads DEF FInv, TypeOK, Faults, PhaseSet
<1>3. CASE Cuts("hub") /\ UNCHANGED ckpt
  BY <1>1, <1>3, EndKeeps, KeptReads, CutsIs DEF FInv
<1> QED BY <1>2, <1>3 DEF Done

LEMMA GiveUpKeeps == ASSUME FInv, GiveUp PROVE FInv'
BY EndKeeps, GivesUpIs DEF GiveUp, FInv, TypeOK

LEMMA KillKeeps == ASSUME FInv, Kill PROVE FInv'
BY EndKeeps, KeptReads, CutsIs DEF Kill, FInv

-----------------------------------------------------------------------------
(* Undoing, and bystanders.                                                *)

\* Branches that are dropped are the targets'; the row forgets, or stays.
LEMMA DropKeeps ==
  ASSUME FInv, attempt # 0, NEW gone \in SUBSET ckpt.targets, DropBranches(gone), Stays, UNCHANGED base,
         loose' \in [Kids -> SUBSET Work], \A c \in Kids : loose'[c] \subseteq loose[c],
         head' \in [Kids -> {"base", "branch", "else"}],
         ckpt' = Blank \/ UNCHANGED ckpt,
         left' \in 0..MaxAccidents, Over \/ (pc = "off" /\ UNCHANGED <<pc, run>>)
  PROVE  FInv'
<1>1. pushed' \in [Kids -> SUBSET Work] /\ branch' \in [Kids -> SUBSET Work]
  BY DEF DropBranches, With, FInv, TypeOK
<1>2. \A c \in Kids : /\ c \in ckpt.targets => pushed'[c] = {}
                      /\ c \notin ckpt.targets => pushed'[c] = pushed[c]
  BY DEF DropBranches, With
<1>3. \A c \in Kids : /\ c \in gone => branch'[c] = {}
                      /\ c \notin gone => branch'[c] = branch[c]
  BY DEF DropBranches, With
<1>4. pr' \in [Kids -> {"none", "open", "merged", "closed"}]
  BY DEF DropBranches, FInv, TypeOK
<1>5. \A c \in Kids : Opened(c)' => Opened(c) /\ c \notin ckpt.targets
  BY DEF DropBranches, Opened
<1>6. cut' = cut \ gone /\ cut' \subseteq Kids
  BY DEF DropBranches, FInv, TypeOK
<1>7. /\ ckpt' \in Row /\ (ckpt'.phase = None \/ ckpt'.phase = ckpt.phase) /\ ckpt'.targets \subseteq ckpt.targets
      /\ \A c \in Kids : attempt \notin ckpt'.dirt[c]
      /\ ckpt'.phase # None => UNCHANGED ckpt
  BY BlankIs DEF FInv, TypeOK, GitOK, AgesOK
<1>8. AgesOK'
  BY <1>1, <1>2, <1>3, <1>7 DEF FInv, GitOK, AgesOK, Stays, ghost
<1>9. HeldOK'
  BY <1>2, <1>3, <1>5, <1>6 DEF FInv, GitOK, HeldOK
<1>10. FoundOK'
  BY <1>6, <1>7 DEF FInv, GitOK, FoundOK, Stays, ghost
<1>11. OwnOK'
  <2> SUFFICES ASSUME NEW c \in Kids \ held
               PROVE  /\ attempt \in pushed'[c] => attempt \in branch'[c] \cup base[c]
                      /\ Opened(c)' /\ attempt \in branch'[c] => attempt \in pushed'[c] \cup base[c]
                      /\ Opened(c)' \/ c \in ckpt'.targets
                           => attempt \notin loose'[c] /\ ckpt'.phase \notin {"building", "built"}
    BY DEF OwnOK, Stays, ghost
  <2>1. attempt \in pushed'[c] => attempt \in branch'[c] \cup base[c]
    BY <1>2, <1>3 DEF FInv, GitOK, OwnOK
  <2>2. Opened(c)' /\ attempt \in branch'[c] => attempt \in pushed'[c] \cup base[c]
    BY <1>2, <1>3, <1>5 DEF FInv, GitOK, OwnOK
  <2>3. Opened(c)' \/ c \in ckpt'.targets
          => attempt \notin loose'[c] /\ ckpt'.phase \notin {"building", "built"}
    BY <1>5, <1>7 DEF FInv, GitOK, OwnOK, None
  <2> QED BY <2>1, <2>2, <2>3
<1>12. Pending' \subseteq Pending /\ \A c \in Kids : Made(c)' => Made(c)
  BY <1>1, <1>2, <1>3 DEF Pending, Made, Stays, ghost
<1>13. PhaseOK'
  BY <1>7, <1>12 DEF FInv, GitOK, PhaseOK, PhaseSet, Stays, ghost, None
<1>14. GitOK'
  BY <1>8, <1>9, <1>10, <1>11, <1>13 DEF GitOK
<1>15. CASE Over
  <2>1. TypeOK'
    BY <1>1, <1>4, <1>6, <1>7, <1>15, OverTypes DEF FInv, TypeOK
  <2> QED BY <1>14, <1>15, <2>1, OverRuns DEF FInv
<1>16. CASE pc = "off" /\ UNCHANGED <<pc, run>>
  <2>1. TypeOK'
    BY <1>1, <1>4, <1>6, <1>7, <1>16 DEF FInv, TypeOK, run, Stays, ghost
  <2>2. RunOK'
    BY <1>16 DEF FInv, RunOK, ReadsOK, ShipOK, LandOK, run, Active, Loop, Out
  <2> QED BY <1>14, <2>1, <2>2 DEF FInv
<1> QED BY <1>15, <1>16

LEMMA ResetKeeps ==
  ASSUME FInv, attempt # 0, NEW freed, ResetLocal(freed), Stays, left' \in 0..MaxAccidents,
         Over \/ (pc = "off" /\ UNCHANGED <<pc, run>>)
  PROVE  FInv'
<1>1. PICK gone \in SUBSET ckpt.targets : DropBranches(gone)
  BY DEF ResetLocal
<1>2. head' = With(head, Footprint, "base") /\ loose' = With(loose, Footprint, {}) /\ ckpt' = Blank /\ UNCHANGED base
  BY DEF ResetLocal
<1>3. head' \in [Kids -> {"base", "branch", "else"}]
  BY <1>2 DEF With, FInv, TypeOK
<1>4. loose' \in [Kids -> SUBSET Work] /\ \A c \in Kids : loose'[c] \subseteq loose[c]
  BY <1>2 DEF With, FInv, TypeOK
<1> QED BY <1>1, <1>2, <1>3, <1>4, DropKeeps

LEMMA RefusedKeeps == ASSUME FInv, Refused PROVE FInv'
<1>1. pc = "build" /\ ResetLocal(Kids) /\ Stays /\ Over /\ left' \in 0..MaxAccidents
  BY CutsIs DEF Refused, FInv
<1> QED BY <1>1, AtWork, ResetKeeps

LEMMA ResetGestureKeeps == ASSUME FInv, Reset PROVE FInv'
<1>1. pc = "off" /\ ResetLocal(setup.shared) /\ Stays /\ UNCHANGED <<pc, run>> /\ left' \in 0..MaxAccidents
  BY HappensIs DEF Reset, FInv
<1>2. attempt # 0
  BY DEF Reset, FInv, GitOK, PhaseOK
<1> QED BY <1>1, <1>2, ResetKeeps

LEMMA RequeueKeeps == ASSUME FInv, Requeue PROVE FInv'
<1> DEFINE put == ckpt.targets \cap cut \cap setup.shared
<1>1. /\ pc = "off" /\ Stays /\ UNCHANGED <<base, pc, run>> /\ left' \in 0..MaxAccidents
      /\ DropBranches(put) /\ head' = With(head, put, "base") /\ loose' = With(loose, put, {})
      /\ ckpt' = Blank \/ UNCHANGED ckpt
  BY HappensIs DEF Requeue, FInv
<1>2. attempt # 0
  BY DEF Requeue, FInv, GitOK, PhaseOK
<1>3. put \in SUBSET ckpt.targets
  OBVIOUS
<1> HIDE DEF put
<1>4. head' \in [Kids -> {"base", "branch", "else"}]
  BY <1>1 DEF With, FInv, TypeOK
<1>5. loose' \in [Kids -> SUBSET Work] /\ \A c \in Kids : loose'[c] \subseteq loose[c]
  BY <1>1 DEF With, FInv, TypeOK
<1> QED BY <1>1, <1>2, <1>3, <1>4, <1>5, DropKeeps DEF Requeue

\* Somebody else's work comes and goes beside a run.
LEMMA LooseKeeps ==
  ASSUME FInv, UNCHANGED <<ckpt, head, cut, branch, pushed, base, pr, pc, run>>, Stays,
         left' \in 0..MaxAccidents, loose' \in [Kids -> SUBSET Work],
         \A c \in Kids : \A w \in loose'[c] : w \in loose[c] \/ w < attempt
  PROVE  FInv'
<1>1. \A c \in Kids : attempt \in loose'[c] => attempt \in loose[c]
  BY AttemptIs DEF FInv
<1>2. AgesOK'
  <2>1. \A c \in Kids : \A w \in loose'[c] : w <= attempt
    BY AttemptIs DEF FInv, GitOK, AgesOK, TypeOK
  <2> QED BY <2>1 DEF FInv, GitOK, AgesOK, Stays, ghost
<1>3. HeldOK' /\ FoundOK'
  BY DEF FInv, GitOK, HeldOK, FoundOK, Opened, Stays, ghost
<1>4. OwnOK'
  BY <1>1 DEF FInv, GitOK, OwnOK, Opened, Stays, ghost
<1>5. Pending' = Pending /\ \A c \in Kids : Made(c)' = Made(c)
  BY DEF Pending, Made, Stays, ghost
<1>6. PhaseOK'
  BY <1>1, <1>5 DEF FInv, GitOK, PhaseOK, Stays, ghost
<1>7. TypeOK'
  BY DEF FInv, TypeOK, run, Stays, ghost
<1>8. RunOK'
  <2>1. UNCHANGED <<pc, run, ckpt, ghost, cut, setup>> /\ shipped \subseteq Kids
    BY DEF Stays, FInv, TypeOK
  <2> QED BY <1>1, <1>5, <2>1, RunStays DEF FInv
<1> QED BY <1>2, <1>3, <1>4, <1>6, <1>7, <1>8 DEF FInv, GitOK

LEMMA WipKeeps == ASSUME FInv, Wip PROVE FInv'
<1>1. PICK c \in Kids : loose' = [loose EXCEPT ![c] = @ \cup {-left}]
  BY DEF Wip
<1>2. left' \in 0..MaxAccidents /\ -left \in Work /\ -left < attempt
  BY HappensIs, WorkIs DEF Wip, FInv
<1>3. /\ loose' \in [Kids -> SUBSET Work]
      /\ \A d \in Kids : \A w \in loose'[d] : w \in loose[d] \/ w < attempt
  BY <1>1, <1>2 DEF FInv, TypeOK
<1> QED BY <1>2, <1>3, LooseKeeps DEF Wip

LEMMA TidyKeeps == ASSUME FInv, Tidy PROVE FInv'
<1>1. PICK c \in Kids : loose' = [loose EXCEPT ![c] = {w \in @ : w > 0}]
  BY DEF Tidy
<1>2. left' \in 0..MaxAccidents
  BY HappensIs DEF Tidy, FInv
<1>3. loose' \in [Kids -> SUBSET Work] /\ \A d \in Kids : \A w \in loose'[d] : w \in loose[d]
  BY <1>1 DEF FInv, TypeOK
<1> QED BY <1>2, <1>3, LooseKeeps DEF Tidy

\* What happens to a PR, and to HEAD, beside a run.
LEMMA BesideKeeps ==
  ASSUME FInv, Stays, UNCHANGED <<ckpt, loose, cut, branch, pc, run>>, left' \in 0..MaxAccidents,
         head' \in [Kids -> {"base", "branch", "else"}],
         pr' \in [Kids -> {"none", "open", "merged", "closed"}],
         pushed' \in [Kids -> SUBSET Work], base' \in [Kids -> SUBSET Work],
         GitOK', Pending' \subseteq Pending, \A c \in Kids : Made(c)' => Made(c)
  PROVE  FInv'
<1>1. TypeOK'
  BY DEF FInv, TypeOK, run, Stays, ghost
<1>2. RunOK'
  <2>1. UNCHANGED <<pc, run, ckpt, ghost, cut, setup>> /\ shipped \subseteq Kids
    BY DEF Stays, FInv, TypeOK
  <2> QED BY <2>1, RunStays DEF FInv
<1> QED BY <1>1, <1>2 DEF FInv

LEMMA ElsewhereKeeps == ASSUME FInv, Elsewhere PROVE FInv'
<1>1. Stays /\ UNCHANGED <<ckpt, loose, cut, branch, pushed, base, pr, pc, run>> /\ left' \in 0..MaxAccidents
  BY HappensIs DEF Elsewhere, FInv
<1>2. head' \in [Kids -> {"base", "branch", "else"}]
  BY DEF Elsewhere, FInv, TypeOK
<1>3. Pending' = Pending /\ \A c \in Kids : Made(c)' = Made(c)
  BY <1>1 DEF Pending, Made, Stays, ghost
<1>4. GitOK'
  BY <1>1, <1>3 DEF FInv, GitOK, AgesOK, HeldOK, FoundOK, OwnOK, PhaseOK, Opened, Stays, ghost
<1> QED BY <1>1, <1>2, <1>3, <1>4, BesideKeeps DEF FInv, TypeOK

LEMMA HumanMergesKeeps == ASSUME FInv, HumanMerges PROVE FInv'
<1>1. Stays /\ UNCHANGED <<ckpt, head, loose, cut, branch, pc, run>> /\ left' \in 0..MaxAccidents
  BY HappensIs DEF HumanMerges, FInv
<1>2. PICK c \in Kids : ForgeMerges(c)
  BY DEF HumanMerges
<1>3. attempt = 0 => pc' = "off"
  BY <1>1 DEF FInv, GitOK, PhaseOK
<1>4. /\ GitOK' /\ Pending' \subseteq Pending
      /\ base' \in [Kids -> SUBSET Work] /\ pushed' \in [Kids -> SUBSET Work]
      /\ pr' \in [Kids -> {"none", "open", "merged", "closed"}]
      /\ \A d \in Kids : Made(d)' => Made(d)
  BY <1>1, <1>2, <1>3, MergesGit DEF FInv
<1> QED BY <1>1, <1>4, BesideKeeps DEF FInv, TypeOK

LEMMA HumanClosesKeeps == ASSUME FInv, HumanCloses PROVE FInv'
<1>1. /\ Stays /\ UNCHANGED <<ckpt, head, loose, cut, branch, pushed, base, pc, run>>
      /\ left' \in 0..MaxAccidents
  BY HappensIs DEF HumanCloses, FInv
<1>2. /\ pr' \in [Kids -> {"none", "open", "merged", "closed"}]
      /\ \A d \in Kids : Opened(d)' => Opened(d)
  BY DEF HumanCloses, Opened, FInv, TypeOK
<1>3. Pending' = Pending /\ \A c \in Kids : Made(c)' = Made(c)
  BY <1>1 DEF Pending, Made, Stays, ghost
<1>4. AgesOK' /\ FoundOK' /\ PhaseOK'
  BY <1>1, <1>3 DEF FInv, GitOK, AgesOK, FoundOK, PhaseOK, Stays, ghost
<1>5. HeldOK' /\ OwnOK'
  BY <1>1, <1>2 DEF FInv, GitOK, HeldOK, OwnOK, Stays, ghost
<1> QED BY <1>1, <1>2, <1>3, <1>4, <1>5, BesideKeeps DEF FInv, TypeOK, GitOK

-----------------------------------------------------------------------------
(* The invariant holds in every state a run, or anyone, can lead to.       *)

LEMMA InitHolds == Init => FInv
<1> SUFFICES ASSUME Init PROVE FInv
  OBVIOUS
<1>1. /\ ckpt \in Row /\ ckpt.phase = None /\ ckpt.targets = {}
      /\ \A c \in Kids : ckpt.dirt[c] = {}
  BY BlankIs DEF Init
<1>2. Clean \in [Kids -> SUBSET Work] /\ \A c \in Kids : Clean[c] = {}
  BY DEF Clean
<1>3. TypeOK
  <2>1. /\ head \in [Kids -> {"base", "branch", "else"}]
        /\ pr \in [Kids -> {"none", "open", "merged", "closed"}]
    BY DEF Init
  <2>2. attempt \in 0..MaxAttempts /\ left \in 0..MaxAccidents
    BY BoundsAssumption DEF Init
  <2>3. /\ loose \in [Kids -> SUBSET Work] /\ branch \in [Kids -> SUBSET Work]
        /\ pushed \in [Kids -> SUBSET Work] /\ base \in [Kids -> SUBSET Work]
        /\ found \in [Kids -> SUBSET Work]
    BY <1>2 DEF Init
  <2> QED BY <1>1, <2>1, <2>2, <2>3 DEF Init, TypeOK
<1>4. AgesOK /\ HeldOK
  BY <1>1, <1>2 DEF Init, AgesOK, HeldOK, Opened
<1>5. FoundOK
  BY <1>2 DEF Init, FoundOK
<1>6. OwnOK
  BY <1>1, <1>2 DEF Init, OwnOK, Opened
<1>7. PhaseOK
  BY <1>1, <1>2 DEF Init, PhaseOK, PhaseSet, None
<1>8. RunOK
  BY DEF Init, RunOK, ReadsOK, ShipOK, LandOK, Active, Loop, Out
<1> QED BY <1>3, <1>4, <1>5, <1>6, <1>7, <1>8 DEF FInv, GitOK

LEMMA StutterKeeps == ASSUME FInv, UNCHANGED vars PROVE FInv'
<1>1. UNCHANGED <<setup, ckpt, git, ghost, pc, run, left>>
  BY DEF vars, git, ghost, run
<1>2. TypeOK'
  BY <1>1 DEF FInv, TypeOK, git, ghost, run
<1>3. Pending' = Pending /\ \A c \in Kids : Made(c)' = Made(c)
  BY <1>1 DEF Pending, Made, git, ghost
<1>4. GitOK'
  BY <1>1, <1>3 DEF FInv, GitOK, AgesOK, HeldOK, FoundOK, OwnOK, PhaseOK, Opened, git, ghost
<1>5. RunOK'
  BY <1>1, <1>3, RunStays DEF FInv, TypeOK, git
<1> QED BY <1>2, <1>4, <1>5 DEF FInv

LEMMA NextKeeps == FInv /\ [Next]_vars => FInv'
<1> SUFFICES ASSUME FInv, [Next]_vars PROVE FInv'
  OBVIOUS
<1>1. CASE Begin \/ Resume
  BY <1>1, BeginKeeps, ResumeKeeps
<1>2. CASE Build \/ Refused \/ Built \/ Verify
  BY <1>2, BuildKeeps, RefusedKeeps, BuiltKeeps, VerifyKeeps
<1>3. CASE Ship \/ Cut \/ Commit \/ Refuse \/ Record \/ Push \/ RecordPR \/ PROpen
  BY <1>3, ShipKeeps, CutKeeps, CommitKeeps, RefuseKeeps, RecordKeeps, PushKeeps, RecordPRKeeps, PROpenKeeps
<1>4. CASE Gate \/ Poll \/ Merge \/ Land \/ Done \/ GiveUp
  BY <1>4, GateKeeps, PollKeeps, MergeKeeps, LandKeeps, DoneKeeps, GiveUpKeeps
<1>5. CASE Rerun \/ RunOnce \/ Reset \/ Requeue \/ Kill
  BY <1>5, RerunKeeps, RunOnceKeeps, ResetGestureKeeps, RequeueKeeps, KillKeeps
<1>6. CASE Wip \/ Tidy \/ Elsewhere \/ HumanMerges \/ HumanCloses
  BY <1>6, WipKeeps, TidyKeeps, ElsewhereKeeps, HumanMergesKeeps, HumanClosesKeeps
<1>7. CASE UNCHANGED vars
  BY <1>7, StutterKeeps
<1> QED BY <1>1, <1>2, <1>3, <1>4, <1>5, <1>6, <1>7 DEF Next, RunStep, Hands

LEMMA FolderSound == Spec => []FInv
BY InitHolds, NextKeeps, PTL DEF Spec

\* Every variable of a folder's run keeps the values its code gives it.
THEOREM FolderTyped == Spec => []TypeOK
<1>1. FInv => TypeOK
  BY DEF FInv
<1> QED BY <1>1, FolderSound, PTL

\* The work the census found in a child that held no trace of the ticket is never
\* committed to the ticket's branch, resumed or not (folder.go, changedChildren and
\* assertChildrenInBounds).
THEOREM FoundWorkIsLeft == Spec => []FoundWorkStays
<1>1. FInv => FoundWorkStays
  BY DEF FInv, GitOK, FoundOK, HeldOK, FoundWorkStays
<1> QED BY <1>1, FolderSound, PTL

\* What a run in flight lands in one child it lands only when what the attempt has
\* still to land is all recorded and, with a forge, green, and nothing of it lies
\* uncommitted (folder.go, folderCIAndMerge).
THEOREM FolderLandsWhole == Spec => LandsWhole
<1>1. FInv => (InFlight(ckpt.phase) /\ pc \in {"merge", "land"}
                 => /\ Pending \subseteq (IF Local THEN ckpt.targets ELSE green)
                    /\ \A d \in Kids : attempt \notin loose[d])
  <2> SUFFICES ASSUME FInv, InFlight(ckpt.phase), pc \in {"merge", "land"}
               PROVE  /\ Pending \subseteq (IF Local THEN ckpt.targets ELSE green)
                      /\ \A d \in Kids : attempt \notin loose[d]
    OBVIOUS
  <2>1. ckpt.phase = "pr_open"
    BY Settling, InFlightIs
  <2>2. Pending \subseteq ckpt.targets /\ \A d \in Kids : attempt \notin loose[d]
    BY <2>1 DEF FInv, GitOK, PhaseOK
  <2>3. ckpt.targets \subseteq green \/ Local
    BY DEF FInv, RunOK, LandOK
  <2> QED BY <2>2, <2>3
<1>2. FInv /\ [Next]_vars
        => [\A c \in Kids : InFlight(ckpt.phase) /\ attempt \in base'[c] \ base[c] /\ pc \in {"merge", "land"}
              => Pending \subseteq (IF Local THEN ckpt.targets ELSE green)
                 /\ \A d \in Kids : attempt \notin loose[d]]_vars
  BY <1>1
<1> QED BY <1>2, FolderSound, PTL DEF Spec, LandsWhole

-----------------------------------------------------------------------------
(* An attempt's work is not lost.                                          *)

\* A step that changes the children at most by adding to what they hold.
LEMMA MoreStands ==
  ASSUME Stays, \A c \in Kids \ held :
           attempt \in loose[c] \cup branch[c] \cup pushed[c] \cup base[c]
             => attempt \in loose'[c] \cup branch'[c] \cup pushed'[c] \cup base'[c]
  PROVE  Share \ held \subseteq Share'
BY DEF Share, Stays, ghost

LEMMA SameStands == ASSUME UNCHANGED git, Stays PROVE Share \ held \subseteq Share'
BY DEF Share, git, Stays, ghost

LEMMA FreshEnds == ASSUME FInv, Fresh PROVE attempt' # attempt
BY AttemptIs DEF Fresh, FInv

LEMMA EditsStand ==
  ASSUME FInv, NEW S, Edits(S), Stays, UNCHANGED <<branch, pushed, base>>
  PROVE  Share \ held \subseteq Share'
<1>1. \A c \in Kids : loose[c] \subseteq loose'[c]
  BY DEF Edits
<1> QED BY <1>1, MoreStands

LEMMA CommitStands == ASSUME FInv, Cut \/ Commit PROVE Share \ held \subseteq Share'
<1> DEFINE k == First(todo)
<1>1. k \in Kids
  BY FirstIs DEF Cut, Commit, FInv, TypeOK, RunOK, ShipOK, Loop
<1>2. CASE Cut
  <2>1. UNCHANGED loose
    BY <1>1, <1>2 DEF Cut, Carried, FInv, TypeOK
  <2> QED BY <1>2, <2>1, MoreStands DEF Cut
<1>3. CASE Commit
  <2>1. /\ branch' = [branch EXCEPT ![k] = @ \cup loose[k]] /\ loose' = [loose EXCEPT ![k] = {}]
        /\ UNCHANGED <<pushed, base>> /\ Stays
    BY <1>3 DEF Commit
  <2> HIDE DEF k
  <2>2. \A c \in Kids : loose[c] \cup branch[c] \subseteq loose'[c] \cup branch'[c]
    BY <1>1, <2>1 DEF FInv, TypeOK
  <2> QED BY <2>1, <2>2, MoreStands
<1> QED BY <1>2, <1>3

LEMMA PushStands == ASSUME FInv, Push PROVE Share \ held \subseteq Share'
<1> DEFINE k == First(todo)
<1>1. k \in Kids /\ pushed' = [pushed EXCEPT ![k] = branch[k]] /\ UNCHANGED <<loose, branch, base>> /\ Stays
  BY FirstIs DEF Push, FInv, TypeOK, RunOK, ShipOK
<1> HIDE DEF k
<1>2. \A c \in Kids \ held :
        attempt \in loose[c] \cup branch[c] \cup pushed[c] \cup base[c]
          => attempt \in loose'[c] \cup branch'[c] \cup pushed'[c] \cup base'[c]
  BY <1>1 DEF FInv, TypeOK, GitOK, OwnOK
<1> QED BY <1>1, <1>2, MoreStands

LEMMA ForgeStands ==
  ASSUME FInv, NEW k \in Kids, Opened(k), ForgeMerges(k), Stays, UNCHANGED loose,
         UNCHANGED branch \/ branch' = [branch EXCEPT ![k] = {}]
  PROVE  Share \ held \subseteq Share'
<1>1. /\ base' = [base EXCEPT ![k] = @ \cup pushed[k]] /\ pushed' = [pushed EXCEPT ![k] = {}]
  BY DEF ForgeMerges
<1>2. /\ base'[k] = base[k] \cup pushed[k]
      /\ \A c \in Kids \ {k} : base'[c] = base[c] /\ pushed'[c] = pushed[c] /\ branch'[c] = branch[c]
      /\ branch'[k] = branch[k] \/ branch'[k] = {}
  BY <1>1 DEF FInv, TypeOK
<1>3. \A c \in Kids \ held :
        attempt \in loose[c] \cup branch[c] \cup pushed[c] \cup base[c]
          => attempt \in loose'[c] \cup branch'[c] \cup pushed'[c] \cup base'[c]
  BY <1>2 DEF FInv, GitOK, OwnOK
<1> QED BY <1>3, MoreStands

LEMMA MergeStands == ASSUME FInv, Merge PROVE Share \ held \subseteq Share'
<1> DEFINE k == First(todo)
<1>1. k \in Kids /\ Stays /\ UNCHANGED loose
  BY FirstIs DEF Merge, FInv, TypeOK, RunOK, ShipOK
<1>2. \/ /\ Opened(k) /\ ForgeMerges(k)
         /\ UNCHANGED branch \/ branch' = [branch EXCEPT ![k] = {}]
      \/ UNCHANGED <<branch, pushed, base>>
  BY DEF Merge
<1> HIDE DEF k
<1> QED BY <1>1, <1>2, ForgeStands, MoreStands

LEMMA LandStands == ASSUME FInv, Land PROVE Share \ held \subseteq Share'
<1> DEFINE k == First(todo)
<1>1. k \in todo /\ k \in Kids /\ Stays /\ UNCHANGED <<branch, pushed>>
  BY FirstIs DEF Land, FInv, TypeOK, RunOK, ShipOK
<1>2. k \in ckpt.targets
  BY <1>1 DEF Land, FInv, RunOK, LandOK
<1>3. \/ base' = [base EXCEPT ![k] = @ \cup branch[k]] /\ UNCHANGED loose
      \/ loose' = [loose EXCEPT ![k] = {}] /\ UNCHANGED base
      \/ UNCHANGED <<loose, base>>
  BY DEF Land
<1> HIDE DEF k
<1>4. /\ \A c \in Kids : base[c] \subseteq base'[c]
      /\ \A c \in Kids \ {k} : loose'[c] = loose[c]
      /\ loose'[k] = loose[k] \/ loose'[k] = {}
  BY <1>1, <1>3 DEF FInv, TypeOK
<1>5. \A c \in Kids \ held :
        attempt \in loose[c] \cup branch[c] \cup pushed[c] \cup base[c]
          => attempt \in loose'[c] \cup branch'[c] \cup pushed'[c] \cup base'[c]
  BY <1>1, <1>2, <1>4 DEF FInv, GitOK, OwnOK
<1> QED BY <1>1, <1>5, MoreStands

LEMMA RefusedStands == ASSUME FInv, Refused PROVE Share \ held \subseteq Share'
<1>1. \A c \in Kids : ~Made(c)
  BY DEF Refused, FInv, GitOK, PhaseOK, RunOK, ReadsOK
<1>2. \A c \in Kids : attempt \notin loose[c]
  BY DEF Refused, Changed, FInv, GitOK, AgesOK
<1> QED BY <1>1, <1>2 DEF Share, Made

LEMMA BystandersStand ==
  ASSUME FInv, Wip \/ Tidy \/ Elsewhere \/ HumanMerges \/ HumanCloses
  PROVE  Share \ held \subseteq Share'
<1>1. CASE Wip
  <2>1. \A c \in Kids : loose[c] \subseteq loose'[c]
    BY <1>1 DEF Wip, FInv, TypeOK
  <2> QED BY <1>1, <2>1, MoreStands DEF Wip
<1>2. CASE Tidy
  <2>1. PICK k \in Kids : loose' = [loose EXCEPT ![k] = {w \in @ : w > 0}]
    BY <1>2 DEF Tidy
  <2>2. \A c \in Kids : \A w \in loose[c] : w > 0 => w \in loose'[c]
    BY <2>1 DEF FInv, TypeOK
  <2>3. \A c \in Kids : attempt \in loose[c] => attempt > 0
    BY AttemptIs DEF FInv, TypeOK
  <2> QED BY <1>2, <2>2, <2>3, MoreStands DEF Tidy
<1>3. CASE Elsewhere
  BY <1>3, MoreStands DEF Elsewhere
<1>4. CASE HumanMerges
  <2>1. PICK k \in Kids : Opened(k) /\ ForgeMerges(k)
    BY <1>4 DEF HumanMerges
  <2> QED BY <1>4, <2>1, ForgeStands DEF HumanMerges
<1>5. CASE HumanCloses
  BY <1>5, MoreStands DEF HumanCloses
<1> QED BY <1>1, <1>2, <1>3, <1>4, <1>5

\* What the attempt made in a child that held no trace of an earlier one stays in its
\* tree, its branch, the remote's copy of that or its base, whatever happens to the run,
\* short of a reset or a requeue (folder.go, commitChild, openChildPR, landFolderLocally).
THEOREM FolderKeepsWork == Spec => OwnWorkStands
<1>1. FInv /\ [Next]_vars
        => [Share \ held \subseteq Share' \/ attempt' # attempt \/ Reset \/ Requeue]_vars
  <2> SUFFICES ASSUME FInv, Next
               PROVE  Share \ held \subseteq Share' \/ attempt' # attempt \/ Reset \/ Requeue
    OBVIOUS
  <2>1. CASE Begin \/ Rerun
    BY <2>1, FreshEnds DEF Begin, Rerun
  <2>2. CASE Resume \/ RunOnce \/ Built \/ Ship \/ Refuse
    BY <2>2, SameStands DEF Resume, RunOnce, TakesUp, Built, Ship, Refuse
  <2>3. CASE Record \/ RecordPR \/ PROpen
    BY <2>3, SameStands DEF Record, RecordPR, PROpen
  <2>4. CASE Gate \/ Poll \/ Done \/ GiveUp \/ Kill
    BY <2>4, SameStands DEF Gate, Poll, Done, GiveUp, Kill
  <2>5. CASE Build
    BY <2>5, EditsStand DEF Build
  <2>6. CASE Verify
    BY <2>6, EditsStand, MoreStands DEF Verify
  <2>7. CASE Cut \/ Commit \/ Push \/ Merge \/ Land \/ Refused
    BY <2>7, CommitStands, PushStands, MergeStands, LandStands, RefusedStands
  <2>8. CASE Wip \/ Tidy \/ Elsewhere \/ HumanMerges \/ HumanCloses
    BY <2>8, BystandersStand
  <2> QED BY <2>1, <2>2, <2>3, <2>4, <2>5, <2>6, <2>7, <2>8 DEF Next, RunStep, Hands
<1> QED BY <1>1, FolderSound, PTL DEF Spec, OwnWorkStands
=============================================================================
