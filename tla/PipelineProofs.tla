--------------------------- MODULE PipelineProofs ---------------------------
(***************************************************************************)
(* A ticket's runs, for any builds, PRs, repairs and gestures: the values  *)
(* stay in their ranges; whatever a run lands was passed; nothing but an   *)
(* operator who starts over, or a refused build, drops unlanded work; and  *)
(* the pipeline implements Delivery.  The last three rest on one inductive *)
(* invariant: what the row, and the run's copy of it, may read of branch,  *)
(* base, PRs and verdicts (RowFits), what the world itself keeps           *)
(* (WorldOK), and what each step of a run has read (PreambleOK, WorkOK,    *)
(* EndOK).  They hold under Steady, which leaves out the gestures and      *)
(* setups whose runs go wrong: the README tells how.                       *)
(***************************************************************************)
EXTENDS Pipeline, FiniteSetTheorems, WellFoundedInduction, TLAPS

Status == {"open", "merged", "closed"}

\* The types, with what they need to stay: a row records a PR that was opened, and a CI
\* repair starts only while one is left.
Typed ==
  /\ TypeOK
  /\ ckpt.pr <= LastPR /\ mem.pr <= LastPR
  /\ pc = "cirepair" => tries < MaxRepairs

-----------------------------------------------------------------------------
(* Lemmas on what the actions are built from.                              *)

LEMMA GreatestOfBounded ==
  ASSUME NEW S, S \subseteq Nat, S # {}, NEW b \in Nat, \A x \in S : x <= b
  PROVE  \E x \in S : \A y \in S : y <= x
<1> DEFINE Above == {n \in Nat : \A x \in S : x <= n}
<1> DEFINE Below == {0..n : n \in Above}
<1>1. PICK B \in Below : \A C \in Below : ~(<<C, B>> \in StrictSubsetOrdering(Nat))
  <2>1. Below \subseteq FiniteSubsetsOf(Nat)
    <3> SUFFICES ASSUME NEW n \in Above PROVE 0..n \in FiniteSubsetsOf(Nat)
      OBVIOUS
    <3>1. n \in Int /\ 0 \in Int /\ 0..n \subseteq Nat
      OBVIOUS
    <3>2. IsFiniteSet(0..n)
      BY <3>1, FS_Interval
    <3> QED BY <3>1, <3>2 DEF FiniteSubsetsOf
  <2>2. Below # {}
    OBVIOUS
  <2> HIDE DEF Below
  <2> QED BY <2>1, <2>2, FS_StrictSubsetOrderingWellFounded, WFMin
<1>2. PICK m \in Above : B = 0..m
  OBVIOUS
<1>3. \A n \in Above : ~(n < m)
  <2> SUFFICES ASSUME NEW n \in Above, n < m PROVE FALSE
    OBVIOUS
  <2>1. 0..n \subseteq 0..m /\ 0..n # 0..m /\ 0..n \subseteq Nat /\ 0..m \subseteq Nat
    OBVIOUS
  <2>2. <<0..n, B>> \in StrictSubsetOrdering(Nat)
    BY <2>1, <1>2 DEF StrictSubsetOrdering
  <2> QED BY <2>2, <1>1
<1>4. m \in S
  <2> SUFFICES ASSUME m \notin S PROVE FALSE
    OBVIOUS
  <2>1. \A x \in S : x < m
    OBVIOUS
  <2>2. PICK x \in S : TRUE
    OBVIOUS
  <2>3. m - 1 \in Above /\ m - 1 < m
    BY <2>1, <2>2
  <2> QED BY <2>3, <1>3
<1> QED BY <1>4

\* A PR the forge names as merged is one of the branch's that merged.
LEMMA MergedIs ==
  ASSUME prs \in Seq(Status)
  PROVE  MergedPR \in 0..Len(prs) /\ (MergedPR # 0 => prs[MergedPR] = "merged")
<1> DEFINE merged == {i \in DOMAIN prs : prs[i] = "merged"}
<1>1. merged \subseteq Nat /\ Len(prs) \in Nat /\ \A x \in merged : x <= Len(prs)
  OBVIOUS
<1>2. CASE merged = {}
  BY <1>1, <1>2 DEF MergedPR
<1>3. CASE merged # {}
  <2> DEFINE last == CHOOSE i \in merged : \A j \in merged : j <= i
  <2>1. last \in merged
    <3>1. \E i \in merged : \A j \in merged : j <= i
      <4> HIDE DEF merged
      <4> QED BY <1>1, <1>3, GreatestOfBounded
    <3> HIDE DEF merged
    <3> QED BY <3>1
  <2>2. MergedPR = 0 \/ MergedPR = last
    BY DEF MergedPR
  <2> HIDE DEF last
  <2>3. last \in DOMAIN prs /\ prs[last] = "merged"
    BY <2>1
  <2> QED BY <1>1, <2>2, <2>3
<1> QED BY <1>2, <1>3

LEMMA CloseIs ==
  ASSUME prs \in Seq(Status)
  PROVE  /\ CloseOpen \in Seq(Status) /\ Len(CloseOpen) = Len(prs)
         /\ \A i \in DOMAIN prs : CloseOpen[i] = IF prs[i] = "open" THEN "closed" ELSE prs[i]
<1>1. DOMAIN prs = 1..Len(prs) /\ Len(prs) \in Nat
  OBVIOUS
<1> QED BY <1>1 DEF CloseOpen, Status

LEMMA RowTyped ==
  ASSUME NEW r \in Row, NEW ph \in Phase, NEW p \in 0..MaxPRs, NEW b \in BOOLEAN,
         NEW m \in FailureMark, NEW d \in BOOLEAN
  PROVE  /\ [r EXCEPT !.phase = ph] \in Row /\ [r EXCEPT !.mark = m] \in Row
         /\ [r EXCEPT !.pr = p] \in Row /\ [r EXCEPT !.done = d] \in Row
         /\ [r EXCEPT !.branch = b] \in Row /\ [r EXCEPT !.branch = b, !.pr = p] \in Row
         /\ [r EXCEPT !.branch = b, !.phase = ph, !.pr = p] \in Row
<1>1. [r EXCEPT !.phase = ph] \in Row /\ [r EXCEPT !.mark = m] \in Row /\ [r EXCEPT !.pr = p] \in Row
  BY DEF Row
<1>2. [r EXCEPT !.done = d] \in Row /\ [r EXCEPT !.branch = b] \in Row
  BY DEF Row
<1>3. [r EXCEPT !.branch = b, !.pr = p] \in Row
  BY DEF Row
<1>4. [r EXCEPT !.branch = b, !.phase = ph, !.pr = p] \in Row
  BY DEF Row
<1> QED BY <1>1, <1>2, <1>3, <1>4

LEMMA BlankTyped == Blank \in Row
BY BoundAssumption DEF Row, Blank, None, Phase, FailureMark

\* A durable write of a row: its phase, PR, branch and stamp.
Writes(ph, p, b, d) ==
  \E r \in Row : Put(r) /\ r.phase = ph /\ r.pr = p /\ r.branch = b /\ r.done = d

LEMMA LastTyped == Typed => LastPR \in 0..MaxPRs /\ LastPR \in Nat
BY DEF Typed, TypeOK, LastPR

LEMMA BlankPR == Blank.pr = 0
BY DEF Blank

LEMMA PhaseIs ==
  Phase = {None, "building", "built", "handed_off", "verified", "pr_open", "releasing", "merged",
  "quarantined"}
BY DEF Phase, Rank

LEMMA CachedTyped == Typed => Cached \in Row /\ Cached.pr <= LastPR
<1>1. Cached \in {ckpt, mem, Blank}
  BY DEF Cached
<1> QED BY <1>1, BlankTyped, BlankPR, LastTyped DEF Typed, TypeOK

LEMMA WritesPhase ==
  ASSUME Typed, NEW ph \in Phase, PutPhase(ph)
  PROVE  Writes(ph, Cached.pr, Cached.branch, Cached.done)
<1>1. Cached \in Row /\ [Cached EXCEPT !.phase = ph] \in Row
  BY CachedTyped, RowTyped DEF Row
<1> QED BY <1>1 DEF Writes, PutPhase, Row

LEMMA WritesMark ==
  ASSUME Typed, NEW m \in FailureMark, PutMark(m)
  PROVE  Writes(Cached.phase, Cached.pr, Cached.branch, Cached.done)
<1>1. Cached \in Row /\ [Cached EXCEPT !.mark = m] \in Row
  BY CachedTyped, RowTyped DEF Row
<1> QED BY <1>1 DEF Writes, PutMark, Row

LEMMA WritesPR ==
  ASSUME Typed, NEW p \in 0..MaxPRs, Put([Cached EXCEPT !.pr = p])
  PROVE  Writes(Cached.phase, p, Cached.branch, Cached.done)
<1>1. Cached \in Row /\ [Cached EXCEPT !.pr = p] \in Row
  BY CachedTyped, RowTyped DEF Row
<1> QED BY <1>1 DEF Writes, Row

LEMMA WritesBranch ==
  ASSUME Typed, Put([Cached EXCEPT !.branch = TRUE])
  PROVE  Writes(Cached.phase, Cached.pr, TRUE, Cached.done)
<1>1. Cached \in Row /\ [Cached EXCEPT !.branch = TRUE] \in Row
  BY CachedTyped, RowTyped DEF Row
<1> QED BY <1>1 DEF Writes, Row

LEMMA WritesDone ==
  ASSUME Typed, Put([Cached EXCEPT !.done = TRUE])
  PROVE  Writes(Cached.phase, Cached.pr, Cached.branch, TRUE)
<1>1. Cached \in Row /\ [Cached EXCEPT !.done = TRUE] \in Row
  BY CachedTyped, RowTyped DEF Row
<1> QED BY <1>1 DEF Writes, Row

LEMMA WritesShipped ==
  ASSUME Typed, NEW p \in 0..MaxPRs, Put([Cached EXCEPT !.branch = TRUE, !.pr = p])
  PROVE  Writes(Cached.phase, p, TRUE, Cached.done)
<1>1. Cached \in Row /\ [Cached EXCEPT !.branch = TRUE, !.pr = p] \in Row
  BY CachedTyped, RowTyped DEF Row
<1> QED BY <1>1 DEF Writes, Row

LEMMA WritesInferred ==
  ASSUME Typed, NEW ph \in Phase, NEW p \in 0..MaxPRs, Put([Cached EXCEPT !.branch = TRUE,
         !.phase = ph, !.pr = p])
  PROVE  Writes(ph, p, TRUE, Cached.done)
<1>1. Cached \in Row /\ [Cached EXCEPT !.branch = TRUE, !.phase = ph, !.pr = p] \in Row
  BY CachedTyped, RowTyped DEF Row
<1> QED BY <1>1 DEF Writes, Row

RowsTyped == ckpt' \in Row /\ mem' \in Row /\ hydrated' \in BOOLEAN /\ ckpt'.pr <= LastPR
/\ mem'.pr <= LastPR

LEMMA WritesTyped ==
  ASSUME Typed, NEW ph, NEW p, NEW b, NEW d, Writes(ph, p, b, d), p <= LastPR
  PROVE  RowsTyped
BY DEF Writes, Put, RowsTyped, Typed, TypeOK

LEMMA ReadTyped ==
  ASSUME Typed, Read
  PROVE  RowsTyped
BY CachedTyped DEF Typed, TypeOK, Read, RowsTyped

LEMMA KeptTyped ==
  ASSUME Typed, UNCHANGED <<ckpt, mem, hydrated>>
  PROVE  RowsTyped
BY DEF Typed, TypeOK, RowsTyped

LEMMA RemoveTyped ==
  ASSUME Typed, Remove
  PROVE  RowsTyped
<1>1. ckpt \in Row /\ ckpt.pr <= LastPR
  BY DEF Typed, TypeOK
<1>2. Blank.pr <= LastPR
  BY BlankPR, LastTyped
<1> QED BY <1>1, <1>2, BlankTyped DEF Remove, RowsTyped

LEMMA FreshTyped ==
  ASSUME Typed, Fresh, UNCHANGED ckpt
  PROVE  RowsTyped
<1>1. ckpt \in Row /\ ckpt.pr <= LastPR
  BY DEF Typed, TypeOK
<1>2. Blank.pr <= LastPR
  BY BlankPR, LastTyped
<1> QED BY <1>1, <1>2, BlankTyped DEF Fresh, RowsTyped

LEMMA DroppedTyped ==
  ASSUME Typed, ckpt' = Blank, UNCHANGED <<mem, hydrated>>
  PROVE  RowsTyped
<1>1. mem \in Row /\ mem.pr <= LastPR /\ hydrated \in BOOLEAN
  BY DEF Typed, TypeOK
<1>2. Blank.pr <= LastPR
  BY BlankPR, LastTyped
<1> QED BY <1>1, <1>2, BlankTyped DEF RowsTyped

\* The types of what is not a row.
RestTyped ==
  /\ setup \in Setups /\ hub \in BOOLEAN
  /\ tracker \in {"open", "started", "review", "done", "quarantined"}
  /\ local \in Build /\ pushed \in Build /\ gen \in Build
  /\ base \subseteq Build /\ passed \subseteq Build
  /\ brief \in BOOLEAN /\ verdict \in BOOLEAN /\ parked \in BOOLEAN
  /\ pc \in Steps /\ from \in Phase
  /\ tries \in 0..MaxRepairs /\ fixes \in 0..(MaxBugfixes + 1) /\ stopped \in BOOLEAN
  /\ left \in 0..MaxGestures
  /\ pc = "cirepair" => tries < MaxRepairs

LEMMA MergedTyped ==
  Typed => MergedPR \in 0..MaxPRs /\ MergedPR <= LastPR /\ (MergedPR # 0 => prs[MergedPR] = "merged")
<1> SUFFICES ASSUME Typed
             PROVE  /\ MergedPR \in 0..MaxPRs /\ MergedPR <= LastPR
                    /\ MergedPR # 0 => prs[MergedPR] = "merged"
  OBVIOUS
<1>1. prs \in Seq(Status) /\ LastPR = Len(prs)
  BY DEF Typed, TypeOK, Status, LastPR
<1> QED BY <1>1, MergedIs, LastTyped, BoundAssumption

LEMMA FailsTyped ==
  ASSUME Typed, AgentFails \/ Fails \/ GivesUp
  PROVE  RestTyped' /\ Read /\ UNCHANGED prs
<1>1. pc' \in Steps /\ pc' # "cirepair"
  BY DEF AgentFails, Fails, GivesUp, Unexpected, Steps
<1>2. UNCHANGED <<setup, hub, tracker, local, pushed, base, gen, passed, brief, verdict, parked, from,
      tries, fixes, stopped, left, prs>> /\ Read
  BY DEF AgentFails, Fails, GivesUp, world, git, files, run
<1>3. RestTyped
  BY DEF Typed, TypeOK, RestTyped
<1> QED BY <1>1, <1>2, <1>3 DEF RestTyped

LEMMA ResetTyped ==
  ASSUME Typed, ResetLocal
  PROVE  /\ local' \in Build /\ pushed' \in Build /\ brief' \in BOOLEAN /\ verdict' \in BOOLEAN
            /\ parked' \in BOOLEAN /\ UNCHANGED base /\ RowsTyped
<1>1. local' \in {0, local} /\ pushed' \in {0, pushed}
  BY DEF ResetLocal
<1>3. local' \in Build /\ pushed' \in Build
  BY <1>1, BoundAssumption DEF Typed, TypeOK, Build
<1>2. brief' \in BOOLEAN /\ verdict' \in BOOLEAN /\ parked' \in BOOLEAN /\ UNCHANGED base /\ Remove
  BY DEF ResetLocal
<1> QED BY <1>2, <1>3, RemoveTyped

LEMMA LandsTyped ==
  ASSUME Typed, NEW pr, Lands(pr)
  PROVE  /\ local' \in Build /\ pushed' \in Build /\ base' \subseteq Build /\ parked' \in BOOLEAN
<1>1. local' \in {0, local} /\ pushed' = 0 /\ base' = base \cup {pushed} /\ parked' = FALSE
  BY DEF Lands
<1>2. {0, local, pushed} \subseteq Build /\ base \subseteq Build
  BY BoundAssumption DEF Typed, TypeOK, Build
<1> QED BY <1>1, <1>2

LEMMA AttemptTyped ==
  ASSUME Typed, RestTyped, NEW pass \in {"browser", "pause", "verified"}, NEW fail \in {"failed",
         "pause", "verified"}, Attempt(pass, fail)
  PROVE  RestTyped' /\ Read /\ UNCHANGED prs
<1>1. PICK ok \in Verdicts : verdict' = ok
      /\ passed' = (IF ok THEN passed \cup {local} ELSE passed \ {local})
      /\ pc' = IF ok THEN pass ELSE fail
  BY DEF Attempt
<1>2. Verdicts \subseteq BOOLEAN
  BY DEF Verdicts, MergeVerdicts, PanelPasses
<1>3. pc' \in Steps /\ pc' # "cirepair"
  BY <1>1 DEF Steps
<1>4. passed' \subseteq Build /\ verdict' \in BOOLEAN
  BY <1>1, <1>2 DEF RestTyped
<1>5. UNCHANGED <<setup, hub, tracker, local, pushed, base, gen, brief, parked, from, tries, fixes,
      stopped, left, prs>> /\ Read
  BY DEF Attempt, git, run
<1> QED BY <1>3, <1>4, <1>5 DEF RestTyped

LEMMA RowsStay == Typed /\ Next => RowsTyped
<1> SUFFICES ASSUME Typed, Next PROVE RowsTyped
  OBVIOUS
<1>1. CASE Begin
  BY <1>1, KeptTyped DEF Begin
<1>2. CASE Infer
  <2>1. CASE Read
    BY <2>1, ReadTyped
  <2>2. CASE Put([Cached EXCEPT !.branch = TRUE, !.pr = MergedPR])
    BY <2>2, MergedTyped, WritesShipped, WritesTyped
  <2>3. CASE Put([Cached EXCEPT !.branch = TRUE, !.phase = InferredPhase,
                                !.pr = IF InferredPhase = "pr_open" THEN LastPR ELSE @])
    <3> DEFINE p == IF InferredPhase = "pr_open" THEN LastPR ELSE Cached.pr
    <3>1. InferredPhase \in Phase
      BY PhaseIs DEF InferredPhase
    <3>2. p \in 0..MaxPRs /\ p <= LastPR
      BY CachedTyped, LastTyped DEF Row
    <3>3. Put([Cached EXCEPT !.branch = TRUE, !.phase = InferredPhase, !.pr = p])
      BY <2>3
    <3> HIDE DEF p
    <3> QED BY <3>1, <3>2, <3>3, WritesInferred, WritesTyped
  <2> QED BY <1>2, <2>1, <2>2, <2>3 DEF Infer
<1>3. CASE Resume
  <2>1. CASE Put([Cached EXCEPT !.pr = MergedPR])
    BY <2>1, MergedTyped, WritesPR, WritesTyped
  <2> QED BY <1>3, <2>1, ReadTyped, RemoveTyped DEF Resume, ResetLocal
<1>4. CASE ClearFailureMarks
  BY <1>4, ReadTyped, CachedTyped, WritesMark, WritesTyped DEF ClearFailureMarks, FailureMark
<1>5. CASE RestoreBranch
  BY <1>5, ReadTyped, RemoveTyped DEF RestoreBranch, ResetLocal
<1>6. CASE StartBuild
  BY <1>6, CachedTyped, WritesPhase, WritesTyped DEF StartBuild, Phase, Rank
<1>7. CASE CutBranch
  BY <1>7, ReadTyped, CachedTyped, WritesBranch, WritesTyped DEF CutBranch, AgentFails, Fails, GivesUp
<1>8. CASE BuildAgent
  BY <1>8, ReadTyped, RemoveTyped DEF BuildAgent, AgentFails, Fails, GivesUp, ResetLocal
<1>9. CASE Built
  BY <1>9, CachedTyped, WritesPhase, WritesTyped DEF Built, Phase, Rank
<1>10. CASE Handoff
  BY <1>10, ReadTyped DEF Handoff, AgentFails, Fails, GivesUp
<1>11. CASE HandedOff
  BY <1>11, CachedTyped, WritesPhase, WritesTyped DEF HandedOff, Phase, Rank
<1>12. CASE CleanUp
  BY <1>12, ReadTyped DEF CleanUp, AgentFails, Fails, GivesUp
<1>13. CASE Brief
  BY <1>13, ReadTyped DEF Brief, AgentFails, Fails, GivesUp
<1>14. CASE Verify
  BY <1>14, ReadTyped DEF Verify, AgentFails, Fails, GivesUp, VerifyEnds, Attempt
<1>15. CASE Repair
  BY <1>15, ReadTyped DEF Repair, AgentFails, Fails, GivesUp
<1>16. CASE VerifyGivesUp
  BY <1>16, ReadTyped DEF VerifyGivesUp, AgentFails, Fails, GivesUp
<1>17. CASE BrowserGate
  BY <1>17, ReadTyped DEF BrowserGate, AgentFails, Fails, GivesUp, VerifyEnds, Attempt
<1>18. CASE Verified
  BY <1>18, CachedTyped, WritesPhase, WritesTyped DEF Verified, Phase, Rank
<1>19. CASE Commit
  BY <1>19, ReadTyped DEF Commit, AgentFails, Fails, GivesUp
<1>20. CASE Push
  BY <1>20, ReadTyped DEF Push, AgentFails, Fails, GivesUp
<1>21. CASE OpenPR
  BY <1>21, ReadTyped DEF OpenPR, AgentFails, Fails, GivesUp
<1>22. CASE RecordPR
  BY <1>22, CachedTyped, WritesPR, LastTyped, WritesTyped DEF RecordPR
<1>23. CASE PROpen
  BY <1>23, CachedTyped, WritesPhase, WritesTyped DEF PROpen, Phase, Rank
<1>24. CASE InReview
  BY <1>24, ReadTyped DEF InReview
<1>25. CASE FindPR
  <2>1. PICK pr \in {Cached.pr, 0, MergedPR, LastPR} : Read \/ Put([Cached EXCEPT !.pr = pr])
    BY <1>25 DEF FindPR
  <2>2. Cached.pr \in 0..MaxPRs
    BY CachedTyped DEF Row
  <2>3. pr \in 0..MaxPRs /\ pr <= LastPR
    BY <2>2, CachedTyped, MergedTyped, LastTyped, BoundAssumption
  <2> QED BY <2>1, <2>3, ReadTyped, WritesPR, WritesTyped
<1>26. CASE CIGate
  BY <1>26, ReadTyped DEF CIGate
<1>27. CASE CIRepair
  BY <1>27, ReadTyped DEF CIRepair, AgentFails, Fails, GivesUp
<1>28. CASE Merge
  BY <1>28, ReadTyped DEF Merge, AgentFails, Fails, GivesUp
<1>29. CASE Unmergeable
  BY <1>29, ReadTyped DEF Unmergeable, AgentFails, Fails, GivesUp
<1>30. CASE AwaitManualMerge
  BY <1>30, ReadTyped DEF AwaitManualMerge, AgentFails, Fails, GivesUp
<1>31. CASE LandLocally
  BY <1>31, ReadTyped DEF LandLocally, AgentFails, Fails, GivesUp
<1>32. CASE MarkDone
  BY <1>32, ReadTyped DEF MarkDone
<1>33. CASE StampDone
  BY <1>33, CachedTyped, WritesDone, WritesTyped DEF StampDone
<1>34. CASE Settle
  BY <1>34, CachedTyped, WritesPhase, WritesTyped DEF Settle, Phase, Rank
<1>35. CASE GiveUp
  BY <1>35, ReadTyped DEF GiveUp, Preserve
<1>36. CASE Quarantine
  BY <1>36, CachedTyped, WritesPhase, WritesTyped DEF Quarantine, Phase, Rank
<1>37. CASE Label
  BY <1>37, ReadTyped DEF Label
<1>38. CASE Fault
  BY <1>38, ReadTyped DEF Fault, Preserve
<1>39. CASE Stop
  BY <1>39, ReadTyped DEF Stop, Preserve
<1>40. CASE Mark
  BY <1>40, CachedTyped, WritesMark, WritesTyped DEF Mark, FailureMark
<1>41. CASE End
  BY <1>41, FreshTyped DEF End
<1>42. CASE HubBack
  BY <1>42, KeptTyped DEF HubBack
<1>43. CASE Kill
  BY <1>43, FreshTyped DEF Kill
<1>44. CASE Cancel
  BY <1>44, KeptTyped DEF Cancel
<1>45. CASE HubLost
  BY <1>45, KeptTyped DEF HubLost
<1>46. CASE HumanMerges
  BY <1>46, KeptTyped DEF HumanMerges
<1>47. CASE HumanCloses
  BY <1>47, KeptTyped DEF HumanCloses
<1>48. CASE TrackerEdited
  BY <1>48, KeptTyped DEF TrackerEdited
<1>49. CASE ClearRow
  BY <1>49, DroppedTyped DEF ClearRow, DropRow
<1>50. CASE Reset
  BY <1>50, RemoveTyped DEF Reset, ResetLocal
<1>51. CASE Requeue
  BY <1>51, KeptTyped, RemoveTyped DEF Requeue, ResetLocal
<1>52. CASE Reconcile
  BY <1>52, DroppedTyped DEF Reconcile, DropRow
<1>53. CASE Advance
  <2>1. UNCHANGED <<mem, hydrated>> /\ ckpt' = [ckpt EXCEPT !.phase = AdvancedPhase(ckpt.phase)]
    BY <1>53 DEF Advance
  <2>2. AdvancedPhase(ckpt.phase) \in Phase
    BY PhaseIs DEF AdvancedPhase
  <2>3. ckpt \in Row /\ mem \in Row /\ hydrated \in BOOLEAN /\ ckpt.pr <= LastPR /\ mem.pr <= LastPR
    BY DEF Typed, TypeOK
  <2>4. ckpt' \in Row /\ ckpt'.pr = ckpt.pr
    BY <2>1, <2>2, <2>3 DEF Row
  <2> QED BY <2>1, <2>3, <2>4 DEF RowsTyped
<1>54. CASE Rerun
  BY <1>54, KeptTyped DEF Rerun
<1> QED
  BY <1>1, <1>2, <1>3, <1>4, <1>5, <1>6, <1>7, <1>8, <1>9, <1>10, <1>11, <1>12, <1>13, <1>14, <1>15,
     <1>16, <1>17, <1>18, <1>19, <1>20, <1>21, <1>22, <1>23, <1>24, <1>25, <1>26, <1>27, <1>28, <1>29,
     <1>30, <1>31, <1>32, <1>33, <1>34, <1>35, <1>36, <1>37, <1>38, <1>39, <1>40, <1>41, <1>42, <1>43,
     <1>44, <1>45, <1>46, <1>47, <1>48, <1>49, <1>50, <1>51, <1>52, <1>53, <1>54
  DEF Next, RunStep, Phases, Endings, Hands

LEMMA RestStays == Typed /\ Next => RestTyped'
<1> SUFFICES ASSUME Typed, RestTyped, Next PROVE RestTyped'
  BY DEF Typed, TypeOK, RestTyped
<1>1. CASE Begin
  <2>1. from' \in Phase
    BY <1>1 DEF Begin, Typed, TypeOK, Row, Phase, None
  <2>2. pc' \in Steps /\ pc' # "cirepair"
    BY <1>1 DEF Begin, Steps
  <2>3. UNCHANGED <<setup, hub, tracker, local, pushed, base, gen, passed, brief, verdict, parked,
        tries, fixes, stopped, left>>
    BY <1>1 DEF Begin, world, git, files
  <2> QED BY <2>1, <2>2, <2>3 DEF RestTyped
<1>2. CASE Infer
  BY <1>2, PhaseIs
  DEF Infer, InferredPhase, LastIs, world, git, files, RestTyped, Steps
<1>3. CASE Resume
  <2>1. ResetLocal \/ UNCHANGED <<git, files, from>>
    BY <1>3 DEF Resume
  <2>2. local' \in Build /\ pushed' \in Build /\ brief' \in BOOLEAN /\ verdict' \in BOOLEAN
        /\ parked' \in BOOLEAN /\ UNCHANGED base
    BY <2>1, ResetTyped DEF git, files, RestTyped
  <2>3. from' \in Phase
    BY <1>3 DEF Resume, RestTyped, Phase
  <2>4. pc' \in {"end", "marks", "done"} /\ pc' \in Steps
    BY <1>3 DEF Resume, Steps
  <2>5. UNCHANGED <<setup, hub, tracker, gen, passed, tries, fixes, stopped, left>>
    BY <1>3 DEF Resume
  <2> QED BY <2>2, <2>3, <2>4, <2>5 DEF RestTyped
<1>4. CASE ClearFailureMarks
  <2>1. pc' \in {"branch", "pause"} /\ pc' \in Steps
    BY <1>4 DEF ClearFailureMarks, Steps
  <2>2. UNCHANGED <<setup, hub, tracker, local, pushed, base, gen, passed, brief, verdict, parked,
        from, tries, fixes, stopped, left>>
    BY <1>4 DEF ClearFailureMarks, world, git, files, run
  <2> QED BY <2>1, <2>2 DEF RestTyped
<1>5. CASE RestoreBranch
  <2>1. ResetLocal \/ (parked' \in BOOLEAN /\ UNCHANGED <<git, brief, verdict>>)
    BY <1>5 DEF RestoreBranch, RestTyped
  <2>2. local' \in Build /\ pushed' \in Build /\ brief' \in BOOLEAN /\ verdict' \in BOOLEAN
        /\ parked' \in BOOLEAN /\ UNCHANGED base
    BY <2>1, ResetTyped DEF git, RestTyped
  <2>3. tracker' \in {"open", "started", "review", "done", "quarantined"}
    BY <1>5 DEF RestoreBranch, RestTyped
  <2>4. pc' \in {"build", "handoff", "clean", "commit", "ci", "end"} /\ pc' \in Steps
    BY <1>5 DEF RestoreBranch, FirstPhase, Steps
  <2>5. UNCHANGED <<setup, hub, gen, passed, from, tries, fixes, stopped, left>>
    BY <1>5 DEF RestoreBranch, run
  <2> QED BY <2>2, <2>3, <2>4, <2>5 DEF RestTyped
<1>6. CASE StartBuild
  BY <1>6
  DEF StartBuild, OrPause, git, run, RestTyped, Steps
<1>7. CASE CutBranch
  BY <1>7, FailsTyped
  DEF CutBranch, Unexpected, OrPause, run, RestTyped, Steps
<1>8. CASE BuildAgent
  <2>1. CASE AgentFails \/ Fails
    BY <2>1, FailsTyped
  <2>2. CASE /\ gen < MaxBuilds /\ gen' = gen + 1 /\ local' = gen + 1 /\ pc' = "built"
             /\ UNCHANGED <<setup, hub, tracker, pushed, base, prs, passed, files, run, left>>
    <3>1. gen' \in Build /\ local' \in Build
      BY <2>2, BoundAssumption DEF RestTyped, Build
    <3>2. UNCHANGED <<setup, hub, tracker, pushed, base, passed, brief, verdict, parked, from, tries,
          fixes, stopped, left>> /\ pc' \in Steps /\ pc' = "built"
      BY <2>2 DEF files, run, Steps
    <3> QED BY <3>1, <3>2 DEF RestTyped
  <2>3. CASE /\ ResetLocal /\ tracker' = "open" /\ pc' = "end"
             /\ UNCHANGED <<setup, hub, gen, passed, run, left>>
    <3>1. UNCHANGED <<setup, hub, gen, passed, from, tries, fixes, stopped, left>> /\ pc' \in Steps
          /\ pc' = "end" /\ tracker' = "open"
      BY <2>3 DEF run, Steps
    <3> QED BY <2>3, <3>1, ResetTyped DEF RestTyped
  <2> QED BY <1>8, <2>1, <2>2, <2>3 DEF BuildAgent
<1>9. CASE Built
  BY <1>9
  DEF Built, OrPause, world, git, files, run, RestTyped, Steps
<1>10. CASE Handoff
  <2>1. CASE AgentFails
    BY <2>1, FailsTyped
  <2>2. CASE ~AgentFails
    <3>1. brief' \in BOOLEAN
      BY <1>10, <2>2 DEF Handoff, RestTyped
    <3>2. UNCHANGED <<setup, hub, tracker, local, pushed, base, gen, passed, verdict, parked, from,
          tries, fixes, stopped, left>> /\ pc' \in Steps /\ pc' = "handed"
      BY <1>10, <2>2 DEF Handoff, git, run, Steps
    <3> QED BY <3>1, <3>2 DEF RestTyped
  <2> QED BY <2>1, <2>2
<1>11. CASE HandedOff
  BY <1>11
  DEF HandedOff, OrPause, world, git, files, run, RestTyped, Steps
<1>12. CASE CleanUp
  BY <1>12, FailsTyped
  DEF CleanUp, Unexpected, world, git, files, run, RestTyped, Steps
<1>13. CASE Brief
  <2>1. CASE AgentFails
    BY <2>1, FailsTyped
  <2>2. CASE ~AgentFails
    <3>1. brief' \in BOOLEAN /\ passed' \subseteq Build
      BY <1>13, <2>2 DEF Brief, RestTyped, files, Build
    <3>4. tries' \in {0, tries} /\ fixes' \in {0, fixes}
      BY <1>13, <2>2 DEF Brief, run
    <3>2. tries' \in 0..MaxRepairs /\ fixes' \in 0..(MaxBugfixes + 1)
      BY <3>4, CountAssumption DEF RestTyped
    <3>3. UNCHANGED <<setup, hub, tracker, local, pushed, base, gen, verdict, parked, from, stopped,
          left>> /\ pc' \in Steps /\ pc' # "cirepair"
      BY <1>13, <2>2 DEF Brief, git, run, files, Steps
    <3> QED BY <3>1, <3>2, <3>3 DEF RestTyped
  <2> QED BY <2>1, <2>2
<1>14. CASE Verify
  BY <1>14, AttemptTyped, FailsTyped DEF Verify, VerifyEnds
<1>15. CASE Repair
  BY <1>15, FailsTyped, CountAssumption
  DEF Repair, Unexpected, world, git, files, RestTyped, Steps
<1>16. CASE VerifyGivesUp
  BY <1>16, FailsTyped
  DEF VerifyGivesUp, Unexpected, RestTyped, Steps
<1>17. CASE BrowserGate
  <2>1. CASE pc' = "verified" /\ UNCHANGED <<world, run, left>>
    BY <2>1 DEF RestTyped, world, git, files, run, Steps
  <2> QED BY <1>17, <2>1, AttemptTyped, FailsTyped DEF BrowserGate, VerifyEnds
<1>18. CASE Verified
  BY <1>18, CountAssumption
  DEF Verified, OrPause, world, git, files, RestTyped, Steps
<1>19. CASE Commit
  BY <1>19, FailsTyped
  DEF Commit, Unexpected, world, git, files, run, RestTyped, Steps
<1>20. CASE Push
  BY <1>20, FailsTyped, CountAssumption
  DEF Push, Unexpected, world, git, files, run, RestTyped, Steps
<1>21. CASE OpenPR
  BY <1>21, FailsTyped
  DEF OpenPR, Unexpected, LastIs, files, run, RestTyped, Steps
<1>22. CASE RecordPR
  BY <1>22
  DEF RecordPR, OrPause, world, git, files, run, RestTyped, Steps
<1>23. CASE PROpen
  BY <1>23
  DEF PROpen, OrPause, world, git, files, run, RestTyped, Steps
<1>24. CASE InReview
  BY <1>24
  DEF InReview, Tell, git, files, run, RestTyped, Steps
<1>25. CASE FindPR
  BY <1>25
  DEF FindPR, LastIs, world, git, files, run, RestTyped, Steps
<1>26. CASE CIGate
  <2>1. pc' \in {"merge", "wait", "cirepair", "giveup"} /\ pc' \in Steps
    BY <1>26 DEF CIGate, Steps
  <2>2. pc' = "cirepair" => tries < MaxRepairs
    BY <1>26 DEF CIGate, CIRepairable
  <2>3. UNCHANGED <<setup, hub, tracker, local, pushed, base, gen, passed, brief, verdict, parked,
        from, tries, fixes, stopped, left>>
    BY <1>26 DEF CIGate, world, git, files, run
  <2> QED BY <2>1, <2>2, <2>3 DEF RestTyped
<1>27. CASE CIRepair
  <2>1. CASE AgentFails
    BY <2>1, FailsTyped
  <2>2. CASE ~AgentFails
    <3>1. local' \in Build
      BY <1>27, <2>2 DEF CIRepair, RestTyped
    <3>2. pushed' \in Build
      BY <1>27, <2>2, <3>1 DEF CIRepair, RestTyped
    <3>3. tries' \in 0..MaxRepairs
      BY <1>27, <2>2, CountAssumption DEF CIRepair, RestTyped
    <3>4. UNCHANGED <<setup, hub, tracker, base, gen, passed, brief, verdict, parked, from, fixes,
          stopped, left>> /\ pc' \in Steps /\ pc' # "cirepair"
      BY <1>27, <2>2 DEF CIRepair, files, Steps
    <3> QED BY <3>1, <3>2, <3>3, <3>4 DEF RestTyped
  <2> QED BY <2>1, <2>2
<1>28. CASE Merge
  <2>1. CASE Fails \/ GivesUp
    BY <2>1, FailsTyped
  <2>2. CASE ~(Fails \/ GivesUp)
    <3>1. Lands(Cached.pr) \/ UNCHANGED <<git, files>>
      BY <1>28, <2>2 DEF Merge, world
    <3>2. local' \in Build /\ pushed' \in Build /\ base' \subseteq Build /\ parked' \in BOOLEAN
      BY <3>1, LandsTyped DEF git, files, RestTyped
    <3>3. UNCHANGED <<setup, hub, tracker, gen, passed, brief, verdict, from, tries, fixes, stopped,
          left>> /\ pc' \in Steps /\ pc' # "cirepair"
      BY <1>28, <2>2 DEF Merge, world, files, run, Steps
    <3> QED BY <3>2, <3>3 DEF RestTyped
  <2> QED BY <2>1, <2>2
<1>29. CASE Unmergeable
  BY <1>29, FailsTyped, CountAssumption
  DEF Unmergeable, Unexpected, files, RestTyped, Steps
<1>30. CASE AwaitManualMerge
  BY <1>30, FailsTyped
  DEF AwaitManualMerge, Unexpected, world, git, files, run, RestTyped, Steps
<1>31. CASE LandLocally
  <2>1. base' \subseteq Build
    BY <1>31 DEF LandLocally, Fails, RestTyped, world, git
  <2>2. parked' \in BOOLEAN
    BY <1>31 DEF LandLocally, Fails, RestTyped, world, files
  <2>3. pc' \in Steps /\ pc' # "cirepair"
    BY <1>31 DEF LandLocally, Fails, Unexpected, Steps
  <2>4. UNCHANGED <<setup, hub, tracker, local, pushed, gen, passed, brief, verdict, from, tries,
        fixes, stopped, left>>
    BY <1>31 DEF LandLocally, Fails, world, git, files, run
  <2> QED BY <2>1, <2>2, <2>3, <2>4 DEF RestTyped
<1>32. CASE MarkDone
  BY <1>32
  DEF MarkDone, git, files, run, RestTyped, Steps
<1>33. CASE StampDone
  BY <1>33
  DEF StampDone, world, git, files, run, RestTyped, Steps
<1>34. CASE Settle
  BY <1>34
  DEF Settle, OrPause, world, git, files, run, RestTyped, Steps
<1>35. CASE GiveUp
  <2>1. pushed' \in Build
    BY <1>35 DEF GiveUp, Preserve, RestTyped, world, git
  <2>2. parked' \in BOOLEAN
    BY <1>35 DEF GiveUp, Preserve, RestTyped, world, files
  <2>3. pc' \in {"end", "quarantine"} /\ pc' \in Steps
    BY <1>35 DEF GiveUp, Steps
  <2>4. UNCHANGED <<setup, hub, tracker, local, base, gen, passed, brief, verdict, from, tries, fixes,
        stopped, left>>
    BY <1>35 DEF GiveUp, Preserve, world, git, files, run
  <2> QED BY <2>1, <2>2, <2>3, <2>4 DEF RestTyped
<1>36. CASE Quarantine
  BY <1>36
  DEF Quarantine, OrPause, world, git, files, run, RestTyped, Steps
<1>37. CASE Label
  BY <1>37
  DEF Label, Tell, git, files, run, RestTyped, Steps
<1>38. CASE Fault
  BY <1>38
  DEF Fault, Preserve, world, git, files, run, RestTyped, Steps
<1>39. CASE Stop
  BY <1>39
  DEF Stop, Preserve, world, git, files, run, RestTyped, Steps
<1>40. CASE Mark
  BY <1>40
  DEF Mark, world, git, files, run, RestTyped, Steps
<1>41. CASE End
  <2>1. pc' = "off" /\ pc' \in Steps /\ tries' \in 0..MaxRepairs /\ fixes' \in 0..(MaxBugfixes + 1)
    BY <1>41, CountAssumption DEF End, Fresh, Steps
  <2>2. from' \in Phase /\ stopped' \in BOOLEAN /\ parked' \in BOOLEAN
    BY <1>41 DEF End, Fresh, Phase
  <2>3. UNCHANGED <<setup, hub, tracker, local, pushed, base, gen, passed, brief, verdict, left>>
    BY <1>41 DEF End, git
  <2> QED BY <2>1, <2>2, <2>3 DEF RestTyped
<1>42. CASE HubBack
  BY <1>42
  DEF HubBack, git, files, run, RestTyped, Steps
<1>43. CASE Kill
  <2>1. left' \in 0..MaxGestures
    BY <1>43, CountAssumption DEF Kill, Gesture, RestTyped
  <2>2. brief' \in BOOLEAN /\ verdict' \in BOOLEAN
    BY <1>43 DEF Kill, RestTyped
  <2>3. pc' = "off" /\ pc' \in Steps /\ tries' \in 0..MaxRepairs /\ fixes' \in 0..(MaxBugfixes + 1)
    BY <1>43, CountAssumption DEF Kill, Fresh, Steps
  <2>4. from' \in Phase /\ stopped' \in BOOLEAN
    BY <1>43 DEF Kill, Fresh, Phase
  <2>5. UNCHANGED <<setup, hub, tracker, local, pushed, base, gen, passed, parked>>
    BY <1>43 DEF Kill, git
  <2> QED BY <2>1, <2>2, <2>3, <2>4, <2>5 DEF RestTyped
<1>44. CASE Cancel
  BY <1>44, CountAssumption
  DEF Cancel, Gesture, world, git, files, RestTyped, Steps
<1>45. CASE HubLost
  <2>1. left' \in 0..MaxGestures
    BY <1>45, CountAssumption DEF HubLost, Gesture, RestTyped
  <2>2. hub' \in BOOLEAN
    BY <1>45 DEF HubLost
  <2>3. UNCHANGED <<setup, tracker, local, pushed, base, gen, passed, brief, verdict, parked, pc, from,
        tries, fixes, stopped>>
    BY <1>45 DEF HubLost, git, files, run
  <2> QED BY <2>1, <2>2, <2>3 DEF RestTyped
<1>46. CASE HumanMerges
  BY <1>46, CountAssumption
  DEF HumanMerges, Gesture, LastIs, files, run, RestTyped, Steps
<1>47. CASE HumanCloses
  BY <1>47, CountAssumption
  DEF HumanCloses, Gesture, LastIs, files, run, RestTyped, Steps
<1>48. CASE TrackerEdited
  BY <1>48, CountAssumption
  DEF TrackerEdited, Gesture, git, files, run, RestTyped, Steps
<1>49. CASE ClearRow
  BY <1>49, CountAssumption
  DEF ClearRow, DropRow, Restart, Gesture, world, git, files, run, RestTyped, Steps
<1>50. CASE Reset
  <2>2. local' \in Build /\ pushed' \in Build /\ brief' \in BOOLEAN /\ verdict' \in BOOLEAN
        /\ parked' \in BOOLEAN /\ UNCHANGED base
    BY <1>50, ResetTyped DEF Reset
  <2>3. left' \in 0..MaxGestures
    BY <1>50, CountAssumption DEF Reset, Restart, Gesture, RestTyped
  <2>4. tracker' \in {"open", "started", "review", "done", "quarantined"}
    BY <1>50 DEF Reset
  <2>5. UNCHANGED <<setup, hub, gen, passed, pc, from, tries, fixes, stopped>>
    BY <1>50 DEF Reset, run
  <2> QED BY <2>2, <2>3, <2>4, <2>5 DEF RestTyped
<1>51. CASE Requeue
  <2>1. ResetLocal \/ UNCHANGED <<git, files>>
    BY <1>51 DEF Requeue
  <2>2. local' \in Build /\ pushed' \in Build /\ brief' \in BOOLEAN /\ verdict' \in BOOLEAN
        /\ parked' \in BOOLEAN /\ UNCHANGED base
    BY <2>1, ResetTyped DEF git, files, RestTyped
  <2>3. left' \in 0..MaxGestures
    BY <1>51, CountAssumption DEF Requeue, Restart, Gesture, RestTyped
  <2>4. tracker' \in {"open", "started", "review", "done", "quarantined"}
    BY <1>51 DEF Requeue, Tell, RestTyped
  <2>5. UNCHANGED <<setup, hub, gen, passed, pc, from, tries, fixes, stopped>>
    BY <1>51 DEF Requeue, run
  <2> QED BY <2>2, <2>3, <2>4, <2>5 DEF RestTyped
<1>52. CASE Reconcile
  BY <1>52, CountAssumption
  DEF Reconcile, DropRow, Restart, Gesture, world, git, files, run, RestTyped, Steps
<1>53. CASE Advance
  BY <1>53, CountAssumption
  DEF Advance, Gesture, AdvancedPhase, Idx, git, run, RestTyped, Steps, Build
<1>54. CASE Rerun
  BY <1>54, PhaseIs, CountAssumption
  DEF Rerun, Restart, Gesture, world, git, files, RestTyped, Steps
<1> QED
  BY <1>1, <1>2, <1>3, <1>4, <1>5, <1>6, <1>7, <1>8, <1>9, <1>10, <1>11, <1>12, <1>13, <1>14, <1>15,
     <1>16, <1>17, <1>18, <1>19, <1>20, <1>21, <1>22, <1>23, <1>24, <1>25, <1>26, <1>27, <1>28, <1>29,
     <1>30, <1>31, <1>32, <1>33, <1>34, <1>35, <1>36, <1>37, <1>38, <1>39, <1>40, <1>41, <1>42, <1>43,
     <1>44, <1>45, <1>46, <1>47, <1>48, <1>49, <1>50, <1>51, <1>52, <1>53, <1>54
  DEF Next, RunStep, Phases, Endings, Hands

PRsTyped == prs' \in Seq(Status) /\ Len(prs') <= MaxPRs /\ Len(prs) <= Len(prs')

LEMMA ResetPRs == ASSUME Typed, ResetLocal PROVE PRsTyped
<1>1. prs \in Seq(Status) /\ Len(prs) \in Nat /\ Len(prs) <= MaxPRs
  BY DEF Typed, TypeOK, Status
<1>2. CloseOpen \in Seq(Status) /\ Len(CloseOpen) = Len(prs)
  BY <1>1, CloseIs
<1>3. prs' = prs \/ prs' = CloseOpen
  BY DEF ResetLocal
<1> QED BY <1>1, <1>2, <1>3 DEF PRsTyped

LEMMA RewrittenPRs ==
  ASSUME prs \in Seq(Status), NEW i, NEW st \in Status
  PROVE  [prs EXCEPT ![i] = st] \in Seq(Status) /\ Len([prs EXCEPT ![i] = st]) = Len(prs)
<1> DEFINE new == [j \in 1..Len(prs) |-> IF j = i THEN st ELSE prs[j]]
<1>1. DOMAIN prs = 1..Len(prs) /\ Len(prs) \in Nat
  OBVIOUS
<1>2. [prs EXCEPT ![i] = st] = new
  BY <1>1
<1>3. new \in Seq(Status) /\ Len(new) = Len(prs)
  BY <1>1
<1> QED BY <1>2, <1>3

LEMMA PRsStay == Typed /\ Next => PRsTyped
<1> SUFFICES ASSUME Typed, Next PROVE PRsTyped
  OBVIOUS
<1>1. prs \in Seq(Status) /\ Len(prs) \in Nat /\ Len(prs) <= MaxPRs
  BY DEF Typed, TypeOK, Status
<1>2. UNCHANGED prs => PRsTyped
  BY <1>1 DEF PRsTyped
<1>3. \A i, st : st \in Status /\ prs' = [prs EXCEPT ![i] = st] => PRsTyped
  BY <1>1, RewrittenPRs DEF PRsTyped
<1>4. CASE Begin
  BY <1>4, <1>2 DEF Begin, world, git
<1>5. CASE Infer
  BY <1>5, <1>2 DEF Infer, world, git
<1>6. CASE Resume
  BY <1>6, ResetPRs, <1>2 DEF Resume, world, git
<1>7. CASE ClearFailureMarks
  BY <1>7, <1>2 DEF ClearFailureMarks, world, git
<1>8. CASE RestoreBranch
  BY <1>8, ResetPRs, <1>2 DEF RestoreBranch, world, git
<1>9. CASE StartBuild
  BY <1>9, <1>2 DEF StartBuild, world, git
<1>10. CASE CutBranch
  BY <1>10, <1>2 DEF CutBranch, AgentFails, Fails, GivesUp, world, git
<1>11. CASE BuildAgent
  BY <1>11, ResetPRs, <1>2 DEF BuildAgent, AgentFails, Fails, GivesUp, world, git
<1>12. CASE Built
  BY <1>12, <1>2 DEF Built, world, git
<1>13. CASE Handoff
  BY <1>13, <1>2 DEF Handoff, AgentFails, Fails, GivesUp, world, git
<1>14. CASE HandedOff
  BY <1>14, <1>2 DEF HandedOff, world, git
<1>15. CASE CleanUp
  BY <1>15, <1>2 DEF CleanUp, AgentFails, Fails, GivesUp, world, git
<1>16. CASE Brief
  BY <1>16, <1>2 DEF Brief, AgentFails, Fails, GivesUp, world, git
<1>17. CASE Verify
  BY <1>17, <1>2 DEF Verify, AgentFails, Fails, GivesUp, VerifyEnds, Attempt, world, git
<1>18. CASE Repair
  BY <1>18, <1>2 DEF Repair, AgentFails, Fails, GivesUp, world, git
<1>19. CASE VerifyGivesUp
  BY <1>19, <1>2 DEF VerifyGivesUp, AgentFails, Fails, GivesUp, world, git
<1>20. CASE BrowserGate
  BY <1>20, <1>2 DEF BrowserGate, AgentFails, Fails, GivesUp, VerifyEnds, Attempt, world, git
<1>21. CASE Verified
  BY <1>21, <1>2 DEF Verified, world, git
<1>22. CASE Commit
  BY <1>22, <1>2 DEF Commit, AgentFails, Fails, GivesUp, world, git
<1>23. CASE Push
  BY <1>23, <1>2 DEF Push, AgentFails, Fails, GivesUp, world, git
<1>24. CASE OpenPR
  <2>1. CASE Append(prs, "open") = prs' /\ LastPR < MaxPRs
    <3>1. prs' \in Seq(Status) /\ Len(prs') = Len(prs) + 1
      BY <2>1, <1>1 DEF Status
    <3> QED BY <2>1, <1>1, <3>1, BoundAssumption DEF PRsTyped, LastPR
  <2> QED BY <1>24, <1>2, <2>1 DEF OpenPR, Fails, world, git, LastPR
<1>25. CASE RecordPR
  BY <1>25, <1>2 DEF RecordPR, world, git
<1>26. CASE PROpen
  BY <1>26, <1>2 DEF PROpen, world, git
<1>27. CASE InReview
  BY <1>27, <1>2 DEF InReview, world, git
<1>28. CASE FindPR
  BY <1>28, <1>2 DEF FindPR, world, git
<1>29. CASE CIGate
  BY <1>29, <1>2 DEF CIGate, world, git
<1>30. CASE CIRepair
  BY <1>30, <1>2 DEF CIRepair, AgentFails, Fails, GivesUp, world, git
<1>31. CASE Merge
  BY <1>31, <1>3, <1>2 DEF Merge, AgentFails, Fails, GivesUp, Status, Lands, world, git
<1>32. CASE Unmergeable
  BY <1>32, <1>2 DEF Unmergeable, AgentFails, Fails, GivesUp, world, git
<1>33. CASE AwaitManualMerge
  BY <1>33, <1>2 DEF AwaitManualMerge, AgentFails, Fails, GivesUp, world, git
<1>34. CASE LandLocally
  BY <1>34, <1>2 DEF LandLocally, AgentFails, Fails, GivesUp, world, git
<1>35. CASE MarkDone
  BY <1>35, <1>2 DEF MarkDone, world, git
<1>36. CASE StampDone
  BY <1>36, <1>2 DEF StampDone, world, git
<1>37. CASE Settle
  BY <1>37, <1>2 DEF Settle, world, git
<1>38. CASE GiveUp
  BY <1>38, <1>2 DEF GiveUp, Preserve, world, git
<1>39. CASE Quarantine
  BY <1>39, <1>2 DEF Quarantine, world, git
<1>40. CASE Label
  BY <1>40, <1>2 DEF Label, world, git
<1>41. CASE Fault
  BY <1>41, <1>2 DEF Fault, Preserve, world, git
<1>42. CASE Stop
  BY <1>42, <1>2 DEF Stop, Preserve, world, git
<1>43. CASE Mark
  BY <1>43, <1>2 DEF Mark, world, git
<1>44. CASE End
  BY <1>44, <1>2 DEF End, world, git
<1>45. CASE HubBack
  BY <1>45, <1>2 DEF HubBack, world, git
<1>46. CASE Kill
  BY <1>46, <1>2 DEF Kill, world, git
<1>47. CASE Cancel
  BY <1>47, <1>2 DEF Cancel, world, git
<1>48. CASE HubLost
  BY <1>48, <1>2 DEF HubLost, world, git
<1>49. CASE HumanMerges
  BY <1>49, <1>3 DEF HumanMerges, Status, world, git
<1>50. CASE HumanCloses
  BY <1>50, <1>3 DEF HumanCloses, Status, world, git
<1>51. CASE TrackerEdited
  BY <1>51, <1>2 DEF TrackerEdited, world, git
<1>52. CASE ClearRow
  BY <1>52, <1>2 DEF ClearRow, world, git
<1>53. CASE Reset
  BY <1>53, ResetPRs, <1>2 DEF Reset, world, git
<1>54. CASE Requeue
  BY <1>54, ResetPRs, <1>2 DEF Requeue, world, git
<1>55. CASE Reconcile
  BY <1>55, <1>2 DEF Reconcile, world, git
<1>56. CASE Advance
  BY <1>56, <1>2 DEF Advance, world, git
<1>57. CASE Rerun
  BY <1>57, <1>2 DEF Rerun, world, git
<1> QED
  BY <1>4, <1>5, <1>6, <1>7, <1>8, <1>9, <1>10, <1>11, <1>12, <1>13, <1>14, <1>15, <1>16, <1>17, <1>18,
     <1>19, <1>20, <1>21, <1>22, <1>23, <1>24, <1>25, <1>26, <1>27, <1>28, <1>29, <1>30, <1>31, <1>32,
     <1>33, <1>34, <1>35, <1>36, <1>37, <1>38, <1>39, <1>40, <1>41, <1>42, <1>43, <1>44, <1>45, <1>46,
     <1>47, <1>48, <1>49, <1>50, <1>51, <1>52, <1>53, <1>54, <1>55, <1>56, <1>57
  DEF Next, RunStep, Phases, Endings, Hands

LEMMA TypedNext == Typed /\ [Next]_vars => Typed'
<1> SUFFICES ASSUME Typed, [Next]_vars PROVE Typed'
  OBVIOUS
<1>1. CASE Next
  <2>1. RestTyped' /\ RowsTyped /\ PRsTyped
    BY <1>1, RestStays, RowsStay, PRsStay
  <2>2. LastPR <= LastPR' /\ LastPR \in Nat /\ LastPR' \in Nat
    BY <2>1, LastTyped DEF PRsTyped, LastPR
  <2>3. ckpt' \in Row /\ mem' \in Row /\ ckpt'.pr <= LastPR' /\ mem'.pr <= LastPR'
    <3>1. ckpt'.pr \in Nat /\ mem'.pr \in Nat
      BY <2>1 DEF RowsTyped, Row
    <3> QED BY <2>1, <2>2, <3>1 DEF RowsTyped
  <2> QED BY <2>1, <2>3 DEF Typed, TypeOK, RestTyped, RowsTyped, PRsTyped, Status
<1>2. CASE UNCHANGED vars
  BY <1>2 DEF vars, Typed, TypeOK, LastPR
<1> QED BY <1>1, <1>2

LEMMA TypedInit == Init => Typed
<1> SUFFICES ASSUME Init PROVE Typed
  OBVIOUS
<1>1. Blank.pr = 0 /\ LastPR = 0 /\ ckpt = Blank /\ mem = Blank
  BY BlankPR DEF Init, LastPR
<1>2. 0 \in Build /\ None \in Phase /\ "off" \in Steps /\ <<>> \in Seq({"open", "merged", "closed"})
  BY BoundAssumption DEF Build, Phase, None, Steps
<1>3. Len(prs) <= MaxPRs /\ tries \in 0..MaxRepairs /\ fixes \in 0..(MaxBugfixes + 1)
      /\ left \in 0..MaxGestures
  BY CountAssumption, BoundAssumption DEF Init
<1>4. ckpt \in Row /\ mem \in Row /\ ckpt.pr <= LastPR /\ mem.pr <= LastPR
  BY <1>1, BlankTyped
<1> QED BY <1>2, <1>3, <1>4 DEF Init, Typed, TypeOK

\* For any setups, troubles, gestures and bounds the state stays in its ranges, a recorded
\* PR is one that was opened, and CI repairs stay within MAX_REPAIRS.
THEOREM TicketTyped == Spec => []Typed
<1> QED BY TypedInit, TypedNext, PTL DEF Spec

-----------------------------------------------------------------------------
(* The invariant.                                                          *)

\* What a row reading `phase`, with its branch recorded or not and stamped done or not,
\* says of the world.
RowFits(phase, branch, done) ==
  /\ phase # "releasing"
  /\ phase \in {"built", "handed_off", "verified", "pr_open"} => branch
  /\ phase \in {"verified", "pr_open"} /\ local # 0 => gen \in passed
  /\ phase = "pr_open" /\ ~Local /\ local # 0 => pushed = gen \/ gen \in base
  /\ gen \in base => phase \in {"verified", "pr_open", "quarantined", "merged"}
  /\ phase = "merged" \/ done => gen \in base
  /\ done => tracker # "open"

RowOK(r) == RowFits(r.phase, r.branch, r.done)

\* The hub's row and the run's copy of it.
RowsOK == RowOK(ckpt) /\ (hydrated => RowOK(mem))

\* The latest build is the only one there is to lose, and only an open PR's branch is
\* still to land.
WorldOK ==
  /\ local \in {0, gen} /\ (local = 0 => pushed = 0)
  /\ \A i \in DOMAIN prs : prs[i] = "open" => i = LastPR /\ pushed # 0
  /\ \A i \in DOMAIN prs : prs[i] = "merged" => gen \in base
  /\ Local => pushed = 0 /\ prs = <<>>
  /\ gen \in base => local = gen /\ gen # 0 /\ pushed \in {0, gen}
  /\ base \subseteq {gen}
  /\ verdict => gen \in passed
  /\ ckpt.phase = None /\ LastIs("open") => pushed = gen /\ gen \in passed

\* Row and copy read `phase`, and there is a branch.
Reads(phase) == hydrated /\ mem.phase = phase /\ ckpt.phase = phase

\* Before the first phase: the copy is the row, and the run resumes what it reads.
PreambleOK ==
  /\ pc = "off" => ~hydrated
  /\ pc \in Preamble \cup {"off"} => ~stopped
  /\ pc = "infer" => ~hydrated
  /\ pc = "resume" /\ hydrated => mem = ckpt
  /\ pc \in {"marks", "branch", "build"}
       => hydrated /\ mem.phase = ckpt.phase /\ mem.branch = ckpt.branch /\ ckpt.phase # "merged"
  /\ pc \in Preamble => from = None \/ (from = ckpt.phase /\ InFlight(from))
  /\ pc = "infer" => from = None /\ ckpt.phase = None /\ local # 0
  /\ pc \in {"resume", "marks", "branch"} /\ from = None => ckpt.phase \in {None, "quarantined",
     "merged"}
  /\ pc = "build" => ckpt.phase \in {None, "building", "quarantined"}
  /\ pc \in Preamble \cup {"build", "agent"} /\ ckpt.phase \in {None, "building", "quarantined"}
       => gen \notin base

\* At work: what the row and its copy read at each step.
Building  == {"cut", "agent", "built"}
Handing   == {"handoff", "handed"}
Verifying == {"clean", "brief", "verify", "failed", "browser", "verified"}
Shipping  == {"commit", "push", "openpr", "recordpr", "propen"}
Landing   == {"review", "ci", "gate", "cirepair", "merge", "wait", "land"}
Settling  == {"done", "stamp", "settle"}
Ending    == {"giveup", "fault", "stop", "quarantine", "label", "faulted", "stopping", "hubpause"}

WorkOK ==
  /\ pc \in Building => Reads("building")
  /\ pc \in Handing => Reads("built")
  /\ pc \in Verifying => Reads("handed_off")
  /\ pc \in Shipping => Reads("verified")
  /\ pc \in Landing => Reads("pr_open")
  /\ pc \in {"built"} \cup Handing \cup Verifying \cup Shipping \cup Landing => local # 0
  /\ pc \in {"agent", "built"} => ckpt.branch /\ mem.branch
  /\ pc \in {"browser", "verified"} => gen \in passed
  /\ pc \in {"cut", "agent"} => ~verdict
  /\ pc = "push" => ~Local
  /\ pc \in {"openpr", "recordpr"} => pushed = gen /\ ~Local
  /\ pc = "propen" => pushed = gen \/ Local
  /\ pc \in {"gate", "cirepair", "merge", "wait"} => mem.pr \in DOMAIN prs /\ ~Local
  /\ pc = "merge" => AutoMerge

\* The end of a run.
EndOK ==
  /\ pc \notin {"off", "end"} => hub \/ hydrated
  /\ pc \in Settling => hydrated /\ gen \in base
  /\ pc = "stamp" => tracker # "open"
  /\ pc \in Ending => hydrated
  /\ ckpt.phase = "merged" => pc \in {"off", "resume", "end"}
  /\ hydrated /\ ckpt.phase \in {"verified", "pr_open"}
       => mem.phase \in {"verified", "pr_open", "quarantined", "merged"}
  /\ hydrated /\ mem.phase = None => ckpt.phase = None
  /\ hydrated /\ mem.phase = "merged" => pc \in {"resume", "hubpause", "end"}

\* What Pipeline.cfg checks, and what holds: the other gestures and setups lose or land
\* work nobody passed, in ways the README lists.
Steady ==
  /\ Gestures \cap {"earlystop", "blackout", "forget", "hastymerge", "reopen", "runonce", "strand"} = {}
  /\ \A s \in Setups : ~(s.remote = "github" /\ s.autoMerge /\ "merge" \notin s.skips)
  /\ \A s \in Setups : ~(s.browser = "always" /\ Cardinality(s.members) = 1)

\* The inductive invariant.
IInv == Typed /\ RowsOK /\ WorldOK /\ PreambleOK /\ WorkOK /\ EndOK

\* The parts a step has to keep, but the types.
Stays == RowsOK' /\ WorldOK' /\ PreambleOK' /\ WorkOK' /\ EndOK'

-----------------------------------------------------------------------------
(* What reads and writes of the row do to the invariant.                   *)

LEMMA BlankIs ==
  Blank.phase = None /\ Blank.pr = 0 /\ Blank.branch = FALSE /\ Blank.done = FALSE /\ Blank.mark = ""
BY DEF Blank

LEMMA CachedIs ==
  ASSUME hub \/ hydrated
  PROVE  Cached = IF hydrated THEN mem ELSE ckpt
BY DEF Cached

LEMMA ReadIs ==
  ASSUME Typed, hub \/ hydrated, Read
  PROVE  hydrated' /\ UNCHANGED ckpt /\ mem' = Cached /\ mem' = IF hydrated THEN mem ELSE ckpt
BY CachedIs DEF Read, Typed, TypeOK

LEMMA WritesIs ==
  ASSUME Typed, hub \/ hydrated, NEW ph, NEW p, NEW b, NEW d, Writes(ph, p, b, d)
  PROVE  /\ hydrated' /\ mem'.phase = ph /\ mem'.pr = p /\ mem'.branch = b /\ mem'.done = d
         /\ ckpt' = IF hub THEN mem' ELSE ckpt
BY DEF Writes, Put, Typed, TypeOK

\* A row or a copy that is kept, or replaced by one that fits, goes on fitting.
LEMMA KeptRows ==
  ASSUME IInv, UNCHANGED <<setup, local, pushed, base, gen, passed>>, tracker' = tracker
         \/ tracker' # "open",
         hub \/ hydrated, Read
  PROVE  RowsOK'
<1>1. hydrated' /\ UNCHANGED ckpt /\ mem' = IF hydrated THEN mem ELSE ckpt
  BY ReadIs DEF IInv
<1>2. RowOK(mem')
  BY <1>1 DEF IInv, RowsOK
<1> QED BY <1>1, <1>2 DEF IInv, RowsOK, RowOK, RowFits, Local

LEMMA SameRows ==
  ASSUME IInv, UNCHANGED <<setup, local, pushed, base, gen, passed>>, tracker' = tracker
         \/ tracker' # "open",
         UNCHANGED <<ckpt, mem>>, hydrated' => hydrated
  PROVE  RowsOK'
BY DEF IInv, RowsOK, RowOK, RowFits, Local

LEMMA WrittenRows ==
  ASSUME IInv, UNCHANGED <<setup, tracker, local, pushed, base, gen, passed>>,
         hub \/ hydrated, NEW ph, NEW p, NEW b, NEW d, Writes(ph, p, b, d), RowFits(ph, b, d)
  PROVE  RowsOK'
<1>1. /\ hydrated' /\ mem'.phase = ph /\ mem'.branch = b /\ mem'.done = d
      /\ ckpt' = IF hub THEN mem' ELSE ckpt
  BY WritesIs DEF IInv
<1>2. RowOK(mem)'
  BY <1>1 DEF RowOK, RowFits, Local
<1>3. RowOK(ckpt)'
  BY <1>1, <1>2 DEF IInv, RowsOK, RowOK, RowFits, Local
<1> QED BY <1>2, <1>3 DEF RowsOK

LEMMA KeptWorld ==
  ASSUME IInv, UNCHANGED <<setup, local, pushed, base, prs, gen, passed>>,
         verdict' = verdict \/ verdict' = FALSE, ckpt'.phase = ckpt.phase \/ ckpt'.phase # None
  PROVE  WorldOK'
BY DEF IInv, WorldOK, Local, LastIs, LastPR

LEMMA CachedFits == ASSUME IInv, hub \/ hydrated PROVE RowFits(Cached.phase, Cached.branch, Cached.done)
BY CachedIs DEF IInv, RowsOK, RowOK

LEMMA PhasesIn ==
  {"building", "built", "handed_off", "verified", "pr_open", "merged", "quarantined"} \subseteq Phase
BY DEF Phase, Rank

\* Rows, copy and world as they were.
LEMMA SameWorld ==
  ASSUME IInv, UNCHANGED <<setup, tracker, local, pushed, base, prs, gen, passed, verdict, ckpt, mem,
         hydrated>>
  PROVE  RowsOK' /\ WorldOK'
<1>1. RowsOK'
  BY SameRows
<1>2. WorldOK'
  BY KeptWorld
<1> QED BY <1>1, <1>2

\* What a run that has its copy reads it goes on reading.
LEMMA ReadKeeps ==
  ASSUME IInv, hydrated, Read
  PROVE  UNCHANGED <<ckpt, mem, hydrated>>
BY ReadIs DEF IInv, Typed, TypeOK

\* A run at work has its copy.
LEMMA AtWork ==
  ASSUME IInv, pc \in Building \cup Handing \cup Verifying \cup Shipping \cup Landing \cup Settling \cup Ending
  PROVE  hydrated /\ Cached = mem
<1>1. hydrated
  BY DEF IInv, WorkOK, Reads, EndOK
<1> QED BY <1>1 DEF Cached

\* A step that fails ends the run and loses nothing.
LEMMA FailsKeeps ==
  ASSUME IInv, hydrated, AgentFails \/ Fails \/ GivesUp, pc \notin {"off", "resume", "hubpause",
         "end"}, ckpt.phase # "merged"
  PROVE  Stays /\ UNCHANGED <<base, local, ckpt, gen>>
<1>1. pc' \in {"pause", "giveup", "stop", "fault"}
  BY DEF AgentFails, Fails, GivesUp, Unexpected
<1>2. UNCHANGED <<setup, hub, tracker, local, pushed, base, prs, gen, passed, verdict, from, stopped>>
  BY DEF AgentFails, Fails, GivesUp, world, git, files, run
<1>3. UNCHANGED <<ckpt, mem, hydrated>>
  BY ReadKeeps DEF AgentFails, Fails, GivesUp
<1>4. RowsOK' /\ WorldOK'
  BY <1>2, <1>3, SameWorld
<1>5. PreambleOK'
  BY <1>1, <1>2, <1>3 DEF PreambleOK, Preamble
<1>6. WorkOK'
  BY <1>1 DEF WorkOK, Building, Handing, Verifying, Shipping, Landing
<1>7. EndOK'
  BY <1>1, <1>2, <1>3 DEF IInv, EndOK, Settling, Ending, None
<1> QED BY <1>2, <1>3, <1>4, <1>5, <1>6, <1>7 DEF Stays

-----------------------------------------------------------------------------
(* Every step keeps the invariant: one lemma per action.                   *)

LEMMA StartBuildKeeps == Steady /\ IInv /\ StartBuild => Stays
<1> SUFFICES ASSUME Steady, IInv, StartBuild PROVE Stays
  OBVIOUS
<1>1. pc = "build" /\ PutPhase("building") /\ pc' = IF hub THEN "cut" ELSE "hubpause"
  BY DEF StartBuild, OrPause
<1>2. UNCHANGED <<setup, hub, tracker, local, pushed, base, prs, gen, passed, from, stopped>>
      /\ verdict' = FALSE
  BY DEF StartBuild, world, git, files, run
<1>3. hydrated /\ Cached = mem
  BY <1>1, CachedIs
  DEF IInv, PreambleOK, WorkOK, Reads, Building, Handing, Verifying, Shipping, Landing, EndOK,
      Settling, Ending
<1>4. Writes("building", mem.pr, mem.branch, mem.done)
  BY <1>1, <1>3, WritesPhase, PhasesIn DEF IInv
<1>5. hydrated' /\ mem'.phase = "building" /\ mem'.branch = mem.branch /\ mem'.done = mem.done
      /\ ckpt' = IF hub THEN mem' ELSE ckpt
  BY <1>3, <1>4, WritesIs DEF IInv
<1>6. RowFits("building", mem.branch, mem.done)
  BY <1>1, <1>3, CachedFits
  DEF IInv, RowFits, PreambleOK, WorkOK, Reads, Building, Handing, Verifying, Shipping, Landing, EndOK,
      Settling, Local, None, RowsOK, RowOK
<1>7. RowsOK'
  BY <1>2, <1>3, <1>4, <1>6, WrittenRows
<1>8. WorldOK'
  BY <1>2, <1>5, KeptWorld DEF None
<1>9. PreambleOK'
  BY <1>1, <1>2, <1>3, <1>4, <1>5, <1>6 DEF IInv, PreambleOK, Preamble, WorkOK, Reads, Building, None
<1>10. WorkOK'
  BY <1>1, <1>2, <1>3, <1>4, <1>5, <1>6
  DEF IInv, PreambleOK, WorkOK, Reads, Building, Handing, Verifying, Shipping, Landing
<1>11. EndOK'
  BY <1>1, <1>2, <1>3, <1>4, <1>5, <1>6
  DEF IInv, WorkOK, Reads, Building, Handing, Verifying, Shipping, Landing, EndOK, Settling, Ending,
      None, PreambleOK
<1> QED BY <1>7, <1>8, <1>9, <1>10, <1>11 DEF Stays

LEMMA BuiltKeeps == Steady /\ IInv /\ Built => Stays
<1> SUFFICES ASSUME Steady, IInv, Built PROVE Stays
  OBVIOUS
<1>1. pc = "built" /\ PutPhase("built") /\ pc' = IF hub THEN "handoff" ELSE "hubpause"
  BY DEF Built, OrPause
<1>2. UNCHANGED <<setup, hub, tracker, local, pushed, base, prs, gen, passed, from, stopped>>
      /\ verdict' = verdict
  BY DEF Built, world, git, files, run
<1>3. hydrated /\ Cached = mem /\ mem.phase = "building" /\ ckpt.phase = "building"
  BY <1>1, CachedIs
  DEF IInv, PreambleOK, WorkOK, Reads, Building, Handing, Verifying, Shipping, Landing, EndOK,
      Settling, Ending
<1>4. Writes("built", mem.pr, mem.branch, mem.done)
  BY <1>1, <1>3, WritesPhase, PhasesIn DEF IInv
<1>5. hydrated' /\ mem'.phase = "built" /\ mem'.branch = mem.branch /\ mem'.done = mem.done
      /\ ckpt' = IF hub THEN mem' ELSE ckpt
  BY <1>3, <1>4, WritesIs DEF IInv
<1>6. RowFits("built", mem.branch, mem.done)
  BY <1>1, <1>3, CachedFits
  DEF IInv, RowFits, PreambleOK, WorkOK, Reads, Building, Handing, Verifying, Shipping, Landing, EndOK,
      Settling, Local, None, RowsOK, RowOK
<1>7. RowsOK'
  BY <1>2, <1>3, <1>4, <1>6, WrittenRows
<1>8. WorldOK'
  BY <1>2, <1>5, KeptWorld DEF None
<1>9. PreambleOK'
  BY <1>1, <1>2, <1>3, <1>4, <1>5, <1>6 DEF IInv, PreambleOK, Preamble, WorkOK, Reads, Building, None
<1>10. WorkOK'
  BY <1>1, <1>2, <1>3, <1>4, <1>5, <1>6
  DEF IInv, PreambleOK, WorkOK, Reads, Building, Handing, Verifying, Shipping, Landing
<1>11. EndOK'
  BY <1>1, <1>2, <1>3, <1>4, <1>5, <1>6
  DEF IInv, WorkOK, Reads, Building, Handing, Verifying, Shipping, Landing, EndOK, Settling, Ending,
      None
<1> QED BY <1>7, <1>8, <1>9, <1>10, <1>11 DEF Stays

LEMMA HandedOffKeeps == Steady /\ IInv /\ HandedOff => Stays
<1> SUFFICES ASSUME Steady, IInv, HandedOff PROVE Stays
  OBVIOUS
<1>1. pc = "handed" /\ PutPhase("handed_off") /\ pc' = IF hub THEN "brief" ELSE "hubpause"
  BY DEF HandedOff, OrPause
<1>2. UNCHANGED <<setup, hub, tracker, local, pushed, base, prs, gen, passed, from, stopped>>
      /\ verdict' = verdict
  BY DEF HandedOff, world, git, files, run
<1>3. hydrated /\ Cached = mem /\ mem.phase = "built" /\ ckpt.phase = "built"
  BY <1>1, CachedIs
  DEF IInv, PreambleOK, WorkOK, Reads, Building, Handing, Verifying, Shipping, Landing, EndOK,
      Settling, Ending
<1>4. Writes("handed_off", mem.pr, mem.branch, mem.done)
  BY <1>1, <1>3, WritesPhase, PhasesIn DEF IInv
<1>5. hydrated' /\ mem'.phase = "handed_off" /\ mem'.branch = mem.branch /\ mem'.done = mem.done
      /\ ckpt' = IF hub THEN mem' ELSE ckpt
  BY <1>3, <1>4, WritesIs DEF IInv
<1>6. RowFits("handed_off", mem.branch, mem.done)
  BY <1>1, <1>3, CachedFits
  DEF IInv, RowFits, PreambleOK, WorkOK, Reads, Building, Handing, Verifying, Shipping, Landing, EndOK,
      Settling, Local, None, RowsOK, RowOK
<1>7. RowsOK'
  BY <1>2, <1>3, <1>4, <1>6, WrittenRows
<1>8. WorldOK'
  BY <1>2, <1>5, KeptWorld DEF None
<1>9. PreambleOK'
  BY <1>1, <1>2, <1>3, <1>4, <1>5, <1>6 DEF IInv, PreambleOK, Preamble, WorkOK, Reads, Building, None
<1>10. WorkOK'
  BY <1>1, <1>2, <1>3, <1>4, <1>5, <1>6
  DEF IInv, PreambleOK, WorkOK, Reads, Building, Handing, Verifying, Shipping, Landing
<1>11. EndOK'
  BY <1>1, <1>2, <1>3, <1>4, <1>5, <1>6
  DEF IInv, WorkOK, Reads, Building, Handing, Verifying, Shipping, Landing, EndOK, Settling, Ending,
      None
<1> QED BY <1>7, <1>8, <1>9, <1>10, <1>11 DEF Stays

LEMMA VerifiedKeeps == Steady /\ IInv /\ Verified => Stays
<1> SUFFICES ASSUME Steady, IInv, Verified PROVE Stays
  OBVIOUS
<1>1. pc = "verified" /\ PutPhase("verified") /\ pc' = IF hub THEN "commit" ELSE "hubpause"
  BY DEF Verified, OrPause
<1>2. UNCHANGED <<setup, hub, tracker, local, pushed, base, prs, gen, passed, from, stopped>>
      /\ verdict' = verdict
  BY DEF Verified, world, git, files, run
<1>3. hydrated /\ Cached = mem /\ mem.phase = "handed_off" /\ ckpt.phase = "handed_off"
  BY <1>1, CachedIs
  DEF IInv, PreambleOK, WorkOK, Reads, Building, Handing, Verifying, Shipping, Landing, EndOK,
      Settling, Ending
<1>4. Writes("verified", mem.pr, mem.branch, mem.done)
  BY <1>1, <1>3, WritesPhase, PhasesIn DEF IInv
<1>5. hydrated' /\ mem'.phase = "verified" /\ mem'.branch = mem.branch /\ mem'.done = mem.done
      /\ ckpt' = IF hub THEN mem' ELSE ckpt
  BY <1>3, <1>4, WritesIs DEF IInv
<1>6. RowFits("verified", mem.branch, mem.done)
  BY <1>1, <1>3, CachedFits
  DEF IInv, RowFits, PreambleOK, WorkOK, Reads, Building, Handing, Verifying, Shipping, Landing, EndOK,
      Settling, Local, None, RowsOK, RowOK
<1>7. RowsOK'
  BY <1>2, <1>3, <1>4, <1>6, WrittenRows
<1>8. WorldOK'
  BY <1>2, <1>5, KeptWorld DEF None
<1>9. PreambleOK'
  BY <1>1, <1>2, <1>3, <1>4, <1>5, <1>6 DEF IInv, PreambleOK, Preamble, WorkOK, Reads, Building, None
<1>10. WorkOK'
  BY <1>1, <1>2, <1>3, <1>4, <1>5, <1>6
  DEF IInv, PreambleOK, WorkOK, Reads, Building, Handing, Verifying, Shipping, Landing
<1>11. EndOK'
  BY <1>1, <1>2, <1>3, <1>4, <1>5, <1>6
  DEF IInv, WorkOK, Reads, Building, Handing, Verifying, Shipping, Landing, EndOK, Settling, Ending,
      None
<1> QED BY <1>7, <1>8, <1>9, <1>10, <1>11 DEF Stays

LEMMA PROpenKeeps == Steady /\ IInv /\ PROpen => Stays
<1> SUFFICES ASSUME Steady, IInv, PROpen PROVE Stays
  OBVIOUS
<1>1. pc = "propen" /\ PutPhase("pr_open") /\ pc' = IF hub THEN "review" ELSE "hubpause"
  BY DEF PROpen, OrPause
<1>2. UNCHANGED <<setup, hub, tracker, local, pushed, base, prs, gen, passed, from, stopped>>
      /\ verdict' = verdict
  BY DEF PROpen, world, git, files, run
<1>3. hydrated /\ Cached = mem /\ mem.phase = "verified" /\ ckpt.phase = "verified"
  BY <1>1, CachedIs
  DEF IInv, PreambleOK, WorkOK, Reads, Building, Handing, Verifying, Shipping, Landing, EndOK,
      Settling, Ending
<1>4. Writes("pr_open", mem.pr, mem.branch, mem.done)
  BY <1>1, <1>3, WritesPhase, PhasesIn DEF IInv
<1>5. hydrated' /\ mem'.phase = "pr_open" /\ mem'.branch = mem.branch /\ mem'.done = mem.done
      /\ ckpt' = IF hub THEN mem' ELSE ckpt
  BY <1>3, <1>4, WritesIs DEF IInv
<1>6. RowFits("pr_open", mem.branch, mem.done)
  BY <1>1, <1>3, CachedFits
  DEF IInv, RowFits, PreambleOK, WorkOK, Reads, Building, Handing, Verifying, Shipping, Landing, EndOK,
      Settling, Local, None, RowsOK, RowOK
<1>7. RowsOK'
  BY <1>2, <1>3, <1>4, <1>6, WrittenRows
<1>8. WorldOK'
  BY <1>2, <1>5, KeptWorld DEF None
<1>9. PreambleOK'
  BY <1>1, <1>2, <1>3, <1>4, <1>5, <1>6 DEF IInv, PreambleOK, Preamble, WorkOK, Reads, Building, None
<1>10. WorkOK'
  BY <1>1, <1>2, <1>3, <1>4, <1>5, <1>6
  DEF IInv, PreambleOK, WorkOK, Reads, Building, Handing, Verifying, Shipping, Landing, Local
<1>11. EndOK'
  BY <1>1, <1>2, <1>3, <1>4, <1>5, <1>6
  DEF IInv, WorkOK, Reads, Building, Handing, Verifying, Shipping, Landing, EndOK, Settling, Ending,
      None
<1> QED BY <1>7, <1>8, <1>9, <1>10, <1>11 DEF Stays

LEMMA QuarantineKeeps == Steady /\ IInv /\ Quarantine => Stays
<1> SUFFICES ASSUME Steady, IInv, Quarantine PROVE Stays
  OBVIOUS
<1>1. pc = "quarantine" /\ PutPhase("quarantined") /\ pc' = IF hub THEN "label" ELSE "hubpause"
  BY DEF Quarantine, OrPause
<1>2. UNCHANGED <<setup, hub, tracker, local, pushed, base, prs, gen, passed, from, stopped>>
      /\ verdict' = verdict
  BY DEF Quarantine, world, git, files, run
<1>3. hydrated /\ Cached = mem
  BY <1>1, CachedIs
  DEF IInv, PreambleOK, WorkOK, Reads, Building, Handing, Verifying, Shipping, Landing, EndOK,
      Settling, Ending
<1>4. Writes("quarantined", mem.pr, mem.branch, mem.done)
  BY <1>1, <1>3, WritesPhase, PhasesIn DEF IInv
<1>5. hydrated' /\ mem'.phase = "quarantined" /\ mem'.branch = mem.branch /\ mem'.done = mem.done
      /\ ckpt' = IF hub THEN mem' ELSE ckpt
  BY <1>3, <1>4, WritesIs DEF IInv
<1>6. RowFits("quarantined", mem.branch, mem.done)
  BY <1>1, <1>3, CachedFits
  DEF IInv, RowFits, PreambleOK, WorkOK, Reads, Building, Handing, Verifying, Shipping, Landing, EndOK,
      Settling, Local, None, RowsOK, RowOK
<1>7. RowsOK'
  BY <1>2, <1>3, <1>4, <1>6, WrittenRows
<1>8. WorldOK'
  BY <1>2, <1>5, KeptWorld DEF None
<1>9. PreambleOK'
  BY <1>1, <1>2, <1>3, <1>4, <1>5, <1>6 DEF IInv, PreambleOK, Preamble, WorkOK, Reads, Building, None
<1>10. WorkOK'
  BY <1>1, <1>2, <1>3, <1>4, <1>5, <1>6
  DEF IInv, PreambleOK, WorkOK, Reads, Building, Handing, Verifying, Shipping, Landing
<1>11. EndOK'
  BY <1>1, <1>2, <1>3, <1>4, <1>5, <1>6
  DEF IInv, WorkOK, Reads, Building, Handing, Verifying, Shipping, Landing, EndOK, Settling, Ending,
      None
<1> QED BY <1>7, <1>8, <1>9, <1>10, <1>11 DEF Stays

LEMMA SettleKeeps == Steady /\ IInv /\ Settle => Stays
<1> SUFFICES ASSUME Steady, IInv, Settle PROVE Stays
  OBVIOUS
<1>1. pc = "settle" /\ PutPhase("merged") /\ pc' = IF hub THEN "end" ELSE "hubpause"
  BY DEF Settle, OrPause
<1>2. UNCHANGED <<setup, hub, tracker, local, pushed, base, prs, gen, passed, from, stopped>>
      /\ verdict' = verdict
  BY DEF Settle, world, git, files, run
<1>3. hydrated /\ Cached = mem
  BY <1>1, CachedIs
  DEF IInv, PreambleOK, WorkOK, Reads, Building, Handing, Verifying, Shipping, Landing, EndOK,
      Settling, Ending
<1>4. Writes("merged", mem.pr, mem.branch, mem.done)
  BY <1>1, <1>3, WritesPhase, PhasesIn DEF IInv
<1>5. hydrated' /\ mem'.phase = "merged" /\ mem'.branch = mem.branch /\ mem'.done = mem.done
      /\ ckpt' = IF hub THEN mem' ELSE ckpt
  BY <1>3, <1>4, WritesIs DEF IInv
<1>6. RowFits("merged", mem.branch, mem.done)
  BY <1>1, <1>3, CachedFits
  DEF IInv, RowFits, PreambleOK, WorkOK, Reads, Building, Handing, Verifying, Shipping, Landing, EndOK,
      Settling, Local, None, RowsOK, RowOK
<1>7. RowsOK'
  BY <1>2, <1>3, <1>4, <1>6, WrittenRows
<1>8. WorldOK'
  BY <1>2, <1>5, KeptWorld DEF None
<1>9. PreambleOK'
  BY <1>1, <1>2, <1>3, <1>4, <1>5, <1>6 DEF IInv, PreambleOK, Preamble, WorkOK, Reads, Building, None
<1>10. WorkOK'
  BY <1>1, <1>2, <1>3, <1>4, <1>5, <1>6
  DEF IInv, PreambleOK, WorkOK, Reads, Building, Handing, Verifying, Shipping, Landing
<1>11. EndOK'
  BY <1>1, <1>2, <1>3, <1>4, <1>5, <1>6
  DEF IInv, WorkOK, Reads, Building, Handing, Verifying, Shipping, Landing, EndOK, Settling, Ending,
      None
<1> QED BY <1>7, <1>8, <1>9, <1>10, <1>11 DEF Stays

LEMMA CleanUpKeeps == Steady /\ IInv /\ CleanUp => Stays
<1> SUFFICES ASSUME Steady, IInv, CleanUp PROVE Stays
  OBVIOUS
<1>1. pc = "clean" /\ Read
  BY DEF CleanUp, AgentFails
<1>2. hydrated /\ Cached = mem
  BY <1>1, AtWork DEF Building, Handing, Verifying, Shipping, Landing
<1>3. UNCHANGED <<ckpt, mem, hydrated>>
  BY <1>1, <1>2, ReadKeeps
<1>4. UNCHANGED <<setup, hub, tracker, local, pushed, base, prs, gen, passed, verdict, from, stopped>>
  BY DEF CleanUp, AgentFails, world, git, files, run
<1>5. pc' \in {"pause", "giveup", "brief"}
  BY <1>2 DEF CleanUp, AgentFails
<1>6. RowsOK' /\ WorldOK'
  BY <1>3, <1>4, SameWorld
<1>7. RowsOK'
  BY <1>6
<1>8. WorldOK'
  BY <1>6
<1>9. PreambleOK'
  BY <1>1, <1>2, <1>3, <1>4, <1>5, <1>6 DEF IInv, PreambleOK, Preamble, WorkOK, Reads, Building, None
<1>10. WorkOK'
  BY <1>1, <1>2, <1>3, <1>4, <1>5, <1>6
  DEF IInv, PreambleOK, WorkOK, Reads, Building, Handing, Verifying, Shipping, Landing
<1>11. EndOK'
  BY <1>1, <1>2, <1>3, <1>4, <1>5, <1>6
  DEF IInv, WorkOK, Reads, Building, Handing, Verifying, Shipping, Landing, EndOK, Settling, Ending,
      None
<1> QED BY <1>7, <1>8, <1>9, <1>10, <1>11 DEF Stays

LEMMA RepairKeeps == Steady /\ IInv /\ Repair => Stays
<1> SUFFICES ASSUME Steady, IInv, Repair PROVE Stays
  OBVIOUS
<1>1. pc = "failed" /\ Read
  BY DEF Repair, AgentFails, Unexpected
<1>2. hydrated /\ Cached = mem
  BY <1>1, AtWork DEF Building, Handing, Verifying, Shipping, Landing
<1>3. UNCHANGED <<ckpt, mem, hydrated>>
  BY <1>1, <1>2, ReadKeeps
<1>4. UNCHANGED <<setup, hub, tracker, local, pushed, base, prs, gen, passed, verdict, from, stopped>>
  BY DEF Repair, AgentFails, Unexpected, world, git, files, run
<1>5. pc' \in {"pause", "giveup", "stop", "fault", "verify"}
  BY <1>2 DEF Repair, AgentFails, Unexpected
<1>6. RowsOK' /\ WorldOK'
  BY <1>3, <1>4, SameWorld
<1>7. RowsOK'
  BY <1>6
<1>8. WorldOK'
  BY <1>6
<1>9. PreambleOK'
  BY <1>1, <1>2, <1>3, <1>4, <1>5, <1>6 DEF IInv, PreambleOK, Preamble, WorkOK, Reads, Building, None
<1>10. WorkOK'
  BY <1>1, <1>2, <1>3, <1>4, <1>5, <1>6
  DEF IInv, PreambleOK, WorkOK, Reads, Building, Handing, Verifying, Shipping, Landing
<1>11. EndOK'
  BY <1>1, <1>2, <1>3, <1>4, <1>5, <1>6
  DEF IInv, WorkOK, Reads, Building, Handing, Verifying, Shipping, Landing, EndOK, Settling, Ending,
      None
<1> QED BY <1>7, <1>8, <1>9, <1>10, <1>11 DEF Stays

LEMMA VerifyGivesUpKeeps == Steady /\ IInv /\ VerifyGivesUp => Stays
<1> SUFFICES ASSUME Steady, IInv, VerifyGivesUp PROVE Stays
  OBVIOUS
<1>1. pc = "failed" /\ Read
  BY DEF VerifyGivesUp, GivesUp
<1>2. hydrated /\ Cached = mem
  BY <1>1, AtWork DEF Building, Handing, Verifying, Shipping, Landing
<1>3. UNCHANGED <<ckpt, mem, hydrated>>
  BY <1>1, <1>2, ReadKeeps
<1>4. UNCHANGED <<setup, hub, tracker, local, pushed, base, prs, gen, passed, verdict, from, stopped>>
  BY DEF VerifyGivesUp, GivesUp, world, git, files, run
<1>5. pc' = "giveup"
  BY <1>2 DEF VerifyGivesUp, GivesUp
<1>6. RowsOK' /\ WorldOK'
  BY <1>3, <1>4, SameWorld
<1>7. RowsOK'
  BY <1>6
<1>8. WorldOK'
  BY <1>6
<1>9. PreambleOK'
  BY <1>1, <1>2, <1>3, <1>4, <1>5, <1>6 DEF IInv, PreambleOK, Preamble, WorkOK, Reads, Building, None
<1>10. WorkOK'
  BY <1>1, <1>2, <1>3, <1>4, <1>5, <1>6
  DEF IInv, PreambleOK, WorkOK, Reads, Building, Handing, Verifying, Shipping, Landing
<1>11. EndOK'
  BY <1>1, <1>2, <1>3, <1>4, <1>5, <1>6
  DEF IInv, WorkOK, Reads, Building, Handing, Verifying, Shipping, Landing, EndOK, Settling, Ending,
      None
<1> QED BY <1>7, <1>8, <1>9, <1>10, <1>11 DEF Stays

LEMMA CommitKeeps == Steady /\ IInv /\ Commit => Stays
<1> SUFFICES ASSUME Steady, IInv, Commit PROVE Stays
  OBVIOUS
<1>1. pc = "commit" /\ Read
  BY DEF Commit, AgentFails, Unexpected
<1>2. hydrated /\ Cached = mem
  BY <1>1, AtWork DEF Building, Handing, Verifying, Shipping, Landing
<1>3. UNCHANGED <<ckpt, mem, hydrated>>
  BY <1>1, <1>2, ReadKeeps
<1>4. UNCHANGED <<setup, hub, tracker, local, pushed, base, prs, gen, passed, verdict, from, stopped>>
  BY DEF Commit, AgentFails, Unexpected, world, git, files, run
<1>5. pc' \in {"pause", "giveup", "stop", "fault"} \/ pc' = IF Local THEN "propen" ELSE "push"
  BY <1>2 DEF Commit, AgentFails, Unexpected
<1>6. RowsOK' /\ WorldOK'
  BY <1>3, <1>4, SameWorld
<1>7. RowsOK'
  BY <1>6
<1>8. WorldOK'
  BY <1>6
<1>9. PreambleOK'
  BY <1>1, <1>2, <1>3, <1>4, <1>5, <1>6 DEF IInv, PreambleOK, Preamble, WorkOK, Reads, Building, None
<1>10. WorkOK'
  BY <1>1, <1>2, <1>3, <1>4, <1>5, <1>6
  DEF IInv, PreambleOK, WorkOK, Reads, Building, Handing, Verifying, Shipping, Landing, Local
<1>11. EndOK'
  BY <1>1, <1>2, <1>3, <1>4, <1>5, <1>6
  DEF IInv, WorkOK, Reads, Building, Handing, Verifying, Shipping, Landing, EndOK, Settling, Ending,
      None
<1> QED BY <1>7, <1>8, <1>9, <1>10, <1>11 DEF Stays

LEMMA CIGateKeeps == Steady /\ IInv /\ CIGate => Stays
<1> SUFFICES ASSUME Steady, IInv, CIGate PROVE Stays
  OBVIOUS
<1>1. pc = "gate" /\ Read
  BY DEF CIGate
<1>2. hydrated /\ Cached = mem
  BY <1>1, AtWork DEF Building, Handing, Verifying, Shipping, Landing
<1>3. UNCHANGED <<ckpt, mem, hydrated>>
  BY <1>1, <1>2, ReadKeeps
<1>4. UNCHANGED <<setup, hub, tracker, local, pushed, base, prs, gen, passed, verdict, from, stopped>>
  BY DEF CIGate, world, git, files, run
<1>5. pc' \in {"wait", "cirepair", "giveup"} \/ (pc' = "merge" /\ AutoMerge)
  BY <1>2 DEF CIGate
<1>6. RowsOK' /\ WorldOK'
  BY <1>3, <1>4, SameWorld
<1>7. RowsOK'
  BY <1>6
<1>8. WorldOK'
  BY <1>6
<1>9. PreambleOK'
  BY <1>1, <1>2, <1>3, <1>4, <1>5, <1>6 DEF IInv, PreambleOK, Preamble, WorkOK, Reads, Building, None
<1>10. WorkOK'
  BY <1>1, <1>2, <1>3, <1>4, <1>5, <1>6
  DEF IInv, PreambleOK, WorkOK, Reads, Building, Handing, Verifying, Shipping, Landing, AutoMerge,
      Skipped, Local
<1>11. EndOK'
  BY <1>1, <1>2, <1>3, <1>4, <1>5, <1>6
  DEF IInv, WorkOK, Reads, Building, Handing, Verifying, Shipping, Landing, EndOK, Settling, Ending,
      None
<1> QED BY <1>7, <1>8, <1>9, <1>10, <1>11 DEF Stays

LEMMA AwaitManualMergeKeeps == Steady /\ IInv /\ AwaitManualMerge => Stays
<1> SUFFICES ASSUME Steady, IInv, AwaitManualMerge PROVE Stays
  OBVIOUS
<1>1. pc = "wait" /\ Read
  BY DEF AwaitManualMerge, Unexpected
<1>2. hydrated /\ Cached = mem
  BY <1>1, AtWork DEF Building, Handing, Verifying, Shipping, Landing
<1>3. UNCHANGED <<ckpt, mem, hydrated>>
  BY <1>1, <1>2, ReadKeeps
<1>4. UNCHANGED <<setup, hub, tracker, local, pushed, base, prs, gen, passed, verdict, from, stopped>>
  BY DEF AwaitManualMerge, Unexpected, world, git, files, run
<1>5. pc' \in {"giveup", "stop", "fault"} \/ (pc' = "done" /\ prs[mem.pr] = "merged")
  BY <1>2 DEF AwaitManualMerge, Unexpected
<1>6. RowsOK' /\ WorldOK'
  BY <1>3, <1>4, SameWorld
<1>7. RowsOK'
  BY <1>6
<1>8. WorldOK'
  BY <1>6
<1>9. PreambleOK'
  BY <1>1, <1>2, <1>3, <1>4, <1>5, <1>6 DEF IInv, PreambleOK, Preamble, WorkOK, Reads, Building, None
<1>10. WorkOK'
  BY <1>1, <1>2, <1>3, <1>4, <1>5, <1>6
  DEF IInv, PreambleOK, WorkOK, Reads, Building, Handing, Verifying, Shipping, Landing
<1>11. EndOK'
  BY <1>1, <1>2, <1>3, <1>4, <1>5, <1>6
  DEF IInv, WorkOK, Reads, Building, Handing, Verifying, Shipping, Landing, EndOK, Settling, Ending,
      None, WorldOK
<1> QED BY <1>7, <1>8, <1>9, <1>10, <1>11 DEF Stays

LEMMA ClearFailureMarksKeeps == Steady /\ IInv /\ ClearFailureMarks => Stays
<1> SUFFICES ASSUME Steady, IInv, ClearFailureMarks PROVE Stays
  OBVIOUS
<1>1. pc = "marks" /\ hydrated /\ Cached = mem /\ (Read \/ PutMark(""))
  BY CachedIs DEF ClearFailureMarks, IInv, PreambleOK
<1>2. UNCHANGED <<setup, hub, tracker, local, pushed, base, prs, gen, passed, verdict, from, stopped>>
  BY DEF ClearFailureMarks, world, git, files, run
<1>3. pc' \in {"branch", "pause"}
  BY DEF ClearFailureMarks
<1>4. /\ RowsOK' /\ hydrated' /\ mem'.phase = mem.phase /\ mem'.branch = mem.branch
      /\ ckpt'.phase = ckpt.phase /\ ckpt'.branch = ckpt.branch
  <2>1. mem.phase = ckpt.phase /\ mem.branch = ckpt.branch
    BY <1>1 DEF IInv, PreambleOK
  <2>2. CASE Read
    <3>1. UNCHANGED <<ckpt, mem, hydrated>>
      BY <1>1, <2>2, ReadKeeps
    <3> QED BY <1>1, <1>2, <2>1, <3>1, SameRows DEF Stays
  <2>3. CASE PutMark("")
    <3>1. Writes(mem.phase, mem.pr, mem.branch, mem.done)
      BY <1>1, <2>3, WritesMark DEF IInv, FailureMark
    <3>2. RowFits(mem.phase, mem.branch, mem.done)
      BY <1>1, CachedFits
    <3>3. RowsOK'
      BY <1>1, <1>2, <3>1, <3>2, WrittenRows
    <3> QED BY <1>1, <2>1, <3>1, <3>3, WritesIs DEF IInv, Stays
  <2> QED BY <1>1, <2>2, <2>3 DEF Stays
<1>5. WorldOK'
  BY <1>2, <1>4, KeptWorld
<1>6. PreambleOK'
  BY <1>1, <1>2, <1>3, <1>4 DEF IInv, PreambleOK, Preamble
<1>7. WorkOK'
  BY <1>3 DEF WorkOK, Building, Handing, Verifying, Shipping, Landing
<1>8. EndOK'
  BY <1>1, <1>2, <1>3, <1>4 DEF IInv, PreambleOK, EndOK, Settling, Ending
<1> QED BY <1>4, <1>5, <1>6, <1>7, <1>8 DEF Stays

LEMMA MarkKeeps == Steady /\ IInv /\ Mark => Stays
<1> SUFFICES ASSUME Steady, IInv, Mark PROVE Stays
  OBVIOUS
<1>1. pc \in {"faulted", "stopping", "pause", "hubpause"} /\ pc' = "end"
  BY DEF Mark
<1>2. UNCHANGED <<setup, hub, tracker, local, pushed, base, prs, gen, passed, verdict, from, stopped>>
  BY DEF Mark, world, git, files, run
<1>3. hub \/ hydrated
  BY <1>1 DEF IInv, EndOK
<1>4. Writes(Cached.phase, Cached.pr, Cached.branch, Cached.done)
  BY <1>1, WritesMark DEF Mark, IInv, FailureMark
<1>5. hydrated' /\ mem'.phase = Cached.phase /\ ckpt' = IF hub THEN mem' ELSE ckpt
  BY <1>3, <1>4, WritesIs DEF IInv
<1>6. Cached = IF hydrated THEN mem ELSE ckpt
  BY <1>3, CachedIs
<1>7. RowsOK'
  BY <1>2, <1>3, <1>4, CachedFits, WrittenRows
<1>8. WorldOK'
  BY <1>2, <1>3, <1>5, <1>6 DEF IInv, WorldOK, EndOK, Local, LastIs, LastPR
<1>9. PreambleOK'
  BY <1>1 DEF PreambleOK, Preamble
<1>10. WorkOK'
  BY <1>1 DEF WorkOK, Building, Handing, Verifying, Shipping, Landing
<1>11. EndOK'
  BY <1>1, <1>3, <1>5, <1>6 DEF IInv, EndOK, Settling, Ending, None
<1> QED BY <1>7, <1>8, <1>9, <1>10, <1>11 DEF Stays

LEMMA RecordPRKeeps == Steady /\ IInv /\ RecordPR => Stays
<1> SUFFICES ASSUME Steady, IInv, RecordPR PROVE Stays
  OBVIOUS
<1>1. pc = "recordpr" /\ pc' = (IF hub THEN "propen" ELSE "hubpause")
      /\ Put([Cached EXCEPT !.pr = LastPR])
  BY DEF RecordPR, OrPause
<1>2. UNCHANGED <<setup, hub, tracker, local, pushed, base, prs, gen, passed, verdict, from, stopped>>
  BY DEF RecordPR, world, git, files, run
<1>3. hydrated /\ Cached = mem /\ mem.phase = "verified" /\ ckpt.phase = "verified"
  BY <1>1, AtWork DEF IInv, WorkOK, Reads, Shipping
<1>4. Writes("verified", LastPR, mem.branch, mem.done)
  BY <1>1, <1>3, WritesPR, LastTyped DEF IInv
<1>5. hydrated' /\ mem'.phase = "verified" /\ ckpt' = IF hub THEN mem' ELSE ckpt
  BY <1>3, <1>4, WritesIs DEF IInv
<1>6. RowsOK'
  BY <1>2, <1>3, <1>4, CachedFits, WrittenRows
<1>7. WorldOK'
  BY <1>2, <1>3, <1>5, KeptWorld
<1>8. PreambleOK'
  BY <1>1, <1>2, <1>3, <1>5 DEF PreambleOK, Preamble
<1>9. WorkOK'
  BY <1>1, <1>2, <1>3, <1>5 DEF IInv, WorkOK, Reads, Building, Handing, Verifying, Shipping, Landing
<1>10. EndOK'
  BY <1>1, <1>2, <1>3, <1>5 DEF IInv, EndOK, Settling, Ending, None
<1> QED BY <1>6, <1>7, <1>8, <1>9, <1>10 DEF Stays

LEMMA StampDoneKeeps == Steady /\ IInv /\ StampDone => Stays
<1> SUFFICES ASSUME Steady, IInv, StampDone PROVE Stays
  OBVIOUS
<1>1. pc = "stamp" /\ pc' = "settle" /\ Put([Cached EXCEPT !.done = TRUE])
  BY DEF StampDone
<1>2. UNCHANGED <<setup, hub, tracker, local, pushed, base, prs, gen, passed, verdict, from, stopped>>
  BY DEF StampDone, world, git, files, run
<1>3. hydrated /\ Cached = mem /\ gen \in base /\ tracker # "open"
      /\ ckpt.phase # "merged" /\ mem.phase # "merged"
  BY <1>1, AtWork DEF IInv, EndOK, Settling
<1>4. Writes(mem.phase, mem.pr, mem.branch, TRUE)
  BY <1>1, <1>3, WritesDone DEF IInv
<1>5. hydrated' /\ mem'.phase = mem.phase /\ ckpt' = IF hub THEN mem' ELSE ckpt
  BY <1>3, <1>4, WritesIs DEF IInv
<1>6. RowFits(mem.phase, mem.branch, TRUE) /\ mem.phase # None
  BY <1>3, CachedFits DEF RowFits, None
<1>7. RowsOK'
  BY <1>2, <1>3, <1>4, <1>6, WrittenRows
<1>8. WorldOK'
  BY <1>2, <1>5, <1>6, KeptWorld
<1>9. PreambleOK'
  BY <1>1, <1>2, <1>3, <1>5 DEF PreambleOK, Preamble
<1>10. WorkOK'
  BY <1>1 DEF WorkOK, Building, Handing, Verifying, Shipping, Landing
<1>11. EndOK'
  BY <1>1, <1>2, <1>3, <1>5, <1>6 DEF IInv, EndOK, Settling, Ending
<1> QED BY <1>7, <1>8, <1>9, <1>10, <1>11 DEF Stays

LEMMA InFlightIs ==
  \A phase \in Phase : InFlight(phase) <=> phase \in {"building", "built", "handed_off", "verified",
  "pr_open"}
<1> SUFFICES ASSUME NEW phase \in Phase
             PROVE  InFlight(phase) <=> phase \in {"building", "built", "handed_off", "verified",
                    "pr_open"}
  OBVIOUS
<1>1. DOMAIN Rank = {"building", "built", "handed_off", "verified", "pr_open", "releasing", "merged",
      "quarantined"}
  BY DEF Rank
<1>2. /\ Rank["building"] = 1 /\ Rank["built"] = 2 /\ Rank["handed_off"] = 3 /\ Rank["verified"] = 4
         /\ Rank["pr_open"] = 5
      /\ Rank["releasing"] = 6 /\ Rank["merged"] = 7 /\ Rank["quarantined"] = 9
  BY DEF Rank
<1>3. Idx(phase) = IF phase \in DOMAIN Rank THEN Rank[phase] ELSE 0
  BY DEF Idx
<1>4. phase = None \/ phase \in DOMAIN Rank
  BY DEF Phase
<1>5. CASE phase \in {"building", "built", "handed_off", "verified", "pr_open"}
  <2>1. Rank[phase] \in 1..5 /\ phase \in DOMAIN Rank
    BY <1>1, <1>2, <1>5
  <2>2. Idx(phase) = Rank[phase]
    BY <1>3, <2>1
  <2>3. InFlight(phase)
    BY <2>1, <2>2 DEF InFlight
  <2> QED BY <1>5, <2>3
<1>6. CASE phase \in {None, "releasing", "merged", "quarantined"}
  <2>1. Idx(phase) \in {0, 6, 7, 9}
    BY <1>1, <1>2, <1>3, <1>6 DEF None
  <2>2. ~InFlight(phase)
    BY <2>1 DEF InFlight
  <2>3. phase \notin {"building", "built", "handed_off", "verified", "pr_open"}
    BY <1>6 DEF None
  <2> QED BY <2>2, <2>3
<1> QED BY <1>1, <1>4, <1>5, <1>6

\* A hand that leaves the run, its rows and the branches alone leaves it where it stands.
LEMMA SamePlace ==
  ASSUME IInv, UNCHANGED <<setup, pc, from, ckpt, mem, hydrated, local, pushed, base, gen, passed,
         verdict>>,
         DOMAIN prs' = DOMAIN prs, tracker' = tracker \/ tracker' # "open",
         stopped' => stopped \/ pc \notin Preamble \cup {"off"}, hub => hub' \/ hydrated \/ pc = "off"
  PROVE  PreambleOK' /\ WorkOK' /\ EndOK'
<1>1. PreambleOK'
  BY DEF IInv, PreambleOK, Preamble, None
<1>2. WorkOK'
  BY DEF IInv, WorkOK, Reads, Local, AutoMerge, Skipped
<1>3. EndOK'
  BY DEF IInv, EndOK, Settling, Ending, None
<1> QED BY <1>1, <1>2, <1>3

LEMMA CancelKeeps == Steady /\ IInv /\ Cancel => Stays
<1> SUFFICES ASSUME Steady, IInv, Cancel PROVE Stays
  OBVIOUS
<1>1. pc \notin Preamble \cup {"off"}
  BY DEF Cancel, Gesture, Steady
<1>2. UNCHANGED <<setup, hub, tracker, local, pushed, base, prs, gen, passed, verdict, ckpt, pc, from,
      mem, hydrated>>
  BY DEF Cancel, world, git, files
<1> QED BY <1>1, <1>2, SamePlace, SameWorld DEF Stays

LEMMA HubLostKeeps == Steady /\ IInv /\ HubLost => Stays
<1> SUFFICES ASSUME Steady, IInv, HubLost PROVE Stays
  OBVIOUS
<1>1. hydrated \/ pc = "off"
  BY DEF HubLost, Gesture, Steady
<1>2. UNCHANGED <<setup, tracker, local, pushed, base, prs, gen, passed, verdict, ckpt, pc, from, mem,
      hydrated, stopped>>
  BY DEF HubLost, git, files, run
<1> QED BY <1>1, <1>2, SamePlace, SameWorld DEF Stays

LEMMA HubBackKeeps == Steady /\ IInv /\ HubBack => Stays
<1> SUFFICES ASSUME Steady, IInv, HubBack PROVE Stays
  OBVIOUS
<1>1. hub' /\ UNCHANGED <<setup, tracker, local, pushed, base, prs, gen, passed, verdict, ckpt, pc,
      from, mem, hydrated, stopped>>
  BY DEF HubBack, git, files, run
<1> QED BY <1>1, SamePlace, SameWorld DEF Stays

LEMMA TrackerEditedKeeps == Steady /\ IInv /\ TrackerEdited => Stays
<1> SUFFICES ASSUME Steady, IInv, TrackerEdited PROVE Stays
  OBVIOUS
<1>1. tracker' # "open"
  BY DEF TrackerEdited, Gesture, Steady
<1>2. UNCHANGED <<setup, hub, local, pushed, base, prs, gen, passed, verdict, ckpt, pc, from, mem,
      hydrated, stopped>>
  BY DEF TrackerEdited, git, files, run
<1> QED BY <1>1, <1>2, SamePlace, SameRows, KeptWorld DEF Stays

LEMMA HumanClosesKeeps == Steady /\ IInv /\ HumanCloses => Stays
<1> SUFFICES ASSUME Steady, IInv, HumanCloses PROVE Stays
  OBVIOUS
<1>1. UNCHANGED <<setup, hub, tracker, local, pushed, base, gen, passed, verdict, ckpt, pc, from, mem,
      hydrated, stopped>>
  BY DEF HumanCloses, files, run
<1>2. /\ DOMAIN prs' = DOMAIN prs /\ LastPR' = LastPR /\ LastPR \in DOMAIN prs /\ prs # <<>>
      /\ \A i \in DOMAIN prs : prs'[i] = IF i = LastPR THEN "closed" ELSE prs[i]
  <2>1. LastPR \in DOMAIN prs /\ prs \in Seq(Status)
    BY DEF HumanCloses, LastIs, LastPR, IInv, Typed, TypeOK, Status
  <2>2. prs' = [prs EXCEPT ![LastPR] = "closed"]
    BY DEF HumanCloses
  <2>3. LastPR' = LastPR
    BY <2>1, <2>2, RewrittenPRs DEF LastPR, Status
  <2> QED BY <2>1, <2>2, <2>3 DEF Stays
<1>3. WorldOK'
  BY <1>1, <1>2 DEF IInv, WorldOK, Local, LastIs
<1> QED BY <1>1, <1>2, <1>3, SamePlace, SameRows DEF Stays

LEMMA HumanMergesKeeps == Steady /\ IInv /\ HumanMerges => Stays
<1> SUFFICES ASSUME Steady, IInv, HumanMerges PROVE Stays
  OBVIOUS
<1>1. /\ UNCHANGED <<setup, hub, tracker, local, pushed, gen, passed, verdict, ckpt, pc, from, mem,
         hydrated, stopped>>
      /\ base' = base \cup {pushed} /\ LastIs("open")
  BY DEF HumanMerges, files, run
<1>2. /\ DOMAIN prs' = DOMAIN prs /\ LastPR' = LastPR /\ LastPR \in DOMAIN prs /\ prs[LastPR] = "open"
      /\ \A i \in DOMAIN prs : prs'[i] = IF i = LastPR THEN "merged" ELSE prs[i]
  <2>1. LastPR \in DOMAIN prs /\ prs \in Seq(Status)
    BY <1>1 DEF LastIs, LastPR, IInv, Typed, TypeOK, Status
  <2>2. prs' = [prs EXCEPT ![LastPR] = "merged"]
    BY DEF HumanMerges
  <2>3. LastPR' = LastPR
    BY <2>1, <2>2, RewrittenPRs DEF LastPR, Status
  <2> QED BY <1>1, <2>1, <2>2, <2>3 DEF LastIs, Stays
<1>3. pushed = gen /\ (ckpt.phase \in {"verified", "pr_open"} \/ (ckpt.phase = "quarantined"
      /\ pc = "off"))
  BY PhaseIs DEF HumanMerges, Gesture, Steady, Idx, Rank, IInv, Typed, TypeOK, Row
<1>4. local = gen /\ gen # 0 /\ ~Local /\ base' = {gen}
  BY <1>1, <1>2, <1>3 DEF IInv, WorldOK, LastIs
<1>5. hydrated => mem.phase \in {"verified", "pr_open", "quarantined", "merged"}
  BY <1>3 DEF IInv, PreambleOK, EndOK
<1>6. RowsOK'
  BY <1>1, <1>3, <1>4, <1>5 DEF IInv, RowsOK, RowOK, RowFits, Local
<1>7. WorldOK'
  BY <1>1, <1>2, <1>3, <1>4 DEF IInv, WorldOK, Local, LastIs, None
<1>8. PreambleOK'
  BY <1>1, <1>3 DEF IInv, PreambleOK, Preamble, None
<1>9. WorkOK'
  BY <1>1, <1>2 DEF IInv, WorkOK, Reads, Local, AutoMerge, Skipped
<1>10. EndOK'
  BY <1>1, <1>4 DEF IInv, EndOK, Settling, Ending, None
<1> QED BY <1>6, <1>7, <1>8, <1>9, <1>10 DEF Stays

LEMMA KillKeeps == Steady /\ IInv /\ Kill => Stays
<1> SUFFICES ASSUME Steady, IInv, Kill PROVE Stays
  OBVIOUS
<1>1. /\ UNCHANGED <<setup, hub, ckpt, tracker, local, pushed, base, prs, gen, passed>> /\ ~hydrated'
      /\ verdict' = verdict \/ verdict' = FALSE
  BY DEF Kill, Fresh, git
<1>2. pc' = "off" /\ ~stopped'
  BY DEF Kill, Fresh
<1>3. RowsOK' /\ WorldOK'
  BY <1>1, KeptWorld DEF IInv, RowsOK, RowOK, RowFits, Local
<1>4. PreambleOK' /\ WorkOK' /\ EndOK'
  BY <1>1, <1>2
  DEF PreambleOK, Preamble, WorkOK, Building, Handing, Verifying, Shipping, Landing, EndOK, Settling,
  Ending
<1> QED BY <1>3, <1>4 DEF Stays

LEMMA EndKeeps == Steady /\ IInv /\ End => Stays
<1> SUFFICES ASSUME Steady, IInv, End PROVE Stays
  OBVIOUS
<1>1. UNCHANGED <<setup, hub, ckpt, tracker, local, pushed, base, prs, gen, passed, verdict>>
      /\ ~hydrated'
  BY DEF End, Fresh, git
<1>2. pc' = "off" /\ ~stopped'
  BY DEF End, Fresh
<1>3. RowsOK' /\ WorldOK'
  BY <1>1, KeptWorld DEF IInv, RowsOK, RowOK, RowFits, Local
<1>4. PreambleOK' /\ WorkOK' /\ EndOK'
  BY <1>1, <1>2
  DEF PreambleOK, Preamble, WorkOK, Building, Handing, Verifying, Shipping, Landing, EndOK, Settling,
  Ending
<1> QED BY <1>3, <1>4 DEF Stays

LEMMA BeginKeeps == Steady /\ IInv /\ Begin => Stays
<1> SUFFICES ASSUME Steady, IInv, Begin PROVE Stays
  OBVIOUS
<1>1. UNCHANGED <<setup, hub, ckpt, mem, hydrated, tracker, local, pushed, base, prs, gen, passed,
      verdict, stopped>>
  BY DEF Begin, world, git, files
<1>2. pc = "off" /\ hub /\ ckpt.phase # "quarantined" /\ ~hydrated /\ ~stopped
  BY DEF Begin, IInv, PreambleOK
<1>3. from' = (IF InFlight(ckpt.phase) THEN ckpt.phase ELSE None)
  BY DEF Begin
<1>4. pc' = "resume" \/ (pc' = "infer" /\ ckpt.phase = None /\ local # 0)
  BY DEF Begin
<1>5. ckpt.phase \in Phase \ {"releasing"} /\ (gen \in base => ckpt.phase \notin {None, "building"})
  BY DEF IInv, Typed, TypeOK, Row, RowsOK, RowOK, RowFits, None
<1>6. RowsOK' /\ WorldOK'
  BY <1>1, SameWorld
<1>7. /\ ~InFlight(None)
      /\ ckpt.phase \in Phase \ {"releasing"} /\ ~InFlight(ckpt.phase) => ckpt.phase \in {None,
         "quarantined", "merged"}
  BY InFlightIs, PhaseIs DEF None
<1>8. PreambleOK'
  BY <1>1, <1>2, <1>3, <1>4, <1>5, <1>7 DEF PreambleOK, Preamble
<1>9. WorkOK'
  BY <1>4 DEF WorkOK, Building, Handing, Verifying, Shipping, Landing
<1>10. EndOK'
  BY <1>1, <1>2, <1>4 DEF IInv, EndOK, Settling, Ending, None
<1> QED BY <1>6, <1>8, <1>9, <1>10 DEF Stays

LEMMA RestartIs ==
  ASSUME Steady, NEW g, g # "forget", Restart(g)
  PROVE  MergedPR = 0 /\ gen \notin base /\ g \in Gestures
BY DEF Steady, Restart, Gesture

LEMMA RerunKeeps == Steady /\ IInv /\ Rerun => Stays
<1> SUFFICES ASSUME Steady, IInv, Rerun PROVE Stays
  OBVIOUS
<1>1. UNCHANGED <<setup, hub, ckpt, mem, hydrated, tracker, local, pushed, base, prs, gen, passed,
      verdict, stopped>>
  BY DEF Rerun, world, git, files
<1>2. pc = "off" /\ hub /\ ckpt.phase = "quarantined" /\ ~hydrated /\ ~stopped /\ pc' = "resume"
  BY DEF Rerun, IInv, PreambleOK
<1>3. from' = None /\ gen \notin base
  BY RestartIs DEF Rerun, Steady
<1>4. RowsOK' /\ WorldOK'
  BY <1>1, SameWorld
<1>5. PreambleOK'
  BY <1>1, <1>2, <1>3 DEF PreambleOK, Preamble, None
<1>6. WorkOK'
  BY <1>2 DEF WorkOK, Building, Handing, Verifying, Shipping, Landing
<1>7. EndOK'
  BY <1>1, <1>2 DEF IInv, EndOK, Settling, Ending, None
<1> QED BY <1>4, <1>5, <1>6, <1>7 DEF Stays

LEMMA DropKeeps ==
  ASSUME Steady, IInv, pc = "off", NEW g \in {"clear", "reconcile"}, DropRow(g), UNCHANGED <<world, pc,
         mem, hydrated, run>>
  PROVE  Stays
<1>1. UNCHANGED <<setup, hub, tracker, local, pushed, base, prs, gen, passed, verdict, pc, mem,
      hydrated, from, stopped>>
  BY DEF world, git, files, run
<1>2. ckpt' = Blank /\ gen \notin base /\ (LastIs("open") => pushed = gen /\ gen \in passed)
  BY RestartIs DEF DropRow, Steady
<1>3. ~hydrated /\ ~stopped
  BY DEF IInv, PreambleOK
<1>4. RowsOK'
  <2>1. ckpt'.phase = None /\ ~ckpt'.branch /\ ~ckpt'.done /\ UNCHANGED <<gen, base>>
    BY <1>1, <1>2, BlankIs
  <2>2. RowOK(ckpt)'
    BY <1>2, <2>1 DEF RowOK, RowFits, None
  <2> QED BY <1>1, <1>3, <2>2 DEF RowsOK, Stays
<1>5. WorldOK'
  BY <1>1, <1>2 DEF IInv, WorldOK, Local, LastIs, LastPR
<1>6. PreambleOK' /\ WorkOK' /\ EndOK'
  BY <1>1, <1>3
  DEF PreambleOK, Preamble, WorkOK, Building, Handing, Verifying, Shipping, Landing, EndOK, Settling,
  Ending
<1> QED BY <1>4, <1>5, <1>6 DEF Stays

LEMMA ClearRowKeeps == Steady /\ IInv /\ ClearRow => Stays
BY DropKeeps DEF ClearRow

LEMMA ReconcileKeeps == Steady /\ IInv /\ Reconcile => Stays
BY DropKeeps DEF Reconcile

\* A reset of unlanded work leaves no branch, no open PR and no row.
LEMMA ResetLocalIs ==
  ASSUME IInv, ResetLocal, Cached.branch \/ local # 0 \/ pushed = 0
  PROVE  /\ local' = 0 /\ pushed' = 0 /\ UNCHANGED base /\ ~verdict' /\ ~hydrated'
            /\ (Local => prs' = <<>>)
         /\ ckpt' = IF hub THEN Blank ELSE ckpt
         /\ LastPR' = LastPR /\ DOMAIN prs' = DOMAIN prs
         /\ \A i \in DOMAIN prs : prs'[i] = (IF prs[i] = "open" THEN "closed" ELSE prs[i])
<1>1. prs \in Seq(Status) /\ (Local => prs = <<>>)
  BY DEF IInv, Typed, TypeOK, Status, WorldOK
<1>2. local = 0 => pushed = 0
  BY DEF IInv, WorldOK
<1>3. local' = 0 /\ pushed' = 0
  BY <1>2 DEF ResetLocal
<1>4. /\ UNCHANGED base /\ ~verdict' /\ ~hydrated' /\ ckpt' = IF hub THEN Blank ELSE ckpt
  BY DEF ResetLocal, Remove
<1>5. CASE pushed = 0
  <2>1. prs' = prs /\ \A i \in DOMAIN prs : prs[i] # "open"
    BY <1>5 DEF ResetLocal, IInv, WorldOK
  <2> QED BY <1>1, <1>3, <1>4, <2>1 DEF LastPR
<1>6. CASE pushed # 0
  <2>1. prs' = CloseOpen
    BY <1>2, <1>6 DEF ResetLocal
  <2>2. LastPR' = LastPR /\ DOMAIN prs' = DOMAIN prs
    BY <1>1, <2>1, CloseIs DEF LastPR
  <2>3. ~Local
    BY <1>6 DEF IInv, WorldOK
  <2> QED BY <1>1, <1>3, <1>4, <2>1, <2>2, <2>3, CloseIs
<1> QED BY <1>5, <1>6

LEMMA ResetKeepsWorld ==
  ASSUME IInv, ResetLocal, Cached.branch \/ local # 0
         \/ pushed = 0, gen \notin base, UNCHANGED <<setup, gen, passed>>
  PROVE  RowsOK' /\ WorldOK'
<1>1. /\ local' = 0 /\ pushed' = 0 /\ UNCHANGED base /\ ~verdict' /\ ~hydrated'
         /\ (Local => prs' = <<>>)
      /\ ckpt' = IF hub THEN Blank ELSE ckpt
      /\ LastPR' = LastPR /\ DOMAIN prs' = DOMAIN prs
      /\ \A i \in DOMAIN prs : prs'[i] = (IF prs[i] = "open" THEN "closed" ELSE prs[i])
  BY ResetLocalIs
<1>2. RowOK(ckpt) /\ ~ckpt.done
  BY DEF IInv, RowsOK, RowOK, RowFits
<1>3. RowOK(ckpt)'
  <2>1. CASE hub
    <3>1. ckpt'.phase = None /\ ~ckpt'.branch /\ ~ckpt'.done
      BY <1>1, <2>1, BlankIs
    <3> QED BY <1>1, <3>1 DEF RowOK, RowFits, None
  <2>2. CASE ~hub
    BY <1>1, <1>2, <2>2 DEF RowOK, RowFits
  <2> QED BY <2>1, <2>2
<1>4. WorldOK'
  <2>1. LastPR # 0 => LastPR \in DOMAIN prs
    BY DEF LastPR, IInv, Typed, TypeOK
  <2> QED BY <1>1, <2>1 DEF IInv, WorldOK, Local, LastIs
<1> QED BY <1>1, <1>3, <1>4 DEF RowsOK

LEMMA ResetKeeps == Steady /\ IInv /\ Reset => Stays
<1> SUFFICES ASSUME Steady, IInv, Reset PROVE Stays
  OBVIOUS
<1>1. pc' = "off" /\ ~stopped' /\ UNCHANGED <<setup, gen, passed>> /\ ResetLocal /\ gen \notin base
  BY RestartIs DEF Reset, run, IInv, PreambleOK, Preamble
<1>2. local # 0 \/ pushed = 0
  BY DEF IInv, WorldOK
<1>3. ~hydrated'
  BY <1>1 DEF ResetLocal, Remove
<1>4. PreambleOK' /\ WorkOK' /\ EndOK'
  BY <1>1, <1>3
  DEF PreambleOK, Preamble, WorkOK, Building, Handing, Verifying, Shipping, Landing, EndOK, Settling,
  Ending
<1> QED BY <1>1, <1>2, <1>4, ResetKeepsWorld DEF Stays

LEMMA RequeueKeeps == Steady /\ IInv /\ Requeue => Stays
<1> SUFFICES ASSUME Steady, IInv, Requeue PROVE Stays
  OBVIOUS
<1>1. pc' = "off" /\ ~stopped' /\ UNCHANGED <<setup, gen, passed>> /\ gen \notin base /\ ~hydrated
  BY RestartIs DEF Requeue, run, IInv, PreambleOK, Preamble
<1>2. local # 0 \/ pushed = 0
  BY DEF IInv, WorldOK
<1>3. ~hydrated' /\ RowsOK' /\ WorldOK'
  <2>1. CASE ResetLocal
    BY <1>1, <1>2, <2>1, ResetKeepsWorld DEF ResetLocal, Remove
  <2>2. CASE UNCHANGED <<ckpt, git, files, mem, hydrated>>
    <3>1. ~ckpt.done
      BY <1>1 DEF IInv, RowsOK, RowOK, RowFits
    <3>2. UNCHANGED <<ckpt, mem, hydrated, local, pushed, base, prs, verdict>>
      BY <2>2 DEF git, files
    <3>3. RowsOK'
      BY <1>1, <3>1, <3>2 DEF IInv, RowsOK, RowOK, RowFits, Local
    <3> QED BY <1>1, <3>2, <3>3, KeptWorld DEF Stays
  <2> QED BY <2>1, <2>2 DEF Requeue, Stays
<1>4. PreambleOK' /\ WorkOK' /\ EndOK'
  BY <1>1, <1>3
  DEF PreambleOK, Preamble, WorkOK, Building, Handing, Verifying, Shipping, Landing, EndOK, Settling,
  Ending
<1> QED BY <1>3, <1>4 DEF Stays

LEMMA AdvanceKeeps == Steady /\ IInv /\ Advance => Stays
<1> SUFFICES ASSUME Steady, IInv, Advance PROVE Stays
  OBVIOUS
<1>1. /\ UNCHANGED <<setup, hub, tracker, local, pushed, base, prs, gen, verdict, pc, mem, hydrated,
         from, stopped>>
      /\ pc = "off" /\ ckpt.branch /\ local # 0
  BY DEF Advance, git, run
<1>2. local = gen /\ ~hydrated /\ ~stopped
  BY <1>1 DEF IInv, WorldOK, PreambleOK
<1>3. ckpt \in Row /\ AdvancedPhase(ckpt.phase) # None
      /\ ckpt' = [ckpt EXCEPT !.phase = AdvancedPhase(ckpt.phase)]
  BY DEF Advance, IInv, Typed, TypeOK
<1>4. /\ ckpt.phase \in {"building", "built", "handed_off"}
      /\ AdvancedPhase(ckpt.phase) \in {"built", "handed_off", "verified"}
  BY <1>3 DEF AdvancedPhase
<1>5. ckpt'.phase \in {"built", "handed_off", "verified"} /\ ckpt'.branch = ckpt.branch
      /\ ckpt'.done = ckpt.done
  BY <1>3, <1>4 DEF Row
<1>6. passed \subseteq passed' /\ (ckpt'.phase = "verified" => gen \in passed')
  BY <1>2 DEF Advance
<1>7. RowsOK'
  BY <1>1, <1>2, <1>4, <1>5, <1>6 DEF IInv, RowsOK, RowOK, RowFits
<1>8. WorldOK'
  BY <1>1, <1>5, <1>6 DEF IInv, WorldOK, Local, LastIs, LastPR, None
<1>9. PreambleOK' /\ WorkOK' /\ EndOK'
  BY <1>1, <1>2
  DEF PreambleOK, Preamble, WorkOK, Building, Handing, Verifying, Shipping, Landing, EndOK, Settling,
  Ending
<1> QED BY <1>7, <1>8, <1>9 DEF Stays

LEMMA InReviewKeeps == Steady /\ IInv /\ InReview => Stays
<1> SUFFICES ASSUME Steady, IInv, InReview PROVE Stays
  OBVIOUS
<1>1. pc = "review" /\ Read /\ (pc' = "ci")
  BY DEF InReview
<1>2. UNCHANGED <<setup, hub, local, pushed, base, prs, gen, passed, verdict, from, stopped>>
  BY DEF InReview, git, files, run
<1>3. hydrated /\ (tracker' = tracker \/ tracker' # "open")
  BY <1>1, AtWork DEF InReview, Landing, Tell
<1>4. UNCHANGED <<ckpt, mem, hydrated>>
  BY <1>1, <1>3, ReadKeeps
<1>5. RowsOK'
  BY <1>2, <1>3, <1>4, SameRows
<1>6. WorldOK'
  BY <1>2, <1>4, KeptWorld
<1>7. PreambleOK'
  BY <1>1 DEF PreambleOK, Preamble
<1>8. WorkOK'
  BY <1>1, <1>2, <1>4 DEF IInv, WorkOK, Reads, Building, Handing, Verifying, Shipping, Landing
<1>9. EndOK'
  BY <1>1, <1>2, <1>3, <1>4 DEF IInv, EndOK, Settling, Ending
<1> QED BY <1>5, <1>6, <1>7, <1>8, <1>9 DEF Stays

LEMMA LabelKeeps == Steady /\ IInv /\ Label => Stays
<1> SUFFICES ASSUME Steady, IInv, Label PROVE Stays
  OBVIOUS
<1>1. pc = "label" /\ Read /\ (pc' = "end")
  BY DEF Label
<1>2. UNCHANGED <<setup, hub, local, pushed, base, prs, gen, passed, verdict, from, stopped>>
  BY DEF Label, git, files, run
<1>3. hydrated /\ (tracker' = tracker \/ tracker' # "open")
  BY <1>1, AtWork DEF Label, Ending, Tell
<1>4. UNCHANGED <<ckpt, mem, hydrated>>
  BY <1>1, <1>3, ReadKeeps
<1>5. RowsOK'
  BY <1>2, <1>3, <1>4, SameRows
<1>6. WorldOK'
  BY <1>2, <1>4, KeptWorld
<1>7. PreambleOK'
  BY <1>1 DEF PreambleOK, Preamble
<1>8. WorkOK'
  BY <1>1, <1>2, <1>4 DEF IInv, WorkOK, Reads, Building, Handing, Verifying, Shipping, Landing
<1>9. EndOK'
  BY <1>1, <1>2, <1>3, <1>4 DEF IInv, EndOK, Settling, Ending
<1> QED BY <1>5, <1>6, <1>7, <1>8, <1>9 DEF Stays

LEMMA MarkDoneKeeps == Steady /\ IInv /\ MarkDone => Stays
<1> SUFFICES ASSUME Steady, IInv, MarkDone PROVE Stays
  OBVIOUS
<1>1. pc = "done" /\ Read /\ (pc' = "settle" \/ (pc' = "stamp" /\ tracker' # "open"))
  BY DEF MarkDone
<1>2. UNCHANGED <<setup, hub, local, pushed, base, prs, gen, passed, verdict, from, stopped>>
  BY DEF MarkDone, git, files, run
<1>3. hydrated /\ (tracker' = tracker \/ tracker' # "open")
  BY <1>1, AtWork DEF MarkDone, Settling
<1>4. UNCHANGED <<ckpt, mem, hydrated>>
  BY <1>1, <1>3, ReadKeeps
<1>5. RowsOK'
  BY <1>2, <1>3, <1>4, SameRows
<1>6. WorldOK'
  BY <1>2, <1>4, KeptWorld
<1>7. PreambleOK'
  BY <1>1 DEF PreambleOK, Preamble
<1>8. WorkOK'
  BY <1>1, <1>2, <1>4 DEF IInv, WorkOK, Reads, Building, Handing, Verifying, Shipping, Landing
<1>9. EndOK'
  BY <1>1, <1>2, <1>3, <1>4 DEF IInv, EndOK, Settling, Ending
<1> QED BY <1>5, <1>6, <1>7, <1>8, <1>9 DEF Stays

\* What was preserved is the latest build.
LEMMA PreserveKeeps ==
  ASSUME IInv, hydrated, Preserve
  PROVE  /\ RowsOK' /\ WorldOK'
         /\ UNCHANGED <<hub, ckpt, mem, hydrated, local, base, gen, tracker>>
<1>1. UNCHANGED <<setup, hub, tracker, local, base, prs, gen, passed, verdict, from, stopped>>
  BY DEF Preserve, run
<1>2. UNCHANGED <<ckpt, mem, hydrated>>
  BY ReadKeeps DEF Preserve
<1>3. pushed' = pushed \/ (pushed' = local /\ local # 0 /\ ~Local)
  BY DEF Preserve
<1>4. RowsOK'
  BY <1>1, <1>2, <1>3 DEF IInv, RowsOK, RowOK, RowFits, WorldOK, Local
<1>5. WorldOK'
  BY <1>1, <1>2, <1>3 DEF IInv, RowsOK, RowOK, RowFits, WorldOK, Local, LastIs, LastPR
<1> QED BY <1>1, <1>2, <1>4, <1>5

LEMMA GiveUpKeeps == Steady /\ IInv /\ GiveUp => Stays
<1> SUFFICES ASSUME Steady, IInv, GiveUp PROVE Stays
  OBVIOUS
<1>1. pc = "giveup" /\ pc' \in {"end", "quarantine"}
  BY DEF GiveUp
<1>2. hydrated
  BY <1>1, AtWork DEF Ending
<1>3. RowsOK' /\ WorldOK' /\ UNCHANGED <<hub, ckpt, mem, hydrated, gen, base>>
  <2>1. CASE Preserve
    BY <1>2, <2>1, PreserveKeeps
  <2>2. CASE Read /\ UNCHANGED <<world, run, left>>
    <3>1. UNCHANGED <<setup, hub, tracker, local, pushed, base, prs, gen, passed, verdict>>
      BY <2>2 DEF world, git, files
    <3>2. UNCHANGED <<ckpt, mem, hydrated>>
      BY <1>2, <2>2, ReadKeeps
    <3> QED BY <3>1, <3>2, SameWorld DEF Stays
  <2> QED BY <2>1, <2>2 DEF GiveUp, Stays
<1>4. PreambleOK'
  BY <1>1 DEF PreambleOK, Preamble
<1>5. WorkOK'
  BY <1>1 DEF WorkOK, Building, Handing, Verifying, Shipping, Landing
<1>6. EndOK'
  BY <1>1, <1>2, <1>3 DEF IInv, EndOK, Settling, Ending
<1> QED BY <1>3, <1>4, <1>5, <1>6 DEF Stays

LEMMA FaultKeeps == Steady /\ IInv /\ Fault => Stays
<1> SUFFICES ASSUME Steady, IInv, Fault PROVE Stays
  OBVIOUS
<1>1. pc = "fault" /\ pc' = "faulted"
  BY DEF Fault
<1>2. hydrated
  BY <1>1, AtWork DEF Ending
<1>3. RowsOK' /\ WorldOK' /\ UNCHANGED <<hub, ckpt, mem, hydrated, gen, base>>
  BY <1>2, PreserveKeeps DEF Fault
<1>4. PreambleOK'
  BY <1>1 DEF PreambleOK, Preamble
<1>5. WorkOK'
  BY <1>1 DEF WorkOK, Building, Handing, Verifying, Shipping, Landing
<1>6. EndOK'
  BY <1>1, <1>2, <1>3 DEF IInv, EndOK, Settling, Ending
<1> QED BY <1>3, <1>4, <1>5, <1>6 DEF Stays

LEMMA StopKeeps == Steady /\ IInv /\ Stop => Stays
<1> SUFFICES ASSUME Steady, IInv, Stop PROVE Stays
  OBVIOUS
<1>1. pc = "stop" /\ pc' = "stopping"
  BY DEF Stop
<1>2. hydrated
  BY <1>1, AtWork DEF Ending
<1>3. RowsOK' /\ WorldOK' /\ UNCHANGED <<hub, ckpt, mem, hydrated, gen, base>>
  BY <1>2, PreserveKeeps DEF Stop
<1>4. PreambleOK'
  BY <1>1 DEF PreambleOK, Preamble
<1>5. WorkOK'
  BY <1>1 DEF WorkOK, Building, Handing, Verifying, Shipping, Landing
<1>6. EndOK'
  BY <1>1, <1>2, <1>3 DEF IInv, EndOK, Settling, Ending
<1> QED BY <1>3, <1>4, <1>5, <1>6 DEF Stays

LEMMA HandoffKeeps == Steady /\ IInv /\ Handoff => Stays
<1> SUFFICES ASSUME Steady, IInv, Handoff PROVE Stays
  OBVIOUS
<1>1. pc = "handoff"
  BY DEF Handoff
<1>2. hydrated /\ Cached = mem /\ mem.phase = "built" /\ ckpt.phase = "built"
  BY <1>1, AtWork DEF Handing, IInv, WorkOK, Reads
<1>3. CASE AgentFails
  BY <1>1, <1>2, <1>3, FailsKeeps
<1>4. CASE ~(AgentFails)
  <2>1. UNCHANGED <<setup, hub, tracker, local, pushed, base, prs, gen, passed, verdict, from, stopped>>
        /\ pc' = "handed" /\ Read
    BY <1>4 DEF Handoff, git, run
  <2>2. UNCHANGED <<ckpt, mem, hydrated>>
    BY <1>2, <2>1, ReadKeeps
  <2>3. RowsOK'
    BY <1>1, <1>2, <2>1, <2>2, SameWorld
  <2>4. WorldOK'
    BY <1>1, <1>2, <2>1, <2>2, SameWorld
  <2>5. PreambleOK'
    BY <1>1, <1>2, <2>1, <2>2 DEF PreambleOK, Preamble
  <2>6. WorkOK'
    BY <1>1, <1>2, <2>1, <2>2 DEF IInv, WorkOK, Reads, Building, Handing, Verifying, Shipping, Landing
  <2>7. EndOK'
    BY <1>1, <1>2, <2>1, <2>2 DEF IInv, EndOK, Settling, Ending, None
  <2> QED BY <2>3, <2>4, <2>5, <2>6, <2>7 DEF Stays
<1> QED BY <1>3, <1>4 DEF Stays

LEMMA BriefKeeps == Steady /\ IInv /\ Brief => Stays
<1> SUFFICES ASSUME Steady, IInv, Brief PROVE Stays
  OBVIOUS
<1>1. pc = "brief"
  BY DEF Brief
<1>2. hydrated /\ Cached = mem /\ mem.phase = "handed_off" /\ ckpt.phase = "handed_off"
  BY <1>1, AtWork DEF Verifying, IInv, WorkOK, Reads
<1>3. CASE AgentFails
  BY <1>1, <1>2, <1>3, FailsKeeps
<1>4. CASE ~(AgentFails)
  <2>1. UNCHANGED <<setup, hub, tracker, local, pushed, base, prs, gen, verdict, from, stopped>>
        /\ pc' \in {"verified", "verify"} /\ Read
    BY <1>4 DEF Brief, git, run, files
  <2>2. UNCHANGED <<ckpt, mem, hydrated>>
    BY <1>2, <2>1, ReadKeeps
  <2>3. passed \subseteq passed' /\ (pc' = "verified" => gen \in passed')
    <3>1. local = gen
      BY <1>1 DEF IInv, WorkOK, Verifying, WorldOK
    <3> QED BY <1>4, <3>1 DEF Brief, Stays
  <2>4. RowsOK'
    BY <1>1, <1>2, <2>1, <2>2, <2>3 DEF IInv, RowsOK, RowOK, RowFits, Local
  <2>5. WorldOK'
    BY <1>1, <1>2, <2>1, <2>2, <2>3 DEF IInv, WorldOK, Local, LastIs, LastPR, None
  <2>6. PreambleOK'
    BY <1>1, <1>2, <2>1, <2>2, <2>3 DEF PreambleOK, Preamble
  <2>7. WorkOK'
    BY <1>1, <1>2, <2>1, <2>2, <2>3
    DEF IInv, WorkOK, Reads, Building, Handing, Verifying, Shipping, Landing
  <2>8. EndOK'
    BY <1>1, <1>2, <2>1, <2>2, <2>3 DEF IInv, EndOK, Settling, Ending, None
  <2> QED BY <2>4, <2>5, <2>6, <2>7, <2>8 DEF Stays
<1> QED BY <1>3, <1>4 DEF Stays

LEMMA AttemptKeeps ==
  ASSUME IInv, hydrated, local = gen, mem.phase = "handed_off", ckpt.phase = "handed_off", NEW pass,
         NEW fail,
         Attempt(pass, fail)
  PROVE  /\ RowsOK' /\ WorldOK'
         /\ UNCHANGED <<setup, hub, tracker, local, pushed, base, prs, gen, from, stopped, ckpt, mem,
            hydrated>>
         /\ (pc' = fail \/ (pc' = pass /\ gen \in passed'))
<1>1. PICK ok \in Verdicts : /\ verdict' = ok /\ pc' = (IF ok THEN pass ELSE fail)
                             /\ passed' = (IF ok THEN passed \cup {local} ELSE passed \ {local})
  BY DEF Attempt
<1>2. Read /\ UNCHANGED <<setup, hub, tracker, local, pushed, base, prs, gen, from, stopped>>
  BY DEF Attempt, git, run
<1>3. UNCHANGED <<ckpt, mem, hydrated>>
  BY <1>2, ReadKeeps
<1>4. (verdict' => gen \in passed') /\ (pc' = fail \/ (pc' = pass /\ gen \in passed'))
  BY <1>1
<1>5. RowsOK'
  BY <1>2, <1>3 DEF IInv, RowsOK, RowOK, RowFits, Local
<1>6. WorldOK'
  BY <1>2, <1>3, <1>4 DEF IInv, WorldOK, Local, LastIs, LastPR, None
<1> QED BY <1>2, <1>3, <1>4, <1>5, <1>6

LEMMA VerifyKeeps == Steady /\ IInv /\ Verify => Stays
<1> SUFFICES ASSUME Steady, IInv, Verify PROVE Stays
  OBVIOUS
<1>1. pc = "verify"
  BY DEF Verify
<1>2. hydrated /\ Cached = mem /\ mem.phase = "handed_off" /\ ckpt.phase = "handed_off"
  BY <1>1, AtWork DEF Verifying, IInv, WorkOK, Reads
<1>3. CASE AgentFails
  BY <1>1, <1>2, <1>3, FailsKeeps
<1>4. CASE ~(AgentFails)
  <2>1. local = gen /\ local # 0
    BY <1>1 DEF IInv, WorkOK, Verifying, WorldOK
  <2>2. RowsOK' /\ WorldOK' /\ UNCHANGED <<setup, hub, tracker, local, pushed, base, prs, gen, from,
        stopped>> /\ UNCHANGED <<ckpt, mem, hydrated>> /\ (pc' = "failed" \/ (pc' = "browser"
        /\ gen \in passed'))
    BY <1>2, <1>4, <2>1, AttemptKeeps DEF Verify, VerifyEnds
  <2>3. RowsOK'
    BY <1>1, <1>2, <2>1, <2>2
  <2>4. WorldOK'
    BY <1>1, <1>2, <2>1, <2>2
  <2>5. PreambleOK'
    BY <1>1, <1>2, <2>1, <2>2 DEF PreambleOK, Preamble
  <2>6. WorkOK'
    BY <1>1, <1>2, <2>1, <2>2 DEF IInv, WorkOK, Reads, Building, Handing, Verifying, Shipping, Landing
  <2>7. EndOK'
    BY <1>1, <1>2, <2>1, <2>2 DEF IInv, EndOK, Settling, Ending, None
  <2> QED BY <2>3, <2>4, <2>5, <2>6, <2>7 DEF Stays
<1> QED BY <1>3, <1>4 DEF Stays

LEMMA BrowserGateKeeps == Steady /\ IInv /\ BrowserGate => Stays
<1> SUFFICES ASSUME Steady, IInv, BrowserGate PROVE Stays
  OBVIOUS
<1>1. pc = "browser"
  BY DEF BrowserGate
<1>2. hydrated /\ Cached = mem /\ mem.phase = "handed_off" /\ ckpt.phase = "handed_off"
  BY <1>1, AtWork DEF Verifying, IInv, WorkOK, Reads
<1>3. CASE AgentFails
  BY <1>1, <1>2, <1>3, FailsKeeps
<1>4. CASE ~(AgentFails)
  <2>1. local = gen /\ local # 0
    BY <1>1 DEF IInv, WorkOK, Verifying, WorldOK
  <2>2. \/ pc' = "verified" /\ Read /\ UNCHANGED <<world, run, left>>
        \/ Attempt("pause", "pause")
    BY <1>4 DEF BrowserGate, VerifyEnds, Steady, IInv, Typed, TypeOK
  <2>3. /\ RowsOK' /\ WorldOK' /\ UNCHANGED <<setup, hub, tracker, local, pushed, base, prs, gen, from,
           stopped>> /\ UNCHANGED <<ckpt, mem, hydrated>>
        /\ pc' = "pause" \/ (pc' = "verified" /\ UNCHANGED passed)
    <3>1. CASE Attempt("pause", "pause")
      BY <1>2, <2>1, <3>1, AttemptKeeps
    <3>2. CASE pc' = "verified" /\ Read /\ UNCHANGED <<world, run, left>>
      <4>1. UNCHANGED <<setup, hub, tracker, local, pushed, base, prs, gen, passed, verdict, from,
            stopped>>
        BY <3>2 DEF world, git, files, run
      <4>2. UNCHANGED <<ckpt, mem, hydrated>>
        BY <1>2, <3>2, ReadKeeps
      <4> QED BY <3>2, <4>1, <4>2, SameWorld DEF Stays
    <3> QED BY <2>2, <3>1, <3>2 DEF Stays
  <2>4. RowsOK'
    BY <1>1, <1>2, <2>1, <2>2, <2>3
  <2>5. WorldOK'
    BY <1>1, <1>2, <2>1, <2>2, <2>3
  <2>6. PreambleOK'
    BY <1>1, <1>2, <2>1, <2>2, <2>3 DEF PreambleOK, Preamble
  <2>7. WorkOK'
    BY <1>1, <1>2, <2>1, <2>2, <2>3
    DEF IInv, WorkOK, Reads, Building, Handing, Verifying, Shipping, Landing
  <2>8. EndOK'
    BY <1>1, <1>2, <2>1, <2>2, <2>3 DEF IInv, EndOK, Settling, Ending, None
  <2> QED BY <2>4, <2>5, <2>6, <2>7, <2>8 DEF Stays
<1> QED BY <1>3, <1>4 DEF Stays

LEMMA PushKeeps == Steady /\ IInv /\ Push => Stays
<1> SUFFICES ASSUME Steady, IInv, Push PROVE Stays
  OBVIOUS
<1>1. pc = "push"
  BY DEF Push
<1>2. hydrated /\ Cached = mem /\ mem.phase = "verified" /\ ckpt.phase = "verified"
  BY <1>1, AtWork DEF Shipping, IInv, WorkOK, Reads
<1>3. CASE AgentFails \/ Fails \/ GivesUp
  BY <1>1, <1>2, <1>3, FailsKeeps
<1>4. CASE ~(AgentFails \/ Fails \/ GivesUp)
  <2>1. local = gen /\ local # 0 /\ ~Local
    BY <1>1 DEF IInv, WorkOK, Shipping, WorldOK
  <2>2. UNCHANGED <<setup, hub, tracker, local, base, prs, gen, passed, verdict, from, stopped>> /\ Read
        /\ ((pc' = "push" /\ pushed' = pushed) \/ (pc' = "openpr" /\ pushed' = local))
    BY <1>1, <1>4 DEF Push, world, git, files, run
  <2>3. UNCHANGED <<ckpt, mem, hydrated>>
    BY <1>2, <2>2, ReadKeeps
  <2>4. RowsOK'
    BY <1>1, <1>2, <2>1, <2>2, <2>3 DEF IInv, RowsOK, RowOK, RowFits, Local
  <2>5. WorldOK'
    BY <1>1, <1>2, <2>1, <2>2, <2>3 DEF IInv, WorldOK, Local, LastIs, LastPR, None
  <2>6. PreambleOK'
    BY <1>1, <1>2, <2>1, <2>2, <2>3 DEF PreambleOK, Preamble
  <2>7. WorkOK'
    BY <1>1, <1>2, <2>1, <2>2, <2>3
    DEF IInv, WorkOK, Reads, Building, Handing, Verifying, Shipping, Landing, Local
  <2>8. EndOK'
    BY <1>1, <1>2, <2>1, <2>2, <2>3 DEF IInv, EndOK, Settling, Ending, None
  <2> QED BY <2>4, <2>5, <2>6, <2>7, <2>8 DEF Stays
<1> QED BY <1>3, <1>4 DEF Stays

LEMMA OpenPRKeeps == Steady /\ IInv /\ OpenPR => Stays
<1> SUFFICES ASSUME Steady, IInv, OpenPR PROVE Stays
  OBVIOUS
<1>1. pc = "openpr"
  BY DEF OpenPR
<1>2. hydrated /\ Cached = mem /\ mem.phase = "verified" /\ ckpt.phase = "verified"
  BY <1>1, AtWork DEF Shipping, IInv, WorkOK, Reads
<1>3. CASE Fails
  BY <1>1, <1>2, <1>3, FailsKeeps
<1>4. CASE ~(Fails)
  <2>1. local = gen /\ local # 0 /\ ~Local /\ pushed = gen
    BY <1>1 DEF IInv, WorkOK, Shipping, WorldOK
  <2>2. UNCHANGED <<setup, hub, tracker, local, pushed, base, gen, passed, verdict, from, stopped>>
        /\ Read /\ pc' = "recordpr" /\ prs' = (IF LastIs("open") THEN prs ELSE Append(prs, "open"))
    BY <1>4 DEF OpenPR, files, run
  <2>3. UNCHANGED <<ckpt, mem, hydrated>>
    BY <1>2, <2>2, ReadKeeps
  <2>4. \A i \in DOMAIN prs' : (prs'[i] = "open" => i = Len(prs'))
        /\ (prs'[i] = "merged" => gen \in base)
    <3>1. prs \in Seq(Status)
      BY DEF IInv, Typed, TypeOK, Status
    <3>2. \A i \in DOMAIN prs : (prs[i] = "open" => i = Len(prs)) /\ (prs[i] = "merged" => gen \in base)
      BY DEF IInv, WorldOK, LastPR
    <3>3. CASE LastIs("open")
      BY <2>2, <3>2, <3>3
    <3>4. CASE ~LastIs("open")
      <4>1. \A i \in DOMAIN prs : prs[i] # "open"
        BY <3>1, <3>2, <3>4 DEF LastIs, LastPR
      <4>2. prs' = Append(prs, "open") /\ Len(prs') = Len(prs) + 1
        BY <2>2, <3>1, <3>4 DEF Status
      <4>3. \A i \in DOMAIN prs' : i = Len(prs') \/ (i \in DOMAIN prs /\ prs'[i] = prs[i])
        BY <3>1, <4>2
      <4>4. prs'[Len(prs')] = "open"
        BY <3>1, <4>2
      <4> QED BY <3>2, <4>1, <4>3, <4>4 DEF Stays
    <3> QED BY <3>3, <3>4 DEF Stays
  <2>5. RowsOK'
    BY <1>1, <1>2, <2>1, <2>2, <2>3, <2>4 DEF IInv, RowsOK, RowOK, RowFits, Local
  <2>6. WorldOK'
    BY <1>1, <1>2, <2>1, <2>2, <2>3, <2>4 DEF IInv, WorldOK, Local, LastIs, LastPR, None
  <2>7. PreambleOK'
    BY <1>1, <1>2, <2>1, <2>2, <2>3, <2>4 DEF PreambleOK, Preamble
  <2>8. WorkOK'
    BY <1>1, <1>2, <2>1, <2>2, <2>3, <2>4
    DEF IInv, WorkOK, Reads, Building, Handing, Verifying, Shipping, Landing, Local
  <2>9. EndOK'
    BY <1>1, <1>2, <2>1, <2>2, <2>3, <2>4 DEF IInv, EndOK, Settling, Ending, None
  <2> QED BY <2>5, <2>6, <2>7, <2>8, <2>9 DEF Stays
<1> QED BY <1>3, <1>4 DEF Stays

LEMMA CIRepairKeeps == Steady /\ IInv /\ CIRepair => Stays
<1> SUFFICES ASSUME Steady, IInv, CIRepair PROVE Stays
  OBVIOUS
<1>1. pc = "cirepair"
  BY DEF CIRepair
<1>2. hydrated /\ Cached = mem /\ mem.phase = "pr_open" /\ ckpt.phase = "pr_open"
  BY <1>1, AtWork DEF Landing, IInv, WorkOK, Reads
<1>3. CASE AgentFails
  BY <1>1, <1>2, <1>3, FailsKeeps
<1>4. CASE ~(AgentFails)
  <2>1. local = gen /\ local # 0 /\ ~Local
    BY <1>1 DEF IInv, WorkOK, Landing, WorldOK
  <2>2. local' = local
    BY <1>4, <2>1 DEF CIRepair
  <2>3. UNCHANGED <<setup, hub, tracker, base, prs, gen, passed, verdict, from, stopped>> /\ Read
        /\ pc' = "gate" /\ pushed' \in {pushed, local}
    BY <1>4, <2>2 DEF CIRepair, files
  <2>4. UNCHANGED <<ckpt, mem, hydrated>>
    BY <1>2, <2>3, ReadKeeps
  <2>5. RowsOK'
    BY <1>1, <1>2, <2>1, <2>2, <2>3, <2>4 DEF IInv, RowsOK, RowOK, RowFits, Local
  <2>6. WorldOK'
    BY <1>1, <1>2, <2>1, <2>2, <2>3, <2>4 DEF IInv, WorldOK, Local, LastIs, LastPR, None
  <2>7. PreambleOK'
    BY <1>1, <1>2, <2>1, <2>2, <2>3, <2>4 DEF PreambleOK, Preamble
  <2>8. WorkOK'
    BY <1>1, <1>2, <2>1, <2>2, <2>3, <2>4
    DEF IInv, WorkOK, Reads, Building, Handing, Verifying, Shipping, Landing, Local
  <2>9. EndOK'
    BY <1>1, <1>2, <2>1, <2>2, <2>3, <2>4 DEF IInv, EndOK, Settling, Ending, None
  <2> QED BY <2>5, <2>6, <2>7, <2>8, <2>9 DEF Stays
<1> QED BY <1>3, <1>4 DEF Stays

LEMMA UnmergeableKeeps == Steady /\ IInv /\ Unmergeable => Stays
<1> SUFFICES ASSUME Steady, IInv, Unmergeable PROVE Stays
  OBVIOUS
<1>1. pc = "merge"
  BY DEF Unmergeable
<1>2. hydrated /\ Cached = mem /\ mem.phase = "pr_open" /\ ckpt.phase = "pr_open"
  BY <1>1, AtWork DEF Landing, IInv, WorkOK, Reads
<1>3. CASE AgentFails \/ GivesUp
  BY <1>1, <1>2, <1>3, FailsKeeps
<1>4. CASE ~(AgentFails \/ GivesUp)
  <2>1. local = gen /\ local # 0 /\ ~Local
    BY <1>1 DEF IInv, WorkOK, Landing, WorldOK
  <2>2. UNCHANGED <<setup, hub, tracker, local, base, prs, gen, passed, verdict, from, stopped>> /\ Read
        /\ pc' = "gate" /\ pushed' \in {pushed, local}
    BY <1>4 DEF Unmergeable, files
  <2>3. UNCHANGED <<ckpt, mem, hydrated>>
    BY <1>2, <2>2, ReadKeeps
  <2>4. RowsOK'
    BY <1>1, <1>2, <2>1, <2>2, <2>3 DEF IInv, RowsOK, RowOK, RowFits, Local
  <2>5. WorldOK'
    BY <1>1, <1>2, <2>1, <2>2, <2>3 DEF IInv, WorldOK, Local, LastIs, LastPR, None
  <2>6. PreambleOK'
    BY <1>1, <1>2, <2>1, <2>2, <2>3 DEF PreambleOK, Preamble
  <2>7. WorkOK'
    BY <1>1, <1>2, <2>1, <2>2, <2>3
    DEF IInv, WorkOK, Reads, Building, Handing, Verifying, Shipping, Landing, Local
  <2>8. EndOK'
    BY <1>1, <1>2, <2>1, <2>2, <2>3 DEF IInv, EndOK, Settling, Ending, None
  <2> QED BY <2>4, <2>5, <2>6, <2>7, <2>8 DEF Stays
<1> QED BY <1>3, <1>4 DEF Stays

LEMMA MergeKeeps == Steady /\ IInv /\ Merge => Stays
<1> SUFFICES ASSUME Steady, IInv, Merge PROVE Stays
  OBVIOUS
<1>1. pc = "merge"
  BY DEF Merge
<1>2. hydrated /\ Cached = mem /\ mem.phase = "pr_open" /\ ckpt.phase = "pr_open"
  BY <1>1, AtWork DEF Landing, IInv, WorkOK, Reads
<1>3. CASE Fails \/ GivesUp
  BY <1>1, <1>2, <1>3, FailsKeeps
<1>4. CASE ~(Fails \/ GivesUp)
  <2>1. local = gen /\ local # 0 /\ ~Local /\ mem.pr \in DOMAIN prs /\ setup.remote # "github"
    BY <1>1 DEF IInv, WorkOK, Landing, WorldOK, AutoMerge, Steady, Typed, TypeOK
  <2>2. UNCHANGED <<setup, hub, tracker, gen, passed, verdict, from, stopped>> /\ Read /\ pc' = "done"
    BY <1>4 DEF Merge, world, files, run
  <2>3. UNCHANGED <<ckpt, mem, hydrated>>
    BY <1>2, <2>2, ReadKeeps
  <2>4. /\ local' = local /\ pushed' \in {0, gen} /\ base' = {gen}
        /\ LastPR' = LastPR /\ DOMAIN prs' = DOMAIN prs
        /\ \A i \in DOMAIN prs : prs'[i] = "open" => prs[i] = "open" /\ pushed' = pushed
    <3>1. CASE prs[mem.pr] = "open" /\ Lands(mem.pr)
      <4>1. prs \in Seq(Status) /\ pushed = gen /\ base \subseteq {gen}
        BY <1>2, <2>1, <3>1 DEF IInv, Typed, TypeOK, Status, WorldOK, RowsOK, RowOK, RowFits
      <4>2. prs' = [prs EXCEPT ![mem.pr] = "merged"] /\ base' = base \cup {pushed} /\ pushed' = 0
            /\ local' = local
        BY <2>1, <3>1 DEF Lands
      <4>3. LastPR' = LastPR /\ DOMAIN prs' = DOMAIN prs
        BY <4>1, <4>2, RewrittenPRs DEF LastPR, Status
      <4>4. \A i \in DOMAIN prs : prs[i] = "open" => i = mem.pr
        BY <2>1, <3>1 DEF IInv, WorldOK
      <4>5. \A i \in DOMAIN prs : prs'[i] # "open"
        BY <4>2, <4>4
      <4> QED BY <4>1, <4>2, <4>3, <4>5 DEF Stays
    <3>2. CASE prs[mem.pr] = "merged" /\ UNCHANGED <<world, run, left>>
      <4>1. UNCHANGED <<local, pushed, base, prs>>
        BY <3>2 DEF world, git
      <4> QED BY <2>1, <3>2, <4>1 DEF IInv, WorldOK, LastPR, Stays
    <3> QED BY <1>2, <1>4, <3>1, <3>2 DEF Merge, Stays
  <2>5. RowsOK'
    BY <1>1, <1>2, <2>1, <2>2, <2>3, <2>4 DEF IInv, RowsOK, RowOK, RowFits, Local
  <2>6. WorldOK'
    BY <1>1, <1>2, <2>1, <2>2, <2>3, <2>4 DEF IInv, WorldOK, Local, LastIs, LastPR, None
  <2>7. PreambleOK'
    BY <1>1, <1>2, <2>1, <2>2, <2>3, <2>4 DEF PreambleOK, Preamble
  <2>8. WorkOK'
    BY <1>1, <1>2, <2>1, <2>2, <2>3, <2>4
    DEF IInv, WorkOK, Reads, Building, Handing, Verifying, Shipping, Landing, Local
  <2>9. EndOK'
    BY <1>1, <1>2, <2>1, <2>2, <2>3, <2>4 DEF IInv, EndOK, Settling, Ending, None
  <2> QED BY <2>5, <2>6, <2>7, <2>8, <2>9 DEF Stays
<1> QED BY <1>3, <1>4 DEF Stays

LEMMA LandLocallyKeeps == Steady /\ IInv /\ LandLocally => Stays
<1> SUFFICES ASSUME Steady, IInv, LandLocally PROVE Stays
  OBVIOUS
<1>1. pc = "land"
  BY DEF LandLocally
<1>2. hydrated /\ Cached = mem /\ mem.phase = "pr_open" /\ ckpt.phase = "pr_open"
  BY <1>1, AtWork DEF Landing, IInv, WorkOK, Reads
<1>3. CASE Fails
  BY <1>1, <1>2, <1>3, FailsKeeps
<1>4. CASE ~(Fails)
  <2>1. local = gen /\ local # 0
    BY <1>1 DEF IInv, WorkOK, Landing, WorldOK
  <2>2. UNCHANGED <<setup, hub, tracker, local, pushed, prs, gen, passed, verdict, from, stopped>>
        /\ Read /\ pc' \in {"end", "done", "giveup"}
    BY <1>4 DEF LandLocally, world, git, files, run
  <2>3. UNCHANGED <<ckpt, mem, hydrated>>
    BY <1>2, <2>2, ReadKeeps
  <2>4. base' = base \/ base' = base \cup {local}
    BY <1>4 DEF LandLocally, world, git
  <2>5. pc' = "done" => gen \in base'
    BY <1>4, <2>1 DEF LandLocally
  <2>6. pushed \in {0, gen}
    BY <1>2, <2>1 DEF IInv, WorldOK, RowsOK, RowOK, RowFits
  <2>7. RowsOK'
    BY <1>1, <1>2, <2>1, <2>2, <2>3, <2>4, <2>5, <2>6 DEF IInv, RowsOK, RowOK, RowFits, Local
  <2>8. WorldOK'
    BY <1>1, <1>2, <2>1, <2>2, <2>3, <2>4, <2>5, <2>6 DEF IInv, WorldOK, Local, LastIs, LastPR, None
  <2>9. PreambleOK'
    BY <1>1, <1>2, <2>1, <2>2, <2>3, <2>4, <2>5, <2>6 DEF PreambleOK, Preamble
  <2>10. WorkOK'
    BY <1>1, <1>2, <2>1, <2>2, <2>3, <2>4, <2>5, <2>6
    DEF IInv, WorkOK, Reads, Building, Handing, Verifying, Shipping, Landing
  <2>11. EndOK'
    BY <1>1, <1>2, <2>1, <2>2, <2>3, <2>4, <2>5, <2>6 DEF IInv, EndOK, Settling, Ending, None
  <2> QED BY <2>7, <2>8, <2>9, <2>10, <2>11 DEF Stays
<1> QED BY <1>3, <1>4 DEF Stays

LEMMA FindPRKeeps == Steady /\ IInv /\ FindPR => Stays
<1> SUFFICES ASSUME Steady, IInv, FindPR PROVE Stays
  OBVIOUS
<1>1. pc = "ci" /\ UNCHANGED <<setup, hub, tracker, local, pushed, base, prs, gen, passed, verdict,
      from, stopped>>
  BY DEF FindPR, world, git, files, run
<1>2. hydrated /\ Cached = mem /\ mem.phase = "pr_open" /\ ckpt.phase = "pr_open"
  BY <1>1, AtWork DEF Landing, IInv, WorkOK, Reads
<1>3. PICK pr \in 0..MaxPRs :
        /\ pr <= LastPR
        /\ IF Local \/ pr = mem.pr THEN Read ELSE Put([Cached EXCEPT !.pr = pr])
        /\ \/ pc' = "land" /\ Local
           \/ pc' = "giveup"
           \/ pc' = "gate" /\ ~Local /\ pr # 0
           \/ pc' = "done" /\ pr # 0 /\ prs[pr] = "merged"
  <2> DEFINE pr == IF Cached.pr # 0 THEN Cached.pr
                   ELSE IF ~Cached.branch \/ stopped THEN 0
                   ELSE IF MergedPR # 0 THEN MergedPR
                   ELSE IF LastIs("open") THEN LastPR ELSE 0
  <2>1. Cached.pr \in 0..MaxPRs /\ Cached.pr <= LastPR /\ LastPR \in 0..MaxPRs /\ 0 \in 0..MaxPRs
    BY CachedTyped, LastTyped, BoundAssumption DEF IInv, Row
  <2>2. MergedPR \in 0..MaxPRs /\ MergedPR <= LastPR
    BY MergedTyped DEF IInv
  <2>3. pr \in 0..MaxPRs /\ pr <= LastPR
    BY <2>1, <2>2
  <2>4. /\ pc' = CASE Local -> "land"
                   [] ~Local /\ pr = 0 -> "giveup"
                   [] OTHER -> IF pr # 0 /\ ~stopped /\ prs[pr] = "merged" THEN "done" ELSE "gate"
        /\ IF Local \/ pr = Cached.pr THEN Read ELSE Put([Cached EXCEPT !.pr = pr])
    BY DEF FindPR
  <2> HIDE DEF pr
  <2>5. \/ pc' = "land" /\ Local
        \/ pc' = "giveup"
        \/ pc' = "gate" /\ ~Local /\ pr # 0
        \/ pc' = "done" /\ pr # 0 /\ prs[pr] = "merged"
    BY <2>4
  <2> QED BY <1>2, <2>3, <2>4, <2>5 DEF Stays
<1>4. pr # 0 => pr \in DOMAIN prs
  BY <1>3, BoundAssumption DEF LastPR, IInv, Typed, TypeOK
<1>5. /\ hydrated' /\ mem'.phase = "pr_open" /\ (ckpt' = ckpt \/ ckpt' = mem') /\ RowsOK'
      /\ Local \/ mem'.pr = pr
  <2>1. CASE Read /\ (Local \/ pr = mem.pr)
    <3>1. UNCHANGED <<ckpt, mem, hydrated>>
      BY <1>2, <2>1, ReadKeeps
    <3> QED BY <1>1, <1>2, <2>1, <3>1, SameRows DEF Stays
  <2>2. CASE Put([Cached EXCEPT !.pr = pr])
    <3>1. Writes("pr_open", pr, mem.branch, mem.done)
      BY <1>2, <1>3, <2>2, WritesPR DEF IInv
    <3>2. RowFits("pr_open", mem.branch, mem.done)
      BY <1>2, CachedFits
    <3>3. RowsOK'
      BY <1>1, <1>2, <3>1, <3>2, WrittenRows
    <3> QED BY <1>2, <3>1, <3>3, WritesIs DEF IInv, Stays
  <2> QED BY <1>3, <2>1, <2>2 DEF Stays
<1>6. WorldOK'
  BY <1>1, <1>2, <1>5, KeptWorld DEF None
<1>7. PreambleOK'
  BY <1>3 DEF PreambleOK, Preamble
<1>8. WorkOK'
  BY <1>1, <1>2, <1>3, <1>4, <1>5
  DEF IInv, WorkOK, Reads, Building, Handing, Verifying, Shipping, Landing, Local
<1>9. EndOK'
  BY <1>1, <1>2, <1>3, <1>4, <1>5 DEF IInv, WorldOK, EndOK, Settling, Ending, None
<1> QED BY <1>5, <1>6, <1>7, <1>8, <1>9 DEF Stays

LEMMA InferKeeps == Steady /\ IInv /\ Infer => Stays
<1> SUFFICES ASSUME Steady, IInv, Infer PROVE Stays
  OBVIOUS
<1>1. pc = "infer" /\ UNCHANGED <<setup, hub, tracker, local, pushed, base, prs, gen, passed, verdict,
      stopped>>
  BY DEF Infer, world, git, files
<1>2. /\ ~hydrated /\ hub /\ ~stopped /\ ckpt.phase = None /\ from = None /\ gen \notin base
      /\ local # 0 /\ local = gen
  BY <1>1 DEF IInv, PreambleOK, Preamble, EndOK, WorldOK
<1>3. Cached = ckpt /\ ~ckpt.done
  BY <1>2, CachedIs DEF IInv, RowsOK, RowOK, RowFits
<1>4. MergedPR = 0
  <2>1. MergedPR # 0 => MergedPR \in DOMAIN prs /\ prs[MergedPR] = "merged"
    BY MergedIs DEF IInv, Typed, TypeOK, Status
  <2> QED BY <1>2, <2>1 DEF IInv, WorldOK, Stays
<1>5. CASE tracker = "done"
  <2>1. Read /\ from' = None /\ pc' = "resume"
    BY <1>2, <1>4, <1>5 DEF Infer
  <2>2. hydrated' /\ UNCHANGED ckpt /\ mem' = ckpt
    BY <1>2, <2>1, ReadIs DEF IInv
  <2>3. RowsOK' /\ WorldOK'
    BY <1>1, <1>2, <2>1, <2>2, KeptRows, KeptWorld
  <2>4. PreambleOK' /\ WorkOK'
    BY <1>1, <1>2, <2>1, <2>2
    DEF PreambleOK, Preamble, WorkOK, Building, Handing, Verifying, Shipping, Landing, None
  <2>5. EndOK'
    BY <1>2, <2>1, <2>2 DEF EndOK, Settling, Ending, None
  <2> QED BY <2>3, <2>4, <2>5 DEF Stays
<1>6. CASE tracker # "done"
  <2> DEFINE p == IF InferredPhase = "pr_open" THEN LastPR ELSE Cached.pr
  <2>1. InferredPhase \in {"pr_open", "verified", "handed_off", "built"}
    BY DEF InferredPhase
  <2>2. p \in 0..MaxPRs
    BY CachedTyped, LastTyped DEF IInv, Row
  <2>3. Put([Cached EXCEPT !.branch = TRUE, !.phase = InferredPhase, !.pr = p]) /\ from' = InferredPhase
        /\ pc' = "resume"
    BY <1>4, <1>6 DEF Infer
  <2> HIDE DEF p
  <2>4. Writes(InferredPhase, p, TRUE, ckpt.done)
    BY <1>3, <2>1, <2>2, <2>3, WritesInferred, PhasesIn DEF IInv
  <2>5. hydrated' /\ mem'.phase = InferredPhase /\ ckpt' = mem'
    BY <1>2, <2>4, WritesIs DEF IInv
  <2>6. RowFits(InferredPhase, TRUE, ckpt.done)
    <3>1. InferredPhase = "pr_open" => pushed = gen /\ gen \in passed
      BY <1>2 DEF InferredPhase, IInv, WorldOK
    <3>2. InferredPhase = "verified" => gen \in passed
      BY <1>2 DEF InferredPhase, IInv, WorldOK
    <3> QED BY <1>2, <1>3, <2>1, <3>1, <3>2 DEF RowFits, Stays
  <2>7. RowsOK'
    BY <1>1, <1>2, <2>4, <2>6, WrittenRows
  <2>8. WorldOK'
    BY <1>1, <2>1, <2>5, KeptWorld DEF None
  <2>9. InFlight(InferredPhase)
    BY <2>1, InFlightIs, PhasesIn
  <2>10. PreambleOK'
    BY <1>1, <1>2, <2>1, <2>3, <2>5, <2>9 DEF PreambleOK, Preamble, None
  <2>11. WorkOK' /\ EndOK'
    BY <1>2, <2>1, <2>3, <2>5
    DEF WorkOK, Building, Handing, Verifying, Shipping, Landing, EndOK, Settling, Ending, None
  <2> QED BY <2>7, <2>8, <2>10, <2>11 DEF Stays
<1> QED BY <1>5, <1>6 DEF Stays

LEMMA ResumeKeeps == Steady /\ IInv /\ Resume => Stays
<1> SUFFICES ASSUME Steady, IInv, Resume PROVE Stays
  OBVIOUS
<1>1. pc = "resume" /\ ~stopped /\ (hub \/ hydrated) /\ (hydrated => mem = ckpt)
  BY DEF Resume, IInv, PreambleOK, Preamble, EndOK
<1>2. Cached = ckpt /\ RowFits(ckpt.phase, ckpt.branch, ckpt.done)
  BY <1>1, CachedIs DEF IInv, RowsOK, RowOK
<1>3. ~Reopened
  BY <1>2 DEF Reopened, RowFits
<1>4. UNCHANGED <<setup, hub, tracker, local, pushed, base, prs, gen, passed, verdict, from, stopped>>
  BY <1>3 DEF Resume, git, files
<1>5. /\ RowsOK' /\ hydrated' /\ mem'.phase = ckpt.phase /\ mem'.branch = ckpt.branch
      /\ ckpt'.phase = ckpt.phase /\ ckpt'.branch = ckpt.branch
      /\ \/ pc' = "end"
         \/ pc' = "done" /\ gen \in base /\ ckpt.phase # "merged" /\ ckpt.phase # None
         \/ pc' = "marks" /\ ckpt.phase # "merged"
  <2>1. CASE Read /\ (pc' = "end" \/ (pc' = "marks" /\ ckpt.phase # "merged"))
    <3>1. hydrated' /\ UNCHANGED ckpt /\ mem' = Cached
      BY <1>1, <2>1, ReadIs DEF IInv
    <3>2. RowsOK'
      BY <1>1, <1>4, <2>1, KeptRows
    <3> QED BY <1>2, <2>1, <3>1, <3>2 DEF Stays
  <2>2. CASE Put([Cached EXCEPT !.pr = MergedPR]) /\ pc' = "done" /\ ckpt.phase # "merged"
             /\ MergedPR # 0
    <3>1. Writes(ckpt.phase, MergedPR, ckpt.branch, ckpt.done)
      BY <1>2, <2>2, MergedTyped, WritesPR DEF IInv
    <3>2. RowsOK'
      BY <1>1, <1>2, <1>4, <3>1, WrittenRows
    <3>3. hydrated' /\ mem'.phase = ckpt.phase /\ mem'.branch = ckpt.branch /\ (ckpt' = ckpt
          \/ ckpt' = mem')
      BY <1>1, <3>1, WritesIs DEF IInv
    <3>4. MergedPR \in DOMAIN prs /\ prs[MergedPR] = "merged"
      BY <2>2, MergedIs DEF IInv, Typed, TypeOK, Status
    <3>5. gen \in base /\ ckpt.phase # None
      BY <1>2, <3>4 DEF IInv, WorldOK, RowFits, None
    <3> QED BY <2>2, <3>2, <3>3, <3>5 DEF Stays
  <2> QED BY <1>2, <1>3, <2>1, <2>2 DEF Resume, Stays
<1>6. WorldOK'
  BY <1>4, <1>5, KeptWorld
<1>7. PreambleOK'
  BY <1>1, <1>4, <1>5 DEF IInv, PreambleOK, Preamble
<1>8. WorkOK'
  BY <1>5 DEF WorkOK, Building, Handing, Verifying, Shipping, Landing
<1>9. EndOK'
  BY <1>1, <1>4, <1>5 DEF EndOK, Settling, Ending, None
<1> QED BY <1>5, <1>6, <1>7, <1>8, <1>9 DEF Stays

LEMMA RestoreBranchKeeps == Steady /\ IInv /\ RestoreBranch => Stays
<1> SUFFICES ASSUME Steady, IInv, RestoreBranch PROVE Stays
  OBVIOUS
<1>1. /\ pc = "branch" /\ ~stopped /\ hydrated /\ Cached = mem
      /\ mem.phase = ckpt.phase /\ mem.branch = ckpt.branch /\ ckpt.phase # "merged"
      /\ UNCHANGED <<setup, hub, gen, passed, from, stopped>>
  BY CachedIs DEF RestoreBranch, run, IInv, PreambleOK, Preamble
<1>2. /\ from = None => ckpt.phase \in {None, "quarantined"}
      /\ from # None => from = ckpt.phase /\ from \in {"building", "built", "handed_off", "verified",
         "pr_open"}
      /\ ckpt.phase \in {None, "building", "quarantined"} => gen \notin base
  BY <1>1, InFlightIs DEF IInv, PreambleOK, Preamble, Typed, TypeOK
<1>3. /\ Idx(None) = 0 /\ Idx("building") = 1 /\ Idx("built") = 2 /\ Idx("handed_off") = 3
      /\ Idx("verified") = 4 /\ Idx("pr_open") = 5
  BY DEF Idx, Rank, None
<1>4. Idx(from) >= 2 => ckpt.branch /\ from = ckpt.phase
      /\ from \in {"built", "handed_off", "verified", "pr_open"}
  BY <1>2, <1>3 DEF IInv, RowsOK, RowOK, RowFits
<1>5. CASE (mem.branch /\ local # 0) \/ Idx(from) < 2
  <2>1. /\ UNCHANGED <<tracker, local, pushed, base, prs, verdict>> /\ Read /\ pc' = FirstPhase
    BY <1>1, <1>5 DEF RestoreBranch, git
  <2>2. UNCHANGED <<ckpt, mem, hydrated>>
    BY <1>1, <2>1, ReadKeeps
  <2>3. \/ pc' = "build" /\ ckpt.phase \in {None, "building", "quarantined"}
        \/ pc' = "handoff" /\ ckpt.phase = "built" /\ local # 0
        \/ pc' = "clean" /\ ckpt.phase = "handed_off" /\ local # 0
        \/ pc' = "commit" /\ ckpt.phase = "verified" /\ local # 0
        \/ pc' = "ci" /\ ckpt.phase = "pr_open" /\ local # 0
    <3>1. CASE Idx(from) < 2
      BY <1>2, <1>3, <2>1, <3>1 DEF FirstPhase
    <3>2. CASE ~(Idx(from) < 2)
      <4>1. from = ckpt.phase /\ from \in {"built", "handed_off", "verified", "pr_open"} /\ local # 0
        BY <1>2, <1>3, <1>4, <1>5, <3>2
      <4> QED BY <1>3, <2>1, <4>1 DEF FirstPhase, Stays
    <3> QED BY <3>1, <3>2 DEF Stays
  <2>4. RowsOK' /\ WorldOK'
    BY <1>1, <2>1, <2>2, SameWorld
  <2>5. PreambleOK'
    BY <1>1, <1>2, <2>1, <2>2, <2>3 DEF PreambleOK, Preamble
  <2>6. WorkOK'
    BY <1>1, <2>1, <2>2, <2>3 DEF WorkOK, Reads, Building, Handing, Verifying, Shipping, Landing
  <2>7. EndOK'
    BY <1>1, <2>2, <2>3 DEF IInv, EndOK, Settling, Ending, None
  <2> QED BY <2>4, <2>5, <2>6, <2>7 DEF Stays
<1>6. CASE ~((mem.branch /\ local # 0) \/ Idx(from) < 2)
  <2>1. ResetLocal /\ pc' = "end"
    BY <1>1, <1>6 DEF RestoreBranch
  <2>2. ckpt.branch /\ local = 0
    BY <1>1, <1>2, <1>3, <1>4, <1>6
  <2>3. gen \notin base
    BY <2>2 DEF IInv, WorldOK
  <2>4. RowsOK' /\ WorldOK'
    BY <1>1, <2>1, <2>2, <2>3, ResetKeepsWorld
  <2>5. ~hydrated'
    BY <2>1 DEF ResetLocal, Remove
  <2>6. PreambleOK' /\ WorkOK' /\ EndOK'
    BY <2>1, <2>5
    DEF PreambleOK, Preamble, WorkOK, Building, Handing, Verifying, Shipping, Landing, EndOK, Settling,
    Ending
  <2> QED BY <2>4, <2>6 DEF Stays
<1> QED BY <1>5, <1>6 DEF Stays

LEMMA CutBranchKeeps == Steady /\ IInv /\ CutBranch => Stays
<1> SUFFICES ASSUME Steady, IInv, CutBranch PROVE Stays
  OBVIOUS
<1>1. pc = "cut"
  BY DEF CutBranch
<1>2. hydrated /\ Cached = mem /\ mem.phase = "building" /\ ckpt.phase = "building" /\ ~verdict
      /\ gen \notin base
  BY <1>1, AtWork DEF Building, IInv, WorkOK, Reads, RowsOK, RowOK, RowFits
<1>3. CASE GivesUp
  BY <1>1, <1>2, <1>3, FailsKeeps
<1>4. CASE ~GivesUp
  <2>1. /\ UNCHANGED <<setup, hub, pushed, base, prs, gen, passed, verdict, from, stopped>>
        /\ tracker' = tracker \/ tracker' = "started"
        /\ Put([Cached EXCEPT !.branch = TRUE]) /\ pc' = IF hub THEN "agent" ELSE "hubpause"
    BY <1>4 DEF CutBranch, OrPause, run
  <2>2. local' = local
    BY <1>4 DEF CutBranch, IInv, WorldOK
  <2>3. Writes("building", mem.pr, TRUE, mem.done)
    BY <1>2, <2>1, WritesBranch DEF IInv
  <2>11. hydrated' /\ mem' = [mem EXCEPT !.branch = TRUE] /\ ckpt' = IF hub THEN mem' ELSE ckpt
    BY <1>2, <2>1 DEF Put
  <2>12. mem \in Row
    BY DEF IInv, Typed, TypeOK
  <2>4. /\ hydrated' /\ mem'.phase = "building" /\ mem'.branch /\ mem'.done = mem.done
        /\ ckpt' = IF hub THEN mem' ELSE ckpt
    BY <1>2, <2>11, <2>12 DEF Row
  <2>5. ~mem.done
    BY <1>2, CachedFits DEF RowFits
  <2>6. RowsOK'
    BY <1>2, <2>1, <2>2, <2>4, <2>5 DEF IInv, RowsOK, RowOK, RowFits, Local
  <2>7. WorldOK'
    BY <1>2, <2>1, <2>2, <2>4, KeptWorld
  <2>8. PreambleOK'
    BY <1>2, <2>1 DEF PreambleOK, Preamble
  <2>9. WorkOK'
    BY <1>2, <2>1, <2>2, <2>4 DEF WorkOK, Reads, Building, Handing, Verifying, Shipping, Landing
  <2>10. EndOK'
    BY <1>2, <2>1, <2>4 DEF EndOK, Settling, Ending, None
  <2> QED BY <2>6, <2>7, <2>8, <2>9, <2>10 DEF Stays
<1> QED BY <1>3, <1>4 DEF Stays

LEMMA BuildAgentKeeps == Steady /\ IInv /\ BuildAgent => Stays
<1> SUFFICES ASSUME Steady, IInv, BuildAgent PROVE Stays
  OBVIOUS
<1>1. pc = "agent"
  BY DEF BuildAgent
<1>2. /\ hydrated /\ Cached = mem /\ mem.phase = "building" /\ ckpt.phase = "building" /\ ckpt.branch
         /\ mem.branch
      /\ ~verdict /\ gen \notin base
  BY <1>1, AtWork DEF Building, IInv, WorkOK, Reads, RowsOK, RowOK, RowFits
<1>3. CASE AgentFails \/ Fails
  BY <1>1, <1>2, <1>3, FailsKeeps
<1>4. CASE gen' = gen + 1 /\ local' = gen + 1 /\ pc' = "built" /\ Read
           /\ UNCHANGED <<setup, hub, tracker, pushed, base, prs, passed, files, run, left>>
  <2>1. UNCHANGED <<setup, hub, tracker, pushed, base, prs, passed, verdict, from, stopped, ckpt, mem,
        hydrated>>
    BY <1>2, <1>4, ReadKeeps DEF files, run
  <2>2. gen \in Nat /\ base = {} /\ \A i \in DOMAIN prs : prs[i] # "merged"
    BY <1>2 DEF IInv, Typed, TypeOK, Build, WorldOK
  <2>3. gen' # 0 /\ local' = gen'
    BY <1>4, <2>2
  <2>4. ~ckpt.done /\ ~mem.done
    BY <1>2 DEF IInv, RowsOK, RowOK, RowFits
  <2>5. RowsOK'
    BY <1>2, <2>1, <2>2, <2>4 DEF RowsOK, RowOK, RowFits
  <2>6. WorldOK'
    BY <1>2, <2>1, <2>2, <2>3 DEF IInv, WorldOK, Local, LastIs, LastPR, None
  <2>7. PreambleOK'
    BY <1>4 DEF PreambleOK, Preamble
  <2>8. WorkOK'
    BY <1>2, <1>4, <2>1, <2>3 DEF WorkOK, Reads, Building, Handing, Verifying, Shipping, Landing
  <2>9. EndOK'
    BY <1>2, <1>4, <2>1 DEF EndOK, Settling, Ending, None
  <2> QED BY <2>5, <2>6, <2>7, <2>8, <2>9 DEF Stays
<1>5. CASE ResetLocal /\ pc' = "end" /\ UNCHANGED <<setup, hub, gen, passed, run, left>>
  <2>1. RowsOK' /\ WorldOK'
    BY <1>2, <1>5, ResetKeepsWorld
  <2>2. ~hydrated'
    BY <1>5 DEF ResetLocal, Remove
  <2>3. PreambleOK' /\ WorkOK' /\ EndOK'
    BY <1>5, <2>2
    DEF PreambleOK, Preamble, WorkOK, Building, Handing, Verifying, Shipping, Landing, EndOK, Settling,
    Ending
  <2> QED BY <2>1, <2>3 DEF Stays
<1> QED BY <1>3, <1>4, <1>5 DEF BuildAgent, Stays

-----------------------------------------------------------------------------
(* The invariant holds.                                                    *)

LEMMA IInvInit == Init => IInv
<1> SUFFICES ASSUME Init PROVE IInv
  OBVIOUS
<1>1. Typed
  BY TypedInit
<1>2. ckpt.phase = None /\ ~ckpt.done /\ gen = 0 /\ base = {} /\ prs = <<>> /\ local = 0 /\ pushed = 0
  BY BlankIs DEF Init
<1>3. RowsOK
  BY <1>2 DEF Init, RowsOK, RowOK, RowFits, None
<1>4. WorldOK
  BY <1>2 DEF Init, WorldOK, LastIs, LastPR
<1>5. PreambleOK
  BY <1>2 DEF Init, PreambleOK, Preamble, None
<1>6. WorkOK
  BY DEF Init, WorkOK, Building, Handing, Verifying, Shipping, Landing
<1>7. EndOK
  BY <1>2 DEF Init, EndOK, Settling, Ending, None
<1> QED BY <1>1, <1>3, <1>4, <1>5, <1>6, <1>7 DEF IInv

LEMMA PhasesKeep == Steady /\ IInv /\ Phases => Stays
BY ResumeKeeps, ClearFailureMarksKeeps, RestoreBranchKeeps, StartBuildKeeps, CutBranchKeeps,
   BuildAgentKeeps, BuiltKeeps, HandoffKeeps, HandedOffKeeps, CleanUpKeeps, BriefKeeps, VerifyKeeps,
   RepairKeeps, VerifyGivesUpKeeps, BrowserGateKeeps, VerifiedKeeps, CommitKeeps, PushKeeps,
   OpenPRKeeps, RecordPRKeeps, PROpenKeeps, InReviewKeeps, FindPRKeeps, CIGateKeeps, CIRepairKeeps,
   MergeKeeps, UnmergeableKeeps, AwaitManualMergeKeeps, LandLocallyKeeps
DEF Phases

LEMMA EndingsKeep == Steady /\ IInv /\ Endings => Stays
BY MarkDoneKeeps, StampDoneKeeps, SettleKeeps, GiveUpKeeps, QuarantineKeeps, LabelKeeps, FaultKeeps,
   StopKeeps, MarkKeeps, EndKeeps
DEF Endings

LEMMA HandsKeep == Steady /\ IInv /\ Hands => Stays
BY KillKeeps, CancelKeeps, HubLostKeeps, HumanMergesKeeps, HumanClosesKeeps, TrackerEditedKeeps,
   ClearRowKeeps, ResetKeeps, RequeueKeeps, ReconcileKeeps, AdvanceKeeps, RerunKeeps
DEF Hands

LEMMA IInvNext == Steady /\ IInv /\ [Next]_vars => IInv'
<1> SUFFICES ASSUME Steady, IInv, [Next]_vars PROVE IInv'
  OBVIOUS
<1>1. Typed'
  BY TypedNext DEF IInv
<1>2. CASE Next
  <2>1. Stays
    BY <1>2, PhasesKeep, EndingsKeep, HandsKeep, BeginKeeps, InferKeeps, HubBackKeeps DEF Next, RunStep
  <2> QED BY <1>1, <2>1 DEF IInv, Stays
<1>3. CASE UNCHANGED vars
  <2>1. RowsOK' /\ WorldOK'
    BY <1>3, SameWorld DEF vars
  <2>2. PreambleOK' /\ WorkOK' /\ EndOK'
    BY <1>3 DEF IInv, vars, PreambleOK, WorkOK, EndOK, Reads, Local, AutoMerge, Skipped
  <2> QED BY <1>1, <2>1, <2>2 DEF IInv, Stays
<1> QED BY <1>2, <1>3 DEF Stays

-----------------------------------------------------------------------------
(* What steps do to builds, branch and base.                               *)

LEMMA WorkRests ==
  Typed /\ (Infer \/ Phases \/ Endings) /\ ~(BuildAgent \/ CIRepair \/ CutBranch \/ LandLocally \/ Merge
  \/ RestoreBranch \/ Resume)
    => pc \notin {"off", "resume"} /\ UNCHANGED <<gen, base, local>>
<1> SUFFICES ASSUME Typed, Infer \/ Phases \/ Endings, ~(BuildAgent \/ CIRepair \/ CutBranch
                    \/ LandLocally \/ Merge \/ RestoreBranch \/ Resume)
             PROVE  pc \notin {"off", "resume"} /\ UNCHANGED <<gen, base, local>>
  OBVIOUS
<1>1. CASE Infer
  BY <1>1 DEF Infer, AgentFails, Fails, GivesUp, world, git, files, run
<1>2. CASE ClearFailureMarks
  BY <1>2 DEF ClearFailureMarks, AgentFails, Fails, GivesUp, world, git, files, run
<1>3. CASE StartBuild
  BY <1>3 DEF StartBuild, AgentFails, Fails, GivesUp, world, git, files, run
<1>4. CASE Built
  BY <1>4 DEF Built, AgentFails, Fails, GivesUp, world, git, files, run
<1>5. CASE Handoff
  BY <1>5 DEF Handoff, AgentFails, Fails, GivesUp, world, git, files, run
<1>6. CASE HandedOff
  BY <1>6 DEF HandedOff, AgentFails, Fails, GivesUp, world, git, files, run
<1>7. CASE CleanUp
  BY <1>7 DEF CleanUp, AgentFails, Fails, GivesUp, world, git, files, run
<1>8. CASE Brief
  BY <1>8 DEF Brief, AgentFails, Fails, GivesUp, world, git, files, run
<1>9. CASE Verify
  BY <1>9 DEF Verify, VerifyEnds, Attempt, AgentFails, Fails, GivesUp, world, git, files, run
<1>10. CASE Repair
  BY <1>10 DEF Repair, AgentFails, Fails, GivesUp, world, git, files, run
<1>11. CASE VerifyGivesUp
  BY <1>11 DEF VerifyGivesUp, AgentFails, Fails, GivesUp, world, git, files, run
<1>12. CASE BrowserGate
  BY <1>12 DEF BrowserGate, VerifyEnds, Attempt, AgentFails, Fails, GivesUp, world, git, files, run
<1>13. CASE Verified
  BY <1>13 DEF Verified, AgentFails, Fails, GivesUp, world, git, files, run
<1>14. CASE Commit
  BY <1>14 DEF Commit, AgentFails, Fails, GivesUp, world, git, files, run
<1>15. CASE Push
  BY <1>15 DEF Push, AgentFails, Fails, GivesUp, world, git, files, run
<1>16. CASE OpenPR
  BY <1>16 DEF OpenPR, AgentFails, Fails, GivesUp, world, git, files, run
<1>17. CASE RecordPR
  BY <1>17 DEF RecordPR, AgentFails, Fails, GivesUp, world, git, files, run
<1>18. CASE PROpen
  BY <1>18 DEF PROpen, AgentFails, Fails, GivesUp, world, git, files, run
<1>19. CASE InReview
  BY <1>19 DEF InReview, AgentFails, Fails, GivesUp, world, git, files, run
<1>20. CASE FindPR
  BY <1>20 DEF FindPR, AgentFails, Fails, GivesUp, world, git, files, run
<1>21. CASE CIGate
  BY <1>21 DEF CIGate, AgentFails, Fails, GivesUp, world, git, files, run
<1>22. CASE Unmergeable
  BY <1>22 DEF Unmergeable, AgentFails, Fails, GivesUp, world, git, files, run
<1>23. CASE AwaitManualMerge
  BY <1>23 DEF AwaitManualMerge, AgentFails, Fails, GivesUp, world, git, files, run
<1>24. CASE MarkDone
  BY <1>24 DEF MarkDone, AgentFails, Fails, GivesUp, world, git, files, run
<1>25. CASE StampDone
  BY <1>25 DEF StampDone, AgentFails, Fails, GivesUp, world, git, files, run
<1>26. CASE Settle
  BY <1>26 DEF Settle, AgentFails, Fails, GivesUp, world, git, files, run
<1>27. CASE GiveUp
  BY <1>27 DEF GiveUp, Preserve, AgentFails, Fails, GivesUp, world, git, files, run
<1>28. CASE Quarantine
  BY <1>28 DEF Quarantine, AgentFails, Fails, GivesUp, world, git, files, run
<1>29. CASE Label
  BY <1>29 DEF Label, AgentFails, Fails, GivesUp, world, git, files, run
<1>30. CASE Fault
  BY <1>30 DEF Fault, Preserve, AgentFails, Fails, GivesUp, world, git, files, run
<1>31. CASE Stop
  BY <1>31 DEF Stop, Preserve, AgentFails, Fails, GivesUp, world, git, files, run
<1>32. CASE Mark
  BY <1>32 DEF Mark, AgentFails, Fails, GivesUp, world, git, files, run
<1>33. CASE End
  BY <1>33 DEF End, AgentFails, Fails, GivesUp, world, git, files, run
<1> QED BY <1>1, <1>2, <1>3, <1>4, <1>5, <1>6, <1>7, <1>8, <1>9, <1>10, <1>11, <1>12, <1>13, <1>14,
       <1>15, <1>16, <1>17, <1>18, <1>19, <1>20, <1>21, <1>22, <1>23, <1>24, <1>25, <1>26, <1>27,
       <1>28, <1>29, <1>30, <1>31, <1>32, <1>33
    DEF Phases, Endings

\* Where the three kinds of step leave what Delivery speaks of: most build and land
\* nothing, and take the ticket neither out of delivery nor, while no run is at it, into it.
Rests ==
  /\ UNCHANGED <<gen, base>>
  /\ ckpt.phase = "merged" => ckpt'.phase = "merged"
  /\ pc = "off" /\ ckpt.phase # "merged" => ckpt'.phase # "merged"

Builds ==
  /\ pc = "agent" /\ pc' = "built" /\ gen \notin base /\ gen' = gen + 1
  /\ ckpt.phase # "merged" /\ UNCHANGED <<base, ckpt>>

Ships ==
  /\ (pc = "off") = (pc' = "off")
  /\ ckpt.phase # "merged" /\ UNCHANGED <<gen, ckpt>> /\ base' = base \cup {gen}

LEMMA BuildMoves ==
  Steady /\ IInv /\ BuildAgent => (Rests \/ Builds) /\ (local' = local \/ pc = "agent")
<1> SUFFICES ASSUME Steady, IInv, BuildAgent PROVE (Rests \/ Builds) /\ (local' = local \/ pc = "agent")
  OBVIOUS
<1>1. pc = "agent" /\ hydrated /\ Cached = mem /\ ckpt.phase = "building" /\ gen \notin base
  BY AtWork DEF BuildAgent, Building, IInv, WorkOK, Reads, RowsOK, RowOK, RowFits
<1>2. CASE AgentFails \/ Fails
  BY <1>1, <1>2, FailsKeeps DEF Rests
<1>3. CASE ~(AgentFails \/ Fails) /\ gen' = gen + 1
  <2>1. pc' = "built" /\ Read /\ base' = base
    BY <1>3 DEF BuildAgent, ResetLocal
  <2>2. UNCHANGED ckpt
    BY <1>1, <2>1, ReadKeeps
  <2> QED BY <1>1, <1>3, <2>1, <2>2 DEF Builds
<1>4. CASE ~(AgentFails \/ Fails) /\ ~(gen' = gen + 1)
  BY <1>1, <1>4 DEF BuildAgent, ResetLocal, Rests
<1> QED BY <1>1, <1>2, <1>3, <1>4

LEMMA MergeMoves ==
  Steady /\ IInv /\ Merge => (Rests \/ Ships) /\ local' = local /\ (base' \ base) \subseteq passed
<1> SUFFICES ASSUME Steady, IInv, Merge
             PROVE  (Rests \/ Ships) /\ local' = local /\ (base' \ base) \subseteq passed
  OBVIOUS
<1>1. pc = "merge" /\ hydrated /\ Cached = mem /\ mem.phase = "pr_open" /\ ckpt.phase = "pr_open"
  BY AtWork DEF Merge, Landing, IInv, WorkOK, Reads
<1>2. /\ local = gen /\ local # 0 /\ ~Local /\ mem.pr \in DOMAIN prs /\ setup.remote # "github"
      /\ base \subseteq {gen} /\ gen \in passed /\ (pushed = gen \/ gen \in base)
  BY <1>1 DEF IInv, WorkOK, Landing, WorldOK, AutoMerge, Steady, Typed, TypeOK, RowsOK, RowOK, RowFits
<1>3. CASE Fails \/ GivesUp
  <2>1. Rests
    BY <1>1, <1>3, FailsKeeps DEF Rests
  <2>2. UNCHANGED <<local, base>>
    BY <1>3 DEF Fails, GivesUp, world, git
  <2> QED BY <2>1, <2>2
<1>4. CASE ~(Fails \/ GivesUp)
  <2>1. UNCHANGED gen /\ Read /\ pc' = "done"
    BY <1>4 DEF Merge, world
  <2>2. UNCHANGED ckpt
    BY <1>1, <2>1, ReadKeeps
  <2>3. CASE prs[mem.pr] = "open" /\ Lands(mem.pr)
    <3>1. base' = base \cup {pushed} /\ local' = local
      BY <1>2, <2>3 DEF Lands
    <3>2. pushed = gen
      BY <1>2, <2>3 DEF IInv, WorldOK
    <3> QED BY <1>1, <1>2, <2>1, <2>2, <3>1, <3>2 DEF Ships
  <2>4. CASE UNCHANGED world
    <3>1. UNCHANGED <<base, local>>
      BY <2>4 DEF world, git
    <3> QED BY <1>1, <2>1, <2>2, <3>1 DEF Rests
  <2> QED BY <1>1, <1>4, <2>3, <2>4 DEF Merge
<1> QED BY <1>3, <1>4

LEMMA LandMoves ==
  Steady /\ IInv /\ LandLocally => (Rests \/ Ships) /\ local' = local /\ (base' \ base) \subseteq passed
<1> SUFFICES ASSUME Steady, IInv, LandLocally
             PROVE  (Rests \/ Ships) /\ local' = local /\ (base' \ base) \subseteq passed
  OBVIOUS
<1>1. pc = "land" /\ hydrated /\ Cached = mem /\ mem.phase = "pr_open" /\ ckpt.phase = "pr_open"
  BY AtWork DEF LandLocally, Landing, IInv, WorkOK, Reads
<1>2. local = gen /\ gen \in passed
  BY <1>1 DEF IInv, WorkOK, Landing, WorldOK, RowsOK, RowOK, RowFits
<1>3. CASE Fails
  <2>1. Rests
    BY <1>1, <1>3, FailsKeeps DEF Rests
  <2>2. UNCHANGED <<local, base>>
    BY <1>3 DEF Fails, world, git
  <2> QED BY <2>1, <2>2
<1>4. CASE ~Fails
  <2>1. UNCHANGED <<gen, local>> /\ Read /\ pc' \in {"end", "done", "giveup"}
    BY <1>4 DEF LandLocally, world, git
  <2>2. UNCHANGED ckpt
    BY <1>1, <2>1, ReadKeeps
  <2>3. base' = base \/ base' = base \cup {local}
    BY <1>4 DEF LandLocally, world, git
  <2> QED BY <1>1, <1>2, <2>1, <2>2, <2>3 DEF Rests, Ships
<1> QED BY <1>3, <1>4

LEMMA HumanMoves ==
  Steady /\ IInv /\ HumanMerges => Ships /\ local' = local /\ (base' \ base) \subseteq {gen}
<1> SUFFICES ASSUME Steady, IInv, HumanMerges
             PROVE  Ships /\ local' = local /\ (base' \ base) \subseteq {gen}
  OBVIOUS
<1>1. UNCHANGED <<gen, ckpt, pc, local>> /\ base' = base \cup {pushed}
  BY DEF HumanMerges
<1>2. pushed = gen /\ (ckpt.phase \in {"verified", "pr_open"} \/ (ckpt.phase = "quarantined"
      /\ pc = "off"))
  BY PhaseIs DEF HumanMerges, Gesture, Steady, Idx, Rank, IInv, Typed, TypeOK, Row
<1> QED BY <1>1, <1>2 DEF Ships

\* Only the end of the run happens at its end.
LEMMA EndsIs == pc = "end" /\ (Infer \/ Phases \/ Endings) => UNCHANGED ckpt
BY
DEF Phases, Endings, Infer, Resume, ClearFailureMarks, RestoreBranch, StartBuild, CutBranch,
    BuildAgent, Built, Handoff, HandedOff, CleanUp, Brief, Verify, Repair, VerifyGivesUp, BrowserGate,
    Verified, Commit, Push, OpenPR, RecordPR, PROpen, InReview, FindPR, CIGate, CIRepair, Merge,
    Unmergeable, AwaitManualMerge, LandLocally, MarkDone, StampDone, Settle, GiveUp, Quarantine, Label,
    Fault, Stop, Mark, End

LEMMA ResumeMoves == Steady /\ IInv /\ Resume => Rests /\ pc = "resume" /\ UNCHANGED <<base, local>>
<1> SUFFICES ASSUME Steady, IInv, Resume PROVE Rests /\ pc = "resume" /\ UNCHANGED <<base, local>>
  OBVIOUS
<1>1. pc = "resume" /\ (hub \/ hydrated) /\ (hydrated => mem = ckpt)
  BY DEF Resume, IInv, PreambleOK, EndOK
<1>2. Cached = ckpt /\ RowFits(ckpt.phase, ckpt.branch, ckpt.done)
  BY <1>1, CachedIs DEF IInv, RowsOK, RowOK
<1>3. ~Reopened
  BY <1>2 DEF Reopened, RowFits
<1>4. UNCHANGED <<base, gen, local>>
  BY <1>3 DEF Resume, git
<1>5. ckpt.phase = "merged" => Read
  BY <1>2, <1>3 DEF Resume
<1>6. ckpt.phase = "merged" => UNCHANGED ckpt
  BY <1>1, <1>5, ReadIs DEF IInv
<1> QED BY <1>1, <1>4, <1>6 DEF Rests

LEMMA RestoreMoves ==
  Steady /\ IInv /\ RestoreBranch
    => Rests /\ pc = "branch" /\ UNCHANGED base /\ (local' = local \/ local = 0)
<1> SUFFICES ASSUME Steady, IInv, RestoreBranch
             PROVE  Rests /\ pc = "branch" /\ UNCHANGED base /\ (local' = local \/ local = 0)
  OBVIOUS
<1>1. /\ pc = "branch" /\ ~stopped /\ hydrated /\ Cached = mem
      /\ mem.branch = ckpt.branch /\ ckpt.phase # "merged" /\ UNCHANGED gen
  BY CachedIs DEF RestoreBranch, IInv, PreambleOK, Preamble
<1>2. UNCHANGED base
  BY DEF RestoreBranch, ResetLocal, git
<1>3. from # None => from = ckpt.phase /\ from \in {"building", "built", "handed_off", "verified",
      "pr_open"}
  BY <1>1, InFlightIs DEF IInv, PreambleOK, Preamble, Typed, TypeOK
<1>4. Idx(None) = 0 /\ Idx("building") = 1
  BY DEF Idx, Rank, None
<1>5. ckpt.branch \/ Idx(from) < 2
  BY <1>3, <1>4 DEF IInv, RowsOK, RowOK, RowFits
<1>6. local' = local \/ local = 0
  BY <1>1, <1>5 DEF RestoreBranch, git
<1> QED BY <1>1, <1>2, <1>6 DEF Rests

LEMMA CutMoves == Steady /\ IInv /\ (CutBranch \/ CIRepair) => Rests /\ UNCHANGED <<base, local>>
<1> SUFFICES ASSUME Steady, IInv, CutBranch \/ CIRepair PROVE Rests /\ UNCHANGED <<base, local>>
  OBVIOUS
<1>1. pc \in {"cut", "cirepair"} /\ UNCHANGED <<base, gen>>
  BY DEF CutBranch, CIRepair, AgentFails, GivesUp, run, world, git
<1>2. ckpt.phase # "merged"
  BY <1>1 DEF IInv, EndOK
<1>3. pc = "cirepair" => local # 0
  BY DEF IInv, WorkOK, Landing
<1>4. local' = local
  BY <1>1, <1>3 DEF CutBranch, CIRepair, AgentFails, GivesUp, world, git, IInv, WorldOK
<1> QED BY <1>1, <1>2, <1>4 DEF Rests

LEMMA HandsMove == Steady /\ IInv /\ (Hands \/ Begin \/ HubBack) /\ ~HumanMerges
                     => Rests /\ UNCHANGED base /\ (local' = local \/ left' < left)
<1> SUFFICES ASSUME Steady, IInv, Hands \/ Begin \/ HubBack, ~HumanMerges
             PROVE  Rests /\ UNCHANGED base /\ (local' = local \/ left' < left)
  OBVIOUS
<1>1. CASE Begin \/ HubBack \/ Kill \/ Cancel \/ HubLost \/ HumanCloses \/ TrackerEdited \/ Rerun
  <2>1. UNCHANGED <<gen, base, local, ckpt>>
    BY <1>1 DEF Begin, HubBack, Kill, Cancel, HubLost, HumanCloses, TrackerEdited, Rerun, world, git
  <2> QED BY <2>1 DEF Rests
<1>2. CASE ClearRow \/ Reconcile
  <2>1. UNCHANGED <<gen, base, local>> /\ ckpt' = Blank
    BY <1>2 DEF ClearRow, Reconcile, DropRow, world, git
  <2>2. gen \notin base
    BY <1>2, RestartIs DEF ClearRow, Reconcile, DropRow, Steady
  <2>3. ckpt.phase # "merged" /\ ckpt'.phase # "merged"
    BY <2>1, <2>2, BlankIs DEF IInv, RowsOK, RowOK, RowFits, None
  <2> QED BY <2>1, <2>3 DEF Rests
<1>3. CASE Reset \/ Requeue
  <2>1. UNCHANGED <<gen, base>> /\ ckpt.phase # "merged" /\ (ckpt' = Blank \/ ckpt' = ckpt)
    BY <1>3 DEF Reset, Requeue, ResetLocal, Remove, git
  <2>2. left' < left
    BY <1>3 DEF Reset, Requeue, Restart, Gesture, IInv, Typed, TypeOK
  <2> QED BY <2>1, <2>2, BlankIs DEF Rests, None
<1>4. CASE Advance
  <2>1. ckpt \in Row /\ AdvancedPhase(ckpt.phase) # None
        /\ ckpt' = [ckpt EXCEPT !.phase = AdvancedPhase(ckpt.phase)]
    BY <1>4 DEF Advance, IInv, Typed, TypeOK
  <2>2. ckpt.phase # "merged" /\ AdvancedPhase(ckpt.phase) # "merged"
    BY <2>1 DEF AdvancedPhase
  <2>3. UNCHANGED <<gen, base, local>>
    BY <1>4 DEF Advance, git
  <2> QED BY <2>1, <2>2, <2>3 DEF Rests, Row
<1> QED BY <1>1, <1>2, <1>3, <1>4 DEF Hands

\* What a step may do to the ticket's builds.
LEMMA Moves ==
  ASSUME Steady, IInv, Next
  PROVE  /\ Rests \/ Builds \/ Ships
         /\ base' # base => (base' \ base) \subseteq passed \/ pc \notin {"merge", "land"}
            \/ HumanMerges
         /\ local' = local \/ local = 0 \/ pc = "agent" \/ left' < left
<1>1. CASE Infer \/ Phases \/ Endings
  <2>1. CASE BuildAgent
    BY <2>1, BuildMoves DEF BuildAgent
  <2>2. CASE Merge
    BY <2>2, MergeMoves
  <2>3. CASE LandLocally
    BY <2>3, LandMoves
  <2>4. CASE Resume
    BY <2>4, ResumeMoves
  <2>5. CASE RestoreBranch
    BY <2>5, RestoreMoves
  <2>6. CASE CutBranch \/ CIRepair
    BY <2>6, CutMoves
  <2>7. CASE ~(BuildAgent \/ Merge \/ LandLocally \/ Resume \/ RestoreBranch \/ CutBranch \/ CIRepair)
    <3>1. pc \notin {"off", "resume"} /\ UNCHANGED <<gen, base, local>>
      BY <1>1, <2>7, WorkRests DEF IInv
    <3>2. CASE pc # "end"
      <4>1. ckpt.phase # "merged"
        BY <3>1, <3>2 DEF IInv, EndOK
      <4> QED BY <3>1, <4>1 DEF Rests
    <3>3. CASE pc = "end"
      <4>1. UNCHANGED ckpt
        BY <1>1, <3>3, EndsIs
      <4> QED BY <3>1, <4>1 DEF Rests
    <3> QED BY <3>2, <3>3
  <2> QED BY <2>1, <2>2, <2>3, <2>4, <2>5, <2>6, <2>7
<1>2. CASE Hands \/ Begin \/ HubBack
  <2>1. CASE HumanMerges
    BY <2>1, HumanMoves
  <2>2. CASE ~HumanMerges
    BY <1>2, <2>2, HandsMove
  <2> QED BY <2>1, <2>2
<1> QED BY <1>1, <1>2 DEF Next, RunStep

-----------------------------------------------------------------------------
(* The theorems.                                                           *)

LEMMA Sound == ASSUME Steady PROVE Spec => []IInv
<1>1. Init => IInv
  BY IInvInit
<1>2. IInv /\ [Next]_vars => IInv'
  BY IInvNext
<1> QED BY <1>1, <1>2, PTL DEF Spec

\* mergeOrHandoff, landLocalMergeBranch: for any number of builds, PRs, repairs and
\* gestures, whatever reaches the base while a run is at its merge was passed by a verifier
\* or an operator, in this process or in one before it.
THEOREM TicketLandsVerified == ASSUME Steady PROVE Spec => LandsOnlyVerified
<1>1. IInv /\ [Next]_vars => (base' # base /\ pc \in {"merge",
      "land"} => (base' \ base) \subseteq passed)
  <2> SUFFICES ASSUME IInv, Next, base' # base, pc \in {"merge", "land"}
               PROVE  (base' \ base) \subseteq passed
    BY DEF vars
  <2>1. CASE HumanMerges
    <3>1. (base' \ base) \subseteq {gen}
      BY <2>1, HumanMoves
    <3>2. gen \in passed
      <4>1. hydrated /\ mem.phase = "pr_open" /\ local # 0
        BY DEF IInv, WorkOK, Landing, Reads
      <4> QED BY <4>1 DEF IInv, RowsOK, RowOK, RowFits
    <3> QED BY <3>1, <3>2
  <2>2. CASE ~HumanMerges
    BY <2>2, Moves
  <2> QED BY <2>1, <2>2
<1> QED BY <1>1, Sound, PTL DEF Spec, LandsOnlyVerified

\* restoreBranch, ensureBranch, giveUp, Fail: for any values of the constants, the branch
\* that holds unlanded work is dropped by nobody but an operator who starts the ticket over
\* and a build the ticket's own agent refused.
THEOREM TicketKeepsWork == ASSUME Steady PROVE Spec => WorkIsKept
<1>1. IInv /\ [Next]_vars
        => (local # 0 /\ local \notin base /\ local' = 0 => pc \in {"resume", "agent"} \/ left' < left)
  <2> SUFFICES ASSUME IInv, Next, local # 0, local' = 0
               PROVE  pc \in {"resume", "agent"} \/ left' < left
    BY DEF vars
  <2> QED BY Moves
<1> QED BY <1>1, Sound, PTL DEF Spec, WorkIsKept

LEMMA SeenIs ==
  /\ Seen = "delivered" <=> ckpt.phase = "merged"
  /\ Seen = "working" <=> ckpt.phase # "merged" /\ pc # "off"
  /\ ckpt.phase # "merged" /\ pc = "off" => Seen \in {"open", "parked", "given up"}
<1>1. ckpt.phase = "merged" => Seen = "delivered"
  BY DEF Seen, FailureClass, None
<1>2. ckpt.phase # "merged" /\ pc # "off" => Seen = "working"
  BY DEF Seen
<1>3. ckpt.phase # "merged" /\ pc = "off" => Seen \in {"open", "parked", "given up"}
  BY DEF Seen
<1> QED BY <1>1, <1>2, <1>3

LEMMA SeenNext ==
  /\ Seen' = "delivered" <=> ckpt'.phase = "merged"
  /\ Seen' = "working" <=> ckpt'.phase # "merged" /\ pc' # "off"
  /\ ckpt'.phase # "merged" /\ pc' = "off" => Seen' \in {"open", "parked", "given up"}
<1>1. ckpt'.phase = "merged" => Seen' = "delivered"
  BY DEF Seen, FailureClass, None
<1>2. ckpt'.phase # "merged" /\ pc' # "off" => Seen' = "working"
  BY DEF Seen
<1>3. ckpt'.phase # "merged" /\ pc' = "off" => Seen' \in {"open", "parked", "given up"}
  BY DEF Seen
<1> QED BY <1>1, <1>2, <1>3

\* The checkpoint, its reader, the forge and the operator, together, keep Delivery's promise:
\* every step of the pipeline is a step of Delivery or none, for any values of the constants.
THEOREM TicketDelivers == ASSUME Steady PROVE Spec => ImplementsDelivery
<1> USE DEF Promise!Idle
<1>1. Init => Promise!DeliveryInit
  BY BlankIs DEF Init, Seen, FailureClass, Promise!DeliveryInit, None, Blank
<1>2. IInv /\ IInv' /\ [Next]_vars => [Promise!DeliveryNext]_(Promise!deliveryVars)
  <2>1. CASE UNCHANGED vars
    BY <2>1 DEF vars, Seen, Promise!deliveryVars
  <2>2. ASSUME IInv, IInv', Next, Rests PROVE Promise!DeliveryNext \/ UNCHANGED <<Seen, gen, base>>
    <3>1. CASE ckpt.phase = "merged"
      BY <2>2, <3>1, SeenIs, SeenNext DEF Rests
    <3>2. CASE ckpt.phase # "merged" /\ ckpt'.phase = "merged"
      <4>1. Seen = "working" /\ Seen' = "delivered"
        BY <2>2, <3>2, SeenIs, SeenNext DEF Rests
      <4>2. gen \in base
        BY <2>2, <3>2 DEF IInv, RowsOK, RowOK, RowFits, Rests
      <4> QED BY <2>2, <4>1, <4>2 DEF Rests, Promise!DeliveryNext, Promise!Deliver
    <3>3. CASE ckpt.phase # "merged" /\ ckpt'.phase # "merged"
      <4>1. Seen \in {"working", "open", "parked", "given up"}
            /\ Seen' \in {"working", "open", "parked", "given up"}
        BY <3>3, SeenIs, SeenNext
      <4> QED BY <2>2, <4>1
          DEF Rests, Promise!DeliveryNext, Promise!Work, Promise!Yield, Promise!Regress
    <3> QED BY <3>1, <3>2, <3>3
  <2>3. ASSUME IInv, IInv', Next, Builds PROVE Promise!DeliveryNext
    <3>1. Seen = "working" /\ Seen' = "working"
      BY <2>3, SeenIs, SeenNext DEF Builds
    <3> QED BY <2>3, <3>1 DEF Builds, Promise!DeliveryNext, Promise!Construct
  <2>4. ASSUME IInv, IInv', Next, Ships PROVE Promise!DeliveryNext
    <3>1. Seen' = Seen /\ Seen # "delivered"
      BY <2>4, SeenIs, SeenNext DEF Ships, Seen
    <3> QED BY <2>4, <3>1 DEF Ships, Promise!DeliveryNext, Promise!Land
  <2> QED BY <2>1, <2>2, <2>3, <2>4, Moves DEF Promise!deliveryVars
<1> QED BY <1>1, <1>2, Sound, PTL DEF Spec, ImplementsDelivery, Promise!DeliverySpec
=============================================================================
