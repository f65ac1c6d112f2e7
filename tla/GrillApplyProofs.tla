-------------------------- MODULE GrillApplyProofs --------------------------
(***************************************************************************)
(* Applying a grilled outcome, for any slices, sessions and accidents: the *)
(* values stay in their ranges; a title is filed at most once more than    *)
(* there were accidents; a session reads applied only when everything      *)
(* stands; and a pass whose calls were all answered lands.  The invariant  *)
(* says what a pass has left and has in hand (Listed, HandOK, DoneOK),     *)
(* whom session, click and pass name (TreeOK, NamesOK), and who pays for   *)
(* each copy of a title (CountOK).                                         *)
(***************************************************************************)
EXTENDS GrillApply, FiniteSetTheorems, SequenceTheorems, WellFoundedInduction, TLAPS

-----------------------------------------------------------------------------
(* The invariant.                                                          *)

\* The sessions it holds of: a create is opened on no ticket, or files in the store.
Anew == \A s \in Setups : s.disp = "create" => s.on = "none" \/ "tracker" \notin s.dests

Create == setup.disp = "create"
Anchor == sess.anchor

\* The steps on a list, in the order a pass takes them.
Of(q) == {q[i] : i \in DOMAIN q}
Rank  == [detach |-> 1, detached |-> 2, parent |-> 3, anchor |-> 4, mirror |-> 5, description |-> 6, children |-> 7,
          slices |-> 8, relations |-> 9, comment |-> 10, labels |-> 11, settle |-> 12]
Rises(q) == \A i, j \in DOMAIN q : i < j => Rank[q[i]] < Rank[q[j]]

SlicingSteps == {"children", "slices", "relations"}

\* The steps a disposition asks of a pass.
AskedOf(disp, plan) ==
  CASE disp = "create"      -> {"parent", "anchor", "mirror", "comment"} \cup (IF plan = {} THEN {} ELSE SlicingSteps)
    [] disp = "split"       -> {"description", "comment", "labels"} \cup SlicingSteps
    [] disp = "rewrite"     -> {"description", "comment", "labels"}
    [] disp = "fix"         -> {"description", "comment"}
    [] disp = "needs_split" -> {"comment", "labels"}
    [] disp = "research"    -> {"comment"}
    [] OTHER                -> {}

Ahead == Of(job.todo)
Asked == AskedOf(setup.disp, job.plan)

Listed ==
  /\ Rises(job.todo)
  /\ Ahead \subseteq Asked \cup {"detach", "detached", "settle"}
  /\ \A x \in Ahead, y \in Asked \cup {"detached", "settle"} : Rank[x] < Rank[y] => y \in Ahead
  /\ job.todo = <<>> => job = Idle

Past(step)  == Applying /\ step \notin Ahead
Parents     == {Parent} \X Copies
NoSlices    == [s \in Slices |-> NoId]

\* Who is whose child, and where both are.
TreeOK ==
  /\ \A x \in Ids : issue[x].parent \in Parents \cup {Ticket, NoId, Gone}
  /\ \A x \in Ids : issue[x].parent \in Ids =>
       Exists(x) /\ Exists(issue[x].parent) /\ issue[x].home = issue[issue[x].parent].home
  /\ \A x \in Ids : x[1] \notin Slices => issue[x].parent = NoId
  /\ setup.on # "none" => Ticket \in rows
  /\ setup.on = "none" => ~Exists(Ticket)

\* What session and click name.
SessNames ==
  /\ Anchor # Gone /\ (Anchor \in Ids => Exists(Anchor))
  /\ seen = Unseen \/ seen.dest # "unread"
  /\ ~Create => /\ Anchor = IF setup.on = "none" THEN NoId ELSE Ticket
                /\ seen # Unseen => seen.anchor \in {Anchor, Gone}
  /\ Create => /\ {Anchor, seen.anchor} \subseteq Parents \cup {Ticket, NoId, Gone}
               /\ Ticket \in {Anchor, seen.anchor} => setup.on # "none"
               /\ (Anchor \in {Ticket, NoId} <=> sess.dest = "")
               /\ seen.anchor = Ticket => seen.dest = ""
               /\ seen.anchor = NoId => seen.dest \in {"", "unread"}
  /\ sess.dest = "internal" /\ Anchor \in Ids => issue[Anchor].home = "internal"
  /\ seen.dest = "internal" /\ seen.anchor \in Ids => issue[seen.anchor].home = "internal"

\* What the pass names, and where it goes.
Ready == job.ok \/ Ahead \cap {"anchor", "mirror", "children", "slices"} # {}

PassNames ==
  /\ Applying => job.dest \in setup.dests /\ job.plan \in setup.edits
  /\ ~Create /\ Applying => job.at \in {Anchor, Gone}
  /\ Create => job.at \in Parents \cup {Ticket, NoId, Gone}
  /\ Create /\ job.at = Ticket => setup.on # "none"
  /\ Create /\ Applying /\ job.at = Ticket => job.filed = "tracker" /\ Ahead \cap {"detach", "detached"} = {}
  /\ Create /\ Applying /\ Ready /\ "parent" \notin Ahead => job.at \notin {Ticket, NoId}

NamesOK == SessNames /\ PassNames

\* What a pass has in hand.
HandOK ==
  /\ Ahead \cap {"detach", "detached"} # {} => job.dest = "internal"
  /\ "detached" \in Ahead /\ "detach" \notin Ahead => job.at \in rows /\ issue[job.at].home = "internal"
  /\ "parent" \in Ahead /\ job.filed = "internal" /\ job.at \in Ids => issue[job.at].home = "internal"
  /\ Ahead \cap {"detach", "detached", "parent", "children"} # {} => job.ids = NoSlices /\ job.fresh = NoId
  /\ Ahead \cap {"detach", "detached", "parent"} # {} => job.ok
  /\ Ahead \cap {"anchor", "mirror"} # {} /\ "parent" \notin Ahead
       => job.at \in Parents /\ issue[job.at].home = job.dest
  /\ Ahead \cap {"children", "slices"} # {} /\ Ahead \cap {"detach", "parent"} = {}
       => (job.dest = "internal" /\ job.at \in Ids => issue[job.at].home = "internal")
  /\ \A s \in Slices : job.ids[s] # NoId =>
       s \in job.plan /\ job.ids[s] \in Ids /\ job.ids[s][1] = s /\ issue[job.ids[s]].parent = job.at
       /\ Exists(job.ids[s])
  /\ job.fresh # NoId =>
       /\ At("slices") /\ job.left # {} /\ job.ids[Slice] = NoId
       /\ job.fresh \in {Slice} \X Copies /\ Exists(job.fresh) /\ issue[job.fresh].parent = job.at
  /\ \A b \in job.pairs : job.ids[b[1]] # NoId /\ job.ids[b[2]] # NoId
  /\ job.left \subseteq job.plan

\* What a pass that is still good has done.
DoneOK ==
  job.ok /\ Applying =>
    /\ setup.disp \in {"create", "split"} /\ "children" \notin Ahead =>
         /\ \A s \in job.plan \ job.left : job.ids[s] # NoId
         /\ "slices" \notin Ahead => job.plan = {} \/ job.left = {}
    /\ ~(setup.disp = "research" /\ job.at = NoId) =>
         \A m \in Asked \cap Marks : m \in Ahead \/ (Holds(job.at) /\ m \in issue[job.at].has)

(* How often a title is there.                                             *)
Titles == {Parent} \cup Slices
Num(t) == Cardinality({c \in Copies : Exists(<<t, c>>)})

\* A child of the anchor that the store knows.
Kept(s) == \E x \in rows : x[1] = s /\ issue[x].parent = Anchor

\* A create that has filed nothing it will find again; one that looks for its
\* parent in vain, for the store has no row for it.
Lost == Create /\ sess.dest = ""
Bad  == Create /\ sess.dest # "" /\ Anchor \notin rows /\ ~(At("mirror") /\ job.at = Anchor)

\* The copy that is there by right.
Bonus(t) ==
  IF t = Parent THEN (Create /\ ~Lost /\ ~Bad) \/ At("anchor")
  ELSE (Kept(t) /\ ~Lost) \/ (job.fresh # NoId /\ job.at = Anchor /\ t = Slice)

Room(t) == (IF Bonus(t) THEN 1 ELSE 0) - (IF Bad /\ t # Parent THEN 1 ELSE 0)

Held(a)  == \A t \in Titles : Num(t) <= a + Room(t)
Spare    == \A t \in Titles : Num(t) <= accidents
Charged  == Held(accidents - 1)
ChargedS == \A s \in Slices : Num(s) <= accidents - 1 + Room(s)

CountOK ==
  /\ Held(accidents)
  /\ "parent" \in Ahead => Charged \/ (job.at = Anchor /\ (Spare \/ job.filed = job.dest \/ "detached" \in Ahead))
  /\ At("anchor") => /\ \A s \in Slices : Num(s) <= accidents
                     /\ job.at \in Parents /\ Exists(job.at) /\ job.at # Anchor
                     /\ \A x \in Ids : issue[x].parent # job.at
  /\ "children" \in Ahead /\ Ahead \cap {"parent", "anchor"} = {} => job.at = Anchor \/ ChargedS
  /\ "slices" \in Ahead /\ "children" \notin Ahead =>
       \A s \in job.left : job.ids[s] = NoId /\ ~(job.fresh # NoId /\ s = Slice) =>
         Num(s) <= IF job.at = Anchor THEN accidents - (IF Bad THEN 1 ELSE 0) ELSE accidents - 1 + Room(s)

GInv == TypeOK /\ Listed /\ TreeOK /\ NamesOK /\ HandOK /\ DoneOK /\ CountOK

-----------------------------------------------------------------------------
(* Lemmas on what the actions are built from.                              *)

LEMMA LeastIs == ASSUME NEW s, s \subseteq Nat, s # {} PROVE Least(s) \in s
<1> DEFINE Below == {0..n : n \in s}
<1>1. PICK B \in Below : \A C \in Below : ~(<<C, B>> \in StrictSubsetOrdering(Nat))
  <2>1. Below \subseteq FiniteSubsetsOf(Nat)
    <3> SUFFICES ASSUME NEW n \in s PROVE 0..n \in FiniteSubsetsOf(Nat)
      OBVIOUS
    <3>1. n \in Int /\ 0 \in Int /\ 0..n \subseteq Nat
      OBVIOUS
    <3>2. IsFiniteSet(0..n)
      BY <3>1, FS_Interval
    <3> QED BY <3>1, <3>2 DEF FiniteSubsetsOf
  <2>2. Below # {}
    OBVIOUS
  <2> HIDE DEF Below
  <2> QED BY <2>1, <2>2, FS_StrictSubsetOrderingWellFounded, WFMin
<1>2. PICK m \in s : B = 0..m
  OBVIOUS
<1>3. \A n \in s : ~(n < m)
  <2> SUFFICES ASSUME NEW n \in s, n < m PROVE FALSE
    OBVIOUS
  <2>1. 0..n \subseteq 0..m /\ 0..n # 0..m /\ 0..n \subseteq Nat /\ 0..m \subseteq Nat
    OBVIOUS
  <2>2. <<0..n, B>> \in StrictSubsetOrdering(Nat)
    BY <2>1, <1>2 DEF StrictSubsetOrdering
  <2> QED BY <2>2, <1>1
<1>4. \A d \in s : m <= d
  BY <1>3
<1> QED BY <1>4 DEF Least

LEMMA CopiesAre == Copies \subseteq Nat /\ IsFiniteSet(Copies) /\ Cardinality(Copies) = MaxAccidents + 2
<1> DEFINE n == MaxAccidents + 2
<1>1. n \in Nat /\ n >= 2 /\ Copies = 1 .. n
  BY BoundAssumption DEF Copies
<1> HIDE DEF n
<1>2. n \in Int /\ 1 \in Int
  BY <1>1
<1>3. IsFiniteSet(1 .. n) /\ Cardinality(1 .. n) = IF 1 > n THEN 0 ELSE n - 1 + 1
  BY <1>2, FS_Interval
<1> QED BY <1>1, <1>3 DEF n

\* Titles and what stands for none are told apart by their first component.
LEMMA NamesAre ==
  /\ \A t \in Titles, c \in Copies : <<t, c>> \in Ids
  /\ \A x \in Ids : x[1] \in Int /\ x[1] > -2
  /\ \A x \in Ids : x = Ticket \/ (x[1] \in Titles /\ x[2] \in Copies)
  /\ \A x \in Ids \ {Ticket} : x[1] \in Slices \/ x \in Parents
  /\ Parents \subseteq Ids /\ Ticket \in Ids /\ NoId \notin Ids /\ Gone \notin Ids /\ NoId # Gone
  /\ Ticket \notin Parents /\ \A x \in Parents : x[1] = Parent
  /\ Ticket[1] \notin Titles /\ Parent \notin Slices /\ Titles \subseteq Nat
<1>1. Parent \notin Slices /\ Titles \subseteq Nat /\ Parent \in Titles /\ Slices \subseteq Titles
  BY SliceAssumption DEF Titles, Parent
<1>2. Ticket[1] = -1 /\ NoId[1] = -2 /\ Gone[1] = -3
  BY DEF Ticket, NoId, Gone
<1>3. Ids = (Titles \X Copies) \cup {Ticket}
  BY DEF Ids, Titles
<1>4. \A x \in Ids : x = Ticket \/ (x[1] \in Titles /\ x[2] \in Copies /\ x = <<x[1], x[2]>>)
  BY <1>3
<1>5. \A x \in Parents : x[1] = Parent /\ x[2] \in Copies /\ x = <<Parent, x[2]>>
  BY DEF Parents
<1>6. \A x \in Ids : x[1] \in Int /\ x[1] > -2
  BY <1>1, <1>2, <1>4
<1>7. Parents \subseteq Ids
  BY <1>1, <1>3, <1>5
<1>8. Ticket \notin Parents
  BY <1>1, <1>2, <1>5 DEF Parent
<1>9. \A x \in Ids \ {Ticket} : x[1] \in Slices \/ x \in Parents
  BY <1>4 DEF Titles, Parents
<1>10. NoId \notin Ids /\ Gone \notin Ids /\ NoId # Gone
  BY <1>2, <1>6
<1>11. Ticket[1] \notin Titles
  BY <1>1, <1>2
<1> QED BY <1>1, <1>3, <1>4, <1>5, <1>6, <1>7, <1>8, <1>9, <1>10, <1>11

LEMMA NumIs == \A t \in Titles : Num(t) \in Nat /\ Num(t) <= MaxAccidents + 2
<1> SUFFICES ASSUME NEW t \in Titles PROVE Num(t) \in Nat /\ Num(t) <= MaxAccidents + 2
  OBVIOUS
<1>1. {c \in Copies : Exists(<<t, c>>)} \subseteq Copies
  OBVIOUS
<1> QED BY <1>1, CopiesAre, FS_Subset, FS_CardinalityType DEF Num

\* A title that was filed within its bound can be filed once more.
LEMMA FreshIs ==
  ASSUME NEW t \in Titles, Num(t) <= MaxAccidents + 1
  PROVE  Fresh(t) \in {t} \X Copies /\ Fresh(t) \in Ids /\ ~Exists(Fresh(t))
<1>1. Free(t) # {}
  <2> SUFFICES ASSUME Free(t) = {} PROVE FALSE
    OBVIOUS
  <2>1. {c \in Copies : Exists(<<t, c>>)} = Copies
    BY DEF Free
  <2>2. Num(t) = MaxAccidents + 2
    BY <2>1, CopiesAre DEF Num
  <2> QED BY <2>2, BoundAssumption
<1>2. Free(t) \subseteq Nat
  BY CopiesAre DEF Free
<1>3. Least(Free(t)) \in Free(t)
  BY <1>1, <1>2, LeastIs
<1>4. Least(Free(t)) \in Copies /\ ~Exists(<<t, Least(Free(t))>>)
  BY <1>3 DEF Free
<1> QED BY <1>4, NamesAre DEF Fresh

LEMMA NumSame == ASSUME \A x \in Ids : Exists(x)' = Exists(x) PROVE \A t \in Titles : Num(t)' = Num(t)
<1> SUFFICES ASSUME NEW t \in Titles PROVE Num(t)' = Num(t)
  OBVIOUS
<1>1. \A c \in Copies : Exists(<<t, c>>)' = Exists(<<t, c>>)
  BY NamesAre
<1>2. {c \in Copies : Exists(<<t, c>>)'} = {c \in Copies : Exists(<<t, c>>)}
  BY <1>1
<1> QED BY <1>2 DEF Num, Copies

LEMMA NumFile ==
  ASSUME NEW t \in Titles, NEW x \in {t} \X Copies, ~Exists(x), Exists(x)',
         \A y \in Ids \ {x} : Exists(y)' = Exists(y)
  PROVE  Num(t)' = Num(t) + 1 /\ \A r \in Titles \ {t} : Num(r)' = Num(r)
<1>1. PICK d \in Copies : x = <<t, d>>
  OBVIOUS
<1> DEFINE S(r) == {c \in Copies : Exists(<<r, c>>)}
<1>2. \A r \in Titles, c \in Copies : <<r, c>> \in Ids /\ (<<r, c>> = x => r = t /\ c = d)
  BY <1>1, NamesAre
<1>3. {c \in Copies : Exists(<<t, c>>)'} = S(t) \cup {d} /\ d \notin S(t)
  BY <1>1, <1>2
<1>4. \A r \in Titles \ {t} : {c \in Copies : Exists(<<r, c>>)'} = S(r)
  BY <1>2
<1>5. IsFiniteSet(S(t))
  BY CopiesAre, FS_Subset
<1>6. Cardinality(S(t) \cup {d}) = Cardinality(S(t)) + 1
  BY <1>3, <1>5, FS_AddElement
<1>7. Num(t)' = Num(t) + 1
  BY <1>3, <1>6 DEF Num, Copies
<1>8. \A r \in Titles \ {t} : Num(r)' = Num(r)
  <2> SUFFICES ASSUME NEW r \in Titles \ {t} PROVE Num(r)' = Num(r)
    OBVIOUS
  <2> QED BY <1>4 DEF Num, Copies
<1> QED BY <1>7, <1>8

-----------------------------------------------------------------------------
(* Lemmas on the list of steps.                                            *)

LEMMA RankIs ==
  /\ Rank["detach"] = 1 /\ Rank["detached"] = 2 /\ Rank["parent"] = 3 /\ Rank["anchor"] = 4
  /\ Rank["mirror"] = 5 /\ Rank["description"] = 6 /\ Rank["children"] = 7 /\ Rank["slices"] = 8
  /\ Rank["relations"] = 9 /\ Rank["comment"] = 10 /\ Rank["labels"] = 11 /\ Rank["settle"] = 12
  /\ \A x \in Steps : Rank[x] \in 1 .. 12
  /\ \A x, y \in Steps : Rank[x] = Rank[y] => x = y
<1>1. /\ Rank["detach"] = 1 /\ Rank["detached"] = 2 /\ Rank["parent"] = 3 /\ Rank["anchor"] = 4
      /\ Rank["mirror"] = 5 /\ Rank["description"] = 6 /\ Rank["children"] = 7 /\ Rank["slices"] = 8
      /\ Rank["relations"] = 9 /\ Rank["comment"] = 10 /\ Rank["labels"] = 11 /\ Rank["settle"] = 12
  BY DEF Rank
<1>2. \A x \in Steps : Rank[x] \in 1 .. 12
  BY <1>1 DEF Steps
<1>3. \A x, y \in Steps : Rank[x] = Rank[y] => x = y
  BY <1>1 DEF Steps
<1> QED BY <1>1, <1>2, <1>3

LEMMA TailIs ==
  ASSUME NEW q \in Seq(Steps), q # <<>>, Rises(q)
  PROVE  /\ Tail(q) \in Seq(Steps) /\ Rises(Tail(q)) /\ Of(Tail(q)) = Of(q) \ {Head(q)}
         /\ Head(q) \in Of(q) /\ Of(q) \subseteq Steps
         /\ \A x \in Of(q) : x = Head(q) \/ Rank[Head(q)] < Rank[x]
<1>1. Len(q) \in Nat /\ Len(q) >= 1 /\ DOMAIN q = 1 .. Len(q) /\ Head(q) = q[1]
  OBVIOUS
<1>2. Tail(q) \in Seq(Steps) /\ DOMAIN Tail(q) = 1 .. Len(q) - 1
      /\ \A i \in 1 .. Len(q) - 1 : Tail(q)[i] = q[i + 1] /\ i + 1 \in DOMAIN q
  BY <1>1
<1>3. \A i \in DOMAIN q : q[i] \in Steps /\ (i # 1 => Rank[q[1]] < Rank[q[i]])
  BY <1>1 DEF Rises
<1>4. Rises(Tail(q))
  BY <1>1, <1>2 DEF Rises
<1>5. \A i \in DOMAIN q : q[i] # q[1] => i - 1 \in DOMAIN Tail(q) /\ Tail(q)[i - 1] = q[i]
  BY <1>1, <1>2
<1>6. \A i \in DOMAIN Tail(q) : Tail(q)[i] = q[i + 1] /\ i + 1 \in DOMAIN q /\ i + 1 # 1
  BY <1>1, <1>2
<1>7. ASSUME NEW i \in DOMAIN q, i # 1 PROVE q[i] # q[1]
  <2>1. Rank[q[1]] < Rank[q[i]] /\ q[1] \in Steps /\ q[i] \in Steps
    BY <1>1, <1>3, <1>7
  <2>2. Rank[q[1]] \in Int
    BY <2>1, RankIs
  <2> QED BY <2>1, <2>2
<1>8. Of(Tail(q)) = Of(q) \ {Head(q)}
  BY <1>1, <1>5, <1>6, <1>7 DEF Of
<1>9. Head(q) \in Of(q) /\ Of(q) \subseteq Steps
  BY <1>1, <1>3 DEF Of
<1>10. \A x \in Of(q) : x = Head(q) \/ Rank[Head(q)] < Rank[x]
  BY <1>1, <1>3 DEF Of
<1> QED BY <1>2, <1>4, <1>8, <1>9, <1>10

LEMMA JoinIs ==
  ASSUME NEW p \in Seq(Steps), NEW q \in Seq(Steps), Rises(p), Rises(q),
         \A x \in Of(p), y \in Of(q) : Rank[x] < Rank[y]
  PROVE  p \o q \in Seq(Steps) /\ Rises(p \o q) /\ Of(p \o q) = Of(p) \cup Of(q)
<1>1. /\ Len(p) \in Nat /\ Len(q) \in Nat /\ DOMAIN p = 1 .. Len(p) /\ DOMAIN q = 1 .. Len(q)
      /\ p \o q \in Seq(Steps) /\ DOMAIN (p \o q) = 1 .. Len(p) + Len(q)
  OBVIOUS
<1>2. \A i \in 1 .. Len(p) : (p \o q)[i] = p[i] /\ p[i] \in Of(p)
  BY <1>1 DEF Of
<1>3. \A i \in 1 .. Len(p) + Len(q) : i > Len(p) => (p \o q)[i] = q[i - Len(p)] /\ i - Len(p) \in DOMAIN q
  BY <1>1
<1>4. \A i \in DOMAIN q : i + Len(p) \in DOMAIN (p \o q) /\ (p \o q)[i + Len(p)] = q[i] /\ q[i] \in Of(q)
  BY <1>1 DEF Of
<1>5. Of(p \o q) \subseteq Of(p) \cup Of(q)
  BY <1>1, <1>2, <1>3 DEF Of
<1>6. Of(p) \subseteq Of(p \o q) /\ Of(q) \subseteq Of(p \o q)
  <2>1. \A i \in DOMAIN p : i \in DOMAIN (p \o q) /\ (p \o q)[i] = p[i]
    BY <1>1, <1>2
  <2>2. Of(p) \subseteq Of(p \o q)
    BY <2>1 DEF Of
  <2>3. Of(q) \subseteq Of(p \o q)
    BY <1>4 DEF Of
  <2> QED BY <2>2, <2>3
<1>7. ASSUME NEW i \in DOMAIN (p \o q), NEW j \in DOMAIN (p \o q), i < j
      PROVE  Rank[(p \o q)[i]] < Rank[(p \o q)[j]]
  <2>1. CASE j <= Len(p)
    BY <1>1, <1>2, <1>7, <2>1 DEF Rises
  <2>2. CASE i > Len(p)
    BY <1>1, <1>3, <1>7, <2>2 DEF Rises
  <2>3. CASE i <= Len(p) /\ j > Len(p)
    <3>1. (p \o q)[i] \in Of(p)
      BY <1>1, <1>2, <2>3
    <3>2. (p \o q)[j] \in Of(q)
      BY <1>1, <1>3, <1>4, <2>3
    <3> QED BY <3>1, <3>2
  <2> QED BY <1>1, <2>1, <2>2, <2>3
<1> QED BY <1>1, <1>5, <1>6, <1>7 DEF Rises

LEMMA ListIs ==
  /\ \A x \in Steps : <<x>> \in Seq(Steps) /\ Rises(<<x>>) /\ Of(<<x>>) = {x}
  /\ \A x, y \in Steps : Rank[x] < Rank[y] =>
       <<x, y>> \in Seq(Steps) /\ Rises(<<x, y>>) /\ Of(<<x, y>>) = {x, y}
  /\ \A x, y, z \in Steps : Rank[x] < Rank[y] /\ Rank[y] < Rank[z] =>
       <<x, y, z>> \in Seq(Steps) /\ Rises(<<x, y, z>>) /\ Of(<<x, y, z>>) = {x, y, z}
  /\ <<>> \in Seq(Steps) /\ Rises(<<>>) /\ Of(<<>>) = {}
<1>1. \A x \in Steps : <<x>> \in Seq(Steps) /\ Rises(<<x>>) /\ Of(<<x>>) = {x}
  BY DEF Rises, Of
<1>2. ASSUME NEW x \in Steps, NEW y \in Steps, Rank[x] < Rank[y]
      PROVE  <<x, y>> \in Seq(Steps) /\ Rises(<<x, y>>) /\ Of(<<x, y>>) = {x, y}
  <2>1. <<x, y>> \in Seq(Steps) /\ DOMAIN <<x, y>> = {1, 2}
    OBVIOUS
  <2> QED BY <1>2, <2>1 DEF Rises, Of
<1>3. ASSUME NEW x \in Steps, NEW y \in Steps, NEW z \in Steps, Rank[x] < Rank[y], Rank[y] < Rank[z]
      PROVE  <<x, y, z>> \in Seq(Steps) /\ Rises(<<x, y, z>>) /\ Of(<<x, y, z>>) = {x, y, z}
  <2>1. <<x, y, z>> \in Seq(Steps) /\ DOMAIN <<x, y, z>> = {1, 2, 3}
    OBVIOUS
  <2>2. Rank[x] \in Int /\ Rank[y] \in Int /\ Rank[z] \in Int
    BY RankIs
  <2>3. Of(<<x, y, z>>) = {x, y, z}
    BY <2>1 DEF Of
  <2> QED BY <1>3, <2>1, <2>2, <2>3 DEF Rises
<1>4. <<>> \in Seq(Steps) /\ Rises(<<>>) /\ Of(<<>>) = {}
  BY EmptySeq DEF Rises, Of
<1> QED BY <1>1, <1>2, <1>3, <1>4

\* The list of a disposition has the steps it asks.
LEMMA PlanIs ==
  ASSUME NEW disp \in Dispositions \ {"no_change"}, NEW plan
  PROVE  /\ Plan(disp, plan) \in Seq(Steps) /\ Rises(Plan(disp, plan))
         /\ Of(Plan(disp, plan)) = AskedOf(disp, plan)
<1> DEFINE Good(q, set) == q \in Seq(Steps) /\ Rises(q) /\ Of(q) = set
<1> DEFINE Inner == {"parent", "anchor", "mirror", "description", "children", "slices", "relations",
                     "comment", "labels"}
<1>0. Inner \subseteq Steps
  BY DEF Steps
<1>1. Good(Slicing, SlicingSteps)
  BY <1>0, ListIs, RankIs DEF Slicing, SlicingSteps
<1>2. Good(<<"parent", "anchor", "mirror">>, {"parent", "anchor", "mirror"})
  BY <1>0, ListIs, RankIs
<1>3. Good(<<>>, {}) /\ Good(<<"comment">>, {"comment"}) /\ Good(<<"description">>, {"description"})
  BY <1>0, ListIs
<1>4. /\ Good(<<"comment", "labels">>, {"comment", "labels"})
      /\ Good(<<"description", "comment">>, {"description", "comment"})
      /\ Good(<<"description", "comment", "labels">>, {"description", "comment", "labels"})
  BY <1>0, ListIs, RankIs
<1> DEFINE few  == IF plan = {} THEN <<>> ELSE Slicing
<1> DEFINE some == IF plan = {} THEN {} ELSE SlicingSteps
<1>5. Good(few, some)
  BY <1>1, <1>3
<1> HIDE DEF few
<1>6. Good(<<"parent", "anchor", "mirror">> \o few, {"parent", "anchor", "mirror"} \cup some)
  <2>1. \A x \in {"parent", "anchor", "mirror"}, y \in some : Rank[x] < Rank[y]
    BY RankIs DEF SlicingSteps
  <2> QED BY <1>2, <1>5, <2>1, JoinIs
<1>7. Good((<<"parent", "anchor", "mirror">> \o few) \o <<"comment">>,
           {"parent", "anchor", "mirror"} \cup some \cup {"comment"})
  <2>1. \A x \in {"parent", "anchor", "mirror"} \cup some, y \in {"comment"} : Rank[x] < Rank[y]
    BY RankIs DEF SlicingSteps
  <2> HIDE DEF some
  <2> QED BY <1>3, <1>6, <2>1, JoinIs
<1>8. Good(<<"description">> \o Slicing, {"description"} \cup SlicingSteps)
  <2>1. \A x \in {"description"}, y \in SlicingSteps : Rank[x] < Rank[y]
    BY RankIs DEF SlicingSteps
  <2> QED BY <1>1, <1>3, <2>1, JoinIs
<1>9. Good((<<"description">> \o Slicing) \o <<"comment", "labels">>,
           {"description"} \cup SlicingSteps \cup {"comment", "labels"})
  <2> DEFINE most == {"description"} \cup SlicingSteps
  <2>1. \A x \in most, y \in {"comment", "labels"} : Rank[x] < Rank[y]
    BY RankIs DEF SlicingSteps
  <2>2. Good(<<"description">> \o Slicing, most)
    BY <1>8
  <2> HIDE DEF most
  <2>3. Good((<<"description">> \o Slicing) \o <<"comment", "labels">>, most \cup {"comment", "labels"})
    BY <1>4, <2>1, <2>2, JoinIs
  <2> QED BY <2>3 DEF most
<1>10. CASE disp = "create"
  <2>1. /\ Plan(disp, plan) = (<<"parent", "anchor", "mirror">> \o few) \o <<"comment">>
        /\ AskedOf(disp, plan) = {"parent", "anchor", "mirror"} \cup some \cup {"comment"}
    BY <1>10 DEF Plan, AskedOf, few
  <2> QED BY <2>1, <1>7
<1>11. CASE disp = "split"
  <2>1. /\ Plan(disp, plan) = (<<"description">> \o Slicing) \o <<"comment", "labels">>
        /\ AskedOf(disp, plan) = {"description"} \cup SlicingSteps \cup {"comment", "labels"}
    BY <1>11 DEF Plan, AskedOf
  <2> QED BY <2>1, <1>9
<1>12. CASE disp \in {"rewrite", "fix", "needs_split", "research"}
  BY <1>3, <1>4, <1>12 DEF Plan, AskedOf
<1> QED BY <1>10, <1>11, <1>12 DEF Dispositions

LEMMA AskedRanks ==
  ASSUME NEW disp, NEW plan
  PROVE  /\ AskedOf(disp, plan) \subseteq Steps \ {"detach", "detached", "settle"}
         /\ \A y \in AskedOf(disp, plan) : Rank[y] \in 3 .. 11
<1>1. AskedOf(disp, plan) \subseteq
        {"parent", "anchor", "mirror", "description", "children", "slices", "relations", "comment", "labels"}
  BY DEF AskedOf, SlicingSteps
<1> QED BY <1>1, RankIs DEF Steps

LEMMA AskedIs ==
  /\ Asked \subseteq Steps \ {"detach", "detached", "settle"}
  /\ \A y \in Asked : /\ Rank[y] \in Int /\ Rank[y] > 2 /\ Rank[y] < 12
                      /\ y # "parent" => Rank[y] > 3
                      /\ y \notin {"parent", "anchor"} => Rank[y] > 4
                      /\ y \notin {"parent", "anchor", "mirror"} => Rank[y] > 5
                      /\ y \notin {"parent", "anchor", "mirror", "description"} => Rank[y] > 6
  /\ "parent" \in Asked \/ "anchor" \in Asked \/ "mirror" \in Asked => Create
  /\ Create => {"parent", "anchor", "mirror", "comment"} \subseteq Asked /\ "description" \notin Asked
                /\ Asked \subseteq {"parent", "anchor", "mirror", "comment"} \cup SlicingSteps
  /\ "children" \in Asked \/ "slices" \in Asked \/ "relations" \in Asked
       => SlicingSteps \subseteq Asked /\ setup.disp \in {"create", "split"}
  /\ setup.disp = "split" \/ (Create /\ job.plan # {}) => SlicingSteps \subseteq Asked
<1> DEFINE All == {"parent", "anchor", "mirror", "description", "children", "slices", "relations", "comment", "labels"}
<1>1. Asked \subseteq All
  BY DEF Asked, AskedOf, SlicingSteps
<1>2. All \subseteq Steps \ {"detach", "detached", "settle"}
  BY DEF Steps
<1>3. \A y \in All : /\ Rank[y] \in Int /\ Rank[y] > 2 /\ Rank[y] < 12
                     /\ y # "parent" => Rank[y] > 3
                     /\ y \notin {"parent", "anchor"} => Rank[y] > 4
                     /\ y \notin {"parent", "anchor", "mirror"} => Rank[y] > 5
                     /\ y \notin {"parent", "anchor", "mirror", "description"} => Rank[y] > 6
  BY RankIs
<1>4. "parent" \in Asked \/ "anchor" \in Asked \/ "mirror" \in Asked => Create
  BY DEF Asked, AskedOf, SlicingSteps, Create
<1>5. Create => /\ {"parent", "anchor", "mirror", "comment"} \subseteq Asked /\ "description" \notin Asked
                /\ Asked \subseteq {"parent", "anchor", "mirror", "comment"} \cup SlicingSteps
  BY DEF Asked, AskedOf, SlicingSteps, Create
<1>6. "children" \in Asked \/ "slices" \in Asked \/ "relations" \in Asked
       => SlicingSteps \subseteq Asked /\ setup.disp \in {"create", "split"}
  BY DEF Asked, AskedOf, SlicingSteps
<1>7. setup.disp = "split" \/ (Create /\ job.plan # {}) => SlicingSteps \subseteq Asked
  BY DEF Asked, AskedOf, SlicingSteps, Create
<1> HIDE DEF All
<1> QED BY <1>1, <1>2, <1>3, <1>4, <1>5, <1>6, <1>7

\* What At(step) tells of the list.
LEMMA AtIs ==
  ASSUME job.todo \in Seq(Steps), Listed, NEW step, At(step)
  PROVE  /\ step \in Ahead /\ Ahead \subseteq Steps
         /\ \A x \in Ahead : x = step \/ Rank[step] < Rank[x]
         /\ \A y \in Asked \cup {"detached", "settle"} : Rank[step] < Rank[y] => y \in Ahead
BY TailIs DEF At, Applying, Listed, Ahead

\* Where a pass stands: what is behind it, and what is ahead.
LEMMA Stands ==
  ASSUME job.todo \in Seq(Steps), Listed
  PROVE  /\ Applying => "settle" \in Ahead
         /\ ~Applying => Ahead = {}
         /\ At("detach")      => {"detach", "detached"} \subseteq Ahead /\ Asked \subseteq Ahead
         /\ At("detached")    => "detach" \notin Ahead /\ "detached" \in Ahead /\ Asked \subseteq Ahead
         /\ At("parent")      => Ahead \cap {"detach", "detached"} = {} /\ "parent" \in Ahead /\ Asked \subseteq Ahead
         /\ At("anchor")      => Ahead \cap {"detach", "detached", "parent"} = {} /\ "anchor" \in Ahead
                                 /\ Asked \ {"parent"} \subseteq Ahead
         /\ At("mirror")      => Ahead \cap {"detach", "detached", "parent", "anchor"} = {} /\ "mirror" \in Ahead
                                 /\ Asked \ {"parent", "anchor"} \subseteq Ahead
         /\ At("description") => Ahead \cap {"detach", "detached", "parent", "anchor", "mirror"} = {}
                                 /\ "description" \in Ahead /\ Asked \ {"parent", "anchor", "mirror"} \subseteq Ahead
         /\ At("children")    => Ahead \cap {"detach", "detached", "parent", "anchor", "mirror", "description"} = {}
                                 /\ "children" \in Ahead
         /\ At("slices")      => Ahead \cap {"detach", "detached", "parent", "anchor", "mirror", "description",
                                            "children"} = {}
                                 /\ "slices" \in Ahead
         /\ At("relations") \/ At("comment") \/ At("labels") \/ At("settle") =>
              Ahead \cap {"detach", "detached", "parent", "anchor", "mirror", "description", "children", "slices"} = {}
         /\ At("settle") => Ahead = {"settle"}
<1>1. Ahead \subseteq Asked \cup {"detach", "detached", "settle"}
  BY DEF Listed
<1>2. Applying => "settle" \in Ahead
  <2> SUFFICES ASSUME Applying PROVE "settle" \in Ahead
    OBVIOUS
  <2>1. At(Head(job.todo))
    BY DEF At
  <2>2. Head(job.todo) \in Ahead /\ Ahead \subseteq Steps
    BY <2>1, AtIs
  <2>3. Rank[Head(job.todo)] < Rank["settle"] \/ Head(job.todo) = "settle"
    <3>1. Rank[Head(job.todo)] \in 1 .. 12 /\ "settle" \in Steps
      BY <2>2, RankIs DEF Steps
    <3> QED BY <2>2, <3>1, RankIs
  <2> QED BY <2>1, <2>2, <2>3, AtIs
<1>3. ~Applying => Ahead = {}
  BY DEF Applying, Ahead, Of
<1>4. At("detach") => {"detach", "detached"} \subseteq Ahead /\ Asked \subseteq Ahead
  <2> SUFFICES ASSUME At("detach")
               PROVE  {"detach", "detached"} \subseteq Ahead /\ Asked \subseteq Ahead
    OBVIOUS
  <2>1. /\ "detach" \in Ahead /\ Ahead \subseteq Steps
        /\ \A x \in Ahead : x = "detach" \/ Rank["detach"] < Rank[x]
        /\ \A y \in Asked \cup {"detached", "settle"} : Rank["detach"] < Rank[y] => y \in Ahead
    BY AtIs
  <2>2. \A y \in Asked : Rank["detach"] < Rank[y]
    BY RankIs, AskedIs
  <2>3. Rank["detach"] < Rank["detached"]
    BY RankIs
  <2> QED BY <2>1, <2>2, <2>3
<1>5. At("detached") => "detach" \notin Ahead /\ "detached" \in Ahead /\ Asked \subseteq Ahead
  <2> SUFFICES ASSUME At("detached")
               PROVE  "detach" \notin Ahead /\ "detached" \in Ahead /\ Asked \subseteq Ahead
    OBVIOUS
  <2>1. /\ "detached" \in Ahead /\ Ahead \subseteq Steps
        /\ \A x \in Ahead : x = "detached" \/ Rank["detached"] < Rank[x]
        /\ \A y \in Asked \cup {"detached", "settle"} : Rank["detached"] < Rank[y] => y \in Ahead
    BY AtIs
  <2> QED BY <2>1, RankIs, AskedIs
<1>6. At("parent") => Ahead \cap {"detach", "detached"} = {} /\ "parent" \in Ahead /\ Asked \subseteq Ahead
  <2> SUFFICES ASSUME At("parent")
               PROVE  Ahead \cap {"detach", "detached"} = {} /\ "parent" \in Ahead /\ Asked \subseteq Ahead
    OBVIOUS
  <2>1. /\ "parent" \in Ahead /\ Ahead \subseteq Steps
        /\ \A x \in Ahead : x = "parent" \/ Rank["parent"] < Rank[x]
        /\ \A y \in Asked \cup {"detached", "settle"} : Rank["parent"] < Rank[y] => y \in Ahead
    BY AtIs
  <2> QED BY <2>1, RankIs, AskedIs
<1>7. At("anchor") => Ahead \cap {"detach", "detached", "parent"} = {} /\ "anchor" \in Ahead
                      /\ Asked \ {"parent"} \subseteq Ahead
  <2> SUFFICES ASSUME At("anchor")
               PROVE  Ahead \cap {"detach", "detached", "parent"} = {} /\ "anchor" \in Ahead
                      /\ Asked \ {"parent"} \subseteq Ahead
    OBVIOUS
  <2>1. /\ "anchor" \in Ahead /\ Ahead \subseteq Steps
        /\ \A x \in Ahead : x = "anchor" \/ Rank["anchor"] < Rank[x]
        /\ \A y \in Asked \cup {"detached", "settle"} : Rank["anchor"] < Rank[y] => y \in Ahead
    BY AtIs
  <2> QED BY <2>1, RankIs, AskedIs
<1>8. At("mirror") => Ahead \cap {"detach", "detached", "parent", "anchor"} = {} /\ "mirror" \in Ahead
                      /\ Asked \ {"parent", "anchor"} \subseteq Ahead
  <2> SUFFICES ASSUME At("mirror")
               PROVE  Ahead \cap {"detach", "detached", "parent", "anchor"} = {} /\ "mirror" \in Ahead
                      /\ Asked \ {"parent", "anchor"} \subseteq Ahead
    OBVIOUS
  <2>1. /\ "mirror" \in Ahead /\ Ahead \subseteq Steps
        /\ \A x \in Ahead : x = "mirror" \/ Rank["mirror"] < Rank[x]
        /\ \A y \in Asked \cup {"detached", "settle"} : Rank["mirror"] < Rank[y] => y \in Ahead
    BY AtIs
  <2> QED BY <2>1, RankIs, AskedIs
<1>9. At("description") => Ahead \cap {"detach", "detached", "parent", "anchor", "mirror"} = {}
                           /\ "description" \in Ahead /\ Asked \ {"parent", "anchor", "mirror"} \subseteq Ahead
  <2> SUFFICES ASSUME At("description")
               PROVE  Ahead \cap {"detach", "detached", "parent", "anchor", "mirror"} = {} /\ "description" \in Ahead
                      /\ Asked \ {"parent", "anchor", "mirror"} \subseteq Ahead
    OBVIOUS
  <2>1. /\ "description" \in Ahead /\ Ahead \subseteq Steps
        /\ \A x \in Ahead : x = "description" \/ Rank["description"] < Rank[x]
        /\ \A y \in Asked \cup {"detached", "settle"} : Rank["description"] < Rank[y] => y \in Ahead
    BY AtIs
  <2> QED BY <2>1, RankIs, AskedIs
<1>10. At("children") => Ahead \cap {"detach", "detached", "parent", "anchor", "mirror", "description"} = {}
                         /\ "children" \in Ahead
  <2> SUFFICES ASSUME At("children")
               PROVE  Ahead \cap {"detach", "detached", "parent", "anchor", "mirror", "description"} = {}
                      /\ "children" \in Ahead
    OBVIOUS
  <2>1. /\ "children" \in Ahead /\ Ahead \subseteq Steps
        /\ \A x \in Ahead : x = "children" \/ Rank["children"] < Rank[x]
        /\ \A y \in Asked \cup {"detached", "settle"} : Rank["children"] < Rank[y] => y \in Ahead
    BY AtIs
  <2> QED BY <2>1, RankIs, AskedIs
<1>11. At("slices") =>
         Ahead \cap {"detach", "detached", "parent", "anchor", "mirror", "description", "children"} = {}
         /\ "slices" \in Ahead
  <2> SUFFICES ASSUME At("slices")
               PROVE  Ahead \cap {"detach", "detached", "parent", "anchor", "mirror", "description", "children"} = {}
                      /\ "slices" \in Ahead
    OBVIOUS
  <2>1. /\ "slices" \in Ahead /\ Ahead \subseteq Steps
        /\ \A x \in Ahead : x = "slices" \/ Rank["slices"] < Rank[x]
        /\ \A y \in Asked \cup {"detached", "settle"} : Rank["slices"] < Rank[y] => y \in Ahead
    BY AtIs
  <2> QED BY <2>1, RankIs, AskedIs
<1>12. ASSUME NEW s \in {"relations", "comment", "labels", "settle"}, At(s)
       PROVE  Ahead \cap {"detach", "detached", "parent", "anchor", "mirror", "description", "children", "slices"} = {}
  BY <1>12, AtIs, RankIs
<1>13. At("settle") => Ahead = {"settle"}
  <2> SUFFICES ASSUME At("settle") PROVE Ahead \subseteq {"settle"}
    BY AtIs
  <2>1. Ahead \subseteq Steps /\ \A x \in Ahead : x = "settle" \/ Rank["settle"] < Rank[x]
    BY AtIs
  <2>2. \A x \in Steps : Rank[x] \in 1 .. 12
    BY RankIs
  <2> QED BY <2>1, <2>2, RankIs
<1> QED BY <1>2, <1>3, <1>4, <1>5, <1>6, <1>7, <1>8, <1>9, <1>10, <1>11, <1>12, <1>13

LEMMA NoneLeft == Of(<<>>) = {}
BY DEF Of

\* A pass that takes a step has the same ahead of it but that one.
LEMMA Advances ==
  ASSUME job.todo \in Seq(Steps), Listed, NEW step, step # "settle", At(step),
         setup' = setup, job'.plan = job.plan, job'.todo = Tail(job.todo)
  PROVE  Listed' /\ Ahead' = Ahead \ {step} /\ Applying' /\ job'.todo \in Seq(Steps)
<1>1. /\ Tail(job.todo) \in Seq(Steps) /\ Rises(Tail(job.todo)) /\ Of(Tail(job.todo)) = Ahead \ {step}
      /\ step \in Ahead /\ Ahead \subseteq Steps /\ \A x \in Ahead : x = step \/ Rank[step] < Rank[x]
  BY TailIs DEF At, Applying, Listed, Ahead
<1>2. Ahead' = Ahead \ {step} /\ Asked' = Asked /\ Rises(job'.todo)
  BY <1>1 DEF Ahead, Asked
<1>3. "settle" \in Ahead /\ Applying
  BY Stands DEF At
<1>4. job'.todo # <<>>
  <2>1. Of(job'.todo) # {}
    BY <1>2, <1>3 DEF Ahead
  <2> QED BY <2>1, NoneLeft
<1>5. \A x \in Ahead', y \in Asked' \cup {"detached", "settle"} : Rank[x] < Rank[y] => y \in Ahead'
  <2> SUFFICES ASSUME NEW x \in Ahead \ {step}, NEW y \in Asked \cup {"detached", "settle"}, Rank[x] < Rank[y]
               PROVE  y \in Ahead \ {step}
    BY <1>2
  <2>1. Rank[step] < Rank[x] /\ y \in Ahead /\ Rank[x] \in Int /\ Rank[step] \in Int
    BY <1>1, RankIs DEF Listed
  <2>2. y # step
    BY <2>1
  <2> QED BY <2>1, <2>2
<1> QED BY <1>1, <1>2, <1>4, <1>5 DEF Listed, Applying

\* Nothing to detach: both steps of the conversion are passed over.
LEMMA SkipsDetach ==
  ASSUME job.todo \in Seq(Steps), Listed, At("detach"),
         setup' = setup, job'.plan = job.plan, job'.todo = Tail(Tail(job.todo))
  PROVE  Listed' /\ Ahead' = Ahead \ {"detach", "detached"} /\ Applying' /\ job'.todo \in Seq(Steps)
<1> DEFINE q == Tail(job.todo)
<1>1. /\ q \in Seq(Steps) /\ Rises(q) /\ Of(q) = Ahead \ {"detach"} /\ "detach" \in Ahead /\ Ahead \subseteq Steps
  BY TailIs DEF At, Applying, Listed, Ahead
<1>2. "detached" \in Ahead /\ "settle" \in Ahead
  BY Stands DEF At
<1>3. q # <<>>
  BY <1>1, <1>2 DEF Of
<1> HIDE DEF q
<1>4. /\ Tail(q) \in Seq(Steps) /\ Rises(Tail(q)) /\ Of(Tail(q)) = Of(q) \ {Head(q)} /\ Head(q) \in Of(q)
      /\ \A x \in Of(q) : x = Head(q) \/ Rank[Head(q)] < Rank[x]
  BY <1>1, <1>3, TailIs
<1>5. Head(q) = "detached"
  <2> SUFFICES ASSUME Head(q) # "detached" PROVE FALSE
    OBVIOUS
  <2>1. Head(q) \in Steps /\ Head(q) # "detach" /\ Rank[Head(q)] < 2
    BY <1>1, <1>2, <1>4, RankIs
  <2>2. Rank[Head(q)] \in 1 .. 12 /\ "detach" \in Steps
    BY <2>1, RankIs DEF Steps
  <2>3. Rank[Head(q)] = Rank["detach"]
    BY <2>1, <2>2, RankIs
  <2> QED BY <2>1, <2>2, <2>3, RankIs
<1>6. Ahead' = Ahead \ {"detach", "detached"} /\ Asked' = Asked /\ Rises(job'.todo) /\ job'.todo \in Seq(Steps)
  BY <1>1, <1>4, <1>5 DEF Ahead, Asked, q
<1>7. job'.todo # <<>>
  <2>1. Of(job'.todo) # {}
    BY <1>2, <1>6 DEF Ahead
  <2> QED BY <2>1, NoneLeft
<1>8. \A x \in Ahead', y \in Asked' \cup {"detached", "settle"} : Rank[x] < Rank[y] => y \in Ahead'
  <2> SUFFICES ASSUME NEW x \in Ahead \ {"detach", "detached"}, NEW y \in Asked \cup {"detached", "settle"},
                      Rank[x] < Rank[y]
               PROVE  y \in Ahead \ {"detach", "detached"}
    BY <1>6
  <2>1. y \in Ahead /\ y # "detach"
    BY AskedIs DEF Listed
  <2>2. y # "detached"
    <3>1. x \in Of(q) /\ x # "detached" /\ x \in Steps
      BY <1>1
    <3>2. Rank["detached"] < Rank[x] /\ Rank[x] \in Int /\ Rank["detached"] = 2
      BY <1>4, <1>5, <3>1, RankIs
    <3> QED BY <3>2
  <2> QED BY <2>1, <2>2
<1> QED BY <1>6, <1>7, <1>8 DEF Listed, Applying

\* The parent is there: filing, anchoring and mirroring it are passed over.
LEMMA SkipsParent ==
  ASSUME job.todo \in Seq(Steps), Listed, At("parent"),
         setup' = setup, job'.plan = job.plan, job'.todo = Tail(Tail(Tail(job.todo)))
  PROVE  /\ Listed' /\ Ahead' = Ahead \ {"parent", "anchor", "mirror"} /\ Applying'
         /\ job'.todo \in Seq(Steps)
<1> DEFINE q == Tail(job.todo)
<1> DEFINE r == Tail(q)
<1>1. /\ q \in Seq(Steps) /\ Rises(q) /\ Of(q) = Ahead \ {"parent"} /\ "parent" \in Ahead /\ Ahead \subseteq Steps
  BY TailIs DEF At, Applying, Listed, Ahead
<1>2. /\ {"parent", "anchor", "mirror", "settle"} \subseteq Ahead
      /\ Ahead \cap {"detach", "detached"} = {}
  <2>1. "parent" \in Asked
    BY <1>1 DEF Listed
  <2> QED BY <2>1, Stands, AskedIs DEF At
<1>3. q # <<>>
  BY <1>1, <1>2 DEF Of
<1> HIDE DEF q
<1>4. /\ r \in Seq(Steps) /\ Rises(r) /\ Of(r) = Of(q) \ {Head(q)} /\ Head(q) \in Of(q)
      /\ \A x \in Of(q) : x = Head(q) \/ Rank[Head(q)] < Rank[x]
  BY <1>1, <1>3, TailIs
<1>5. \A x \in Steps : /\ Rank[x] <= 4 => x \in {"detach", "detached", "parent", "anchor"}
                       /\ Rank[x] <= 5 => x \in {"detach", "detached", "parent", "anchor", "mirror"}
  BY RankIs DEF Steps
<1>6. Head(q) = "anchor"
  BY <1>1, <1>2, <1>4, <1>5, RankIs
<1>7. r # <<>> /\ Of(r) = Ahead \ {"parent", "anchor"}
  <2>1. Of(r) = Ahead \ {"parent", "anchor"}
    BY <1>1, <1>4, <1>6
  <2> QED BY <1>2, <2>1, ListIs
<1> HIDE DEF r
<1>8. /\ Tail(r) \in Seq(Steps) /\ Rises(Tail(r)) /\ Of(Tail(r)) = Of(r) \ {Head(r)} /\ Head(r) \in Of(r)
      /\ \A x \in Of(r) : x = Head(r) \/ Rank[Head(r)] < Rank[x]
  BY <1>4, <1>7, TailIs
<1>9. Head(r) = "mirror"
  BY <1>1, <1>2, <1>5, <1>7, <1>8, RankIs
<1>10. /\ Ahead' = Ahead \ {"parent", "anchor", "mirror"} /\ Asked' = Asked /\ Rises(job'.todo)
       /\ job'.todo \in Seq(Steps)
  BY <1>7, <1>8, <1>9 DEF Ahead, Asked, q, r
<1>11. job'.todo # <<>>
  <2>1. Of(job'.todo) # {}
    BY <1>2, <1>10 DEF Ahead
  <2> QED BY <2>1, NoneLeft
<1>12. \A x \in Ahead', y \in Asked' \cup {"detached", "settle"} : Rank[x] < Rank[y] => y \in Ahead'
  <2> SUFFICES ASSUME NEW x \in Ahead \ {"parent", "anchor", "mirror"}, NEW y \in Asked \cup {"detached", "settle"},
                      Rank[x] < Rank[y]
               PROVE  y \in Ahead \ {"parent", "anchor", "mirror"}
    BY <1>10
  <2>1. y \in Ahead
    BY DEF Listed
  <2>2. Rank["mirror"] < Rank[x] /\ Rank[x] \in Int
    BY <1>1, <1>2, <1>7, <1>8, <1>9, RankIs
  <2>3. Rank[y] > 5
    BY <2>1, <2>2, <1>1, RankIs
  <2> QED BY <2>1, <2>3, RankIs
<1> QED BY <1>10, <1>11, <1>12 DEF Listed, Applying

\* A pass that gives up, or has nothing to write, has only to settle.
LEMMA OnlySettles ==
  ASSUME job'.todo = <<"settle">>
  PROVE  Listed' /\ Ahead' = {"settle"} /\ Applying' /\ job'.todo \in Seq(Steps)
<1>1. "settle" \in Steps
  BY DEF Steps
<1>2. Of(<<"settle">>) = {"settle"} /\ Rises(<<"settle">>) /\ <<"settle">> \in Seq(Steps) /\ <<"settle">> # <<>>
  BY <1>1, ListIs
<1>3. \A y \in Asked' \cup {"detached", "settle"} : ~(Rank["settle"] < Rank[y])
  BY AskedRanks, RankIs DEF Asked
<1> QED BY <1>2, <1>3 DEF Listed, Ahead, Applying

LEMMA Rests == ASSUME job' = Idle PROVE Listed' /\ Ahead' = {} /\ ~Applying'
<1>1. job'.todo = <<>> /\ Of(<<>>) = {} /\ Rises(<<>>)
  BY ListIs DEF Idle
<1> QED BY <1>1 DEF Listed, Ahead, Applying

-----------------------------------------------------------------------------
(* Steps that leave the pass alone, and its end.                           *)

Quiet == UNCHANGED <<setup, issue, rows>> /\ sess'.anchor = sess.anchor /\ sess'.dest = sess.dest

LEMMA QuietCounts ==
  ASSUME Quiet
  PROVE  /\ \A t \in Titles : Num(t)' = Num(t)
         /\ \A s \in Slices : Kept(s)' = Kept(s)
         /\ Lost' = Lost
<1>1. \A t \in Titles : Num(t)' = Num(t)
  BY NumSame DEF Quiet, Exists
<1>2. \A s \in Slices : Kept(s)' = Kept(s)
  BY DEF Quiet, Kept, Anchor
<1>3. Lost' = Lost
  BY DEF Quiet, Lost, Create
<1> QED BY <1>1, <1>2, <1>3

LEMMA SessStay ==
  ASSUME GInv, setup' = setup, sess'.anchor = sess.anchor, sess'.dest = sess.dest, seen' = seen,
         \A x \in Ids : Exists(x) => Exists(x)',
         \A x \in Ids : issue[x].home = "internal" => issue'[x].home = "internal"
  PROVE  SessNames'
<1>1. Anchor' = Anchor /\ Create' = Create
  BY DEF Anchor, Create
<1>2. SessNames
  BY DEF GInv, NamesOK
<1>3. (Anchor \in Ids => Exists(Anchor))'
  BY <1>1, <1>2 DEF SessNames
<1> QED BY <1>1, <1>2, <1>3 DEF SessNames

LEMMA PassSame == ASSUME GInv, setup' = setup, sess'.anchor = sess.anchor, job' = job PROVE PassNames'
<1>1. Create' = Create /\ Anchor' = Anchor /\ Applying' = Applying /\ Ahead' = Ahead /\ Ready' = Ready
  BY DEF Create, Anchor, Applying, Ahead, Ready
<1>2. PassNames
  BY DEF GInv, NamesOK
<1> QED BY <1>1, <1>2 DEF PassNames

LEMMA TreeGrows == ASSUME GInv, setup' = setup, issue' = issue, rows \subseteq rows' PROVE TreeOK'
BY DEF GInv, TreeOK, Exists

RoomRange ==
  /\ \A t \in Titles : Room(t) \in Int /\ Room(t) <= 1 /\ Room(t) >= -1
  /\ Bonus(Parent) => Room(Parent) = 1
  /\ ~Bonus(Parent) => Room(Parent) = 0
  /\ \A s \in Slices : /\ Bonus(s) /\ ~Bad => Room(s) = 1
                       /\ Bonus(s) /\ Bad => Room(s) = 0
                       /\ ~Bonus(s) /\ ~Bad => Room(s) = 0
                       /\ ~Bonus(s) /\ Bad => Room(s) = -1

LEMMA RoomIs == RoomRange /\ RoomRange'
BY NamesAre DEF RoomRange, Room, Titles

LEMMA SameJob ==
  ASSUME GInv, Quiet, job' = job, accidents' = accidents
  PROVE  Listed' /\ TreeOK' /\ HandOK' /\ DoneOK' /\ CountOK'
<1> USE DEF GInv
<1>1. Listed' /\ Ahead' = Ahead /\ Asked' = Asked
  BY DEF Quiet, Listed, Ahead, Asked
<1>2. TreeOK'
  BY DEF Quiet, TreeOK, Exists
<1>3. HandOK'
  BY <1>1 DEF Quiet, HandOK, At, Applying, Exists, Slice
<1>4. DoneOK'
  BY <1>1 DEF Quiet, DoneOK, Applying, Holds
<1>5. Bad' = Bad /\ \A t \in Titles : Bonus(t)' = Bonus(t)
  BY QuietCounts DEF Quiet, Bad, Bonus, Lost, Create, Anchor, At, Applying, Slice, Titles
<1>6. \A t \in Titles : Room(t)' = Room(t) /\ Num(t)' = Num(t)
  BY <1>5, QuietCounts DEF Room
<1>7. /\ Held(accidents)' = Held(accidents) /\ Charged' = Charged /\ Spare' = Spare /\ ChargedS' = ChargedS
  BY <1>6 DEF Held, Charged, Spare, ChargedS, Titles
<1>8. CountOK'
  <2>1. Slice' = Slice /\ Anchor' = Anchor /\ (\A step \in Steps : At(step)' = At(step))
    BY DEF Quiet, Slice, Anchor, At, Applying
  <2>2. At("anchor")' = At("anchor")
    BY DEF At, Applying
  <2>3. \A s \in Slices : Num(s)' = Num(s) /\ Room(s)' = Room(s)
    BY <1>6 DEF Titles
  <2>4. job.left \subseteq Slices
    BY DEF TypeOK, Job
  <2>5. At("anchor")' =>
          /\ \A s \in Slices : Num(s)' <= accidents'
          /\ job'.at \in Parents /\ Exists(job.at)' /\ job'.at # Anchor' /\ \A x \in Ids : issue'[x].parent # job'.at
    BY <2>1, <2>2, <2>3 DEF CountOK, Exists, Quiet
  <2>6. "slices" \in Ahead' /\ "children" \notin Ahead' =>
       \A s \in job'.left : job'.ids[s] = NoId /\ ~(job'.fresh # NoId /\ s = Slice') =>
         Num(s)' <= IF job'.at = Anchor' THEN accidents' - (IF Bad' THEN 1 ELSE 0) ELSE accidents' - 1 + Room(s)'
    BY <1>1, <1>5, <2>1, <2>3, <2>4 DEF CountOK
  <2> QED BY <1>1, <1>7, <2>1, <2>5, <2>6 DEF CountOK
<1> QED BY <1>1, <1>2, <1>3, <1>4, <1>8

LEMMA ClickHolds == ASSUME GInv, Click PROVE GInv'
<1> USE DEF GInv
<1>1. Quiet /\ job' = job /\ accidents' = accidents /\ sess' = sess /\ links' = links /\ edges' = edges
      /\ wired' = wired
  BY DEF Click, Quiet, work
<1>2. seen' = [anchor |-> sess.anchor, dest |-> sess.dest]
  BY DEF Click
<1>3. TypeOK'
  BY <1>1, <1>2 DEF Quiet, TypeOK, Session, Seen, Exists
<1>4. NamesOK'
  <2>1. setup' = setup /\ issue' = issue /\ job' = job /\ sess' = sess
    BY <1>1 DEF Quiet
  <2>2. Anchor' = Anchor /\ Create' = Create /\ Applying' = Applying /\ Ahead' = Ahead
    BY <2>1 DEF Anchor, Create, Applying, Ahead
  <2>3. (Anchor \in Ids => Exists(Anchor))'
    BY <2>1, <2>2 DEF NamesOK, SessNames, PassNames, Ready, Exists
  <2>4. seen'.anchor = Anchor /\ seen'.dest = sess.dest /\ sess.dest # "unread"
    BY <1>2 DEF Anchor, TypeOK, Session, Homes
  <2> QED BY <2>1, <2>2, <2>3, <2>4 DEF NamesOK, SessNames, PassNames, Ready
<1> QED BY <1>1, <1>3, <1>4, SameJob

LEMMA RefusedHolds == ASSUME GInv, Refused PROVE GInv'
<1> USE DEF GInv
<1>1. /\ Quiet /\ job' = job /\ accidents' = accidents /\ sess' = sess /\ links' = links /\ edges' = edges
      /\ wired' = wired /\ seen' = Unseen
  BY DEF Refused, Quiet, work
<1>2. TypeOK'
  BY <1>1 DEF Quiet, TypeOK, Seen, Names, Unseen, Exists
<1>3. NamesOK'
  BY <1>1, NamesAre
  DEF Quiet, NamesOK, SessNames, PassNames, Ready, Create, Anchor, Applying, Ahead, Unseen, Ticket, NoId, Exists
<1> QED BY <1>1, <1>2, <1>3, SameJob

LEMMA PeopleHold == ASSUME GInv, Reopen \/ Refinish \/ Abandon PROVE GInv'
<1> USE DEF GInv
<1>1. /\ UNCHANGED <<setup, issue, rows, links, edges, wired, seen, job, accidents>>
      /\ \E st \in {"finished", "running", "abandoned"} : sess' = [sess EXCEPT !.state = st]
  BY DEF Reopen, Refinish, Abandon, work
<1>2. sess' \in Session /\ sess'.anchor = sess.anchor /\ sess'.dest = sess.dest
  BY <1>1 DEF TypeOK, Session
<1>3. Quiet
  BY <1>1, <1>2 DEF Quiet
<1>4. TypeOK'
  BY <1>1, <1>2 DEF TypeOK, Exists
<1>5. NamesOK'
  BY <1>1, <1>2, SessStay, PassSame DEF NamesOK, Exists
<1> QED BY <1>1, <1>3, <1>4, <1>5, SameJob

LEMMA PullHolds == ASSUME GInv, Pull PROVE GInv'
<1> USE DEF GInv
<1>1. /\ UNCHANGED <<setup, sess, issue, links, wired, seen, job, accidents>> /\ rows' = rows \cup OnTracker
      /\ edges' \subseteq edges \cup links
  BY DEF Pull
<1>2. TypeOK'
  BY <1>1 DEF TypeOK, OnTracker, Exists
<1>3. Listed' /\ Ahead' = Ahead /\ Asked' = Asked /\ Anchor' = Anchor /\ Create' = Create
  BY <1>1 DEF Listed, Ahead, Asked, Anchor, Create
<1>4. TreeOK' /\ NamesOK'
  BY <1>1, TreeGrows, SessStay, PassSame DEF NamesOK, Exists
<1>5. HandOK' /\ DoneOK'
  BY <1>1, <1>3 DEF HandOK, DoneOK, At, Applying, Exists, Slice, Holds
<1>6. /\ \A t \in Titles : Num(t)' = Num(t)
      /\ \A s \in Slices : Kept(s) => Kept(s)'
      /\ Lost' = Lost
  BY <1>1, <1>3, NumSame DEF Kept, Lost, Exists
<1>7. /\ Slice' = Slice /\ At("anchor")' = At("anchor") /\ At("mirror")' = At("mirror") /\ (Bad' => Bad)
  BY <1>1, <1>3 DEF Slice, At, Applying, Bad
<1>8. \A t \in Titles : Bonus(t) => Bonus(t)'
  BY <1>1, <1>3, <1>6, <1>7 DEF Bonus, Titles
<1>9. \A t \in Titles : Room(t) \in Int /\ Room(t)' \in Int /\ Room(t) <= Room(t)' /\ Num(t) \in Nat
  BY <1>7, <1>8, NumIs DEF Room
<1>10. accidents \in Nat
  BY DEF TypeOK
<1>11. (Held(accidents) => Held(accidents)') /\ (Charged => Charged') /\ Spare' = Spare /\ (ChargedS => ChargedS')
  BY <1>1, <1>6, <1>9, <1>10 DEF Held, Charged, Spare, ChargedS, Titles
<1>12. CountOK'
  <2>1. /\ \A s \in Slices : Num(s)' = Num(s) /\ Room(s) \in Int /\ Room(s)' \in Int /\ Room(s) <= Room(s)'
           /\ Num(s) \in Nat
        /\ job.left \subseteq Slices
    BY <1>6, <1>9 DEF Titles, TypeOK, Job
  <2>2. At("anchor")' =>
          /\ \A s \in Slices : Num(s)' <= accidents'
          /\ job'.at \in Parents /\ Exists(job.at)' /\ job'.at # Anchor' /\ \A x \in Ids : issue'[x].parent # job'.at
    BY <1>1, <1>3, <1>7, <2>1 DEF CountOK, Exists
  <2>3. "slices" \in Ahead' /\ "children" \notin Ahead' =>
       \A s \in job'.left : job'.ids[s] = NoId /\ ~(job'.fresh # NoId /\ s = Slice') =>
         Num(s)' <= IF job'.at = Anchor' THEN accidents' - (IF Bad' THEN 1 ELSE 0) ELSE accidents' - 1 + Room(s)'
    BY <1>1, <1>3, <1>7, <1>10, <2>1 DEF CountOK
  <2> QED BY <1>1, <1>3, <1>11, <2>2, <2>3 DEF CountOK
<1> QED BY <1>2, <1>3, <1>4, <1>5, <1>12

\* With no pass, what is there by right is what the session can find.
LEMMA IdleCounts ==
  ASSUME GInv, Quiet, job' = Idle
  PROVE  /\ Bad' = (Create /\ sess.dest # "" /\ Anchor \notin rows)
         /\ Bonus(Parent)' = (Create /\ ~Lost /\ ~Bad')
         /\ \A s \in Slices : Bonus(s)' = (Kept(s) /\ ~Lost)
         /\ Listed' /\ Ahead' = {} /\ ~Applying'
         /\ TreeOK' /\ HandOK' /\ DoneOK'
<1> USE DEF GInv
<1>1. Listed' /\ Ahead' = {} /\ ~Applying' /\ job'.fresh = NoId
  BY Rests DEF Idle
<1>2. Anchor' = Anchor /\ Create' = Create /\ ~At("mirror")' /\ ~At("anchor")' /\ ~At("slices")'
  BY <1>1 DEF Anchor, Create, At, Quiet
<1>3. Bad' = (Create /\ sess.dest # "" /\ Anchor \notin rows)
  BY <1>2 DEF Bad, Quiet
<1>4. Bonus(Parent)' = (Create /\ ~Lost /\ ~Bad')
  BY <1>2, QuietCounts DEF Bonus
<1>5. \A s \in Slices : Bonus(s)' = (Kept(s) /\ ~Lost)
  BY <1>1, QuietCounts, NamesAre DEF Bonus
<1>6. TreeOK'
  BY DEF Quiet, TreeOK, Exists
<1>7. HandOK'
  BY <1>1 DEF HandOK, Idle, NoSlices
<1>8. DoneOK'
  BY <1>1 DEF DoneOK
<1> QED BY <1>1, <1>3, <1>4, <1>5, <1>6, <1>7, <1>8

LEMMA IdleTyped == Idle \in Job
<1>1. <<>> \in Seq(Steps)
  BY ListIs
<1> QED BY <1>1 DEF Idle, Job, Homes, Names

LEMMA SettleHolds == ASSUME GInv, Settle PROVE GInv'
<1> USE DEF GInv
<1>1. UNCHANGED <<setup, issue, rows, links, edges, wired, seen, accidents>> /\ job' = Idle /\ At("settle")
  BY DEF Settle, work
<1>2. sess' \in Session /\ sess'.anchor = sess.anchor /\ sess'.dest = sess.dest
  BY DEF Settle, TypeOK, Session
<1>3. Quiet
  BY <1>1, <1>2 DEF Quiet
<1>4. TypeOK'
  BY <1>1, <1>2, IdleTyped DEF TypeOK, Exists
<1>5. Ahead' = {} /\ ~Applying' /\ Anchor' = Anchor /\ Create' = Create
  BY <1>1, <1>2, Rests DEF Anchor, Create
<1>6. NamesOK'
  <2>1. job'.at = NoId
    BY <1>1 DEF Idle
  <2> QED BY <1>1, <1>2, <1>5, <2>1, NamesAre DEF NamesOK, SessNames, PassNames, Ready, Ticket, NoId, Exists
<1>7. ~At("mirror") /\ ~At("anchor") /\ job.fresh = NoId
  BY <1>1 DEF At, HandOK
<1>8. Bad' = Bad /\ \A t \in Titles : Bonus(t)' = Bonus(t)
  BY <1>1, <1>3, <1>7, IdleCounts DEF Bonus, Bad, Titles
<1>9. \A t \in Titles : Room(t)' = Room(t) /\ Num(t)' = Num(t)
  BY <1>3, <1>8, QuietCounts DEF Room
<1>10. CountOK'
  BY <1>1, <1>5, <1>9 DEF CountOK, Held, At
<1> QED BY <1>1, <1>3, <1>4, <1>6, <1>10, IdleCounts

LEMMA CrashHolds == ASSUME GInv, Crash PROVE GInv'
<1> USE DEF GInv
<1>1. /\ UNCHANGED <<setup, sess, issue, rows, links, edges, wired>> /\ job' = Idle /\ seen' = Unseen
      /\ accidents < MaxAccidents /\ accidents' = accidents + 1
  BY DEF Crash, work, Accident
<1>2. Quiet
  BY <1>1 DEF Quiet
<1>3. accidents \in Nat /\ accidents' \in 0 .. MaxAccidents
  BY <1>1, BoundAssumption DEF TypeOK
<1>4. TypeOK'
  BY <1>1, <1>3, IdleTyped DEF TypeOK, Exists, Seen, Unseen, Names
<1>5. Ahead' = {} /\ ~Applying' /\ Anchor' = Anchor /\ Create' = Create
  BY <1>1, Rests DEF Anchor, Create
<1>6. NamesOK'
  <2>1. job'.at = NoId
    BY <1>1 DEF Idle
  <2> QED BY <1>1, <1>5, <2>1, NamesAre DEF NamesOK, SessNames, PassNames, Ready, Ticket, NoId, Unseen, Exists
<1>7. ASSUME NEW t \in Titles PROVE Room(t)' >= Room(t) - 1 /\ Room(t)' \in Int /\ Room(t) \in Int /\ Num(t)' = Num(t)
  <2>1. Room(t) \in Int /\ Room(t)' \in Int /\ Num(t)' = Num(t)
    BY <1>2, QuietCounts, RoomIs DEF RoomRange
  <2>2. CASE t = Parent
    BY <2>1, <2>2, RoomIs DEF RoomRange
  <2>3. CASE t # Parent /\ Bonus(t) /\ ~Bonus(t)'
    <3>1. t \in Slices /\ job.fresh # NoId
      BY <1>1, <1>2, <2>3, IdleCounts DEF Bonus, Titles
    <3>2. ~At("mirror")
      BY <3>1 DEF HandOK, At
    <3>3. Bad' = Bad
      BY <1>1, <1>2, <3>2, IdleCounts DEF Bad
    <3>4. Room(t) <= 1 /\ (Bad => Room(t) = 0)
      BY <2>1, <2>3, <3>1, RoomIs DEF RoomRange
    <3>5. Room(t)' >= -1 /\ (~Bad => Room(t)' = 0)
      BY <2>1, <2>3, <3>1, <3>3, RoomIs DEF RoomRange
    <3> QED BY <2>1, <3>4, <3>5
  <2>4. CASE t \in Slices /\ ~Bonus(t)
    <3>1. Room(t) <= 0
      BY <2>4, RoomIs DEF RoomRange
    <3> QED BY <2>1, <3>1, RoomIs DEF RoomRange
  <2>5. CASE t \in Slices /\ Bonus(t)'
    <3>1. Room(t)' >= 0
      BY <2>5, RoomIs DEF RoomRange
    <3> QED BY <2>1, <3>1, RoomIs DEF RoomRange
  <2>6. t = Parent \/ t \in Slices
    BY DEF Titles
  <2>7. CASE t \in Slices
    BY <2>3, <2>4, <2>5, <2>7, NamesAre
  <2> QED BY <2>2, <2>6, <2>7
<1>8. CountOK'
  <2>1. \A t \in Titles : Num(t)' <= accidents' + Room(t)'
    BY <1>1, <1>3, <1>7, NumIs DEF CountOK, Held
  <2> QED BY <1>5, <2>1 DEF CountOK, Held, At
<1> QED BY <1>1, <1>2, <1>4, <1>6, <1>8, IdleCounts

-----------------------------------------------------------------------------
(* Steps of the pass that file nothing and anchor nothing.                 *)

Still == /\ setup' = setup /\ rows' = rows /\ sess'.anchor = sess.anchor /\ sess'.dest = sess.dest
         /\ \A x \in Ids : issue'[x].home = issue[x].home /\ issue'[x].parent = issue[x].parent

LEMMA StillTree ==
  ASSUME GInv, Still
  PROVE  /\ TreeOK' /\ Anchor' = Anchor /\ Create' = Create /\ Lost' = Lost
         /\ \A x \in Ids : Exists(x)' = Exists(x)
         /\ \A t \in Titles : Num(t)' = Num(t)
         /\ \A s \in Slices : Kept(s)' = Kept(s)
<1>1. \A x \in Ids : Exists(x)' = Exists(x)
  BY DEF Still, Exists
<1>2. TreeOK'
  <2>1. TreeOK /\ setup' = setup /\ rows' = rows
    BY DEF GInv, Still
  <2>2. \A x \in Ids : issue'[x].home = issue[x].home /\ issue'[x].parent = issue[x].parent
    BY DEF Still
  <2>3. \A x \in Ids : issue'[x].parent \in Ids =>
          /\ Exists(x)' /\ Exists(issue[x].parent)'
          /\ issue'[x].home = issue'[issue'[x].parent].home
    BY <2>1, <2>2 DEF TreeOK, Exists
  <2> QED BY <1>1, <2>1, <2>2, <2>3, NamesAre DEF TreeOK
<1>3. Anchor' = Anchor /\ Create' = Create /\ Lost' = Lost
  BY DEF Still, Anchor, Create, Lost
<1>4. \A s \in Slices : Kept(s)' = Kept(s)
  <2>1. \A x \in rows : x \in Ids
    BY DEF GInv, TypeOK
  <2> QED BY <1>3, <2>1 DEF Still, Kept
<1> QED BY <1>1, <1>2, <1>3, <1>4, NumSame

\* The pass goes on with the parent it has in hand, or gives up.
SameHand == /\ job'.at = job.at /\ job'.filed = job.filed /\ job'.dest = job.dest /\ job'.plan = job.plan
            /\ Applying /\ Ahead' \subseteq Ahead /\ (job'.ok => job.ok)
            /\ "parent" \in Ahead => ~job'.ok /\ Ahead' = {"settle"}

LEMMA HandNames ==
  ASSUME GInv, setup' = setup, Anchor' = Anchor, SameHand
  PROVE  PassNames'
<1> USE DEF GInv
<1>1. Create' = Create
  BY DEF Create
<1>2. /\ job'.at = job.at /\ job'.filed = job.filed /\ job'.dest = job.dest /\ job'.plan = job.plan
      /\ Applying /\ Ahead' \subseteq Ahead
  BY DEF SameHand
<1>3. Ready' => Ready /\ "parent" \notin Ahead
  BY DEF SameHand, Ready
<1>4. PassNames
  BY DEF NamesOK
<1> QED BY <1>1, <1>2, <1>3, <1>4 DEF PassNames

LEMMA StillNames == ASSUME GInv, Still, SameHand, seen' = seen PROVE NamesOK'
<1>1. \A x \in Ids : issue'[x].home = issue[x].home
  BY DEF Still
<1> QED BY <1>1, StillTree, SessStay, HandNames DEF Still, NamesOK

\* No parent or slice is between its filing and its row.
Between == At("anchor") \/ At("mirror") \/ job.fresh # NoId

\* What the count of a title rests on.
Kin == /\ setup' = setup /\ rows' = rows /\ sess'.anchor = sess.anchor /\ sess'.dest = sess.dest
       /\ \A x \in Ids : Exists(x)' = Exists(x)
       /\ \A x \in rows : issue'[x].parent = issue[x].parent

LEMMA KinCounts ==
  ASSUME GInv, Kin, ~Between, ~Between'
  PROVE  /\ \A t \in Titles : Num(t)' = Num(t) /\ Room(t)' = Room(t)
         /\ Bad' = Bad /\ Anchor' = Anchor /\ Create' = Create /\ Lost' = Lost
<1>1. Anchor' = Anchor /\ Create' = Create /\ Lost' = Lost
  BY DEF Kin, Anchor, Create, Lost
<1>2. \A s \in Slices : Kept(s)' = Kept(s)
  BY <1>1 DEF Kin, Kept
<1>3. Bad' = Bad
  BY <1>1 DEF Bad, Between, Kin
<1>4. Bonus(Parent)' = Bonus(Parent)
  BY <1>1, <1>3 DEF Bonus, Between
<1>5. \A s \in Slices : Bonus(s)' = Bonus(s)
  BY <1>1, <1>2, NamesAre DEF Bonus, Between
<1>6. \A t \in Titles : Room(t)' = Room(t)
  BY <1>3, <1>4, <1>5 DEF Room, Titles
<1>7. \A t \in Titles : Num(t)' = Num(t)
  BY NumSame DEF Kin
<1> QED BY <1>1, <1>3, <1>6, <1>7

LEMMA KinCharges ==
  ASSUME GInv, Kin, ~Between, ~Between', accidents' = accidents
  PROVE  Held(accidents)' /\ Charged' = Charged /\ ChargedS' = ChargedS /\ Spare' = Spare
<1>1. \A t \in Titles : Num(t)' = Num(t) /\ Room(t)' = Room(t)
  BY KinCounts
<1>2. Held(accidents)'
  BY <1>1 DEF GInv, CountOK, Held
<1>3. Charged' = Charged /\ Spare' = Spare
  BY <1>1 DEF Charged, Held, Spare
<1>4. ChargedS' = ChargedS
  BY <1>1 DEF ChargedS, Titles
<1> QED BY <1>2, <1>3, <1>4

\* An accident pays for one copy of each title.
LEMMA KinPays ==
  ASSUME GInv, Kin, ~Between, ~Between', accidents' = accidents + 1
  PROVE  Held(accidents)' /\ Charged' /\ ChargedS'
<1>1. \A t \in Titles : Num(t)' = Num(t) /\ Room(t)' = Room(t) /\ Num(t) \in Nat /\ Room(t) \in Int
  BY KinCounts, NumIs, RoomIs DEF RoomRange
<1>2. \A t \in Titles : Num(t)' <= accidents' - 1 + Room(t)'
  BY <1>1 DEF GInv, CountOK, Held, TypeOK
<1>3. Held(accidents)'
  BY <1>1, <1>2 DEF GInv, TypeOK, Held
<1> QED BY <1>2, <1>3 DEF Charged, Held, ChargedS, Titles

LEMMA StillKin == ASSUME GInv, Still PROVE Kin
BY StillTree DEF GInv, TypeOK, Still, Kin

LEMMA StillCounts ==
  ASSUME GInv, Still, ~Between, ~Between'
  PROVE  /\ \A t \in Titles : Num(t)' = Num(t) /\ Room(t)' = Room(t)
         /\ Bad' = Bad
BY StillKin, KinCounts

LEMMA StillCharges ==
  ASSUME GInv, Still, ~Between, ~Between', accidents' = accidents
  PROVE  Held(accidents)' /\ Charged' = Charged /\ ChargedS' = ChargedS /\ Spare' = Spare
BY StillKin, KinCharges

\* A step past the slices, or one that gives up.
LEMMA PastCounts ==
  ASSUME GInv, Still, ~Between, ~Between', accidents' = accidents,
         Ahead' \cap {"parent", "children", "slices"} = {}
  PROVE  CountOK'
BY StillCharges DEF CountOK, Between

LEMMA PastHand ==
  ASSUME GInv, Still, job'.fresh = NoId, job'.at = job.at, job'.ids = job.ids, job'.plan = job.plan,
         job'.left = job.left,
         \A b \in job'.pairs : job.ids[b[1]] # NoId /\ job.ids[b[2]] # NoId,
         Ahead' \cap {"detach", "detached", "parent", "anchor", "mirror", "children", "slices"} = {}
  PROVE  HandOK'
<1>1. \A x \in Ids : Exists(x)' = Exists(x) /\ issue'[x].parent = issue[x].parent
  BY StillTree DEF Still
<1>2. \A s \in Slices : job.ids[s] # NoId =>
        s \in job.plan /\ job.ids[s] \in Ids /\ job.ids[s][1] = s /\ issue[job.ids[s]].parent = job.at
        /\ Exists(job.ids[s])
  BY DEF GInv, HandOK
<1>3. \A s \in Slices : job.ids[s] # NoId =>
        s \in job.plan /\ job.ids[s] \in Ids /\ job.ids[s][1] = s /\ issue'[job.ids[s]].parent = job.at
        /\ Exists(job.ids[s])'
  BY <1>1, <1>2
<1> QED BY <1>3 DEF HandOK, GInv, At, Applying

\* The values of a pass after a step.
LEMMA QuietTyped ==
  ASSUME GInv, Still, issue' \in [Ids -> Issue], sess' \in Session, seen' \in Seen, job' \in Job,
         links' \subseteq Ids \X Ids, edges' \subseteq Ids \X Ids, wired' \subseteq Ids \X Ids,
         accidents' \in 0 .. MaxAccidents
  PROVE  TypeOK'
<1>1. rows' \subseteq {x \in Ids : Exists(x)'}
  BY StillTree DEF GInv, TypeOK, Still
<1> QED BY <1>1 DEF GInv, TypeOK, Still

LEMMA JobIs ==
  ASSUME GInv
  PROVE  /\ job.todo \in Seq(Steps) /\ job.dest \in Homes /\ job.plan \subseteq Slices /\ job.at \in Names
         /\ job.filed \in Homes \cup {""} /\ job.fresh \in Names /\ job.left \subseteq Slices
         /\ job.ids \in [Slices -> Names] /\ job.pairs \subseteq Blocks /\ job.ok \in BOOLEAN /\ job.clean \in BOOLEAN
         /\ Tail(job.todo) \in Seq(Steps) \/ ~Applying
<1>1. job.todo \in Seq(Steps)
  BY DEF GInv, TypeOK, Job
<1>2. Applying => Tail(job.todo) \in Seq(Steps)
  BY <1>1, TailIs DEF GInv, Listed, Applying
<1> QED BY <1>1, <1>2 DEF GInv, TypeOK, Job

LEMMA GivesUpHolds ==
  ASSUME GInv, At("detach") \/ At("parent"), job' = GiveUp(job, "refused"),
         UNCHANGED <<setup, sess, issue, rows, links, edges, wired, seen, accidents>>
  PROVE  GInv'
<1> USE DEF GInv
<1>1. job' = [job EXCEPT !.todo = <<"settle">>, !.ok = FALSE, !.clean = FALSE]
  BY DEF GiveUp, TypeOK, Job
<1>2. Still
  BY DEF Still
<1>3. /\ job'.todo = <<"settle">> /\ job'.dest = job.dest /\ job'.plan = job.plan /\ job'.at = job.at
      /\ job'.filed = job.filed /\ job'.fresh = job.fresh /\ job'.left = job.left /\ job'.ids = job.ids
      /\ job'.pairs = job.pairs /\ job'.ok = FALSE /\ job'.clean = FALSE
  BY <1>1 DEF TypeOK, Job
<1>4. Listed' /\ Ahead' = {"settle"} /\ Applying' /\ job'.todo \in Seq(Steps)
  BY <1>3, OnlySettles
<1>5. "settle" \in Ahead /\ ("detach" \in Ahead \/ "parent" \in Ahead) /\ Applying
  BY JobIs, Stands DEF At
<1>6. job.fresh = NoId
  BY <1>5 DEF HandOK
<1>7. ~Between /\ ~Between'
  BY <1>3, <1>6 DEF Between, At
<1>8. SameHand
  BY <1>3, <1>4, <1>5 DEF SameHand
<1>9. job' \in Job
  BY <1>1, <1>4 DEF TypeOK, Job
<1>10. TypeOK'
  BY <1>2, <1>9, QuietTyped DEF TypeOK
<1>11. HandOK'
  BY <1>2, <1>3, <1>4, <1>6, PastHand DEF HandOK
<1>12. CountOK'
  BY <1>2, <1>4, <1>7, PastCounts
<1>13. DoneOK'
  BY <1>3 DEF DoneOK
<1> QED BY <1>2, <1>4, <1>8, <1>10, <1>11, <1>12, <1>13, StillTree, StillNames

LEMMA DetachBusyHolds == ASSUME GInv, DetachBusy PROVE GInv'
BY GivesUpHolds DEF DetachBusy, work

\* A step of a pass that has its parent, before or after the slices.
LEMMA OnHand ==
  ASSUME GInv, \A x \in Ids : issue'[x].home = issue[x].home /\ issue'[x].parent = issue[x].parent,
         job.fresh = NoId, job'.fresh = NoId, Applying,
         job'.at = job.at, job'.ids = job.ids, job'.plan = job.plan, job'.left = job.left, job'.dest = job.dest,
         job'.pairs \subseteq job.pairs, Ahead' \subseteq Ahead,
         Ahead \cap {"detach", "detached", "parent"} = {}
  PROVE  HandOK'
<1>1. \A x \in Ids : Exists(x)' = Exists(x) /\ issue'[x].parent = issue[x].parent /\ issue'[x].home = issue[x].home
  BY DEF Exists
<1>2. \A s \in Slices : job'.ids[s] # NoId =>
        s \in job.plan /\ job.ids[s] \in Ids /\ job.ids[s][1] = s /\ issue'[job.ids[s]].parent = job.at
        /\ Exists(job.ids[s])'
  BY <1>1 DEF GInv, HandOK
<1>3. Ahead' \cap {"children", "slices"} # {} =>
        (job'.dest = "internal" /\ job'.at \in Ids => issue'[job'.at].home = "internal")
  BY <1>1 DEF GInv, HandOK
<1>4. Ahead' \cap {"anchor", "mirror"} # {} => job.at \in Parents /\ issue'[job.at].home = job.dest
  BY <1>1, NamesAre DEF GInv, HandOK
<1> QED BY <1>2, <1>3, <1>4 DEF HandOK, GInv

LEMMA OnCounts ==
  ASSUME GInv, Still, ~Between, ~Between', accidents' = accidents,
         job'.at = job.at, job'.ids = job.ids, job'.left = job.left, job'.fresh = NoId,
         Ahead \cap {"parent", "anchor"} = {}, Ahead' \subseteq Ahead, "children" \in Ahead => "children" \in Ahead'
  PROVE  CountOK'
<1>1. Anchor' = Anchor /\ Bad' = Bad /\ job.fresh = NoId
  BY StillCounts, StillTree DEF Between
<1>2. /\ \A s \in Slices : Num(s)' = Num(s) /\ Room(s)' = Room(s)
      /\ job.left \subseteq Slices
  BY StillCounts, JobIs DEF Titles
<1>3. "slices" \in Ahead' /\ "children" \notin Ahead' =>
       \A s \in job'.left : job'.ids[s] = NoId /\ ~(job'.fresh # NoId /\ s = Slice') =>
         Num(s)' <= IF job'.at = Anchor' THEN accidents' - (IF Bad' THEN 1 ELSE 0) ELSE accidents' - 1 + Room(s)'
  BY <1>1, <1>2 DEF CountOK, GInv
<1> QED BY <1>1, <1>3, StillCharges DEF CountOK, GInv, Between

LEMMA WriteHolds == ASSUME GInv, NEW step \in Marks, Write(step) PROVE GInv'
<1> USE DEF GInv
<1>1. PICK a \in Answers :
        /\ job' = Next1(job, a = "ok" /\ Holds(job.at), a)
        /\ issue' = IF a # "refused" /\ Holds(job.at) THEN [issue EXCEPT ![job.at].has = @ \cup {step}] ELSE issue
  BY DEF Write
<1>2. At(step) /\ UNCHANGED <<setup, sess, rows, links, edges, wired, seen, accidents>>
  BY DEF Write
<1>3. /\ job'.todo = Tail(job.todo) /\ job'.dest = job.dest /\ job'.plan = job.plan /\ job'.at = job.at
      /\ job'.filed = job.filed /\ job'.fresh = job.fresh /\ job'.left = job.left /\ job'.ids = job.ids
      /\ job'.pairs = job.pairs /\ job'.ok \in BOOLEAN /\ job'.clean \in BOOLEAN
      /\ (job'.ok => job.ok /\ a = "ok" /\ Holds(job.at))
      /\ DOMAIN job' = DOMAIN job
  BY <1>1 DEF TypeOK, Job, Next1
<1>4. issue' \in [Ids -> Issue] /\ Still
  BY <1>1, <1>2 DEF TypeOK, Issue, Still, Holds, Marks
<1>5. /\ Applying /\ step # "settle" /\ job.todo \in Seq(Steps)
      /\ Ahead \cap {"detach", "detached", "parent", "anchor", "mirror"} = {}
  BY <1>2, JobIs, Stands DEF At, Marks
<1>6. Listed' /\ Ahead' = Ahead \ {step} /\ Applying' /\ job'.todo \in Seq(Steps)
  BY <1>2, <1>3, <1>5, Advances
<1>7. ~At("anchor") /\ ~At("mirror") /\ ~At("slices")
  BY <1>2 DEF At, Marks
<1>8. job.fresh = NoId
  BY <1>7 DEF HandOK
<1>9. ~At("anchor")' /\ ~At("mirror")'
  <2>1. ~(Head(job'.todo) \in {"anchor", "mirror"} /\ job'.todo # <<>>)
    <3>1. job'.todo # <<>> => Head(job'.todo) \in Ahead'
      BY <1>6, TailIs DEF Listed, Ahead
    <3> QED BY <3>1, <1>5, <1>6
  <2> QED BY <2>1 DEF At, Applying
<1>10. ~Between /\ ~Between'
  BY <1>3, <1>7, <1>8, <1>9 DEF Between
<1>11. job' \in Job
  BY <1>1, <1>3, <1>6 DEF TypeOK, Job, Next1
<1>12. TypeOK'
  BY <1>2, <1>4, <1>11, QuietTyped DEF TypeOK
<1>13. SameHand
  BY <1>3, <1>5, <1>6 DEF SameHand
<1>14. HandOK'
  BY <1>3, <1>4, <1>5, <1>6, <1>8, OnHand DEF Still
<1>15. CountOK'
  BY <1>2, <1>3, <1>4, <1>5, <1>6, <1>8, <1>10, OnCounts DEF Marks
<1>16. DoneOK'
  <2>1. \A x \in Ids : issue[x].has \subseteq issue'[x].has /\ issue'[x].home = issue[x].home
    BY <1>1, <1>4 DEF Still, TypeOK, Issue
  <2>2. job'.ok => Holds(job.at)' /\ step \in issue'[job.at].has
    BY <1>1, <1>3, <1>4 DEF Holds, Still, TypeOK, Issue
  <2>3. Asked' = Asked
    BY <1>2, <1>3 DEF Asked
  <2>4. job'.ok => \A m \in Asked' \cap Marks : ~(setup.disp = "research" /\ job.at = NoId)
             => m \in Ahead' \/ (Holds(job.at)' /\ m \in issue'[job'.at].has)
    BY <1>3, <1>5, <1>6, <2>1, <2>2, <2>3 DEF DoneOK, Holds
  <2>5. job'.ok /\ setup.disp \in {"create", "split"} /\ "children" \notin Ahead' =>
         /\ \A s \in job'.plan \ job'.left : job'.ids[s] # NoId
         /\ "slices" \notin Ahead' => job'.plan = {} \/ job'.left = {}
    BY <1>3, <1>5, <1>6 DEF DoneOK, Marks
  <2> QED BY <1>2, <1>3, <2>4, <2>5 DEF DoneOK
<1> QED BY <1>2, <1>4, <1>6, <1>12, <1>13, <1>14, <1>15, <1>16, StillTree, StillNames

LEMMA AtNext ==
  ASSUME job'.todo \in Seq(Steps), Listed', NEW step, At(step)'
  PROVE  step \in Ahead' /\ \A x \in Ahead' : x = step \/ Rank[step] < Rank[x]
BY TailIs DEF At, Applying, Listed, Ahead

LEMMA NotYet ==
  ASSUME job'.todo \in Seq(Steps), Listed'
  PROVE  /\ "parent" \in Ahead' => ~At("anchor")' /\ ~At("mirror")'
         /\ "anchor" \notin Ahead' => ~At("anchor")'
         /\ "mirror" \notin Ahead' => ~At("mirror")'
<1>1. At("anchor")' => "anchor" \in Ahead' /\ \A x \in Ahead' : x = "anchor" \/ Rank["anchor"] < Rank[x]
  <2> SUFFICES ASSUME At("anchor")'
               PROVE  "anchor" \in Ahead' /\ \A x \in Ahead' : x = "anchor" \/ Rank["anchor"] < Rank[x]
    OBVIOUS
  <2> QED BY AtNext
<1>2. At("mirror")' => "mirror" \in Ahead' /\ \A x \in Ahead' : x = "mirror" \/ Rank["mirror"] < Rank[x]
  <2> SUFFICES ASSUME At("mirror")'
               PROVE  "mirror" \in Ahead' /\ \A x \in Ahead' : x = "mirror" \/ Rank["mirror"] < Rank[x]
    OBVIOUS
  <2> QED BY AtNext
<1> QED BY <1>1, <1>2, RankIs

LEMMA FirstNext ==
  ASSUME job'.todo \in Seq(Steps), Listed', Applying', NEW step \in Ahead',
         \A x \in Ahead' : x = step \/ Rank[step] < Rank[x]
  PROVE  At(step)'
<1>1. /\ Head(job'.todo) \in Ahead' /\ Ahead' \subseteq Steps
      /\ \A x \in Ahead' : x = Head(job'.todo) \/ Rank[Head(job'.todo)] < Rank[x]
  BY TailIs DEF Applying, Listed, Ahead
<1>2. Rank[step] \in Int /\ Rank[Head(job'.todo)] \in Int
  BY <1>1, RankIs
<1>3. Head(job'.todo) = step
  BY <1>1, <1>2
<1> QED BY <1>3 DEF At

LEMMA EndRelationsHolds == ASSUME GInv, EndRelations PROVE GInv'
<1> USE DEF GInv
<1>1. /\ At("relations") /\ job' = [job EXCEPT !.todo = Tail(@)]
      /\ UNCHANGED <<setup, sess, issue, rows, links, edges, wired, seen, accidents>>
  BY DEF EndRelations, work
<1>2. Still
  BY <1>1 DEF Still
<1>3. /\ job'.todo = Tail(job.todo) /\ job'.dest = job.dest /\ job'.plan = job.plan /\ job'.at = job.at
      /\ job'.filed = job.filed /\ job'.fresh = job.fresh /\ job'.left = job.left /\ job'.ids = job.ids
      /\ job'.pairs = job.pairs /\ job'.ok = job.ok /\ job'.clean = job.clean
  BY <1>1 DEF TypeOK, Job
<1>4. /\ Applying /\ job.todo \in Seq(Steps)
      /\ Ahead \cap {"detach", "detached", "parent", "anchor", "mirror", "description", "children", "slices"} = {}
  BY <1>1, JobIs, Stands DEF At
<1>5. Listed' /\ Ahead' = Ahead \ {"relations"} /\ Applying' /\ job'.todo \in Seq(Steps)
  BY <1>1, <1>3, <1>4, Advances
<1>6. job.fresh = NoId
  BY <1>1 DEF HandOK, At
<1>7. ~Between /\ ~Between'
  BY <1>1, <1>3, <1>4, <1>5, <1>6, AtNext DEF Between, At
<1>8. SameHand
  BY <1>3, <1>4, <1>5 DEF SameHand
<1>9. job' \in Job
  BY <1>1, <1>3, <1>5 DEF TypeOK, Job
<1>10. TypeOK'
  BY <1>1, <1>2, <1>9, QuietTyped DEF TypeOK
<1>11. HandOK'
  BY <1>2, <1>3, <1>4, <1>5, <1>6, OnHand DEF Still
<1>12. CountOK'
  BY <1>1, <1>2, <1>4, <1>5, <1>7, PastCounts
<1>13. DoneOK'
  <2>1. Asked' = Asked /\ Holds(job.at)' = Holds(job.at)
    BY <1>1, <1>3 DEF Asked, Holds
  <2> QED BY <1>1, <1>3, <1>4, <1>5, <2>1 DEF DoneOK, Marks
<1> QED BY <1>1, <1>2, <1>5, <1>8, <1>10, <1>11, <1>12, <1>13, StillTree, StillNames

LEMMA PairIs == ASSUME GInv, NEW b \in job.pairs PROVE Pair(b) \in Ids \X Ids
<1>1. b[1] \in Slices /\ b[2] \in Slices
  BY BlockAssumption, JobIs
<1>2. job.ids[b[1]] \in Ids /\ job.ids[b[2]] \in Ids
  BY <1>1 DEF GInv, HandOK
<1> QED BY <1>2 DEF Pair

LEMMA RelateHolds == ASSUME GInv, Relate PROVE GInv'
<1> USE DEF GInv
<1>1. PICK b \in job.pairs, a \in Answers :
        /\ job' = [Next1(job, a = "ok", a) EXCEPT !.todo = job.todo, !.pairs = @ \ {b}]
        /\ wired' = IF a = "ok" THEN wired \cup {Pair(b)} ELSE wired
        /\ IF job.dest = "internal" THEN edges' = edges \cup {Pair(b)} /\ UNCHANGED links
           ELSE links' = (IF a = "refused" THEN links ELSE links \cup {Pair(b)}) /\ UNCHANGED edges
  BY DEF Relate
<1>2. At("relations") /\ UNCHANGED <<setup, sess, issue, rows, seen, accidents>>
  BY DEF Relate
<1>3. Still
  BY <1>2 DEF Still
<1>4. /\ job'.todo = job.todo /\ job'.dest = job.dest /\ job'.plan = job.plan /\ job'.at = job.at
      /\ job'.filed = job.filed /\ job'.fresh = job.fresh /\ job'.left = job.left /\ job'.ids = job.ids
      /\ job'.pairs \subseteq job.pairs /\ job'.ok \in BOOLEAN /\ job'.clean \in BOOLEAN /\ (job'.ok => job.ok)
  BY <1>1 DEF TypeOK, Job, Next1
<1>5. /\ Applying /\ job.todo \in Seq(Steps)
      /\ Ahead \cap {"detach", "detached", "parent", "anchor", "mirror", "description", "children", "slices"} = {}
  BY <1>2, JobIs, Stands DEF At
<1>6. Listed' /\ Ahead' = Ahead /\ Applying' /\ Asked' = Asked
  BY <1>2, <1>4, <1>5 DEF Listed, Ahead, Asked, Applying
<1>7. job.fresh = NoId
  BY <1>2 DEF HandOK, At
<1>8. ~Between /\ ~Between'
  BY <1>2, <1>4, <1>7 DEF Between, At
<1>9. SameHand
  BY <1>4, <1>5, <1>6 DEF SameHand
<1>10. job' \in Job
  BY <1>1, <1>4 DEF TypeOK, Job, Next1
<1>11. TypeOK'
  <2>1. links' \subseteq Ids \X Ids /\ edges' \subseteq Ids \X Ids /\ wired' \subseteq Ids \X Ids
    BY <1>1, PairIs DEF TypeOK
  <2> QED BY <1>2, <1>3, <1>10, <2>1, QuietTyped DEF TypeOK
<1>12. HandOK'
  BY <1>3, <1>4, <1>5, <1>6, <1>7, OnHand DEF Still
<1>13. CountOK'
  BY <1>2, <1>3, <1>5, <1>6, <1>8, PastCounts
<1>14. DoneOK'
  <2>1. Holds(job.at)' = Holds(job.at)
    BY <1>2, <1>4 DEF Holds
  <2> QED BY <1>2, <1>4, <1>5, <1>6, <2>1 DEF DoneOK, Marks
<1> QED BY <1>2, <1>3, <1>6, <1>9, <1>11, <1>12, <1>13, <1>14, StillTree, StillNames

LEMMA EndSlicesHolds == ASSUME GInv, EndSlices PROVE GInv'
<1> USE DEF GInv
<1>1. /\ At("slices") /\ job.fresh = NoId /\ job.left = {}
      /\ UNCHANGED <<setup, sess, issue, rows, links, edges, wired, seen, accidents>>
  BY DEF EndSlices, work
<1>2. job' = [job EXCEPT !.todo = Tail(@),
                !.pairs = {b \in Blocks : job.ids[b[1]] # NoId /\ job.ids[b[2]] # NoId /\ Pair(b) \notin wired}]
  BY DEF EndSlices
<1>3. Still
  BY <1>1 DEF Still
<1>4. /\ job'.todo = Tail(job.todo) /\ job'.dest = job.dest /\ job'.plan = job.plan /\ job'.at = job.at
      /\ job'.filed = job.filed /\ job'.fresh = job.fresh /\ job'.left = job.left /\ job'.ids = job.ids
      /\ job'.ok = job.ok /\ job'.clean = job.clean
  BY <1>2 DEF TypeOK, Job
<1>5. \A b \in job'.pairs : b \in Blocks /\ job.ids[b[1]] # NoId /\ job.ids[b[2]] # NoId
  BY <1>2 DEF TypeOK, Job
<1>6. /\ Applying /\ job.todo \in Seq(Steps)
      /\ Ahead \cap {"detach", "detached", "parent", "anchor", "mirror", "description", "children"} = {}
  BY <1>1, JobIs, Stands DEF At
<1>7. Listed' /\ Ahead' = Ahead \ {"slices"} /\ Applying' /\ job'.todo \in Seq(Steps)
  BY <1>1, <1>4, <1>6, Advances
<1>8. ~Between /\ ~Between'
  BY <1>1, <1>4, <1>6, <1>7, AtNext DEF Between, At
<1>9. SameHand
  BY <1>4, <1>6, <1>7 DEF SameHand
<1>10. job' \in Job
  BY <1>2, <1>4, <1>5, <1>7 DEF TypeOK, Job
<1>11. TypeOK'
  BY <1>1, <1>3, <1>10, QuietTyped DEF TypeOK
<1>12. HandOK'
  BY <1>1, <1>3, <1>4, <1>5, <1>6, <1>7, PastHand
<1>13. CountOK'
  BY <1>1, <1>3, <1>6, <1>7, <1>8, PastCounts
<1>14. DoneOK'
  <2>1. Asked' = Asked /\ Holds(job.at)' = Holds(job.at)
    BY <1>1, <1>4 DEF Asked, Holds
  <2> QED BY <1>1, <1>4, <1>6, <1>7, <2>1 DEF DoneOK, Marks
<1> QED BY <1>1, <1>3, <1>7, <1>9, <1>11, <1>12, <1>13, <1>14, StillTree, StillNames

LEMMA SliceIs == ASSUME GInv, job.left # {} PROVE Slice \in job.left /\ Slice \in job.plan /\ Slice \in Slices
<1>1. job.left \subseteq Nat /\ job.left \subseteq Slices /\ job.left \subseteq job.plan
  BY SliceAssumption, JobIs DEF GInv, HandOK
<1> QED BY <1>1, LeastIs DEF Slice

LEMMA ReuseSliceHolds == ASSUME GInv, ReuseSlice PROVE GInv'
<1> USE DEF GInv
<1>1. /\ At("slices") /\ job.fresh = NoId /\ job.left # {} /\ job.ids[Slice] # NoId
      /\ job' = [job EXCEPT !.left = @ \ {Slice}]
      /\ UNCHANGED <<setup, sess, issue, rows, links, edges, wired, seen, accidents>>
  BY DEF ReuseSlice, work
<1>2. Still
  BY <1>1 DEF Still
<1>3. /\ job'.todo = job.todo /\ job'.dest = job.dest /\ job'.plan = job.plan /\ job'.at = job.at
      /\ job'.filed = job.filed /\ job'.fresh = job.fresh /\ job'.left = job.left \ {Slice} /\ job'.ids = job.ids
      /\ job'.pairs = job.pairs /\ job'.ok = job.ok /\ job'.clean = job.clean
  BY <1>1 DEF TypeOK, Job
<1>4. /\ Applying /\ job.todo \in Seq(Steps) /\ "slices" \in Ahead
      /\ Ahead \cap {"detach", "detached", "parent", "anchor", "mirror", "description", "children"} = {}
  BY <1>1, JobIs, Stands DEF At
<1>5. Listed' /\ Ahead' = Ahead /\ Applying' /\ Asked' = Asked
  BY <1>1, <1>3, <1>4 DEF Listed, Ahead, Asked, Applying
<1>6. Slice \in job.left /\ Slice \in job.plan /\ Slice \in Slices
  BY <1>1, SliceIs
<1>7. ~Between /\ ~Between'
  BY <1>1, <1>3 DEF Between, At, Applying
<1>8. SameHand
  BY <1>3, <1>4, <1>5 DEF SameHand
<1>9. job' \in Job
  BY <1>1, <1>3 DEF TypeOK, Job
<1>10. TypeOK'
  BY <1>1, <1>2, <1>9, QuietTyped DEF TypeOK
<1>11. HandOK'
  <2>1. \A s \in Slices : job.ids[s] # NoId =>
       s \in job.plan /\ job.ids[s] \in Ids /\ job.ids[s][1] = s /\ issue[job.ids[s]].parent = job.at
       /\ Exists(job.ids[s])'
    BY <1>1 DEF HandOK, Exists
  <2> QED BY <1>1, <1>3, <1>4, <1>5, <2>1 DEF HandOK
<1>12. CountOK'
  <2>1. Anchor' = Anchor /\ Bad' = Bad
    BY <1>2, <1>7, StillCounts, StillTree
  <2>2. /\ \A s \in Slices : Num(s)' = Num(s) /\ Room(s)' = Room(s)
        /\ job.left \subseteq Slices
    BY <1>2, <1>7, StillCounts, JobIs DEF Titles
  <2>3. \A s \in job'.left : job'.ids[s] = NoId /\ ~(job'.fresh # NoId /\ s = Slice') =>
         Num(s)' <= IF job'.at = Anchor' THEN accidents' - (IF Bad' THEN 1 ELSE 0) ELSE accidents' - 1 + Room(s)'
    BY <1>1, <1>3, <1>4, <2>1, <2>2 DEF CountOK
  <2>4. Held(accidents)'
    BY <1>1, <1>2, <1>7, StillCharges
  <2> QED BY <1>4, <1>5, <1>7, <2>3, <2>4 DEF CountOK, Between
<1>13. DoneOK'
  <2>1. Holds(job.at)' = Holds(job.at)
    BY <1>1, <1>3 DEF Holds
  <2>2. \A s \in job'.plan \ job'.left : job'.ok => job'.ids[s] # NoId
    BY <1>1, <1>3, <1>4, <1>6, AskedIs DEF DoneOK, Listed
  <2> QED BY <1>1, <1>3, <1>4, <1>5, <2>1, <2>2 DEF DoneOK
<1> QED BY <1>1, <1>2, <1>5, <1>8, <1>10, <1>11, <1>12, <1>13, StillTree, StillNames

LEMMA ReadChildrenHolds == ASSUME GInv, ReadChildren PROVE GInv'
<1> USE DEF GInv
<1> DEFINE found == [s \in Slices |-> IF \E x \in Under(job.at) : x[1] = s /\ s \in job.plan
                                      THEN CHOOSE x \in Under(job.at) : x[1] = s ELSE NoId]
<1>1. /\ At("children") /\ job' = [job EXCEPT !.todo = Tail(@), !.left = job.plan, !.ids = found]
      /\ UNCHANGED <<setup, sess, issue, rows, links, edges, wired, seen, accidents>>
  BY DEF ReadChildren, work
<1>2. ASSUME NEW s \in Slices
      PROVE  /\ found[s] # NoId => /\ s \in job.plan /\ found[s] \in rows /\ found[s] \in Ids /\ found[s][1] = s
                                   /\ issue[found[s]].parent = job.at /\ Exists(found[s])
             /\ found[s] = NoId /\ s \in job.plan => ~\E x \in rows : x[1] = s /\ issue[x].parent = job.at
  <2>1. Under(job.at) \subseteq rows /\ \A x \in rows : x \in Ids /\ Exists(x)
    BY DEF Under, TypeOK
  <2>2. \A x \in Under(job.at) : issue[x].parent = job.at
    BY DEF Under
  <2>3. CASE \E x \in Under(job.at) : x[1] = s /\ s \in job.plan
    <3>1. found[s] \in Under(job.at) /\ found[s][1] = s
      BY <2>3
    <3>2. found[s] # NoId
      BY <2>1, <3>1, NamesAre
    <3> QED BY <2>1, <2>2, <2>3, <3>1, <3>2
  <2>4. CASE ~\E x \in Under(job.at) : x[1] = s /\ s \in job.plan
    BY <2>4 DEF Under
  <2> QED BY <2>3, <2>4
<1>3. found \in [Slices -> Names]
  BY <1>2 DEF Names
<1> HIDE DEF found
<1>4. Still
  BY <1>1 DEF Still
<1>5. /\ job'.todo = Tail(job.todo) /\ job'.dest = job.dest /\ job'.plan = job.plan /\ job'.at = job.at
      /\ job'.filed = job.filed /\ job'.fresh = job.fresh /\ job'.left = job.plan /\ job'.ids = found
      /\ job'.pairs = job.pairs /\ job'.ok = job.ok /\ job'.clean = job.clean
  BY <1>1 DEF TypeOK, Job
<1>6. /\ Applying /\ job.todo \in Seq(Steps) /\ "children" \in Ahead
      /\ Ahead \cap {"detach", "detached", "parent", "anchor", "mirror", "description"} = {}
  BY <1>1, JobIs, Stands DEF At
<1>7. Listed' /\ Ahead' = Ahead \ {"children"} /\ Applying' /\ job'.todo \in Seq(Steps)
  BY <1>1, <1>5, <1>6, Advances
<1>8. "slices" \in Ahead
  <2>1. "children" \in Asked
    BY <1>6 DEF Listed
  <2> QED BY <1>6, <2>1, AskedIs, RankIs DEF Listed, SlicingSteps
<1>9. job.fresh = NoId /\ job.ids = NoSlices /\ job.pairs = {}
  <2>1. job.fresh = NoId /\ job.ids = NoSlices
    BY <1>6 DEF HandOK
  <2>2. \A b \in job.pairs : b[1] \in Slices
    BY BlockAssumption, JobIs
  <2> QED BY <2>1, <2>2 DEF HandOK, NoSlices
<1>10. ~Between /\ ~Between'
  BY <1>1, <1>5, <1>6, <1>7, <1>9, AtNext DEF Between, At
<1>11. SameHand
  BY <1>5, <1>6, <1>7 DEF SameHand
<1>12. TypeOK'
  <2>1. job' \in Job
    BY <1>1, <1>3, <1>5, <1>7, JobIs DEF TypeOK, Job
  <2> QED BY <1>1, <1>4, <2>1, QuietTyped DEF TypeOK
<1>13. HandOK'
  <2>1. \A s \in Slices : job'.ids[s] # NoId =>
          /\ s \in job'.plan /\ job'.ids[s] \in Ids /\ job'.ids[s][1] = s
          /\ issue'[job'.ids[s]].parent = job'.at /\ Exists(job.ids[s])'
    BY <1>1, <1>2, <1>5 DEF Exists
  <2>2. Ahead' \cap {"children", "slices"} # {} =>
        (job'.dest = "internal" /\ job'.at \in Ids => issue'[job'.at].home = "internal")
    BY <1>1, <1>5, <1>6 DEF HandOK
  <2> QED BY <1>5, <1>6, <1>7, <1>9, <2>1, <2>2 DEF HandOK
<1>14. CountOK'
  <2>1. Anchor' = Anchor /\ Bad' = Bad
    BY <1>4, <1>10, StillCounts, StillTree
  <2>2. \A s \in Slices : Num(s)' = Num(s) /\ Room(s)' = Room(s)
    BY <1>4, <1>10, StillCounts DEF Titles
  <2>3. ASSUME NEW s \in job.plan, found[s] = NoId
        PROVE  Num(s) <= IF job.at = Anchor THEN accidents - (IF Bad THEN 1 ELSE 0) ELSE accidents - 1 + Room(s)
    <3>1. s \in Slices /\ s \in Titles
      BY JobIs DEF Titles
    <3>2. CASE job.at = Anchor
      <4>1. ~Kept(s)
        BY <1>2, <2>3, <3>1, <3>2 DEF Kept
      <4>2. ~Bonus(s)
        BY <1>9, <3>1, <4>1, NamesAre DEF Bonus
      <4>3. Num(s) <= accidents + Room(s)
        BY <3>1 DEF CountOK, Held
      <4>4. Room(s) = IF Bad THEN -1 ELSE 0
        BY <3>1, <4>2, RoomIs DEF RoomRange
      <4>5. accidents \in Nat /\ Num(s) \in Nat
        BY <3>1, NumIs DEF TypeOK
      <4> QED BY <3>2, <4>3, <4>4, <4>5
    <3>3. CASE job.at # Anchor
      <4>1. ChargedS
        BY <1>6, <3>3 DEF CountOK
      <4> QED BY <3>1, <3>3, <4>1 DEF ChargedS
    <3> QED BY <3>2, <3>3
  <2>4. \A s \in job'.left : job'.ids[s] = NoId /\ ~(job'.fresh # NoId /\ s = Slice') =>
         Num(s)' <= IF job'.at = Anchor' THEN accidents' - (IF Bad' THEN 1 ELSE 0) ELSE accidents' - 1 + Room(s)'
    <3> SUFFICES ASSUME NEW s \in job.plan, found[s] = NoId
                 PROVE  Num(s)' <= IF job'.at = Anchor' THEN accidents' - (IF Bad' THEN 1 ELSE 0)
                                   ELSE accidents' - 1 + Room(s)'
      BY <1>5
    <3>1. s \in Slices
      BY JobIs
    <3>2. Num(s)' = Num(s) /\ Room(s)' = Room(s)
      BY <2>2, <3>1
    <3> QED BY <1>1, <1>5, <2>1, <2>3, <3>2
  <2>5. Held(accidents)'
    BY <1>1, <1>4, <1>10, StillCharges
  <2> QED BY <1>6, <1>7, <1>10, <2>4, <2>5 DEF CountOK, Between
<1>15. DoneOK'
  <2>1. Holds(job.at)' = Holds(job.at) /\ Asked' = Asked
    BY <1>1, <1>5 DEF Holds, Asked
  <2> QED BY <1>1, <1>5, <1>6, <1>7, <1>8, <2>1 DEF DoneOK, Marks
<1> QED BY <1>1, <1>4, <1>7, <1>11, <1>12, <1>13, <1>14, <1>15, StillTree, StillNames

\* With no parent a retry will find, nothing is there by right.
LEMMA NoRoom == ASSUME GInv, Create, ~Between, Lost \/ Anchor \notin rows PROVE Spare
<1>1. Lost \/ Bad
  BY DEF Lost, Bad, Between
<1>2. ~Bonus(Parent)
  BY <1>1 DEF Bonus, Between
<1>3. \A s \in Slices : Bonus(s) => ~Lost
  BY NamesAre DEF Bonus, Between
<1>4. \A t \in Titles : Room(t) <= 0
  BY <1>1, <1>2, <1>3, RoomIs DEF RoomRange, Titles
<1> QED BY <1>4, NumIs, RoomIs DEF Spare, GInv, CountOK, Held, TypeOK, RoomRange

LEMMA DetachNothingHolds == ASSUME GInv, DetachNothing PROVE GInv'
<1> USE DEF GInv
<1>1. /\ At("detach") /\ job.at \notin rows /\ job' = [job EXCEPT !.todo = Tail(Tail(@))]
      /\ UNCHANGED <<setup, sess, issue, rows, links, edges, wired, seen, accidents>>
  BY DEF DetachNothing, work
<1>2. Still
  BY <1>1 DEF Still
<1>3. /\ job'.todo = Tail(Tail(job.todo)) /\ job'.dest = job.dest /\ job'.plan = job.plan /\ job'.at = job.at
      /\ job'.filed = job.filed /\ job'.fresh = job.fresh /\ job'.left = job.left /\ job'.ids = job.ids
      /\ job'.pairs = job.pairs /\ job'.ok = job.ok /\ job'.clean = job.clean
  BY <1>1 DEF TypeOK, Job
<1>4. /\ Applying /\ job.todo \in Seq(Steps) /\ {"detach", "detached"} \subseteq Ahead /\ Asked \subseteq Ahead
  BY <1>1, JobIs, Stands DEF At
<1>5. /\ Listed' /\ Ahead' = Ahead \ {"detach", "detached"} /\ Applying' /\ job'.todo \in Seq(Steps)
  BY <1>1, <1>3, <1>4, SkipsDetach
<1>6. Asked' = Asked /\ Asked \subseteq Ahead' /\ Ahead' \subseteq Asked \cup {"settle"}
  BY <1>1, <1>3, <1>4, <1>5, AskedIs DEF Asked, Listed
<1>7. job.fresh = NoId /\ job.ids = NoSlices /\ job.ok
  BY <1>4 DEF HandOK
<1>8. Create => "parent" \in Ahead'
  BY <1>6, AskedIs
<1>9. ~Create => Ahead' \cap {"parent", "anchor", "mirror"} = {}
  BY <1>6, AskedIs
<1>10. ~Between /\ ~Between'
  <2>1. ~At("anchor")'
    BY <1>5, <1>8, <1>9, NotYet
  <2>2. ~At("mirror")'
    BY <1>5, <1>8, <1>9, NotYet
  <2> QED BY <1>1, <1>3, <1>7, <2>1, <2>2 DEF Between, At
<1>11. TypeOK'
  <2>1. job' \in Job
    BY <1>1, <1>3, <1>5 DEF TypeOK, Job
  <2> QED BY <1>1, <1>2, <2>1, QuietTyped DEF TypeOK
<1>12. NamesOK'
  <2>1. Anchor' = Anchor /\ Create' = Create /\ (Exists(Anchor))' = Exists(Anchor)
    BY <1>1, StillTree, <1>2 DEF Exists
  <2> QED BY <1>1, <1>3, <1>4, <1>5, <1>8, <2>1 DEF NamesOK, SessNames, PassNames, Ready
<1>13. HandOK'
  <2>1. ~Create => job.at \notin Ids
    BY <1>1, <1>4, NamesAre DEF NamesOK, SessNames, PassNames, Ready, TreeOK
  <2> QED BY <1>1, <1>3, <1>4, <1>5, <1>6, <1>7, <1>8, <1>9, <2>1 DEF HandOK, NoSlices, At, Applying
<1>14. CountOK'
  <2>1. Anchor' = Anchor /\ Held(accidents)' /\ Charged' = Charged /\ ChargedS' = ChargedS /\ Spare' = Spare
    BY <1>1, <1>2, <1>10, StillCharges, StillTree
  <2>2. "parent" \in Ahead' => Charged \/ (job.at = Anchor /\ Spare)
    BY <1>1, <1>5, <1>9, <1>10, NoRoom DEF CountOK
  <2>3. "children" \in Ahead' /\ Ahead' \cap {"parent", "anchor"} = {} => job.at = Anchor \/ ChargedS
    BY <1>5 DEF CountOK
  <2>4. "slices" \in Ahead' => "children" \in Ahead'
    BY <1>6, AskedIs DEF SlicingSteps
  <2> QED BY <1>3, <1>10, <2>1, <2>2, <2>3, <2>4 DEF CountOK, Between
<1>15. DoneOK'
  BY <1>1, <1>3, <1>4, <1>5, <1>6, <1>7 DEF DoneOK, Holds
<1> QED BY <1>1, <1>2, <1>5, <1>11, <1>12, <1>13, <1>14, <1>15, StillTree

LEMMA ReuseParentHolds == ASSUME Anew, GInv, ReuseParent PROVE GInv'
<1> USE DEF GInv
<1>1. /\ At("parent") /\ job.at # NoId /\ job.filed = job.dest /\ job' = [job EXCEPT !.todo = Tail(Tail(Tail(@)))]
      /\ UNCHANGED <<setup, sess, issue, rows, links, edges, wired, seen, accidents>>
  BY DEF ReuseParent, work
<1>2. Still
  BY <1>1 DEF Still
<1>3. /\ job'.todo = Tail(Tail(Tail(job.todo))) /\ job'.dest = job.dest /\ job'.plan = job.plan /\ job'.at = job.at
      /\ job'.filed = job.filed /\ job'.fresh = job.fresh /\ job'.left = job.left /\ job'.ids = job.ids
      /\ job'.pairs = job.pairs /\ job'.ok = job.ok /\ job'.clean = job.clean
  BY <1>1 DEF TypeOK, Job
<1>4. /\ Applying /\ job.todo \in Seq(Steps) /\ "parent" \in Ahead /\ Asked \subseteq Ahead
      /\ Ahead \cap {"detach", "detached"} = {}
  BY <1>1, JobIs, Stands DEF At
<1>5. Create
  BY <1>4, AskedIs DEF Listed
<1>6. Listed' /\ Ahead' = Ahead \ {"parent", "anchor", "mirror"} /\ Applying' /\ job'.todo \in Seq(Steps)
  BY <1>1, <1>3, <1>4, SkipsParent
<1>7. job.fresh = NoId /\ job.ids = NoSlices /\ job.ok
  BY <1>4 DEF HandOK
<1>8. ~Between /\ ~Between'
  BY <1>1, <1>3, <1>6, <1>7, AtNext DEF Between, At
<1>9. TypeOK'
  <2>1. job' \in Job
    BY <1>1, <1>3, <1>6 DEF TypeOK, Job
  <2> QED BY <1>1, <1>2, <2>1, QuietTyped DEF TypeOK
<1>10. job.at # Ticket
  <2>1. job.at = Ticket => setup.on # "none" /\ job.filed = "tracker" /\ job.dest \in setup.dests
    BY <1>4, <1>5 DEF NamesOK, SessNames, PassNames, Ready
  <2> QED BY <1>1, <1>5, <2>1 DEF Anew, TypeOK, Create
<1>11. NamesOK'
  <2>1. Anchor' = Anchor /\ Create' = Create /\ Exists(Anchor)' = Exists(Anchor)
    BY <1>1, StillTree, <1>2 DEF Exists
  <2> QED BY <1>1, <1>3, <1>4, <1>5, <1>6, <1>10, <2>1 DEF NamesOK, SessNames, PassNames, Ready
<1>12. HandOK'
  <2>1. job.dest = "internal" /\ job.at \in Ids => issue[job.at].home = "internal"
    BY <1>1, <1>4 DEF HandOK
  <2>2. \A s \in Slices : job'.ids[s] = NoId
    BY <1>3, <1>7 DEF NoSlices
  <2>3. (\A b \in job'.pairs : job'.ids[b[1]] # NoId /\ job'.ids[b[2]] # NoId) /\ job'.left \subseteq job'.plan
    BY <1>3 DEF HandOK
  <2>4. Ahead' \cap {"detach", "detached", "parent", "anchor", "mirror"} = {}
    BY <1>4, <1>6
  <2> QED BY <1>1, <1>3, <1>7, <2>1, <2>2, <2>3, <2>4 DEF HandOK
<1>13. CountOK'
  <2>1. Anchor' = Anchor /\ Held(accidents)' /\ Charged' = Charged /\ ChargedS' = ChargedS /\ Spare' = Spare
    BY <1>1, <1>2, <1>8, StillCharges, StillTree
  <2>2. job.at = Anchor \/ ChargedS
    <3>1. Charged => ChargedS
      BY DEF Charged, Held, ChargedS, Titles
    <3> QED BY <1>4, <3>1 DEF CountOK
  <2>3. "slices" \in Ahead' => "children" \in Ahead'
    <3>1. "slices" \in Ahead' => "slices" \in Asked
      BY <1>6 DEF Listed
    <3> QED BY <1>4, <1>6, <3>1, AskedIs DEF SlicingSteps
  <2> QED BY <1>3, <1>6, <1>8, <2>1, <2>2, <2>3 DEF CountOK, Between
<1>14. DoneOK'
  <2>1. Asked' = Asked
    BY <1>1, <1>3 DEF Asked
  <2>2. Asked \cap Marks \subseteq Ahead'
    BY <1>4, <1>6 DEF Marks
  <2> QED BY <1>1, <1>3, <1>4, <1>6, <1>7, <2>1, <2>2 DEF DoneOK
<1> QED BY <1>1, <1>2, <1>6, <1>9, <1>11, <1>12, <1>13, <1>14, StillTree

-----------------------------------------------------------------------------
(* Steps that anchor the session or add a row.                             *)

LEMMA AnchorParentHolds == ASSUME GInv, AnchorParent PROVE GInv'
<1> USE DEF GInv
<1>1. /\ At("anchor") /\ job' = Next1(job, TRUE, "ok")
      /\ UNCHANGED <<setup, issue, rows, links, edges, wired, seen>>
  BY DEF AnchorParent, work
<1>2. \/ accidents' = accidents /\ sess' = [sess EXCEPT !.anchor = job.at, !.dest = job.dest]
      \/ accidents < MaxAccidents /\ accidents' = accidents + 1 /\ sess' = sess
  BY DEF AnchorParent, Calm, Accident, Anchored
<1>3. /\ job'.todo = Tail(job.todo) /\ job'.dest = job.dest /\ job'.plan = job.plan /\ job'.at = job.at
      /\ job'.filed = job.filed /\ job'.fresh = job.fresh /\ job'.left = job.left /\ job'.ids = job.ids
      /\ job'.pairs = job.pairs /\ job'.ok = job.ok /\ job'.clean = job.clean
  BY <1>1 DEF TypeOK, Job, Next1
<1>4. /\ Applying /\ job.todo \in Seq(Steps) /\ "anchor" \in Ahead /\ Asked \ {"parent"} \subseteq Ahead
      /\ Ahead \cap {"detach", "detached", "parent"} = {} /\ Ahead \subseteq Steps
  BY <1>1, JobIs, Stands, AtIs DEF At
<1>5. Create /\ "mirror" \in Ahead
  <2>1. "anchor" \in Asked
    BY <1>4 DEF Listed
  <2> QED BY <1>4, <2>1, AskedIs
<1>6. Listed' /\ Ahead' = Ahead \ {"anchor"} /\ Applying' /\ job'.todo \in Seq(Steps)
  BY <1>1, <1>3, <1>4, Advances
<1>7. At("mirror")' /\ ~At("anchor")' /\ ~At("mirror") /\ ~At("slices")
  <2>1. \A x \in Steps : Rank[x] <= 5 => x \in {"detach", "detached", "parent", "anchor", "mirror"}
    BY RankIs DEF Steps
  <2>2. \A x \in Ahead' : x = "mirror" \/ Rank["mirror"] < Rank[x]
    <3>1. Rank["mirror"] = 5 /\ \A x \in Steps : Rank[x] \in Int
      BY RankIs
    <3> QED BY <1>4, <1>6, <2>1, <3>1
  <2>3. At("mirror")'
    BY <1>5, <1>6, <2>2, FirstNext
  <2> QED BY <1>1, <2>3 DEF At
<1>8. /\ job.at \in Parents /\ issue[job.at].home = job.dest /\ job.dest \in Homes /\ job.at \in Ids /\ Exists(job.at)
      /\ job.at \notin {Ticket, NoId, Gone} /\ job.fresh = NoId /\ job.at # Anchor
  <2>1. job.at \in Parents /\ issue[job.at].home = job.dest
    BY <1>4 DEF HandOK
  <2>2. job.dest \in Homes /\ job.fresh = NoId /\ job.at # Anchor
    BY <1>1, <1>7, JobIs DEF HandOK, CountOK
  <2> QED BY <2>1, <2>2, NamesAre DEF Exists, Homes
<1>9. sess' \in Session /\ sess'.dest \in Homes \cup {""} /\ accidents \in Nat /\ accidents' \in 0 .. MaxAccidents
  <2>1. accidents \in Nat /\ accidents' \in 0 .. MaxAccidents
    BY <1>2, BoundAssumption DEF TypeOK
  <2>2. sess' \in Session /\ sess'.dest \in Homes \cup {""}
    BY <1>2, <1>8, JobIs DEF TypeOK, Session
  <2> QED BY <2>1, <2>2
<1>10. TypeOK'
  <2>1. job' \in Job
    BY <1>1, <1>3, <1>6 DEF TypeOK, Job, Next1
  <2> QED BY <1>1, <1>9, <2>1 DEF TypeOK, Exists
<1>11. TreeOK' /\ Create' = Create /\ Asked' = Asked
  BY <1>1, <1>3 DEF TreeOK, Exists, Create, Asked
<1>12. \/ Anchor' = job.at /\ sess'.dest = job.dest
       \/ Anchor' = Anchor /\ sess'.dest = sess.dest
  BY <1>2 DEF Anchor, TypeOK, Session
<1>13. NamesOK'
  <2>1. \A x \in Ids : Exists(x)' = Exists(x)
    BY <1>1 DEF Exists
  <2>2. /\ Anchor' # Gone /\ (Anchor' \in Ids => Exists(Anchor)') /\ Anchor' \in Parents \cup {Ticket, NoId, Gone}
        /\ (Anchor' = Ticket => setup.on # "none") /\ (Anchor' \in {Ticket, NoId} <=> sess'.dest = "")
        /\ (sess'.dest = "internal" /\ Anchor' \in Ids => issue[Anchor'].home = "internal")
    <3>1. CASE Anchor' = job.at /\ sess'.dest = job.dest
      BY <1>8, <2>1, <3>1 DEF Homes
    <3>2. CASE Anchor' = Anchor /\ sess'.dest = sess.dest
      BY <1>5, <2>1, <3>2 DEF NamesOK, SessNames, PassNames, Ready
    <3> QED BY <1>12, <3>1, <3>2
  <2>3. job.at # Ticket /\ job.at # NoId
    BY <1>8
  <2> QED BY <1>1, <1>3, <1>4, <1>5, <1>6, <1>11, <2>2, <2>3 DEF NamesOK, SessNames, PassNames, Ready
<1>14. HandOK'
  BY <1>1, <1>3, <1>4, <1>6, <1>8, OnHand
<1>15. DoneOK'
  <2>1. Holds(job.at)' = Holds(job.at)
    BY <1>1, <1>3 DEF Holds
  <2> QED BY <1>1, <1>3, <1>4, <1>6, <1>11, <2>1 DEF DoneOK, Marks
<1>16. \A t \in Titles : Num(t)' = Num(t) /\ Num(t) \in Nat
  BY <1>1, NumSame, NumIs DEF Exists
<1>17. Bonus(Parent) /\ \A s \in Slices : Num(s) <= accidents /\ Num(s)' = Num(s) /\ s \in Titles
  BY <1>1, <1>16 DEF Bonus, CountOK, Titles
<1>18. accidents \in Nat /\ accidents' \in Nat
  BY <1>2 DEF TypeOK
<1>19. /\ Num(Parent)' = Num(Parent) /\ Num(Parent) \in Nat
       /\ \A s \in Slices : Num(s)' = Num(s) /\ Num(s) \in Nat /\ Num(s) <= accidents
  BY <1>16, <1>17 DEF Titles
<1>20. CountOK'
  <2>1. CASE Anchor' = job.at /\ sess'.dest = job.dest /\ accidents' = accidents
    <3>1. ~Lost' /\ ~Bad'
      BY <1>3, <1>7, <1>8, <2>1 DEF Lost, Bad, Homes
    <3>2. Bonus(Parent)'
      BY <1>5, <1>11, <3>1 DEF Bonus
    <3>3. \A t \in Titles : Num(t)' <= accidents' + Room(t)'
      <4>1. Num(Parent) <= accidents + 1
        BY <1>17, RoomIs DEF CountOK, Held, RoomRange, Titles
      <4>2. Room(Parent)' = 1 /\ \A s \in Slices : Room(s)' >= 0 /\ Room(s)' \in Int
        BY <3>1, <3>2, RoomIs DEF RoomRange, Titles
      <4>3. Num(Parent)' <= accidents' + Room(Parent)'
        BY <1>18, <1>19, <2>1, <4>1, <4>2
      <4>4. \A s \in Slices : Num(s)' <= accidents' + Room(s)'
        BY <1>18, <1>19, <2>1, <4>2
      <4> QED BY <4>3, <4>4 DEF Titles
    <3>4. "slices" \in Ahead' => "children" \in Ahead'
      BY <1>4, <1>6, AskedIs DEF Listed, SlicingSteps
    <3> QED BY <1>3, <1>4, <1>6, <1>7, <2>1, <3>3, <3>4 DEF CountOK, Held
  <2>2. CASE sess' = sess /\ accidents' = accidents + 1
    <3>1. Anchor' = Anchor /\ Lost' = Lost
      BY <2>2, <1>11 DEF Anchor, Lost
    <3>2. Bad' = Bad
      BY <1>1, <1>3, <1>7, <1>8, <1>11, <2>2, <3>1 DEF Bad
    <3>3. \A s \in Slices : Bonus(s)' = Bonus(s)
      BY <1>1, <1>3, <1>8, <3>1, NamesAre DEF Bonus, Kept
    <3>4. \A s \in Slices : Room(s)' = Room(s) /\ Room(s) \in Int
      BY <3>2, <3>3, RoomIs, NamesAre DEF Room, RoomRange, Titles
    <3>5. Room(Parent)' >= Room(Parent) - 1 /\ Room(Parent) \in Int /\ Room(Parent)' \in Int
      BY RoomIs DEF RoomRange, Titles
    <3>6. \A t \in Titles : Num(t)' <= accidents' + Room(t)'
      <4>1. Num(Parent) <= accidents + Room(Parent) /\ \A s \in Slices : Num(s) <= accidents + Room(s)
        BY DEF CountOK, Held, Titles
      <4>2. Num(Parent)' <= accidents' + Room(Parent)'
        BY <1>18, <1>19, <2>2, <3>5, <4>1
      <4>3. \A s \in Slices : Num(s)' <= accidents' + Room(s)'
        BY <1>18, <1>19, <2>2, <3>4, <4>1
      <4> QED BY <4>2, <4>3 DEF Titles
    <3>7. ChargedS'
      <4>1. \A s \in Slices : Num(s) <= accidents + Room(s)
        BY DEF CountOK, Held, Titles
      <4>2. \A s \in Slices : Num(s)' <= accidents' - 1 + Room(s)'
        BY <1>18, <1>19, <2>2, <3>4, <4>1
      <4> QED BY <4>2 DEF ChargedS
    <3>8. "slices" \in Ahead' => "children" \in Ahead'
      BY <1>4, <1>6, AskedIs DEF Listed, SlicingSteps
    <3> QED BY <1>4, <1>6, <1>7, <3>6, <3>7, <3>8 DEF CountOK, Held
  <2> QED BY <1>2, <1>12, <2>1, <2>2 DEF Anchor, TypeOK, Session
<1> QED BY <1>6, <1>10, <1>11, <1>13, <1>14, <1>15, <1>20

LEMMA MirrorParentHolds == ASSUME GInv, MirrorParent PROVE GInv'
<1> USE DEF GInv
<1>1. /\ At("mirror") /\ job' = Next1(job, TRUE, "ok")
      /\ UNCHANGED <<setup, sess, issue, links, edges, wired, seen>>
  BY DEF MirrorParent
<1>2. \/ accidents' = accidents /\ rows' = rows \cup {job.at}
      \/ accidents < MaxAccidents /\ accidents' = accidents + 1 /\ rows' = rows
  BY DEF MirrorParent, Mirrored, Calm, Accident
<1>3. /\ job'.todo = Tail(job.todo) /\ job'.dest = job.dest /\ job'.plan = job.plan /\ job'.at = job.at
      /\ job'.filed = job.filed /\ job'.fresh = job.fresh /\ job'.left = job.left /\ job'.ids = job.ids
      /\ job'.pairs = job.pairs /\ job'.ok = job.ok /\ job'.clean = job.clean
  BY <1>1 DEF TypeOK, Job, Next1
<1>4. /\ Applying /\ job.todo \in Seq(Steps) /\ "mirror" \in Ahead
      /\ Ahead \cap {"detach", "detached", "parent", "anchor"} = {} /\ Ahead \subseteq Steps
  BY <1>1, JobIs, Stands, AtIs DEF At
<1>5. Create
  <2>1. "mirror" \in Asked
    BY <1>4 DEF Listed
  <2> QED BY <1>4, <2>1, AskedIs
<1>6. Listed' /\ Ahead' = Ahead \ {"mirror"} /\ Applying' /\ job'.todo \in Seq(Steps)
  BY <1>1, <1>3, <1>4, Advances
<1>7. ~At("mirror")' /\ ~At("anchor")' /\ ~At("anchor") /\ ~At("slices")
  BY <1>1, <1>4, <1>6, AtNext DEF At
<1>8. /\ job.at \in Parents /\ job.dest \in Homes /\ job.at \in Ids /\ issue[job.at].home = job.dest /\ Exists(job.at)
      /\ job.fresh = NoId
  <2>1. job.at \in Parents /\ issue[job.at].home = job.dest
    BY <1>4 DEF HandOK
  <2>2. job.dest \in Homes /\ job.fresh = NoId
    BY <1>7, JobIs DEF HandOK
  <2> QED BY <2>1, <2>2, NamesAre DEF Exists, Homes
<1>9. accidents \in Nat /\ accidents' \in 0 .. MaxAccidents
  BY <1>2, BoundAssumption DEF TypeOK
<1>10. /\ Create' = Create /\ Asked' = Asked /\ Anchor' = Anchor /\ Lost' = Lost
          /\ \A x \in Ids : Exists(x)' = Exists(x)
  BY <1>1, <1>3 DEF Create, Asked, Anchor, Lost, Exists
<1>11. TypeOK'
  <2>1. job' \in Job
    BY <1>1, <1>3, <1>6 DEF TypeOK, Job, Next1
  <2>2. rows' \subseteq {x \in Ids : Exists(x)'}
    BY <1>2, <1>8, <1>10 DEF TypeOK
  <2> QED BY <1>1, <1>9, <2>1, <2>2 DEF TypeOK
<1>12. TreeOK'
  BY <1>1, <1>2, TreeGrows
<1>13. NamesOK'
  <2>1. (Anchor \in Ids => Exists(Anchor))'
    BY <1>1, <1>10 DEF NamesOK, SessNames, PassNames, Ready
  <2> QED BY <1>1, <1>3, <1>4, <1>5, <1>6, <1>10, <2>1 DEF NamesOK, SessNames, PassNames, Ready
<1>14. HandOK'
  BY <1>1, <1>3, <1>4, <1>6, <1>8, OnHand
<1>15. DoneOK'
  <2>1. Holds(job.at)' = Holds(job.at)
    BY <1>1, <1>3 DEF Holds
  <2> QED BY <1>1, <1>3, <1>4, <1>6, <1>10, <2>1 DEF DoneOK, Marks
<1>16. \A t \in Titles : Num(t)' = Num(t) /\ Num(t) \in Nat
  BY <1>10, NumSame, NumIs
<1>17. \A s \in Slices : Kept(s)' = Kept(s)
  <2>1. job.at[1] \notin Slices
    BY <1>8, NamesAre
  <2> QED BY <1>1, <1>2, <1>10, <2>1 DEF Kept
<1>18. \A s \in Slices : Bonus(s)' = Bonus(s)
  BY <1>3, <1>8, <1>10, <1>17, NamesAre DEF Bonus
<1>19. ASSUME accidents' = accidents, rows' = rows \cup {job.at} PROVE CountOK'
  <2>1. Bad' = Bad
    BY <1>1, <1>7, <1>10, <1>19 DEF Bad
  <2>2. Bonus(Parent)' = Bonus(Parent)
    BY <1>7, <1>10, <2>1 DEF Bonus
  <2>3. \A t \in Titles : Room(t)' = Room(t)
    BY <1>18, <2>1, <2>2 DEF Room, Titles
  <2>4. Held(accidents)'
    BY <1>16, <1>19, <2>3 DEF Held, CountOK
  <2>5. ChargedS' = ChargedS
    BY <1>16, <1>19, <2>3 DEF ChargedS, Titles
  <2>6. "slices" \in Ahead' => "children" \in Ahead'
    BY <1>4, <1>6, <1>1, JobIs, Stands, AskedIs DEF Listed, SlicingSteps
  <2> QED BY <1>3, <1>4, <1>6, <1>7, <1>10, <2>4, <2>5, <2>6 DEF CountOK
<1>20. ASSUME accidents' = accidents + 1, rows' = rows PROVE CountOK'
  <2>1. Bad => Bad'
    BY <1>1, <1>7, <1>10, <1>20 DEF Bad
  <2>2. \A s \in Slices : Room(s)' >= Room(s) - 1 /\ Room(s) \in Int /\ Room(s)' \in Int
    <3> SUFFICES ASSUME NEW s \in Slices PROVE Room(s)' >= Room(s) - 1 /\ Room(s) \in Int /\ Room(s)' \in Int
      OBVIOUS
    <3>1. Room(s) \in Int /\ Room(s)' \in Int
      BY RoomIs DEF RoomRange, Titles
    <3>2. CASE Bonus(s)
      BY <1>18, <3>1, <3>2, RoomIs DEF RoomRange, Titles
    <3>3. CASE ~Bonus(s)
      <4>1. Room(s) <= 0
        BY <3>3, RoomIs DEF RoomRange
      <4> QED BY <3>1, <4>1, RoomIs DEF RoomRange, Titles
    <3> QED BY <3>2, <3>3
  <2>3. Room(Parent)' >= Room(Parent) - 1 /\ Room(Parent) \in Int /\ Room(Parent)' \in Int
    BY RoomIs DEF RoomRange, Titles
  <2>4. \A t \in Titles : Num(t)' <= accidents' + Room(t)'
    BY <1>9, <1>16, <1>20, <2>2, <2>3 DEF CountOK, Held, Titles
  <2>5. job.at # Anchor => Bad' = Bad
    BY <1>1, <1>7, <1>10, <1>20 DEF Bad
  <2>6. job.at # Anchor => \A s \in Slices : Room(s)' = Room(s)
    BY <1>18, <2>5, NamesAre DEF Room
  <2>7. job.at # Anchor => ChargedS'
    <3>1. \A s \in Slices : Num(s) <= accidents + Room(s) /\ s \in Titles
      BY DEF CountOK, Held, Titles
    <3> QED BY <1>9, <1>16, <1>20, <2>2, <2>6, <3>1 DEF ChargedS
  <2>8. "slices" \in Ahead' => "children" \in Ahead'
    BY <1>4, <1>6, <1>1, JobIs, Stands, AskedIs DEF Listed, SlicingSteps
  <2> QED BY <1>3, <1>4, <1>6, <1>7, <1>10, <2>4, <2>7, <2>8 DEF CountOK, Held
<1>21. CountOK'
  BY <1>2, <1>19, <1>20
<1> QED BY <1>6, <1>11, <1>12, <1>13, <1>14, <1>15, <1>21

LEMMA MirrorSliceHolds == ASSUME GInv, MirrorSlice PROVE GInv'
<1> USE DEF GInv
<1>1. /\ At("slices") /\ job.fresh # NoId
      /\ job' = [job EXCEPT !.fresh = NoId, !.left = @ \ {Slice}, !.ids[Slice] = job.fresh]
      /\ UNCHANGED <<setup, sess, issue, links, edges, wired, seen>>
  BY DEF MirrorSlice
<1>2. \/ accidents' = accidents /\ rows' = rows \cup {job.fresh}
      \/ accidents < MaxAccidents /\ accidents' = accidents + 1 /\ rows' = rows
  BY DEF MirrorSlice, Mirrored, Calm, Accident
<1>3. /\ job.left # {} /\ job.ids[Slice] = NoId /\ job.fresh[1] = Slice /\ job.fresh \in Ids /\ Exists(job.fresh)
      /\ issue[job.fresh].parent = job.at /\ Slice \in job.left /\ Slice \in job.plan /\ Slice \in Slices
  <2>1. /\ job.left # {} /\ job.ids[Slice] = NoId /\ job.fresh \in {Slice} \X Copies /\ Exists(job.fresh)
        /\ issue[job.fresh].parent = job.at
    BY <1>1 DEF HandOK
  <2>2. Slice \in job.left /\ Slice \in job.plan /\ Slice \in Slices /\ Slice \in Titles
    BY <2>1, SliceIs DEF Titles
  <2> QED BY <2>1, <2>2, NamesAre
<1>4. /\ job'.todo = job.todo /\ job'.dest = job.dest /\ job'.plan = job.plan /\ job'.at = job.at
      /\ job'.filed = job.filed /\ job'.fresh = NoId /\ job'.left = job.left \ {Slice}
      /\ job'.pairs = job.pairs /\ job'.ok = job.ok /\ job'.clean = job.clean
      /\ job'.ids = [job.ids EXCEPT ![Slice] = job.fresh]
  BY <1>1 DEF TypeOK, Job
<1>5. job'.ids[Slice] = job.fresh /\ \A s \in Slices \ {Slice} : job'.ids[s] = job.ids[s]
  BY <1>3, <1>4, JobIs
<1>6. /\ Applying /\ job.todo \in Seq(Steps) /\ "slices" \in Ahead
      /\ Ahead \cap {"detach", "detached", "parent", "anchor", "mirror", "description", "children"} = {}
  BY <1>1, JobIs, Stands DEF At
<1>7. Listed' /\ Ahead' = Ahead /\ Applying' /\ Asked' = Asked
  BY <1>1, <1>4, <1>6 DEF Listed, Ahead, Asked, Applying
<1>8. ~At("mirror")' /\ ~At("anchor")' /\ ~At("anchor") /\ ~At("mirror")
  BY <1>1, <1>4 DEF At, Applying
<1>9. accidents \in Nat /\ accidents' \in 0 .. MaxAccidents
  BY <1>2, BoundAssumption DEF TypeOK
<1>10. /\ Create' = Create /\ Anchor' = Anchor /\ Lost' = Lost
       /\ \A x \in Ids : Exists(x)' = Exists(x) /\ issue'[x] = issue[x]
  BY <1>1 DEF Create, Anchor, Lost, Exists
<1>11. TypeOK'
  <2>1. job' \in Job
    BY <1>1, <1>3, <1>4 DEF TypeOK, Job, Names
  <2>2. rows' \subseteq {x \in Ids : Exists(x)'}
    BY <1>2, <1>3, <1>10 DEF TypeOK
  <2> QED BY <1>1, <1>9, <2>1, <2>2 DEF TypeOK
<1>12. TreeOK'
  BY <1>1, <1>2, TreeGrows
<1>13. NamesOK'
  BY <1>1, <1>4, <1>6, <1>7, <1>10, SessStay, HandNames DEF SameHand, NamesOK
<1>14. HandOK'
  <2>1. \A s \in Slices : job'.ids[s] # NoId =>
          /\ s \in job'.plan /\ job'.ids[s] \in Ids /\ job'.ids[s][1] = s
          /\ issue'[job'.ids[s]].parent = job'.at /\ Exists(job.ids[s])'
    <3> SUFFICES ASSUME NEW s \in Slices, job'.ids[s] # NoId
                 PROVE  /\ s \in job.plan /\ job'.ids[s] \in Ids /\ job'.ids[s][1] = s
                        /\ issue[job'.ids[s]].parent = job.at /\ Exists(job'.ids[s])
      BY <1>4, <1>10
    <3>1. CASE s = Slice
      BY <1>3, <1>5, <3>1
    <3>2. CASE s # Slice
      BY <1>5, <3>2 DEF HandOK
    <3> QED BY <3>1, <3>2
  <2>2. \A b \in job'.pairs : job'.ids[b[1]] # NoId /\ job'.ids[b[2]] # NoId
    <3>1. \A b \in job.pairs : b[1] \in Slices /\ b[2] \in Slices
      BY BlockAssumption, JobIs
    <3> QED BY <1>1, <1>4, <1>5, <3>1 DEF HandOK
  <2>3. job'.dest = "internal" /\ job'.at \in Ids => issue'[job'.at].home = "internal"
    BY <1>4, <1>6, <1>10 DEF HandOK
  <2> QED BY <1>4, <1>6, <1>7, <2>1, <2>2, <2>3 DEF HandOK
<1>15. DoneOK'
  <2>1. Holds(job.at)' = Holds(job.at)
    BY <1>1, <1>4 DEF Holds
  <2>2. job.ok => \A s \in job.plan \ job.left : job.ids[s] # NoId
    BY <1>6, AskedIs DEF DoneOK, Listed
  <2>3. \A s \in job'.plan \ job'.left : job'.ok => job'.ids[s] # NoId
    <3>1. job.plan \subseteq Slices
      BY JobIs
    <3> QED BY <1>1, <1>4, <1>5, <2>2, <3>1
  <2> QED BY <1>1, <1>4, <1>6, <1>7, <2>1, <2>3 DEF DoneOK
<1>16. \A t \in Titles : Num(t)' = Num(t) /\ Num(t) \in Nat
  BY <1>10, NumSame, NumIs
<1>17. Create => job.fresh # Anchor /\ (job.at = Anchor => ~Lost)
  <2>1. Create => Anchor \in Parents \cup {Ticket, NoId, Gone} /\ (Anchor \in {Ticket, NoId} <=> sess.dest = "")
                  /\ job.at \notin {Ticket, NoId}
    BY <1>6 DEF NamesOK, SessNames, PassNames, Ready
  <2> QED BY <1>3, <2>1, NamesAre DEF Lost, Titles
<1>18. Bad' = Bad
  BY <1>1, <1>2, <1>8, <1>10, <1>17 DEF Bad
<1>19. Bonus(Parent)' = Bonus(Parent)
  BY <1>8, <1>10, <1>18 DEF Bonus
<1>20. \A s \in Slices : s # Slice \/ job.at # Anchor => Kept(s)' = Kept(s)
  BY <1>1, <1>2, <1>3, <1>10 DEF Kept
<1>21. \A s \in Slices : s # Slice \/ job.at # Anchor => Bonus(s)' = Bonus(s)
  BY <1>4, <1>10, <1>20, NamesAre DEF Bonus
<1>22. \A t \in Titles : t # Slice \/ job.at # Anchor => Room(t)' = Room(t)
  BY <1>18, <1>19, <1>21 DEF Room, Titles
<1>23. \A t \in Titles : Room(t) \in Int /\ Room(t)' \in Int /\ Num(t) <= accidents + Room(t) /\ Room(t)' >= Room(t) - 1
  <2> SUFFICES ASSUME NEW t \in Titles PROVE Room(t)' >= Room(t) - 1 /\ Room(t)' \in Int /\ Room(t) \in Int
    BY DEF CountOK, Held
  <2>1. Room(t) \in Int /\ Room(t)' \in Int
    BY RoomIs DEF RoomRange
  <2>2. CASE t # Slice
    BY <1>22, <2>1, <2>2
  <2>3. CASE t = Slice
    BY <1>3, <1>18, <2>1, <2>3, RoomIs DEF RoomRange
  <2> QED BY <2>2, <2>3
<1>24. ASSUME accidents' = accidents, rows' = rows \cup {job.fresh} PROVE CountOK'
  <2>0. PICK k \in Slices : k = Slice
    BY <1>3
  <2>1. job.at = Anchor => Kept(k)'
    BY <1>1, <1>3, <1>10, <1>24, <2>0 DEF Kept
  <2>2. job.at = Anchor => ~Lost
    BY <1>17 DEF Lost
  <2>3. job.at = Anchor => Bonus(k)' /\ Bonus(k)
    BY <1>1, <1>3, <1>10, <2>0, <2>1, <2>2, NamesAre DEF Bonus
  <2>4. \A t \in Titles : Room(t)' = Room(t)
    <3>1. job.at = Anchor => Room(k)' = Room(k)
      BY <1>18, <2>3, RoomIs DEF RoomRange
    <3> QED BY <1>22, <2>0, <3>1
  <2>5. Held(accidents)'
    BY <1>16, <1>23, <1>24, <2>4 DEF Held
  <2>6. \A s \in job'.left : job'.ids[s] = NoId =>
         Num(s)' <= IF job'.at = Anchor' THEN accidents' - (IF Bad' THEN 1 ELSE 0) ELSE accidents' - 1 + Room(s)'
    <3> SUFFICES ASSUME NEW s \in job.left, s # Slice, job'.ids[s] = NoId
                 PROVE  Num(s)' <= IF job'.at = Anchor' THEN accidents' - (IF Bad' THEN 1 ELSE 0)
                                   ELSE accidents' - 1 + Room(s)'
      BY <1>4
    <3>1. s \in Slices /\ s \in Titles
      BY JobIs DEF Titles
    <3>2. job.ids[s] = NoId
      BY <1>5, <3>1
    <3>3. Num(s) <= IF job.at = Anchor THEN accidents - (IF Bad THEN 1 ELSE 0) ELSE accidents - 1 + Room(s)
      BY <1>6, <3>2 DEF CountOK
    <3> QED BY <1>4, <1>10, <1>16, <1>18, <1>24, <2>4, <3>1, <3>3
  <2> QED BY <1>6, <1>7, <1>8, <2>5, <2>6 DEF CountOK
<1>25. ASSUME accidents' = accidents + 1, rows' = rows PROVE CountOK'
  <2>1. \A t \in Titles : Num(t)' <= accidents' + Room(t)'
    BY <1>9, <1>16, <1>23, <1>25
  <2>2. \A s \in job'.left : job'.ids[s] = NoId =>
         Num(s)' <= IF job'.at = Anchor' THEN accidents' - (IF Bad' THEN 1 ELSE 0) ELSE accidents' - 1 + Room(s)'
    <3> SUFFICES ASSUME NEW s \in job.left, s # Slice, job'.ids[s] = NoId
                 PROVE  Num(s)' <= IF job'.at = Anchor' THEN accidents' - (IF Bad' THEN 1 ELSE 0)
                                   ELSE accidents' - 1 + Room(s)'
      BY <1>4
    <3>1. s \in Slices /\ s \in Titles
      BY JobIs DEF Titles
    <3>2. job.ids[s] = NoId
      BY <1>5, <3>1
    <3>3. Num(s) <= IF job.at = Anchor THEN accidents - (IF Bad THEN 1 ELSE 0) ELSE accidents - 1 + Room(s)
      BY <1>6, <3>2 DEF CountOK
    <3>4. Room(s)' = Room(s) /\ Room(s) \in Int /\ Num(s) \in Nat /\ Num(s)' = Num(s)
      BY <1>16, <1>22, <1>23, <3>1
    <3> QED BY <1>4, <1>9, <1>10, <1>18, <1>25, <3>3, <3>4
  <2> QED BY <1>6, <1>7, <1>8, <2>1, <2>2 DEF CountOK, Held
<1>26. CountOK'
  BY <1>2, <1>24, <1>25
<1> QED BY <1>7, <1>11, <1>12, <1>13, <1>14, <1>15, <1>26

LEMMA DetachHolds == ASSUME GInv, Detach PROVE GInv'
<1> USE DEF GInv
<1> DEFINE moved(x) == x = job.at \/ (x \in Under(job.at) /\ issue[x].home = "tracker")
<1> DEFINE lost(x)  == ~moved(x) /\ issue[x].parent = job.at /\ x \notin rows
<1>1. /\ At("detach") /\ job.at \in rows /\ issue[job.at].home = "tracker" /\ job' = [job EXCEPT !.todo = Tail(@)]
      /\ UNCHANGED <<setup, sess, rows, links, edges, wired, accidents>>
  BY DEF Detach
<1>2. issue' = [x \in Ids |->
       IF x = job.at \/ (x \in Under(job.at) /\ issue[x].home = "tracker") THEN [issue[x] EXCEPT !.home = "internal"]
       ELSE IF issue[x].parent = job.at /\ x \notin rows THEN [issue[x] EXCEPT !.parent = Gone]
       ELSE issue[x]]
  BY DEF Detach
<1>3. seen' = IF seen # Unseen /\ seen.anchor = job.at THEN [seen EXCEPT !.anchor = Gone] ELSE seen
  BY DEF Detach
<1>4. ASSUME NEW x \in Ids
      PROVE  /\ moved(x) => issue'[x].home = "internal" /\ issue'[x].parent = issue[x].parent
             /\ ~moved(x) => issue'[x].home = issue[x].home
             /\ lost(x) => issue'[x].parent = Gone
             /\ ~lost(x) => issue'[x].parent = issue[x].parent
             /\ issue'[x].has = issue[x].has /\ issue'[x] \in Issue
  BY <1>2 DEF TypeOK, Issue, Homes, Names
<1>5. /\ \A x \in Ids : moved(x) => issue[x].home = "tracker"
      /\ \A x \in rows : x \in Ids /\ ~lost(x)
      /\ job.at \in Ids
  BY <1>1 DEF TypeOK
<1>6. \A x \in rows : moved(x) <=> x = job.at \/ (issue[x].parent = job.at /\ issue[x].home = "tracker")
  BY DEF Under
<1>7. \A x \in Ids : moved(x) => x = job.at \/ issue[x].parent = job.at
  BY DEF Under
<1>8. \A x \in Ids : issue[x].parent = job.at /\ ~lost(x) /\ issue[x].home = "tracker" => moved(x)
  BY DEF Under
<1> HIDE DEF moved, lost
<1>9. \A x \in Ids : Exists(x)' = Exists(x)
  BY <1>4, <1>5 DEF Exists
<1>10. \A x \in rows : issue'[x].parent = issue[x].parent
  BY <1>4, <1>5
<1>11. Kin
  BY <1>1, <1>9, <1>10 DEF Kin
<1>12. /\ job'.todo = Tail(job.todo) /\ job'.dest = job.dest /\ job'.plan = job.plan /\ job'.at = job.at
       /\ job'.filed = job.filed /\ job'.fresh = job.fresh /\ job'.left = job.left /\ job'.ids = job.ids
       /\ job'.pairs = job.pairs /\ job'.ok = job.ok /\ job'.clean = job.clean
  BY <1>1 DEF TypeOK, Job
<1>13. /\ Applying /\ job.todo \in Seq(Steps) /\ {"detach", "detached"} \subseteq Ahead /\ Asked \subseteq Ahead
  BY <1>1, JobIs, Stands DEF At
<1>14. Listed' /\ Ahead' = Ahead \ {"detach"} /\ Applying' /\ job'.todo \in Seq(Steps) /\ Asked' = Asked
  BY <1>1, <1>12, <1>13, Advances DEF Asked
<1>15. job.fresh = NoId /\ job.ids = NoSlices /\ job.ok /\ job.dest = "internal"
  BY <1>13 DEF HandOK
<1>16. ~Between /\ ~Between'
  <2>1. ~At("anchor")' /\ ~At("mirror")'
    <3>1. Create => "parent" \in Ahead'
      BY <1>13, <1>14, AskedIs
    <3>2. ~Create => Ahead' \cap {"anchor", "mirror"} = {}
      BY <1>14, AskedIs DEF Listed
    <3> QED BY <1>14, <3>1, <3>2, NotYet
  <2> QED BY <1>1, <1>12, <1>15, <2>1 DEF Between, At
<1>17. job.at[1] \notin Slices
  <2>1. ~Create => job.at = Ticket
    BY <1>5, <1>13, NamesAre DEF NamesOK, SessNames, PassNames, Ready
  <2>2. Create => job.at \in Parents \cup {Ticket}
    BY <1>5, NamesAre DEF NamesOK, SessNames, PassNames, Ready
  <2> QED BY <2>1, <2>2, NamesAre DEF Titles
<1>18. issue[job.at].parent = NoId
  BY <1>5, <1>17 DEF TreeOK
<1>19. TypeOK'
  <2>1. job' \in Job
    BY <1>1, <1>12, <1>14 DEF TypeOK, Job
  <2>2. issue' \in [Ids -> Issue]
    BY <1>2, <1>4
  <2>3. seen' \in Seen
    BY <1>3 DEF TypeOK, Seen, Names
  <2>4. rows' \subseteq {x \in Ids : Exists(x)'}
    BY <1>1, <1>9 DEF TypeOK
  <2> QED BY <1>1, <2>1, <2>2, <2>3, <2>4 DEF TypeOK
<1>20. TreeOK'
  <2>1. \A x \in Ids : issue'[x].parent \in {issue[x].parent, Gone}
    BY <1>4
  <2>2. ASSUME NEW x \in Ids, issue'[x].parent \in Ids
        PROVE  /\ Exists(x)' /\ Exists(issue[x].parent)'
               /\ issue'[x].home = issue'[issue'[x].parent].home
    <3>1. ~lost(x) /\ issue'[x].parent = issue[x].parent /\ issue[x].parent \in Ids
      BY <1>4, <2>2, NamesAre
    <3>2. Exists(x) /\ Exists(issue[x].parent) /\ issue[x].home = issue[issue[x].parent].home
      BY <3>1 DEF TreeOK
    <3>3. CASE issue[x].parent = job.at
      <4>1. moved(x) /\ moved(job.at)
        BY <1>1, <1>5, <1>8, <3>1, <3>2, <3>3 DEF moved
      <4> QED BY <1>4, <1>5, <1>9, <3>1, <3>2, <3>3, <4>1
    <3>4. CASE issue[x].parent # job.at
      <4>1. x # job.at
        BY <1>18, <3>1, NamesAre
      <4>2. issue[issue[x].parent].parent = NoId
        <5>1. issue[x].parent \in Parents \cup {Ticket}
          BY <3>1, NamesAre DEF TreeOK
        <5> QED BY <3>1, <5>1, NamesAre DEF TreeOK, Titles
      <4>3. ~moved(x) /\ ~moved(issue[x].parent)
        BY <1>5, <1>7, <3>1, <3>4, <4>1, <4>2, NamesAre
      <4> QED BY <1>4, <1>9, <3>1, <3>2, <4>3
    <3> QED BY <3>3, <3>4
  <2>3. \A x \in Ids : x[1] \notin Slices => issue'[x].parent = NoId
    <3>1. \A x \in Ids : x[1] \notin Slices => issue[x].parent = NoId /\ ~lost(x)
      BY <1>5, NamesAre DEF TreeOK, lost
    <3> QED BY <1>4, <3>1
  <2>4. \A x \in Ids : issue'[x].parent \in Parents \cup {Ticket, NoId, Gone}
    BY <2>1 DEF TreeOK
  <2> QED BY <1>1, <1>9, <2>2, <2>3, <2>4, NamesAre DEF TreeOK
<1>21. NamesOK'
  <2>1. Anchor' = Anchor /\ Create' = Create
    BY <1>1 DEF Anchor, Create
  <2>2. (Anchor \in Ids => Exists(Anchor))'
    BY <1>9, <2>1 DEF NamesOK, SessNames, PassNames, Ready
  <2>3. \A x \in Ids : issue[x].home = "internal" => issue'[x].home = "internal"
    BY <1>4
  <2>4. seen'.anchor \in {seen.anchor, Gone} /\ seen'.dest = seen.dest /\ (seen = Unseen => seen' = Unseen)
    BY <1>3 DEF TypeOK, Seen
  <2>5. seen.anchor \in {Anchor, Gone} => seen'.anchor \in {Anchor, Gone}
    BY <2>4
  <2>6. SessNames'
    <3>1. SessNames /\ setup' = setup /\ sess' = sess
      BY <1>1 DEF NamesOK
    <3>2. Gone # Ticket /\ Gone # NoId /\ Gone \notin Ids
      BY NamesAre
    <3>3. seen.dest = "internal" /\ seen'.anchor \in Ids => issue'[seen'.anchor].home = "internal"
      BY <2>3, <2>4, <3>1, <3>2 DEF SessNames
    <3> QED BY <2>1, <2>2, <2>3, <2>4, <2>5, <3>1, <3>2, <3>3 DEF SessNames
  <2>7. PassNames'
    <3>1. PassNames /\ setup' = setup
      BY <1>1 DEF NamesOK
    <3>2. Create => "parent" \in Ahead'
      BY <1>13, <1>14, AskedIs
    <3> QED BY <1>12, <1>13, <1>14, <2>1, <3>1, <3>2 DEF PassNames
  <2> QED BY <2>6, <2>7 DEF NamesOK
<1>22. HandOK'
  <2>1. issue'[job.at].home = "internal"
    BY <1>4, <1>5 DEF moved
  <2>2. "mirror" \in Ahead \/ "anchor" \in Ahead => "parent" \in Ahead
    BY <1>13, AskedIs DEF Listed
  <2> QED BY <1>1, <1>12, <1>13, <1>14, <1>15, <2>1, <2>2 DEF HandOK, NoSlices
<1>23. CountOK'
  <2>1. /\ Anchor' = Anchor /\ Held(accidents)' /\ Charged' = Charged /\ ChargedS' = ChargedS /\ Spare' = Spare
    BY <1>1, <1>11, <1>16, KinCharges, KinCounts
  <2>2. "slices" \in Ahead' => "children" \in Ahead'
    BY <1>13, <1>14, AskedIs DEF Listed, SlicingSteps
  <2>3. "parent" \in Ahead' => Charged \/ (job.at = Anchor /\ (Spare \/ job.filed = job.dest \/ "detached" \in Ahead'))
    BY <1>13, <1>14 DEF CountOK
  <2>4. "children" \in Ahead' /\ Ahead' \cap {"parent", "anchor"} = {} => job.at = Anchor \/ ChargedS
    BY <1>14 DEF CountOK
  <2> QED BY <1>12, <1>16, <2>1, <2>2, <2>3, <2>4 DEF CountOK, Between
<1>24. DoneOK'
  <2>1. Asked' \cap Marks \subseteq Ahead'
    BY <1>13, <1>14, AskedIs
  <2> QED BY <1>1, <1>12, <1>13, <1>14, <1>15, <2>1 DEF DoneOK
<1> QED BY <1>14, <1>19, <1>20, <1>21, <1>22, <1>23, <1>24

\* A conversion is done: the session is anchored on its issue, or the write was lost.
LEMMA Converted ==
  ASSUME GInv, job.at \in rows, issue[job.at].home = "internal", ~Between, ~Between',
         {"detach", "detached"} \cap Ahead # {}, Asked \subseteq Ahead, Ahead' = Ahead \ {"detach", "detached"},
         Listed', Applying', job' \in Job,
         UNCHANGED <<setup, issue, rows, links, edges, wired, seen>>,
         job'.dest = job.dest, job'.plan = job.plan, job'.fresh = job.fresh, job'.left = job.left,
         job'.ids = job.ids, job'.pairs = job.pairs, job'.ok = job.ok,
         \/ /\ accidents' = accidents /\ sess' = [sess EXCEPT !.anchor = job.at, !.dest = job.dest]
            /\ job'.at = job.at /\ job'.filed = "internal"
         \/ /\ accidents < MaxAccidents /\ accidents' = accidents + 1 /\ sess' = sess
            /\ job'.at \in {job.at, Gone} /\ job'.filed = job.filed
  PROVE  GInv'
<1> USE DEF GInv
<1>1. job.fresh = NoId /\ job.ids = NoSlices /\ job.ok /\ job.dest = "internal" /\ Applying
  <2>1. Ahead # {}
    OBVIOUS
  <2> QED BY <2>1, JobIs, Stands DEF HandOK
<1>2. job.at \in Ids /\ Exists(job.at)
  BY DEF TypeOK
<1>3. ~Create => job.at = Anchor
  BY <1>1, <1>2, NamesAre DEF NamesOK, SessNames, PassNames, Ready
<1>4. Create => job.at \in Parents /\ job.at \notin {Ticket, NoId, Gone} /\ "parent" \in Ahead'
  <2>1. Create => job.at # Ticket
    BY <1>1 DEF NamesOK, SessNames, PassNames, Ready
  <2>2. Create => job.at \in Parents
    BY <1>1, <1>2, <2>1, NamesAre DEF NamesOK, SessNames, PassNames, Ready
  <2> QED BY <1>2, <2>1, <2>2, NamesAre, AskedIs
<1>5. ~Create => Ahead' \cap {"parent", "anchor", "mirror"} = {}
  BY AskedIs DEF Listed
<1>6. /\ Create' = Create /\ Asked' = Asked /\ \A x \in Ids : Exists(x)' = Exists(x)
  BY DEF Create, Asked, Exists
<1>7. TreeOK'
  BY TreeGrows
<1>8. \/ accidents' = accidents /\ Anchor' = job.at /\ sess'.dest = "internal" /\ job'.at = job.at
         /\ job'.filed = "internal"
      \/ /\ accidents < MaxAccidents /\ accidents' = accidents + 1 /\ sess' = sess /\ Anchor' = Anchor
         /\ job'.at \in {job.at, Gone} /\ job'.filed = job.filed
  BY <1>1 DEF Anchor, TypeOK, Session
<1>9. TypeOK'
  <2>1. accidents' \in 0 .. MaxAccidents
    BY BoundAssumption DEF TypeOK
  <2>2. sess' \in Session
    BY <1>1, JobIs DEF TypeOK, Session
  <2> QED BY <1>6, <2>1, <2>2 DEF TypeOK
<1>10. NamesOK'
  <2>1. CASE Anchor' = job.at /\ sess'.dest = "internal" /\ job'.at = job.at /\ job'.filed = "internal"
    <3>1. Anchor' # Gone /\ Exists(Anchor') /\ issue[Anchor'].home = "internal"
      BY <1>2, <2>1, NamesAre
    <3>2. Exists(Anchor)'
      BY <1>2, <1>6, <2>1
    <3>3. CASE Create
      BY <1>1, <1>4, <1>6, <2>1, <3>1, <3>2, <3>3 DEF NamesOK, SessNames, PassNames, Ready
    <3>4. CASE ~Create
      BY <1>1, <1>3, <1>6, <2>1, <3>1, <3>2, <3>4 DEF NamesOK, SessNames, PassNames, Ready
    <3> QED BY <3>3, <3>4
  <2>2. CASE sess' = sess /\ Anchor' = Anchor /\ job'.at \in {job.at, Gone} /\ job'.filed = job.filed
    <3>1. (Anchor \in Ids => Exists(Anchor))'
      BY <1>6, <2>2 DEF NamesOK, SessNames, PassNames, Ready
    <3>2. Gone # Ticket
      BY NamesAre
    <3>3. CASE Create
      BY <1>1, <1>4, <1>6, <2>2, <3>1, <3>2, <3>3 DEF NamesOK, SessNames, PassNames, Ready
    <3>4. CASE ~Create
      BY <1>1, <1>3, <1>6, <2>2, <3>1, <3>4 DEF NamesOK, SessNames, PassNames, Ready
    <3> QED BY <3>3, <3>4
  <2> QED BY <1>8, <2>1, <2>2
<1>11. HandOK'
  <2>1. job'.at \in Ids => issue'[job'.at].home = "internal"
    BY <1>8, NamesAre
  <2>2. \A b \in job.pairs : FALSE
    <3>1. \A b \in job.pairs : b[1] \in Slices
      BY BlockAssumption, JobIs
    <3> QED BY <1>1, <3>1 DEF HandOK, NoSlices
  <2> QED BY <1>1, <1>4, <1>5, <2>1, <2>2 DEF HandOK, NoSlices
<1>12. DoneOK'
  <2>1. Asked' \cap Marks \subseteq Ahead'
    BY <1>6, AskedIs
  <2>2. setup'.disp \in {"create", "split"} /\ "children" \notin Ahead' => job'.plan = {}
    <3>1. "children" \notin Ahead' => "children" \notin Asked
      BY <1>6
    <3> QED BY <3>1, AskedIs DEF SlicingSteps, Create
  <2> QED BY <2>1, <2>2 DEF DoneOK
<1>13. "slices" \in Ahead' => "children" \in Ahead'
  BY AskedIs DEF Listed, SlicingSteps
<1>14. \A t \in Titles : Num(t)' = Num(t) /\ Num(t) \in Nat
  BY <1>6, NumSame, NumIs
<1>15. ASSUME accidents' = accidents, Anchor' = job.at, sess'.dest = "internal", job'.at = job.at,
              job'.filed = "internal"
       PROVE  CountOK'
  <2>1. ~Lost' /\ ~Bad'
    BY <1>15 DEF Lost, Bad
  <2>2. ASSUME job.at = Anchor PROVE Held(accidents)'
    <3>1. ~Lost /\ ~Bad
      BY <1>4, <2>2 DEF Lost, Bad, NamesOK, SessNames, PassNames, Ready
    <3>2. \A s \in Slices : Kept(s)' = Kept(s)
      BY <1>15, <2>2 DEF Kept
    <3>3. Bonus(Parent)' = Bonus(Parent)
      BY <1>6, <2>1, <3>1 DEF Bonus, Between
    <3>4. \A s \in Slices : Bonus(s)' = Bonus(s)
      BY <2>1, <3>1, <3>2, NamesAre DEF Bonus, Between
    <3>5. \A t \in Titles : Room(t)' = Room(t)
      BY <2>1, <3>1, <3>3, <3>4 DEF Room, Titles
    <3> QED BY <1>14, <1>15, <3>5 DEF Held, CountOK
  <2>3. ASSUME job.at # Anchor PROVE Held(accidents)'
    <3>1. Charged
      BY <1>3, <1>4, <2>3 DEF CountOK
    <3>2. \A t \in Titles : Room(t)' >= 0 /\ Room(t)' \in Int
      BY <2>1, RoomIs DEF RoomRange, Titles
    <3>3. \A t \in Titles : Num(t) <= accidents
      BY <1>14, <3>1, RoomIs DEF Charged, Held, RoomRange, TypeOK
    <3> QED BY <1>14, <1>15, <3>2, <3>3 DEF Held, TypeOK
  <2>4. Held(accidents)'
    BY <2>2, <2>3
  <2> QED BY <1>1, <1>13, <1>15, <2>4 DEF CountOK, Between
<1>16. ASSUME accidents' = accidents + 1, sess' = sess, Anchor' = Anchor PROVE CountOK'
  <2>1. Kin
    BY <1>6, <1>16 DEF Kin
  <2>2. Held(accidents)' /\ Charged' /\ ChargedS'
    BY <1>16, <2>1, KinPays
  <2> QED BY <1>13, <2>2 DEF CountOK, Between
<1>17. CountOK'
  BY <1>8, <1>15, <1>16
<1> QED BY <1>7, <1>9, <1>10, <1>11, <1>12, <1>17

LEMMA DetachedHolds == ASSUME GInv, Detached PROVE GInv'
<1> USE DEF GInv
<1>1. /\ At("detached") /\ UNCHANGED <<setup, issue, rows, links, edges, wired, seen>>
      /\ \/ /\ accidents' = accidents /\ sess' = [sess EXCEPT !.anchor = job.at, !.dest = job.dest]
            /\ job' = [job EXCEPT !.todo = Tail(@), !.filed = "internal"]
         \/ /\ accidents < MaxAccidents /\ accidents' = accidents + 1 /\ sess' = sess
            /\ job' = [job EXCEPT !.todo = Tail(@), !.at = Gone]
  BY DEF Detached, Anchored, Calm, Accident
<1>2. /\ job'.todo = Tail(job.todo) /\ job'.dest = job.dest /\ job'.plan = job.plan
      /\ job'.fresh = job.fresh /\ job'.left = job.left /\ job'.ids = job.ids
      /\ job'.pairs = job.pairs /\ job'.ok = job.ok
  BY <1>1 DEF TypeOK, Job
<1>3. /\ Applying /\ job.todo \in Seq(Steps) /\ "detach" \notin Ahead /\ "detached" \in Ahead /\ Asked \subseteq Ahead
  BY <1>1, JobIs, Stands DEF At
<1>4. Listed' /\ Ahead' = Ahead \ {"detached"} /\ Applying' /\ job'.todo \in Seq(Steps)
  BY <1>1, <1>2, <1>3, Advances
<1>5. job.at \in rows /\ issue[job.at].home = "internal" /\ job.fresh = NoId
  BY <1>3 DEF HandOK
<1>6. ~Between /\ ~Between'
  <2>1. Create => "parent" \in Ahead'
    BY <1>3, <1>4, AskedIs
  <2>2. ~Create => Ahead' \cap {"anchor", "mirror"} = {}
    BY <1>4, AskedIs DEF Listed
  <2>3. ~At("anchor")' /\ ~At("mirror")'
    BY <1>4, <2>1, <2>2, NotYet
  <2> QED BY <1>1, <1>2, <1>5, <2>3 DEF Between, At
<1>7. job' \in Job
  BY <1>1, <1>2, <1>4 DEF TypeOK, Job, Homes, Names
<1>8. \/ /\ accidents' = accidents /\ sess' = [sess EXCEPT !.anchor = job.at, !.dest = job.dest]
         /\ job'.at = job.at /\ job'.filed = "internal"
      \/ /\ accidents < MaxAccidents /\ accidents' = accidents + 1 /\ sess' = sess
         /\ job'.at \in {job.at, Gone} /\ job'.filed = job.filed
  BY <1>1 DEF TypeOK, Job
<1>9. Ahead' = Ahead \ {"detach", "detached"}
  BY <1>3, <1>4
<1> QED BY <1>1, <1>2, <1>3, <1>4, <1>5, <1>6, <1>7, <1>8, <1>9, Converted

LEMMA DetachInternalHolds == ASSUME GInv, DetachInternal PROVE GInv'
<1> USE DEF GInv
<1>1. /\ At("detach") /\ job.at \in rows /\ issue[job.at].home = "internal"
      /\ UNCHANGED <<setup, issue, rows, links, edges, wired, seen>>
      /\ \/ /\ accidents' = accidents /\ sess' = [sess EXCEPT !.anchor = job.at, !.dest = job.dest]
            /\ job' = [job EXCEPT !.todo = Tail(Tail(@)), !.filed = "internal"]
         \/ /\ accidents < MaxAccidents /\ accidents' = accidents + 1 /\ sess' = sess
            /\ job' = [job EXCEPT !.todo = Tail(Tail(@))]
  BY DEF DetachInternal, Anchored, Calm, Accident, work
<1>2. /\ job'.todo = Tail(Tail(job.todo)) /\ job'.dest = job.dest /\ job'.plan = job.plan
      /\ job'.fresh = job.fresh /\ job'.left = job.left /\ job'.ids = job.ids
      /\ job'.pairs = job.pairs /\ job'.ok = job.ok
  BY <1>1 DEF TypeOK, Job
<1>3. /\ Applying /\ job.todo \in Seq(Steps) /\ {"detach", "detached"} \subseteq Ahead /\ Asked \subseteq Ahead
  BY <1>1, JobIs, Stands DEF At
<1>4. Listed' /\ Ahead' = Ahead \ {"detach", "detached"} /\ Applying' /\ job'.todo \in Seq(Steps)
  BY <1>1, <1>2, <1>3, SkipsDetach
<1>5. job.fresh = NoId
  BY <1>3 DEF HandOK
<1>6. ~Between /\ ~Between'
  <2>1. Create => "parent" \in Ahead'
    BY <1>3, <1>4, AskedIs
  <2>2. ~Create => Ahead' \cap {"anchor", "mirror"} = {}
    BY <1>4, AskedIs DEF Listed
  <2>3. ~At("anchor")' /\ ~At("mirror")'
    BY <1>4, <2>1, <2>2, NotYet
  <2> QED BY <1>1, <1>2, <1>5, <2>3 DEF Between, At
<1>7. job' \in Job
  BY <1>1, <1>2, <1>4 DEF TypeOK, Job, Homes, Names
<1>8. \/ /\ accidents' = accidents /\ sess' = [sess EXCEPT !.anchor = job.at, !.dest = job.dest]
         /\ job'.at = job.at /\ job'.filed = "internal"
      \/ /\ accidents < MaxAccidents /\ accidents' = accidents + 1 /\ sess' = sess
         /\ job'.at \in {job.at, Gone} /\ job'.filed = job.filed
  BY <1>1 DEF TypeOK, Job
<1> QED BY <1>1, <1>2, <1>3, <1>4, <1>5, <1>6, <1>7, <1>8, Converted

-----------------------------------------------------------------------------
(* Steps that file.                                                        *)

LEMMA NewIssue ==
  ASSUME GInv, NEW x \in Ids, ~Exists(x), x # Ticket, NEW p \in Parents \cup {Ticket, NoId, Gone}, File(x, p),
         setup' = setup, x[1] \notin Slices => p = NoId, p \in Ids => Exists(p) /\ issue[p].home = job.dest
  PROVE  /\ TreeOK' /\ issue' \in [Ids -> Issue] /\ rows' \subseteq {y \in Ids : Exists(y)'}
         /\ Exists(x)' /\ issue'[x].home = job.dest /\ issue'[x].parent = p
         /\ \A y \in Ids \ {x} : issue'[y] = issue[y] /\ Exists(y)' = Exists(y)
         /\ rows \subseteq rows' /\ rows' \subseteq rows \cup {x} /\ (job.dest = "internal" => x \in rows')
         /\ x \notin rows /\ \A y \in Ids : issue[y].parent # x
<1> USE DEF GInv
<1>1. /\ issue' = [issue EXCEPT ![x] = [home |-> job.dest, parent |-> p, has |-> {}]]
      /\ rows' = IF job.dest = "internal" THEN rows \cup {x} ELSE rows
  BY DEF File
<1>2. job.dest \in Homes /\ job.dest # "none" /\ p \in Names
  BY JobIs, NamesAre DEF Homes, Names
<1>3. issue' \in [Ids -> Issue]
  BY <1>1, <1>2 DEF TypeOK, Issue
<1>4. issue'[x].home = job.dest /\ issue'[x].parent = p /\ \A y \in Ids \ {x} : issue'[y] = issue[y]
  BY <1>1 DEF TypeOK
<1>5. Exists(x)' /\ \A y \in Ids \ {x} : Exists(y)' = Exists(y)
  BY <1>2, <1>4 DEF Exists
<1>6. x \notin rows /\ \A y \in rows : y \in Ids /\ Exists(y)
  BY DEF TypeOK
<1>7. rows' \subseteq {y \in Ids : Exists(y)'}
  BY <1>1, <1>5, <1>6
<1>8. \A y \in Ids : issue[y].parent # x
  BY DEF TreeOK
<1>9. TreeOK'
  <2>1. TreeOK /\ setup' = setup /\ rows \subseteq rows'
    BY <1>1
  <2>2. ASSUME NEW y \in Ids, issue'[y].parent \in Ids
        PROVE  Exists(y)' /\ Exists(issue[y].parent)' /\ issue'[y].home = issue'[issue'[y].parent].home
    <3>1. CASE y = x
      <4>1. p \in Ids /\ p # x
        BY <1>4, <2>2, <3>1
      <4>2. issue'[p] = issue[p] /\ issue[p].home # "none"
        BY <1>4, <4>1 DEF Exists
      <4> QED BY <1>4, <1>5, <3>1, <4>1, <4>2 DEF Exists
    <3>2. CASE y # x
      <4>1. issue'[y] = issue[y] /\ issue[y].parent # x
        BY <1>4, <1>8, <3>2
      <4>2. Exists(y) /\ Exists(issue[y].parent) /\ issue[y].home = issue[issue[y].parent].home
        BY <2>1, <2>2, <4>1 DEF TreeOK
      <4>3. issue'[issue[y].parent] = issue[issue[y].parent]
        BY <1>4, <2>2, <4>1
      <4> QED BY <1>5, <2>2, <3>2, <4>1, <4>2, <4>3 DEF Exists
    <3> QED BY <3>1, <3>2
  <2>3. \A y \in Ids : issue'[y].parent \in Parents \cup {Ticket, NoId, Gone}
        /\ (y[1] \notin Slices => issue'[y].parent = NoId)
    BY <1>4, <2>1 DEF TreeOK
  <2>4. Exists(Ticket)' = Exists(Ticket)
    BY <1>5, NamesAre
  <2> QED BY <2>1, <2>2, <2>3, <2>4 DEF TreeOK
<1> QED BY <1>1, <1>3, <1>4, <1>5, <1>6, <1>7, <1>8, <1>9

\* A parent that is filed anew was paid for, or there is none a retry will find.
LEMMA FilesAnew == ASSUME GInv, At("parent"), ~(job.at # NoId /\ job.filed = job.dest) PROVE Spare
<1> USE DEF GInv
<1>1. "parent" \in Ahead /\ "detached" \notin Ahead /\ ~Between
  <2>1. "parent" \in Ahead /\ Ahead \cap {"detach", "detached"} = {}
    BY JobIs, Stands
  <2>2. job.fresh = NoId
    BY <2>1 DEF HandOK
  <2> QED BY <2>1, <2>2 DEF Between, At
<1>2. Create
  BY <1>1, AskedIs DEF Listed
<1>3. CASE Charged
  BY <1>3, NumIs, RoomIs DEF Charged, Held, Spare, RoomRange, TypeOK
<1>4. CASE ~Charged
  <2>1. job.at = Anchor /\ (Spare \/ job.at = NoId)
    BY <1>1, <1>4 DEF CountOK
  <2>2. job.at = NoId => Lost
    BY <1>2, <2>1 DEF NamesOK, SessNames, Lost
  <2> QED BY <1>1, <1>2, <2>1, <2>2, NoRoom
<1> QED BY <1>3, <1>4

LEMMA FilesParent ==
  ASSUME GInv, At("parent"), ~(job.at # NoId /\ job.filed = job.dest), File(Fresh(Parent), NoId),
         UNCHANGED <<setup, sess, links, edges, wired, seen>>,
         \/ accidents' = accidents /\ job' = [Next1(job, TRUE, "ok") EXCEPT !.at = Fresh(Parent)]
         \/ accidents < MaxAccidents /\ accidents' = accidents + 1 /\ job' = GiveUp(job, "lost")
  PROVE  GInv'
<1> USE DEF GInv
<1>1. Spare /\ accidents \in Nat
  BY FilesAnew DEF TypeOK
<1>2. Parent \in Titles /\ Parent \notin Slices
  BY NamesAre DEF Titles
<1>3. PICK x : x = Fresh(Parent)
  OBVIOUS
<1>4. x \in {Parent} \X Copies /\ x \in Ids /\ ~Exists(x) /\ x[1] = Parent /\ x \in Parents
      /\ x \notin {Ticket, NoId, Gone}
  <2>1. Num(Parent) <= MaxAccidents + 1
    BY <1>1, <1>2, NumIs, BoundAssumption DEF Spare, TypeOK
  <2>2. x \in {Parent} \X Copies /\ x \in Ids /\ ~Exists(x)
    BY <1>2, <1>3, <2>1, FreshIs
  <2> QED BY <2>2, NamesAre DEF Parents
<1>5. /\ TreeOK' /\ issue' \in [Ids -> Issue] /\ rows' \subseteq {y \in Ids : Exists(y)'}
      /\ Exists(x)' /\ issue'[x].home = job.dest /\ issue'[x].parent = NoId
      /\ \A y \in Ids \ {x} : issue'[y] = issue[y] /\ Exists(y)' = Exists(y)
      /\ rows \subseteq rows' /\ rows' \subseteq rows \cup {x} /\ (job.dest = "internal" => x \in rows')
      /\ x \notin rows /\ \A y \in Ids : issue[y].parent # x
  BY <1>3, <1>4, NewIssue, NamesAre
<1>6. /\ Applying /\ job.todo \in Seq(Steps) /\ "parent" \in Ahead /\ Asked \subseteq Ahead
      /\ Ahead \cap {"detach", "detached"} = {}
  BY JobIs, Stands DEF At
<1>7. Create /\ job.fresh = NoId /\ job.ids = NoSlices /\ job.ok /\ job.dest \in Homes /\ job.pairs = {}
  <2>1. Create /\ job.fresh = NoId /\ job.ids = NoSlices /\ job.ok /\ job.dest \in Homes
    BY <1>6, AskedIs, JobIs DEF HandOK, Listed
  <2>2. \A b \in job.pairs : b[1] \in Slices
    BY BlockAssumption, JobIs
  <2> QED BY <2>1, <2>2 DEF HandOK, NoSlices
<1>8. ~Between /\ ~At("mirror")
  BY <1>7 DEF Between, At
<1>9. /\ job'.dest = job.dest /\ job'.plan = job.plan /\ job'.filed = job.filed /\ job'.fresh = NoId
      /\ job'.left = job.left /\ job'.ids = NoSlices /\ job'.pairs = {}
  BY <1>7 DEF TypeOK, Job, Next1, GiveUp
<1>10. Anchor' = Anchor /\ Create' = Create /\ Lost' = Lost /\ Asked' = Asked
  BY <1>9 DEF Anchor, Create, Lost, Asked
<1>11. /\ Num(Parent)' = Num(Parent) + 1 /\ Num(Parent) \in Nat /\ Num(Parent) <= accidents
       /\ \A s \in Slices : Num(s)' = Num(s) /\ Num(s) \in Nat /\ Num(s) <= accidents
  <2>1. Num(Parent)' = Num(Parent) + 1 /\ \A r \in Titles \ {Parent} : Num(r)' = Num(r)
    BY <1>2, <1>4, <1>5, NumFile
  <2> QED BY <1>1, <1>2, <2>1, NumIs DEF Spare, Titles
<1>12. \A s \in Slices : Kept(s)' = Kept(s)
  <2>1. \A y \in rows : y # x /\ y \in Ids
    BY <1>5 DEF TypeOK
  <2> QED BY <1>2, <1>4, <1>5, <1>10, <2>1 DEF Kept
<1>13. Bad' => Bad
  BY <1>5, <1>8, <1>10 DEF Bad
<1>14. \A s \in Slices : Bonus(s)' = Bonus(s)
  BY <1>7, <1>9, <1>10, <1>12, NamesAre DEF Bonus
<1>15. \A s \in Slices : Room(s)' >= Room(s) /\ Room(s) \in Int /\ Room(s)' \in Int /\ Num(s) <= accidents + Room(s)
  <2> SUFFICES ASSUME NEW s \in Slices PROVE Room(s)' >= Room(s) /\ Room(s) \in Int /\ Room(s)' \in Int
    BY DEF CountOK, Held, Titles
  <2>1. Room(s) \in Int /\ Room(s)' \in Int
    BY RoomIs DEF RoomRange, Titles
  <2>2. CASE Bonus(s)
    BY <1>13, <1>14, <2>1, <2>2, RoomIs DEF RoomRange
  <2>3. CASE ~Bonus(s)
    BY <1>13, <1>14, <2>1, <2>3, RoomIs DEF RoomRange
  <2> QED BY <2>2, <2>3
<1>16. SessNames'
  <2>1. \A y \in Ids : issue[y].home = "internal" => issue'[y].home = "internal"
    BY <1>4, <1>5 DEF Exists
  <2> QED BY <1>4, <1>5, <2>1, SessStay
<1>17. ASSUME accidents' = accidents, job' = [Next1(job, TRUE, "ok") EXCEPT !.at = Fresh(Parent)] PROVE GInv'
  <2>1. job'.todo = Tail(job.todo) /\ job'.at = x /\ job'.ok = job.ok /\ job'.clean = job.clean
    BY <1>3, <1>17 DEF TypeOK, Job, Next1
  <2>2. Listed' /\ Ahead' = Ahead \ {"parent"} /\ Applying' /\ job'.todo \in Seq(Steps)
    BY <1>6, <2>1, <1>9, Advances
  <2>3. "anchor" \in Ahead /\ "mirror" \in Ahead
    BY <1>6, <1>7, AskedIs
  <2>4. At("anchor")' /\ ~At("mirror")'
    <3>1. Rank["anchor"] = 4 /\ \A y \in Steps : Rank[y] \in Int
      BY RankIs
    <3>2. \A y \in Steps : Rank[y] <= 4 => y \in {"detach", "detached", "parent", "anchor"}
      BY RankIs DEF Steps
    <3>3. Ahead \subseteq Steps
      BY <1>6, AtIs
    <3>4. \A y \in Ahead' : y = "anchor" \/ Rank["anchor"] < Rank[y]
      BY <1>6, <2>2, <3>1, <3>2, <3>3
    <3>5. At("anchor")'
      BY <2>2, <2>3, <3>4, FirstNext
    <3> QED BY <3>5 DEF At
  <2>5. TypeOK'
    <3>1. job' \in Job
      BY <1>4, <1>9, <1>17, <2>1, <2>2 DEF TypeOK, Job, Next1, Names
    <3> QED BY <1>5, <1>17, <3>1 DEF TypeOK
  <2>6. PassNames'
    <3>1. PassNames /\ setup' = setup
      BY DEF NamesOK
    <3> QED BY <1>4, <1>6, <1>7, <1>9, <1>10, <2>1, <3>1 DEF PassNames
  <2>7. HandOK'
    <3>1. \A s \in Slices : job'.ids[s] = NoId
      BY <1>9 DEF NoSlices
    <3>2. job'.left \subseteq job'.plan
      BY <1>9 DEF HandOK
    <3>3. job'.at \in Parents /\ issue'[job'.at].home = job'.dest
      BY <1>4, <1>5, <1>9, <2>1
    <3>4. Ahead' \cap {"detach", "detached", "parent"} = {}
      BY <1>6, <2>2
    <3> QED BY <1>9, <3>1, <3>2, <3>3, <3>4 DEF HandOK
  <2>8. DoneOK'
    <3>1. Asked' \cap Marks \subseteq Ahead'
      BY <1>6, <1>10, <2>2 DEF Marks
    <3>2. setup'.disp \in {"create", "split"} /\ "children" \notin Ahead' => job'.plan = {}
      BY <1>6, <1>9, <2>2, <1>7, AskedIs DEF SlicingSteps
    <3> QED BY <3>1, <3>2 DEF DoneOK
  <2>9. CountOK'
    <3>1. Bonus(Parent)'
      BY <2>4 DEF Bonus
    <3>2. Room(Parent)' = 1
      BY <3>1, RoomIs DEF RoomRange
    <3>3. Held(accidents)'
      <4>1. Num(Parent)' <= accidents' + Room(Parent)'
        BY <1>1, <1>11, <1>17, <3>2
      <4>2. \A s \in Slices : Num(s)' <= accidents' + Room(s)'
        BY <1>1, <1>11, <1>15, <1>17
      <4> QED BY <4>1, <4>2 DEF Held, Titles
    <3>4. x # Anchor
      BY <1>4 DEF NamesOK, SessNames
    <3>5. \A y \in Ids : issue'[y].parent # x
      BY <1>4, <1>5
    <3>6. \A s \in Slices : Num(s)' <= accidents'
      BY <1>11, <1>17
    <3>7. "slices" \in Ahead' => "children" \in Ahead'
      BY <1>6, <2>2, AskedIs DEF Listed, SlicingSteps
    <3>8. Exists(job.at)'
      BY <1>5, <2>1 DEF Exists
    <3> QED BY <1>4, <1>10, <2>1, <2>2, <2>3, <3>3, <3>4, <3>5, <3>6, <3>7, <3>8 DEF CountOK
  <2> QED BY <1>5, <1>16, <2>2, <2>5, <2>6, <2>7, <2>8, <2>9 DEF NamesOK
<1>18. ASSUME accidents < MaxAccidents, accidents' = accidents + 1, job' = GiveUp(job, "lost") PROVE GInv'
  <2>1. job'.todo = <<"settle">> /\ job'.at = job.at /\ job'.ok = FALSE /\ job'.clean \in BOOLEAN
    BY <1>18 DEF TypeOK, Job, GiveUp
  <2>2. Listed' /\ Ahead' = {"settle"} /\ Applying' /\ job'.todo \in Seq(Steps)
    BY <2>1, OnlySettles
  <2>3. TypeOK'
    <3>1. job' \in Job
      BY <1>9, <1>18, <2>1, <2>2 DEF TypeOK, Job, GiveUp
    <3>2. accidents' \in 0 .. MaxAccidents
      BY <1>1, <1>18, BoundAssumption
    <3> QED BY <1>5, <3>1, <3>2 DEF TypeOK
  <2>4. PassNames'
    <3>1. "settle" \in Ahead
      BY <1>6, JobIs, Stands
    <3> QED BY <1>6, <1>9, <1>10, <2>1, <2>2, <3>1, HandNames DEF SameHand
  <2>5. HandOK'
    <3>1. \A s \in Slices : job'.ids[s] = NoId
      BY <1>9 DEF NoSlices
    <3>2. job'.left \subseteq job'.plan
      BY <1>9 DEF HandOK
    <3> QED BY <1>9, <2>2, <3>1, <3>2 DEF HandOK
  <2>6. DoneOK'
    BY <2>1 DEF DoneOK
  <2>7. CountOK'
    <3>1. Room(Parent)' >= 0 /\ Room(Parent)' \in Int
      BY RoomIs, <1>2 DEF RoomRange
    <3>2. Num(Parent)' <= accidents' + Room(Parent)'
      BY <1>1, <1>11, <1>18, <3>1
    <3>3. \A s \in Slices : Num(s)' <= accidents' + Room(s)'
      BY <1>1, <1>11, <1>15, <1>18
    <3>4. ~At("anchor")'
      BY <2>1 DEF At
    <3> QED BY <2>2, <3>2, <3>3, <3>4 DEF CountOK, Held, Titles
  <2> QED BY <1>5, <1>16, <2>2, <2>3, <2>4, <2>5, <2>6, <2>7 DEF NamesOK
<1> QED BY <1>17, <1>18

LEMMA FileParentHolds == ASSUME GInv, FileParent PROVE GInv'
<1>1. /\ At("parent") /\ ~(job.at # NoId /\ job.filed = job.dest)
      /\ UNCHANGED <<setup, sess, links, edges, wired, seen>>
  BY DEF FileParent
<1>2. PICK a \in Answers :
       \/ a = "refused" /\ job' = GiveUp(job, a) /\ Calm /\ UNCHANGED <<issue, rows>>
       \/ /\ a # "refused" /\ File(Fresh(Parent), NoId)
          /\ IF a = "ok" THEN job' = [Next1(job, TRUE, a) EXCEPT !.at = Fresh(Parent)] /\ Calm
             ELSE job' = GiveUp(job, a) /\ Accident
  BY DEF FileParent
<1>3. a \in {"ok", "refused", "lost"}
  BY DEF Answers
<1>4. CASE a = "refused"
  BY <1>1, <1>2, <1>4, GivesUpHolds DEF Calm
<1>5. CASE a = "ok"
  BY <1>1, <1>2, <1>5, FilesParent DEF Calm
<1>6. CASE a = "lost"
  BY <1>1, <1>2, <1>6, FilesParent DEF Accident
<1> QED BY <1>3, <1>4, <1>5, <1>6


\* A slice that was refused is no longer to do.
LEMMA RefusesSlice ==
  ASSUME GInv, At("slices"), job.fresh = NoId, job.left # {}, job.ids[Slice] = NoId,
         job' = [job EXCEPT !.left = @ \ {Slice}, !.ok = FALSE, !.clean = FALSE],
         UNCHANGED <<setup, sess, issue, rows, links, edges, wired, seen, accidents>>
  PROVE  GInv'
<1> USE DEF GInv
<1>1. Still
  BY DEF Still
<1>2. /\ job'.todo = job.todo /\ job'.dest = job.dest /\ job'.plan = job.plan /\ job'.at = job.at
      /\ job'.filed = job.filed /\ job'.fresh = job.fresh /\ job'.left = job.left \ {Slice} /\ job'.ids = job.ids
      /\ job'.pairs = job.pairs /\ job'.ok = FALSE /\ job'.clean = FALSE
  BY DEF TypeOK, Job
<1>3. /\ Applying /\ job.todo \in Seq(Steps) /\ "slices" \in Ahead
      /\ Ahead \cap {"detach", "detached", "parent", "anchor", "mirror", "description", "children"} = {}
  BY JobIs, Stands DEF At
<1>4. Listed' /\ Ahead' = Ahead /\ Applying'
  BY <1>2, <1>3 DEF Listed, Ahead, Asked, Applying
<1>5. ~Between /\ ~Between'
  BY <1>2 DEF Between, At, Applying
<1>6. SameHand
  BY <1>2, <1>3, <1>4 DEF SameHand
<1>7. job' \in Job
  BY <1>2 DEF TypeOK, Job
<1>8. TypeOK'
  BY <1>1, <1>7, QuietTyped DEF TypeOK
<1>9. HandOK'
  <2>1. \A s \in Slices : job.ids[s] # NoId =>
       s \in job.plan /\ job.ids[s] \in Ids /\ job.ids[s][1] = s /\ issue[job.ids[s]].parent = job.at
       /\ Exists(job.ids[s])'
    BY DEF HandOK, Exists
  <2> QED BY <1>2, <1>3, <1>4, <2>1 DEF HandOK
<1>10. CountOK'
  <2>1. Anchor' = Anchor /\ Bad' = Bad
    BY <1>1, <1>5, StillCounts, StillTree
  <2>2. /\ \A s \in Slices : Num(s)' = Num(s) /\ Room(s)' = Room(s)
        /\ job.left \subseteq Slices
    BY <1>1, <1>5, StillCounts, JobIs DEF Titles
  <2>3. \A s \in job'.left : job'.ids[s] = NoId /\ ~(job'.fresh # NoId /\ s = Slice') =>
         Num(s)' <= IF job'.at = Anchor' THEN accidents' - (IF Bad' THEN 1 ELSE 0) ELSE accidents' - 1 + Room(s)'
    BY <1>2, <1>3, <2>1, <2>2 DEF CountOK
  <2>4. Held(accidents)'
    BY <1>1, <1>5, StillCharges
  <2> QED BY <1>3, <1>4, <1>5, <2>3, <2>4 DEF CountOK, Between
<1>11. DoneOK'
  BY <1>2 DEF DoneOK
<1> QED BY <1>1, <1>4, <1>6, <1>8, <1>9, <1>10, <1>11, StillTree, StillNames

LEMMA FreshSlice ==
  ASSUME GInv, At("slices"), job.fresh = NoId, job.left # {}, job.ids[Slice] = NoId
  PROVE  /\ Num(Slice) \in Nat
         /\ Num(Slice) <= IF job.at = Anchor THEN accidents - (IF Bad THEN 1 ELSE 0) ELSE accidents - 1 + Room(Slice)
         /\ Fresh(Slice) \in {Slice} \X Copies /\ Fresh(Slice) \in Ids /\ ~Exists(Fresh(Slice))
<1> USE DEF GInv
<1>1. Slice \in job.left /\ Slice \in Titles
  BY SliceIs DEF Titles
<1>2. "slices" \in Ahead /\ "children" \notin Ahead
  BY JobIs, Stands
<1>3. accidents \in Nat /\ accidents <= MaxAccidents
  BY BoundAssumption DEF TypeOK
<1>4. Num(Slice) \in Nat
      /\ Num(Slice) <= IF job.at = Anchor THEN accidents - (IF Bad THEN 1 ELSE 0) ELSE accidents - 1 + Room(Slice)
  BY <1>1, <1>2, NumIs DEF CountOK
<1>5. Num(Slice) <= MaxAccidents + 1
  BY <1>1, <1>3, <1>4, RoomIs, BoundAssumption DEF RoomRange
<1> QED BY <1>1, <1>4, <1>5, FreshIs

LEMMA FilesSlice ==
  ASSUME GInv, At("slices"), job.fresh = NoId, job.left # {}, job.ids[Slice] = NoId,
         job.dest = "tracker" => Holds(job.at), File(Fresh(Slice), job.at),
         UNCHANGED <<setup, sess, links, edges, wired, seen>>,
         \/ accidents' = accidents /\ job' = [job EXCEPT !.fresh = Fresh(Slice)]
         \/ /\ accidents < MaxAccidents /\ accidents' = accidents + 1
            /\ job' = [job EXCEPT !.left = @ \ {Slice}, !.ok = FALSE, !.clean = FALSE]
  PROVE  GInv'
<1> USE DEF GInv
<1>1. PICK k \in Slices : k = Slice /\ k \in job.left /\ k \in job.plan
  BY SliceIs
<1>2. k \in Titles /\ k # Parent /\ Parent \in Titles /\ k \in Int /\ k > 0
  BY <1>1, SliceAssumption DEF Titles, Parent
<1>3. /\ Applying /\ job.todo \in Seq(Steps) /\ "slices" \in Ahead
      /\ Ahead \cap {"detach", "detached", "parent", "anchor", "mirror", "description", "children"} = {}
  BY JobIs, Stands DEF At
<1>4. accidents \in Nat /\ accidents' \in 0 .. MaxAccidents /\ accidents <= MaxAccidents
  BY BoundAssumption DEF TypeOK
<1>5. Num(k) \in Nat
      /\ Num(k) <= IF job.at = Anchor THEN accidents - (IF Bad THEN 1 ELSE 0) ELSE accidents - 1 + Room(k)
  BY <1>1, FreshSlice
<1>6. PICK x : x = Fresh(Slice)
  OBVIOUS
<1>7. x \in {k} \X Copies /\ x \in Ids /\ ~Exists(x) /\ x[1] = k
  BY <1>1, <1>6, FreshSlice
<1>8. x \notin {Ticket, NoId, Gone} /\ x \notin Parents
  BY <1>2, <1>7 DEF Ticket, NoId, Gone, Parents
<1>9. job.at \in Parents \cup {Ticket, NoId, Gone} /\ Anchor \in Parents \cup {Ticket, NoId, Gone}
  BY <1>3 DEF NamesOK, SessNames, PassNames
<1>10. job.at \in Ids => Exists(job.at) /\ issue[job.at].home = job.dest
  <2>1. job.dest = "internal" /\ job.at \in Ids => issue[job.at].home = "internal"
    BY <1>3 DEF HandOK
  <2>2. job.dest = "tracker" \/ job.dest = "internal"
    BY JobIs DEF Homes
  <2>3. job.at \in Ids => issue[job.at].home = job.dest
    BY <2>1, <2>2 DEF Holds
  <2> QED BY <2>2, <2>3 DEF Exists
<1>11. /\ TreeOK' /\ issue' \in [Ids -> Issue] /\ rows' \subseteq {y \in Ids : Exists(y)'}
       /\ Exists(x)' /\ issue'[x].parent = job.at
       /\ \A y \in Ids \ {x} : issue'[y] = issue[y] /\ Exists(y)' = Exists(y)
       /\ rows \subseteq rows' /\ rows' \subseteq rows \cup {x} /\ x \notin rows
  BY <1>1, <1>6, <1>7, <1>8, <1>9, <1>10, NewIssue
<1>12. /\ job'.todo = job.todo /\ job'.dest = job.dest /\ job'.plan = job.plan /\ job'.at = job.at
       /\ job'.filed = job.filed /\ job'.ids = job.ids /\ job'.pairs = job.pairs
       /\ \/ accidents' = accidents /\ job'.left = job.left /\ job'.ok = job.ok /\ job'.fresh = x
          \/ accidents' = accidents + 1 /\ job'.left = job.left \ {k} /\ job'.ok = FALSE /\ job'.fresh = NoId
  BY <1>1, <1>6 DEF TypeOK, Job
<1>13. Listed' /\ Ahead' = Ahead /\ Applying' /\ Asked' = Asked
  BY <1>3, <1>12 DEF Listed, Ahead, Asked, Applying
<1>14. Anchor' = Anchor /\ Create' = Create /\ Lost' = Lost
  BY DEF Anchor, Create, Lost
<1>15. /\ ~At("mirror") /\ ~At("anchor") /\ ~At("mirror")' /\ ~At("anchor")' /\ At("slices")'
  BY <1>12 DEF At, Applying
<1>16. TypeOK'
  <2>1. job' \in Job
    BY <1>6, <1>7, <1>12 DEF TypeOK, Job, Names
  <2> QED BY <1>4, <1>11, <2>1 DEF TypeOK
<1>17. NamesOK'
  <2>1. \A y \in Ids : (Exists(y) => Exists(y)') /\ (issue[y].home = "internal" => issue'[y].home = "internal")
    BY <1>7, <1>11 DEF Exists
  <2>2. SameHand
    BY <1>3, <1>12, <1>13 DEF SameHand
  <2> QED BY <1>14, <2>1, <2>2, SessStay, HandNames DEF NamesOK
<1>18. HandOK'
  <2>1. \A s \in Slices : job.ids[s] # NoId =>
          s \in job.plan /\ job.ids[s] \in Ids /\ job.ids[s][1] = s /\ issue'[job.ids[s]].parent = job.at
          /\ Exists(job.ids[s])'
    <3> SUFFICES ASSUME NEW s \in Slices, job.ids[s] # NoId
                 PROVE  /\ s \in job.plan /\ job.ids[s] \in Ids /\ job.ids[s][1] = s
                        /\ issue'[job.ids[s]].parent = job.at /\ Exists(job.ids[s])'
      OBVIOUS
    <3>1. /\ s \in job.plan /\ job.ids[s] \in Ids /\ job.ids[s][1] = s
          /\ issue[job.ids[s]].parent = job.at /\ Exists(job.ids[s])
      BY DEF HandOK
    <3>2. job.ids[s] \in Ids \ {x}
      BY <1>7, <3>1
    <3> QED BY <1>11, <1>12, <3>1, <3>2 DEF Exists
  <2>2. job'.fresh # NoId =>
          /\ At("slices")' /\ job'.left # {} /\ job'.ids[k] = NoId /\ Slice' = k
          /\ job'.fresh \in {k} \X Copies /\ Exists(x)' /\ job'.fresh = x /\ issue'[x].parent = job'.at
    BY <1>1, <1>7, <1>11, <1>12, <1>15 DEF Slice
  <2>3. job'.dest = "internal" /\ job'.at \in Ids => issue'[job'.at].home = "internal"
    BY <1>8, <1>9, <1>10, <1>11, <1>12
  <2>4. \A b \in job'.pairs : job'.ids[b[1]] # NoId /\ job'.ids[b[2]] # NoId
    BY <1>12 DEF HandOK
  <2>5. job'.left \subseteq job'.plan
    BY <1>12 DEF HandOK
  <2> QED BY <1>3, <1>12, <1>13, <2>1, <2>2, <2>3, <2>4, <2>5 DEF HandOK
<1>19. DoneOK'
  <2> SUFFICES ASSUME job'.ok PROVE DoneOK'
    BY DEF DoneOK
  <2>1. job.ok /\ job'.left = job.left
    BY <1>12
  <2>2. Holds(job.at) => Holds(job.at)' /\ issue'[job.at].has = issue[job.at].has
    <3>1. job.at # x /\ job'.at = job.at /\ job'.dest = job.dest
      BY <1>8, <1>9, <1>12
    <3> QED BY <1>11, <3>1 DEF Holds
  <2> QED BY <1>3, <1>12, <1>13, <2>1, <2>2 DEF DoneOK
<1>20. Num(k)' = Num(k) + 1 /\ \A r \in Titles \ {k} : Num(r)' = Num(r)
  BY <1>2, <1>7, <1>11, NumFile
<1>21. /\ \A s \in Slices \ {k} : Kept(s)' = Kept(s)
       /\ Kept(k) => Kept(k)'
  <2>1. \A y \in rows : y # x /\ y \in Ids
    BY <1>11 DEF TypeOK
  <2> QED BY <1>7, <1>11, <1>14, <2>1 DEF Kept
<1>22. Bad' = Bad
  <2>1. Anchor # x
    BY <1>8, <1>9
  <2> QED BY <1>11, <1>14, <1>15, <2>1 DEF Bad
<1>23. \A t \in Titles \ {k} : Bonus(t)' = Bonus(t)
  <2>1. Bonus(Parent)' = Bonus(Parent)
    BY <1>14, <1>15, <1>22 DEF Bonus
  <2>2. job'.fresh # NoId => Slice' = k
    BY <1>1, <1>12, <1>8 DEF Slice
  <2>3. \A s \in Slices \ {k} : Bonus(s)' = Bonus(s)
    BY <1>14, <1>21, <2>2, NamesAre DEF Bonus
  <2> QED BY <2>1, <2>3 DEF Titles
<1>24. \A t \in Titles \ {k} : Room(t)' = Room(t)
  BY <1>22, <1>23 DEF Room
<1>25. \A t \in Titles : Room(t) \in Int /\ Room(t)' \in Int /\ Num(t) \in Nat /\ Num(t) <= accidents + Room(t)
  BY RoomIs, NumIs DEF RoomRange, CountOK, Held
<1>26. Bonus(k) => Bonus(k)'
  BY <1>1, <1>14, <1>21, <1>2 DEF Bonus
<1>27. Room(k)' >= Room(k)
  BY <1>1, <1>2, <1>22, <1>25, <1>26, RoomIs DEF RoomRange
<1>28. CountOK'
  <2>1. Num(k)' <= accidents' + Room(k)'
    <3>1. CASE accidents' = accidents + 1
      BY <1>2, <1>4, <1>20, <1>25, <1>27, <3>1
    <3>2. CASE job'.fresh = x /\ accidents' = accidents /\ job.at # Anchor
      BY <1>2, <1>4, <1>5, <1>20, <1>25, <1>27, <3>2
    <3>3. CASE job'.fresh = x /\ job'.left = job.left /\ accidents' = accidents /\ job.at = Anchor
      <4>1. Slice' = k
        BY <1>1, <3>3 DEF Slice
      <4>2. Bonus(k)'
        BY <1>2, <1>8, <1>12, <1>14, <3>3, <4>1 DEF Bonus
      <4>3. Room(k)' = 1 - (IF Bad THEN 1 ELSE 0)
        BY <1>1, <1>22, <4>2, RoomIs DEF RoomRange
      <4>4. Num(k) <= accidents - (IF Bad THEN 1 ELSE 0)
        BY <1>5, <3>3
      <4> QED BY <1>4, <1>5, <1>20, <3>3, <4>3, <4>4
    <3> QED BY <1>12, <3>1, <3>2, <3>3
  <2>2. \A t \in Titles : Num(t)' <= accidents' + Room(t)'
    <3>1. accidents' = accidents \/ accidents' = accidents + 1
      BY <1>12
    <3> QED BY <1>4, <1>20, <1>24, <1>25, <2>1, <3>1
  <2>3. \A s \in job'.left : job'.ids[s] = NoId /\ ~(job'.fresh # NoId /\ s = Slice') =>
         Num(s)' <= IF job'.at = Anchor' THEN accidents' - (IF Bad' THEN 1 ELSE 0) ELSE accidents' - 1 + Room(s)'
    <3> SUFFICES ASSUME NEW s \in job'.left, job'.ids[s] = NoId, ~(job'.fresh # NoId /\ s = Slice')
                 PROVE  Num(s)' <= IF job'.at = Anchor' THEN accidents' - (IF Bad' THEN 1 ELSE 0)
                                   ELSE accidents' - 1 + Room(s)'
      OBVIOUS
    <3>1. s \in job.left /\ s # k
      <4>1. job'.left = job.left => Slice' = k
        BY <1>1 DEF Slice
      <4> QED BY <1>8, <1>12, <4>1
    <3>2. s \in Slices /\ s \in Titles \ {k}
      BY <3>1, JobIs DEF Titles
    <3>3. Num(s) <= IF job.at = Anchor THEN accidents - (IF Bad THEN 1 ELSE 0) ELSE accidents - 1 + Room(s)
      BY <1>3, <1>12, <3>1 DEF CountOK
    <3>4. Num(s)' = Num(s) /\ Room(s)' = Room(s) /\ Room(s) \in Int /\ Num(s) \in Nat
      BY <1>20, <1>24, <1>25, <3>2
    <3>5. accidents' = accidents \/ accidents' = accidents + 1
      BY <1>12
    <3> QED BY <1>4, <1>12, <1>14, <1>22, <3>3, <3>4, <3>5
  <2> QED BY <1>3, <1>13, <1>15, <2>2, <2>3 DEF CountOK, Held
<1> QED BY <1>11, <1>13, <1>16, <1>17, <1>18, <1>19, <1>28

LEMMA FileSliceHolds == ASSUME GInv, FileSlice PROVE GInv'
<1>1. /\ At("slices") /\ job.fresh = NoId /\ job.left # {} /\ job.ids[Slice] = NoId
      /\ UNCHANGED <<setup, sess, links, edges, wired, seen>>
  BY DEF FileSlice
<1>2. PICK a \in IF job.dest = "tracker" /\ ~Holds(job.at) THEN {"refused"} ELSE Answers :
       /\ IF a = "refused" THEN UNCHANGED <<issue, rows>> ELSE File(Fresh(Slice), job.at)
       /\ IF a = "lost" THEN Accident ELSE Calm
       /\ job' = IF a = "ok" THEN [job EXCEPT !.fresh = Fresh(Slice)]
                 ELSE [job EXCEPT !.left = @ \ {Slice}, !.ok = FALSE, !.clean = FALSE]
  BY DEF FileSlice
<1>3. a \in {"ok", "refused", "lost"} /\ (a # "refused" /\ job.dest = "tracker" => Holds(job.at))
  BY DEF Answers
<1>4. CASE a = "refused"
  BY <1>1, <1>2, <1>4, RefusesSlice DEF Calm
<1>5. CASE a = "ok"
  BY <1>1, <1>2, <1>3, <1>5, FilesSlice DEF Calm
<1>6. CASE a = "lost"
  BY <1>1, <1>2, <1>3, <1>6, FilesSlice DEF Accident
<1> QED BY <1>3, <1>4, <1>5, <1>6

-----------------------------------------------------------------------------
(* A pass begins.                                                          *)

\* What a new pass has ahead of it.
LEMMA NewList ==
  ASSUME GInv, NEW dest, NEW plan \in SUBSET Slices, setup' = setup, job'.plan = plan,
         job'.todo = (IF WritesNothing THEN <<>>
                      ELSE (IF Converts(dest) THEN <<"detach", "detached">> ELSE <<>>) \o Plan(setup.disp, plan))
                     \o <<"settle">>
  PROVE  /\ Listed' /\ Applying' /\ job'.todo \in Seq(Steps)
         /\ WritesNothing => Ahead' = {"settle"}
         /\ ~WritesNothing =>
              Ahead' = (IF Converts(dest) THEN {"detach", "detached"} ELSE {}) \cup Asked' \cup {"settle"}
         /\ Create => ~WritesNothing
         /\ "parent" \in Ahead' \/ "anchor" \in Ahead' \/ "mirror" \in Ahead' => Create /\ ~WritesNothing
         /\ Create => {"parent", "anchor", "mirror"} \subseteq Ahead'
         /\ Ahead' \cap {"detach", "detached"} # {} <=> ~WritesNothing /\ Converts(dest)
         /\ "detached" \in Ahead' => "detach" \in Ahead'
         /\ Ahead' \cap {"children", "slices"} # {} => "children" \in Ahead' /\ setup.disp \in {"create", "split"}
            /\ ~WritesNothing
<1> USE DEF GInv
<1>1. ASSUME WritesNothing PROVE Listed' /\ Applying' /\ job'.todo \in Seq(Steps) /\ Ahead' = {"settle"}
  <2>1. job'.todo = <<"settle">>
    BY <1>1
  <2> QED BY <1>1, <2>1, OnlySettles
<1>2. ASSUME ~WritesNothing
      PROVE  /\ Listed' /\ Applying' /\ job'.todo \in Seq(Steps)
             /\ Ahead' = (IF Converts(dest) THEN {"detach", "detached"} ELSE {}) \cup Asked' \cup {"settle"}
  <2> DEFINE q == IF Converts(dest) THEN <<"detach", "detached">> ELSE <<>>
             d == IF Converts(dest) THEN {"detach", "detached"} ELSE {}
             p == Plan(setup.disp, plan)
             a == AskedOf(setup.disp, plan)
  <2>1. q \in Seq(Steps) /\ Rises(q) /\ Of(q) = d
    <3>1. "detach" \in Steps /\ "detached" \in Steps /\ Rank["detach"] < Rank["detached"]
      BY RankIs DEF Steps
    <3> QED BY <3>1, ListIs
  <2>2. p \in Seq(Steps) /\ Rises(p) /\ Of(p) = a
    <3>1. setup.disp \in Dispositions /\ setup.disp # "no_change"
      BY <1>2, SetupAssumption DEF TypeOK, WritesNothing
    <3> QED BY <3>1, PlanIs
  <2>3. a \subseteq Steps \ {"detach", "detached", "settle"} /\ \A y \in a : Rank[y] \in Int /\ Rank[y] > 2
        /\ Rank[y] < 12
    BY AskedRanks
  <2>4. \A x \in d : Rank[x] \in Int /\ Rank[x] < 3
    BY RankIs
  <2> HIDE DEF p, a, q, d
  <2>5. q \o p \in Seq(Steps) /\ Rises(q \o p) /\ Of(q \o p) = d \cup a
    <3>1. \A x \in Of(q), y \in Of(p) : Rank[x] < Rank[y]
      BY <2>1, <2>2, <2>3, <2>4
    <3> QED BY <2>1, <2>2, <3>1, JoinIs
  <2>6. "settle" \in Steps /\ Rank["settle"] = 12
    BY RankIs DEF Steps
  <2>7. <<"settle">> \in Seq(Steps) /\ Rises(<<"settle">>) /\ Of(<<"settle">>) = {"settle"}
    BY <2>6, ListIs
  <2>8. \A x \in Of(q \o p), y \in Of(<<"settle">>) : Rank[x] < Rank[y]
    BY <2>3, <2>4, <2>5, <2>6, <2>7
  <2>9. job'.todo = (q \o p) \o <<"settle">>
    BY <1>2 DEF q, p
  <2>10. job'.todo \in Seq(Steps) /\ Rises(job'.todo) /\ Of(job'.todo) = d \cup a \cup {"settle"}
    BY <2>5, <2>7, <2>8, <2>9, JoinIs
  <2>11. job'.todo # <<>>
    BY <2>10, NoneLeft
  <2>12. Ahead' = d \cup a \cup {"settle"} /\ Asked' = a /\ Applying'
    BY <2>10, <2>11 DEF Ahead, Asked, Applying, a
  <2>13. ASSUME NEW x \in Ahead', Rank[x] < Rank["detached"] PROVE "detached" \in Ahead'
    <3>1. Rank["detached"] = 2 /\ x \notin a /\ x # "settle"
      BY <2>3, <2>6, <2>13, RankIs
    <3> QED BY <2>12, <3>1 DEF d
  <2>14. Listed'
    BY <2>10, <2>11, <2>12, <2>13 DEF Listed, d
  <2> QED BY <1>2, <2>10, <2>12, <2>14 DEF d
<1>3. Asked' = AskedOf(setup.disp, plan)
  BY DEF Asked
<1>4. /\ Create => ~WritesNothing
      /\ "parent" \in Ahead' \/ "anchor" \in Ahead' \/ "mirror" \in Ahead' => Create /\ ~WritesNothing
      /\ Create => {"parent", "anchor", "mirror"} \subseteq Ahead'
      /\ Ahead' \cap {"detach", "detached"} # {} <=> ~WritesNothing /\ Converts(dest)
      /\ "detached" \in Ahead' => "detach" \in Ahead'
      /\ Ahead' \cap {"children", "slices"} # {} => "children" \in Ahead' /\ setup.disp \in {"create", "split"}
         /\ ~WritesNothing
  <2>1. Create => ~WritesNothing
    BY DEF Create, WritesNothing
  <2>2. Asked' \subseteq Steps \ {"detach", "detached", "settle"}
    BY <1>3, AskedRanks
  <2>3. "parent" \in Asked' \/ "anchor" \in Asked' \/ "mirror" \in Asked' => Create
    BY <1>3 DEF AskedOf, SlicingSteps, Create
  <2>4. Create => {"parent", "anchor", "mirror"} \subseteq Asked'
    BY <1>3 DEF AskedOf, Create
  <2>5. Asked' \cap {"children", "slices"} # {} => "children" \in Asked' /\ setup.disp \in {"create", "split"}
    BY <1>3 DEF AskedOf, SlicingSteps
  <2>6. Ahead' \subseteq {"detach", "detached", "settle"} \cup Asked'
    BY <1>1, <1>2
  <2> QED BY <1>1, <1>2, <2>1, <2>2, <2>3, <2>4, <2>5, <2>6
<1> QED BY <1>1, <1>2, <1>4

LEMMA BeginHolds == ASSUME GInv, Begin PROVE GInv'
<1> USE DEF GInv
<1>1. PICK dest \in setup.dests, plan \in setup.edits :
        /\ seen # Unseen /\ ~Applying
        /\ job' = [Idle EXCEPT
             !.todo = (IF WritesNothing THEN <<>>
                       ELSE (IF Converts(dest) THEN <<"detach", "detached">> ELSE <<>>) \o Plan(setup.disp, plan))
                      \o <<"settle">>,
             !.dest = dest, !.plan = plan, !.at = seen.anchor, !.filed = Resolved(seen.dest)]
        /\ seen' = Unseen
        /\ IF StartsOver(dest) THEN Accident ELSE Calm
  BY DEF Begin
<1>2. UNCHANGED <<setup, sess, issue, rows, links, edges, wired>>
  BY DEF Begin, work
<1>3. setup.disp \in Dispositions /\ plan \in SUBSET Slices /\ dest \in Homes
  BY SetupAssumption DEF TypeOK
<1>4. seen \in Seen /\ seen.anchor \in Names /\ seen.dest \in Homes \cup {""} /\ Resolved(seen.dest) \in Homes
  <2>1. seen \in Seen /\ seen.anchor \in Names /\ seen.dest \in Homes \cup {"", "unread"}
    BY DEF TypeOK, Seen
  <2>2. seen.dest # "unread"
    BY <1>1 DEF NamesOK, SessNames
  <2> QED BY <2>1, <2>2 DEF Resolved, Homes
<1>5. job = Idle /\ job.fresh = NoId
  <2>1. job = Idle
    BY <1>1 DEF Listed, Applying
  <2> QED BY <2>1 DEF Idle
<1>6. /\ job'.todo = (IF WritesNothing THEN <<>>
                      ELSE (IF Converts(dest) THEN <<"detach", "detached">> ELSE <<>>) \o Plan(setup.disp, plan))
                     \o <<"settle">>
      /\ job'.dest = dest /\ job'.plan = plan /\ job'.at = seen.anchor /\ job'.filed = Resolved(seen.dest)
      /\ job'.fresh = NoId /\ job'.left = {} /\ job'.ids = NoSlices /\ job'.pairs = {} /\ job'.ok = TRUE
      /\ job'.clean = TRUE
  BY <1>1 DEF Idle, NoSlices
<1>7. /\ Listed' /\ Applying' /\ job'.todo \in Seq(Steps)
      /\ WritesNothing => Ahead' = {"settle"}
      /\ ~WritesNothing => Ahead' = (IF Converts(dest) THEN {"detach", "detached"} ELSE {}) \cup Asked' \cup {"settle"}
  BY <1>2, <1>3, <1>6, NewList
<1>8. Anchor' = Anchor /\ Create' = Create /\ Lost' = Lost
  BY <1>2 DEF Anchor, Create, Lost
<1>9. accidents \in Nat /\ accidents' \in 0 .. MaxAccidents
  BY <1>1, BoundAssumption DEF TypeOK, Accident, Calm
<1>10. TypeOK'
  <2>1. job' \in Job
    BY <1>1, <1>3, <1>4, <1>6, <1>7, IdleTyped DEF Job
  <2> QED BY <1>1, <1>2, <1>9, <2>1 DEF TypeOK, Seen, Unseen, Names, Exists
<1>11. Asked' = AskedOf(setup.disp, plan)
  BY <1>2, <1>6 DEF Asked
<1>12. /\ Create => ~WritesNothing
       /\ "parent" \in Ahead' \/ "anchor" \in Ahead' \/ "mirror" \in Ahead' => Create /\ ~WritesNothing
       /\ Create => {"parent", "anchor", "mirror"} \subseteq Ahead'
       /\ Ahead' \cap {"detach", "detached"} # {} <=> ~WritesNothing /\ Converts(dest)
       /\ "detached" \in Ahead' => "detach" \in Ahead'
       /\ Ahead' \cap {"children", "slices"} # {} => "children" \in Ahead' /\ setup.disp \in {"create", "split"}
          /\ ~WritesNothing
  BY <1>2, <1>3, <1>6, NewList
<1>13. SessNames'
  <2>1. SessNames /\ seen' = Unseen
    BY <1>1 DEF NamesOK
  <2> QED BY <1>2, <1>8, <2>1, NamesAre DEF SessNames, Unseen, Ticket, NoId, Exists
<1>14. PassNames'
  <2>1. ~Create => seen.anchor \in {Anchor, Gone}
    BY <1>1 DEF NamesOK, SessNames
  <2>2. Create => /\ seen.anchor \in Parents \cup {Ticket, NoId, Gone}
                  /\ seen.anchor = Ticket => setup.on # "none" /\ seen.dest = ""
    BY DEF NamesOK, SessNames
  <2>3. Create /\ seen.anchor = Ticket => Resolved(seen.dest) = "tracker" /\ ~Converts(dest)
    BY <2>2 DEF Resolved, Converts, Create
  <2> QED BY <1>2, <1>6, <1>8, <1>12, <2>1, <2>2, <2>3 DEF PassNames
<1>15. HandOK'
  <2>1. Ahead' \cap {"detach", "detached"} # {} => job'.dest = "internal"
    BY <1>6, <1>12 DEF Converts
  <2>2. job'.filed = "internal" /\ job'.at \in Ids => issue'[job'.at].home = "internal"
    <3>1. Resolved(seen.dest) = "internal" => seen.dest = "internal"
      BY DEF Resolved
    <3> QED BY <1>2, <1>6, <3>1 DEF NamesOK, SessNames
  <2>3. Ahead' \cap {"children", "slices"} # {} /\ Ahead' \cap {"detach", "parent"} = {} => job'.dest # "internal"
    BY <1>6, <1>7, <1>12 DEF Converts, Create
  <2>4. Ahead' \cap {"anchor", "mirror"} # {} => "parent" \in Ahead'
    BY <1>12
  <2>5. \A s \in Slices : job'.ids[s] = NoId
    BY <1>6 DEF NoSlices
  <2> QED BY <1>6, <1>12, <2>1, <2>2, <2>3, <2>4, <2>5 DEF HandOK
<1>16. DoneOK'
  <2>1. setup'.disp \in {"create", "split"} /\ "children" \notin Ahead' => job'.plan = {}
    <3>1. setup.disp = "split" \/ (setup.disp = "create" /\ plan # {}) => "children" \in Asked' /\ ~WritesNothing
      BY <1>11 DEF AskedOf, SlicingSteps, WritesNothing
    <3> QED BY <1>2, <1>6, <1>7, <3>1
  <2>2. ~(setup'.disp = "research" /\ job'.at = NoId) => \A m \in Asked' \cap Marks : m \in Ahead'
    <3>1. setup.disp = "no_change" => Asked' = {}
      BY <1>11 DEF AskedOf
    <3> QED BY <1>2, <1>6, <1>7, <3>1 DEF WritesNothing
  <2> QED BY <2>1, <2>2 DEF DoneOK
<1>17. ~Between /\ ~Between' /\ Kin
  <2>1. ~Between
    BY <1>1, <1>5 DEF Between, At
  <2>2. ~At("anchor")' /\ ~At("mirror")'
    <3>1. At("anchor")' => "anchor" \in Ahead'
      BY <1>7, AtNext
    <3>2. At("mirror")' => "mirror" \in Ahead'
      BY <1>7, AtNext
    <3>3. "parent" \in Ahead' => ~At("anchor")' /\ ~At("mirror")'
      BY <1>7, NotYet
    <3> QED BY <1>12, <3>1, <3>2, <3>3
  <2>3. Kin
    BY <1>2 DEF Kin, Exists
  <2> QED BY <1>6, <2>1, <2>2, <2>3 DEF Between
<1>18. CASE StartsOver(dest)
  <2>1. accidents' = accidents + 1
    BY <1>1, <1>18 DEF Accident
  <2>2. Held(accidents)' /\ Charged' /\ ChargedS'
    BY <1>17, <2>1, KinPays
  <2>3. CountOK'
    BY <1>12, <1>17, <2>2 DEF CountOK, Between
  <2> QED BY <1>7, <1>10, <1>13, <1>14, <1>15, <1>16, <1>17, <2>3, <1>2, TreeGrows DEF NamesOK
<1>19. CASE ~StartsOver(dest)
  <2>1. accidents' = accidents
    BY <1>1, <1>19 DEF Calm
  <2>2. Held(accidents)' /\ Spare' = Spare
    BY <1>17, <2>1, KinCharges
  <2>3. seen.anchor = Anchor /\ seen.dest = sess.dest /\ ~(Create /\ dest = "tracker" /\ seen.dest = "internal")
    BY <1>19 DEF StartsOver, Anchor, Create
  <2>4. Create => Spare \/ Resolved(seen.dest) = dest \/ "detached" \in Ahead'
    <3> SUFFICES ASSUME Create PROVE Spare \/ Resolved(seen.dest) = dest \/ "detached" \in Ahead'
      OBVIOUS
    <3>1. CASE seen.dest = ""
      <4>1. Lost
        BY <2>3, <3>1 DEF Lost
      <4> QED BY <1>17, <4>1, NoRoom
    <3>2. CASE seen.dest = dest
      BY <1>3, <3>2 DEF Resolved, Homes
    <3>3. CASE seen.dest = "tracker" /\ dest = "internal"
      <4>1. Converts(dest)
        BY <3>3 DEF Converts
      <4> QED BY <1>7, <1>12, <4>1
    <3> QED BY <1>3, <1>4, <2>3, <3>1, <3>2, <3>3 DEF Homes
  <2>5. CountOK'
    BY <1>6, <1>8, <1>12, <1>17, <2>2, <2>3, <2>4 DEF CountOK, Between
  <2> QED BY <1>7, <1>10, <1>13, <1>14, <1>15, <1>16, <1>17, <2>5, <1>2, TreeGrows DEF NamesOK
<1> QED BY <1>18, <1>19

-----------------------------------------------------------------------------
(* The theorems.                                                           *)

LEMMA InitHolds == ASSUME Init PROVE GInv
<1>1. /\ setup \in Setups
      /\ sess = [state |-> "finished", anchor |-> IF setup.on = "none" THEN NoId ELSE Ticket, dest |-> ""]
      /\ issue = [x \in Ids |-> [home |-> IF x = Ticket THEN setup.on ELSE "none", parent |-> NoId, has |-> {}]]
      /\ rows = (IF setup.on = "none" THEN {} ELSE {Ticket}) /\ links = {} /\ edges = {} /\ wired = {}
      /\ seen = Unseen /\ job = Idle /\ accidents = 0
  BY DEF Init
<1>2. setup.on \in Homes \cup {"none"}
  BY <1>1, SetupAssumption
<1>3. /\ \A x \in Ids : issue[x].parent = NoId /\ (Exists(x) <=> x = Ticket /\ setup.on # "none")
      /\ issue[Ticket].home = setup.on
  BY <1>1, NamesAre DEF Exists
<1>4. /\ sess.state = "finished" /\ Anchor = (IF setup.on = "none" THEN NoId ELSE Ticket) /\ sess.dest = ""
      /\ seen.anchor = NoId /\ seen.dest = "unread"
  BY <1>1 DEF Anchor, Unseen
<1>5. /\ job.todo = <<>> /\ job.at = NoId /\ job.fresh = NoId /\ job.left = {} /\ job.ids = NoSlices
      /\ job.pairs = {} /\ ~Applying /\ Ahead = {}
  BY <1>1, NoneLeft DEF Idle, NoSlices, Applying, Ahead
<1>6. TypeOK
  <2>1. sess \in Session /\ seen \in Seen /\ job \in Job
    BY <1>1, IdleTyped, NamesAre DEF Session, Seen, Unseen, Names, Homes
  <2>2. issue \in [Ids -> Issue]
    BY <1>1, <1>2 DEF Issue, Names
  <2>3. rows \subseteq {x \in Ids : Exists(x)}
    BY <1>1, <1>3, NamesAre
  <2>4. accidents \in 0 .. MaxAccidents
    <3>1. accidents = 0
      BY <1>1
    <3> QED BY <3>1, BoundAssumption
  <2> QED BY <1>1, <2>1, <2>2, <2>3, <2>4 DEF TypeOK
<1>7. Listed
  <2>1. Rises(job.todo)
    BY <1>5, ListIs
  <2> QED BY <1>1, <1>5, <2>1 DEF Listed
<1>8. TreeOK
  BY <1>1, <1>3, NamesAre DEF TreeOK
<1>9. NamesOK
  <2>1. SessNames
    BY <1>1, <1>3, <1>4, NamesAre DEF SessNames
  <2>2. PassNames
    BY <1>5, NamesAre DEF PassNames, Ticket, NoId
  <2> QED BY <2>1, <2>2 DEF NamesOK
<1>10. HandOK /\ DoneOK
  BY <1>5 DEF HandOK, DoneOK, NoSlices
<1>11. CountOK
  <2>1. \A t \in Titles : Num(t) = 0
    <3> SUFFICES ASSUME NEW t \in Titles PROVE Num(t) = 0
      OBVIOUS
    <3>1. \A c \in Copies : ~Exists(<<t, c>>)
      <4>1. \A c \in Copies : <<t, c>> \in Ids /\ <<t, c>> # Ticket
        BY NamesAre
      <4> QED BY <1>3, <4>1
    <3> QED BY <3>1, FS_EmptySet DEF Num
  <2>2. ~Bad
    BY <1>4 DEF Bad
  <2>3. \A t \in Titles : Room(t) \in Int /\ Room(t) >= 0
    BY <2>2, RoomIs DEF RoomRange, Titles
  <2>4. Held(accidents)
    <3>1. accidents = 0
      BY <1>1
    <3> QED BY <2>1, <2>3, <3>1 DEF Held
  <2> QED BY <1>5, <2>4 DEF CountOK, At
<1> QED BY <1>6, <1>7, <1>8, <1>9, <1>10, <1>11 DEF GInv

LEMMA NextHolds == ASSUME Anew, GInv, [Next]_vars PROVE GInv'
<1>1. CASE UNCHANGED vars
  <2>1. UNCHANGED <<setup, sess, issue, rows, links, edges, wired, seen, job, accidents>>
    BY <1>1 DEF vars, work
  <2>2. Quiet
    BY <2>1 DEF Quiet
  <2>3. TypeOK' /\ NamesOK'
    BY <2>1, SessStay, PassSame DEF GInv, TypeOK, NamesOK, Exists
  <2> QED BY <2>1, <2>2, <2>3, SameJob DEF GInv
<1>2. CASE Step
  <2>1. CASE DetachNothing \/ DetachInternal \/ DetachBusy \/ Detach \/ Detached
    BY <2>1, DetachNothingHolds, DetachInternalHolds, DetachBusyHolds, DetachHolds, DetachedHolds
  <2>2. CASE ReuseParent \/ FileParent \/ AnchorParent \/ MirrorParent
    BY <2>2, ReuseParentHolds, FileParentHolds, AnchorParentHolds, MirrorParentHolds
  <2>3. CASE \E step \in Marks : Write(step)
    BY <2>3, WriteHolds
  <2>4. CASE ReadChildren \/ ReuseSlice \/ FileSlice \/ MirrorSlice \/ EndSlices \/ Relate \/ EndRelations
    BY <2>4, ReadChildrenHolds, ReuseSliceHolds, FileSliceHolds, MirrorSliceHolds, EndSlicesHolds, RelateHolds,
       EndRelationsHolds
  <2>5. CASE Settle
    BY <2>5, SettleHolds
  <2> QED BY <1>2, <2>1, <2>2, <2>3, <2>4, <2>5 DEF Step
<1>3. CASE Click \/ Refused \/ Begin \/ Crash \/ Reopen \/ Refinish \/ Abandon \/ Pull
  BY <1>3, ClickHolds, RefusedHolds, BeginHolds, CrashHolds, PeopleHold, PullHolds
<1> QED BY <1>1, <1>2, <1>3 DEF Next

LEMMA ApplyInv == ASSUME Anew PROVE Spec => []GInv
<1>1. Init => GInv
  BY InitHolds
<1>2. GInv /\ [Next]_vars => GInv'
  BY NextHolds
<1> QED BY <1>1, <1>2, PTL DEF Spec

\* Everything keeps to its values: what a pass still has to do is a list of steps, what
\* it names exists or is known to be retired, and the store has a row only for what
\* exists (grillapply.go, issuestore).
THEOREM ApplyTyped == ASSUME Anew PROVE Spec => []TypeOK
<1>1. GInv => TypeOK
  BY DEF GInv
<1> QED BY <1>1, ApplyInv, PTL

\* However often an apply is retried, sent elsewhere, interrupted or overtaken, a title
\* is filed at most once, and once more for each accident: whichever copy there is by
\* right, every other was paid for (applyGrillCreate, grillExistingChildren).
THEOREM FiledOnce == ASSUME Anew PROVE Spec => []FiledOncePerAccident
<1>1. GInv => FiledOncePerAccident
  <2> SUFFICES ASSUME GInv, NEW t \in {Parent} \cup Slices
               PROVE  Cardinality({c \in Copies : Exists(<<t, c>>)}) <= 1 + accidents
    BY DEF FiledOncePerAccident
  <2>1. t \in Titles /\ accidents \in Nat
    BY DEF Titles, GInv, TypeOK
  <2>2. Num(t) <= accidents + Room(t) /\ Num(t) \in Nat
    BY <2>1, NumIs DEF GInv, CountOK, Held
  <2>3. Room(t) \in Int /\ Room(t) <= 1
    BY <2>1, RoomIs DEF RoomRange
  <2>4. Num(t) <= 1 + accidents
    BY <2>1, <2>2, <2>3
  <2> QED BY <2>4 DEF Num
<1> QED BY <1>1, ApplyInv, PTL

\* Only the end of a pass that is still good turns a session applied.
LEMMA OnlySettleApplies ==
  ASSUME GInv, Next, sess.state # "applied", sess'.state = "applied"
  PROVE  At("settle") /\ job.ok
<1> USE DEF GInv
<1>1. sess \in Session
  BY DEF TypeOK
<1>2. \A x : Anchored(x).state = sess.state
  BY <1>1 DEF Session, Anchored
<1>3. CASE DetachNothing \/ DetachInternal \/ DetachBusy \/ Detach \/ Detached
  <2>1. sess' = sess \/ sess' = Anchored(job.at)
    BY <1>3 DEF DetachNothing, DetachInternal, DetachBusy, Detach, Detached
  <2> QED BY <1>2, <2>1
<1>4. CASE ReuseParent \/ FileParent \/ AnchorParent \/ MirrorParent
  <2>1. sess' = sess \/ sess' = Anchored(job.at)
    BY <1>4 DEF ReuseParent, FileParent, AnchorParent, MirrorParent
  <2> QED BY <1>2, <2>1
<1>5. CASE \E step \in Marks : Write(step)
  BY <1>5 DEF Write
<1>6. CASE ReadChildren \/ ReuseSlice \/ FileSlice \/ MirrorSlice \/ EndSlices \/ Relate \/ EndRelations
  BY <1>6 DEF ReadChildren, ReuseSlice, FileSlice, MirrorSlice, EndSlices, Relate, EndRelations
<1>7. CASE Settle
  <2>1. sess'.state = IF job.ok /\ sess.state = "finished" THEN "applied" ELSE sess.state
    BY <1>1, <1>7 DEF Settle, Session
  <2> QED BY <1>7, <2>1 DEF Settle
<1>8. CASE Click \/ Refused \/ Begin \/ Crash \/ Pull
  BY <1>8 DEF Click, Refused, Begin, Crash, Pull
<1>9. CASE Reopen \/ Refinish \/ Abandon
  BY <1>1, <1>9 DEF Reopen, Refinish, Abandon, Session
<1> QED BY <1>3, <1>4, <1>5, <1>6, <1>7, <1>8, <1>9 DEF Next, Step

LEMMA GoodPassStands ==
  ASSUME GInv, At("settle"), job.ok, setup.disp # "no_change", ~(setup.disp = "research" /\ job.at = NoId)
  PROVE  job.at \in Ids /\ Landed(job.at)
<1> USE DEF GInv
<1>1. Applying /\ Ahead = {"settle"}
  BY JobIs, Stands DEF At
<1>2. setup.disp \in Dispositions \ {"no_change"}
  BY SetupAssumption DEF TypeOK
<1>3. \A m \in Asked \cap Marks : Holds(job.at) /\ m \in issue[job.at].has
  BY <1>1 DEF DoneOK, Marks
<1>4. Required \subseteq Asked \cap Marks /\ "comment" \in Asked \cap Marks
  BY <1>2 DEF Required, Asked, AskedOf, Marks, Dispositions
<1>5. job.at \in Ids /\ issue[job.at].home = job.dest /\ Required \subseteq issue[job.at].has
  BY <1>3, <1>4 DEF Holds
<1>6. Create => job.at[1] = Parent
  <2>1. Create => job.at \in Parents \cup {Ticket, NoId, Gone} /\ job.at \notin {Ticket, NoId}
    BY <1>1 DEF NamesOK, PassNames, Ready
  <2> QED BY <1>5, <2>1, NamesAre
<1>7. ASSUME setup.disp \in {"create", "split"}, NEW s \in job.plan
      PROVE  \E c \in Copies : issue[<<s, c>>].home = job.dest /\ issue[<<s, c>>].parent = job.at
  <2>1. job.ids[s] # NoId /\ s \in Slices
    BY <1>1, <1>7, JobIs DEF DoneOK
  <2>2. job.ids[s] \in Ids /\ job.ids[s][1] = s /\ issue[job.ids[s]].parent = job.at
    BY <2>1 DEF HandOK
  <2>3. issue[job.ids[s]].home = job.dest
    BY <1>5, <2>2 DEF TreeOK
  <2>4. PICK c \in Copies : job.ids[s] = <<s, c>>
    <3>1. job.ids[s] # Ticket
      BY <2>1, <2>2, NamesAre DEF Titles
    <3> QED BY <2>2, <3>1 DEF Ids
  <2> QED BY <2>2, <2>3, <2>4
<1> QED BY <1>5, <1>6, <1>7 DEF Landed, Create

\* A session settles as applied only when its issue stands where the pass went, with
\* every slice of its breakdown under it and every write its disposition asks for on
\* it, whichever of several passes did each of them (handleGrillApply, Settle).
THEOREM AppliedStands == ASSUME Anew PROVE Spec => AppliedMeansFiled
<1>1. GInv /\ [Next]_vars =>
        [sess.state # "applied" /\ sess'.state = "applied" =>
           \/ setup.disp = "no_change" \/ (setup.disp = "research" /\ job.at = NoId)
           \/ job.at \in Ids /\ Landed(job.at)]_vars
  BY OnlySettleApplies, GoodPassStands
<1> QED BY <1>1, ApplyInv, PTL DEF Spec, AppliedMeansFiled

-----------------------------------------------------------------------------
(* A pass whose calls were all answered lands.                             *)

\* Without a ticket there is nothing to rewrite, comment on or label; what a split
\* files then is refused.
Addressed ==
  \A s \in Setups : s.on = "none" =>
    \/ s.disp \in {"create", "research", "no_change"}
    \/ s.disp = "split" /\ {} \notin s.edits /\ s.dests \subseteq {"tracker"}

\* Research on no ticket leaves a pass nothing to do but settle.
RestOK == setup.disp = "research" /\ job.at = NoId => job.todo \in {<<>>, <<"settle">>}

\* A split of no ticket files nothing.
NoneFiled == setup.on = "none" /\ setup.disp = "split" => \A x \in Ids : x[1] \in Slices => ~Exists(x)

\* A split of no ticket that has its first slice still to file.
Doomed == /\ setup.disp = "split" /\ setup.on = "none" /\ job.ids = NoSlices
          /\ "children" \in Ahead \/ ("slices" \in Ahead /\ job.left # {})

\* Without an accident, session and pass agree, and only a call that was not answered,
\* or a ticket that is elsewhere, makes a step fail.
PassAgrees ==
  Applying =>
    /\ Past("anchor") \/ "parent" \in Ahead \/ ~Create => job.at = Anchor
    /\ Create /\ "parent" \in Ahead => job.filed = Resolved(sess.dest)
    /\ Create /\ "parent" \notin Ahead /\ job.ok => Holds(job.at)
    /\ job.clean /\ ~job.ok => ~Create /\ ((Anchor \in Ids /\ ~Holds(Anchor)) \/ Doomed)
    /\ Ahead \cap {"detach", "detached", "parent"} # {} => job.clean

SessAgrees ==
  sess.dest # "" /\ Anchor \in Ids /\ ~("detached" \in Ahead /\ "detach" \notin Ahead)
    => issue[Anchor].home = sess.dest

CalmOK == accidents = 0 => PassAgrees /\ SessAgrees

KInv == GInv /\ RestOK /\ NoneFiled /\ CalmOK

\* What the session reads or people do leaves the pass as it was.
LEMMA CalmApart ==
  ASSUME CalmOK, UNCHANGED <<setup, issue, job, accidents>>, sess'.anchor = sess.anchor, sess'.dest = sess.dest
  PROVE  CalmOK'
<1>1. /\ Anchor' = Anchor /\ Create' = Create /\ Ahead' = Ahead /\ Applying' = Applying
      /\ Past("anchor")' = Past("anchor")
  BY DEF Anchor, Create, Ahead, Applying, Past
<1>2. Holds(job.at)' = Holds(job.at) /\ Holds(Anchor)' = Holds(Anchor) /\ Doomed' = Doomed
  BY <1>1 DEF Holds, Doomed
<1>3. PassAgrees' = PassAgrees
  BY <1>1, <1>2 DEF PassAgrees
<1>4. SessAgrees' = SessAgrees
  BY <1>1 DEF SessAgrees
<1> QED BY <1>3, <1>4 DEF CalmOK

\* A step of a pass that has its parent.
LEMMA CalmGoesOn ==
  ASSUME GInv, CalmOK, UNCHANGED <<setup, accidents>>, sess'.anchor = sess.anchor, sess'.dest = sess.dest,
         \A x \in Ids : Exists(x) => issue'[x].home = issue[x].home,
         Applying, job'.at = job.at, job'.dest = job.dest,
         Ahead \cap {"detach", "detached", "parent"} = {}, Ahead' \subseteq Ahead,
         "anchor" \in Ahead => "anchor" \in Ahead',
         job'.clean => job.clean, job'.ok => job.ok, Doomed /\ job'.clean => Doomed',
         accidents = 0 /\ job'.clean /\ job.ok =>
           job'.ok \/ (~Create /\ ((Anchor \in Ids /\ ~Holds(Anchor)) \/ Doomed'))
  PROVE  CalmOK'
<1> USE DEF GInv
<1> SUFFICES ASSUME accidents = 0 PROVE PassAgrees' /\ SessAgrees'
  BY DEF CalmOK
<1>1. PassAgrees /\ SessAgrees
  BY DEF CalmOK
<1>2. Anchor' = Anchor /\ Create' = Create /\ (Past("anchor")' => Past("anchor"))
  BY DEF Anchor, Create, Past
<1>3. Anchor \in Ids => Exists(Anchor)
  BY DEF NamesOK, SessNames
<1>4. Holds(job.at) => Holds(job.at)'
  BY JobIs DEF Holds, Exists, Homes
<1>5. Anchor \in Ids /\ ~Holds(Anchor) => ~Holds(Anchor)'
  BY <1>2, <1>3 DEF Holds
<1>6. /\ Past("anchor") \/ ~Create => job.at = Anchor
      /\ Create /\ job.ok => Holds(job.at)
      /\ job.clean /\ ~job.ok => ~Create /\ ((Anchor \in Ids /\ ~Holds(Anchor)) \/ Doomed)
  BY <1>1 DEF PassAgrees
<1>7. job'.clean /\ ~job'.ok => ~Create /\ ((Anchor \in Ids /\ ~Holds(Anchor)) \/ Doomed')
  BY <1>6
<1>8. PassAgrees'
  BY <1>2, <1>4, <1>5, <1>6, <1>7 DEF PassAgrees
<1>9. SessAgrees'
  BY <1>1, <1>2, <1>3 DEF SessAgrees
<1> QED BY <1>8, <1>9

LEMMA CalmBegins == ASSUME GInv, CalmOK, Begin PROVE CalmOK'
<1> USE DEF GInv
<1>1. PICK dest \in setup.dests, plan \in setup.edits :
        /\ job' = [Idle EXCEPT
             !.todo = (IF WritesNothing THEN <<>>
                       ELSE (IF Converts(dest) THEN <<"detach", "detached">> ELSE <<>>) \o Plan(setup.disp, plan))
                      \o <<"settle">>,
             !.dest = dest, !.plan = plan, !.at = seen.anchor, !.filed = Resolved(seen.dest)]
        /\ IF StartsOver(dest) THEN Accident ELSE Calm
  BY DEF Begin
<1>2. UNCHANGED <<setup, sess, issue>> /\ ~Applying
  BY DEF Begin, work
<1>3. plan \in SUBSET Slices
  BY SetupAssumption DEF TypeOK
<1>4. /\ job'.todo = (IF WritesNothing THEN <<>>
                      ELSE (IF Converts(dest) THEN <<"detach", "detached">> ELSE <<>>) \o Plan(setup.disp, plan))
                     \o <<"settle">>
      /\ job'.plan = plan /\ job'.at = seen.anchor /\ job'.filed = Resolved(seen.dest)
      /\ job'.ok = TRUE /\ job'.clean = TRUE
  BY <1>1 DEF Idle
<1>5. Applying' /\ (Create => "parent" \in Ahead') /\ ("detached" \in Ahead' => "detach" \in Ahead') /\ Ahead = {}
  BY <1>2, <1>3, <1>4, NewList, JobIs, Stands
<1> SUFFICES ASSUME accidents' = 0 PROVE PassAgrees' /\ SessAgrees'
  BY DEF CalmOK
<1>6. accidents = 0 /\ ~StartsOver(dest)
  BY <1>1 DEF Accident, Calm, TypeOK
<1>7. seen.anchor = Anchor /\ seen.dest = sess.dest
  BY <1>6 DEF StartsOver, Anchor
<1>8. Anchor' = Anchor /\ Create' = Create
  BY <1>2 DEF Anchor, Create
<1>9. PassAgrees'
  BY <1>2, <1>4, <1>5, <1>7, <1>8 DEF PassAgrees
<1>10. SessAgrees'
  BY <1>2, <1>5, <1>6, <1>8 DEF CalmOK, SessAgrees
<1> QED BY <1>9, <1>10

LEMMA CalmEnds == ASSUME GInv, CalmOK, Settle \/ Crash PROVE CalmOK'
<1> USE DEF GInv
<1>1. UNCHANGED <<setup, issue>> /\ job' = Idle /\ sess'.anchor = sess.anchor /\ sess'.dest = sess.dest
  BY DEF Settle, Crash, work, TypeOK, Session
<1>2. ~Applying' /\ Ahead' = {}
  BY <1>1, Rests
<1>3. CASE Settle
  <2>1. accidents' = accidents /\ Ahead = {"settle"}
    BY <1>3, JobIs, Stands DEF Settle
  <2>2. Anchor' = Anchor
    BY <1>1 DEF Anchor
  <2> QED BY <1>1, <1>2, <2>1, <2>2 DEF CalmOK, PassAgrees, SessAgrees
<1>4. CASE Crash
  <2>1. accidents' # 0
    BY <1>4 DEF Crash, Accident, TypeOK
  <2> QED BY <2>1 DEF CalmOK
<1> QED BY <1>3, <1>4

\* A step before the parent is in hand that leaves it to do.
LEMMA CalmAhead ==
  ASSUME GInv, CalmOK, UNCHANGED <<setup, accidents>>, Applying, Asked \subseteq Ahead,
         Ahead' = Ahead \ {"detach", "detached"} \/ Ahead' = Ahead \ {"detach"}, Ahead \cap {"detach", "detached"} # {},
         job'.at = job.at, job'.ok = job.ok, job'.clean = job.clean,
         accidents = 0 => /\ Anchor' = job.at
                          /\ Create => job'.filed = Resolved(sess'.dest)
  PROVE  accidents = 0 => PassAgrees'
<1> USE DEF GInv
<1> SUFFICES ASSUME accidents = 0 PROVE PassAgrees'
  OBVIOUS
<1>1. job.ok /\ job.clean
  BY DEF HandOK, CalmOK, PassAgrees
<1>2. Create' = Create /\ (Create => "parent" \in Ahead')
  BY AskedIs DEF Create
<1> QED BY <1>1, <1>2 DEF PassAgrees

LEMMA CalmDetaches ==
  ASSUME GInv, CalmOK, DetachNothing \/ DetachInternal \/ DetachBusy \/ Detach \/ Detached
  PROVE  CalmOK'
<1> USE DEF GInv
<1> SUFFICES ASSUME accidents' = 0 PROVE PassAgrees' /\ SessAgrees'
  BY DEF CalmOK
<1>1. accidents = 0 /\ accidents' = accidents
  BY DEF DetachNothing, DetachInternal, DetachBusy, Detach, Detached, Calm, Accident, TypeOK
<1>2. PassAgrees /\ SessAgrees
  BY <1>1 DEF CalmOK
<1>3. /\ Applying /\ Ahead \cap {"detach", "detached"} # {} /\ Asked \subseteq Ahead
      /\ At("detach") => "detach" \in Ahead /\ "detached" \in Ahead
      /\ At("detached") => "detach" \notin Ahead /\ "detached" \in Ahead
  BY JobIs, Stands DEF DetachNothing, DetachInternal, DetachBusy, Detach, Detached, At
<1>4. setup' = setup /\ Create' = Create
  BY DEF DetachNothing, DetachInternal, DetachBusy, Detach, Detached, Create
<1>5. job.at = Anchor /\ (Create => job.filed = Resolved(sess.dest)) /\ job.dest = "internal"
  BY <1>2, <1>3, AskedIs DEF PassAgrees, HandOK
<1>6. sess \in Session /\ job \in Job
  BY DEF TypeOK
<1>7. ASSUME sess' = Anchored(job.at), issue' = issue, job.at \in rows, issue[job.at].home = "internal",
             (job'.todo = Tail(Tail(job.todo)) /\ At("detach")) \/ (job'.todo = Tail(job.todo) /\ At("detached")),
             job'.at = job.at, job'.ok = job.ok, job'.clean = job.clean, job'.filed = "internal", job'.plan = job.plan
      PROVE  PassAgrees' /\ SessAgrees'
  <2>1. sess'.anchor = job.at /\ sess'.dest = "internal"
    BY <1>5, <1>6, <1>7 DEF Anchored, Session
  <2>2. Ahead' = Ahead \ {"detach", "detached"}
    <3>1. CASE At("detach")
      <4>1. job'.todo = Tail(Tail(job.todo))
        BY <1>7, <3>1 DEF At
      <4> QED BY <1>4, <1>7, <3>1, <4>1, JobIs, SkipsDetach
    <3>2. CASE At("detached")
      <4>1. job'.todo = Tail(job.todo)
        BY <1>7, <3>2 DEF At
      <4>2. Ahead' = Ahead \ {"detached"}
        BY <1>4, <1>7, <3>2, <4>1, JobIs, Advances
      <4> QED BY <1>3, <3>2, <4>2
    <3> QED BY <1>7, <3>1, <3>2
  <2>3. Anchor' = job.at /\ job'.filed = Resolved(sess'.dest)
    BY <1>7, <2>1 DEF Anchor, Resolved
  <2>4. PassAgrees'
    BY <1>1, <1>3, <1>4, <1>7, <2>2, <2>3, CalmAhead
  <2>5. SessAgrees'
    BY <1>7, <2>1, <2>3 DEF SessAgrees
  <2> QED BY <2>4, <2>5
<1>8. CASE DetachNothing
  <2>1. /\ job' = [job EXCEPT !.todo = Tail(Tail(@))] /\ UNCHANGED <<sess, issue>> /\ At("detach")
    BY <1>8 DEF DetachNothing, work
  <2>2. /\ job'.todo = Tail(Tail(job.todo)) /\ job'.at = job.at /\ job'.ok = job.ok /\ job'.clean = job.clean
        /\ job'.filed = job.filed /\ job'.plan = job.plan
    BY <1>6, <2>1 DEF Job
  <2>3. Ahead' = Ahead \ {"detach", "detached"}
    BY <1>4, <2>1, <2>2, JobIs, SkipsDetach
  <2>4. Anchor' = Anchor
    BY <2>1 DEF Anchor
  <2>5. PassAgrees'
    BY <1>1, <1>3, <1>4, <1>5, <2>1, <2>2, <2>3, <2>4, CalmAhead
  <2>6. SessAgrees'
    BY <1>2, <1>3, <2>1, <2>4 DEF SessAgrees
  <2> QED BY <2>5, <2>6
<1>9. CASE DetachInternal
  <2>1. /\ job' = [job EXCEPT !.todo = Tail(Tail(@)), !.filed = "internal"] /\ sess' = Anchored(job.at)
        /\ issue' = issue /\ At("detach") /\ job.at \in rows /\ issue[job.at].home = "internal"
    BY <1>1, <1>9 DEF DetachInternal, Accident, work, TypeOK
  <2>2. /\ job'.todo = Tail(Tail(job.todo)) /\ job'.at = job.at /\ job'.ok = job.ok /\ job'.clean = job.clean
        /\ job'.filed = "internal" /\ job'.plan = job.plan
    BY <1>6, <2>1 DEF Job
  <2> QED BY <1>7, <2>1, <2>2
<1>10. CASE DetachBusy
  <2>1. job' = GiveUp(job, "refused") /\ UNCHANGED <<sess, issue>> /\ At("detach")
    BY <1>10 DEF DetachBusy, work
  <2>2. job'.todo = <<"settle">> /\ job'.at = job.at /\ job'.ok = FALSE /\ job'.clean = FALSE
    BY <1>6, <2>1 DEF Job, GiveUp
  <2>3. Ahead' = {"settle"} /\ Anchor' = Anchor
    BY <2>1, <2>2, OnlySettles DEF Anchor
  <2>4. PassAgrees'
    BY <1>4, <1>5, <2>2, <2>3 DEF PassAgrees
  <2>5. SessAgrees'
    BY <1>2, <1>3, <2>1, <2>3 DEF SessAgrees
  <2> QED BY <2>4, <2>5
<1>11. CASE Detach
  <2>1. job' = [job EXCEPT !.todo = Tail(@)] /\ sess' = sess /\ At("detach")
    BY <1>11 DEF Detach
  <2>2. job'.todo = Tail(job.todo) /\ job'.at = job.at /\ job'.ok = job.ok /\ job'.clean = job.clean
        /\ job'.filed = job.filed /\ job'.plan = job.plan
    BY <1>6, <2>1 DEF Job
  <2>3. Ahead' = Ahead \ {"detach"}
    BY <1>4, <2>1, <2>2, JobIs, Advances
  <2>4. Anchor' = Anchor
    BY <2>1 DEF Anchor
  <2>5. PassAgrees'
    BY <1>1, <1>3, <1>4, <1>5, <2>1, <2>2, <2>3, <2>4, CalmAhead
  <2>6. SessAgrees'
    BY <1>3, <2>1, <2>3 DEF SessAgrees
  <2> QED BY <2>5, <2>6
<1>12. CASE Detached
  <2>1. /\ job' = [job EXCEPT !.todo = Tail(@), !.filed = "internal"] /\ sess' = Anchored(job.at)
        /\ issue' = issue /\ At("detached")
    BY <1>1, <1>12 DEF Detached, Accident, TypeOK
  <2>2. /\ job'.todo = Tail(job.todo) /\ job'.at = job.at /\ job'.ok = job.ok /\ job'.clean = job.clean
        /\ job'.filed = "internal" /\ job'.plan = job.plan
    BY <1>6, <2>1 DEF Job
  <2>3. job.at \in rows /\ issue[job.at].home = "internal"
    BY <1>3, <2>1 DEF HandOK
  <2> QED BY <1>7, <2>1, <2>2, <2>3
<1> QED BY <1>8, <1>9, <1>10, <1>11, <1>12

LEMMA CalmParents == ASSUME Anew, GInv, CalmOK, ReuseParent \/ FileParent \/ AnchorParent \/ MirrorParent PROVE CalmOK'
<1> USE DEF GInv
<1>0. setup' = setup /\ Create' = Create /\ Asked \subseteq Steps
  BY AskedIs DEF ReuseParent, FileParent, AnchorParent, MirrorParent, Create
<1>1. job \in Job /\ sess \in Session /\ job.todo \in Seq(Steps)
  BY JobIs DEF TypeOK
<1>2. CASE MirrorParent
  <2>1. job' = Next1(job, TRUE, "ok") /\ UNCHANGED <<sess, issue>> /\ At("mirror")
    BY <1>2 DEF MirrorParent
  <2>2. /\ job'.todo = Tail(job.todo) /\ job'.at = job.at /\ job'.dest = job.dest /\ job'.ok = job.ok
        /\ job'.clean = job.clean /\ job'.plan = job.plan /\ job'.ids = job.ids /\ job'.left = job.left
    BY <1>1, <2>1 DEF Job, Next1
  <2>3. Ahead' = Ahead \ {"mirror"} /\ Applying /\ Ahead \cap {"detach", "detached", "parent"} = {}
    BY <1>0, <1>1, <2>1, <2>2, Advances, Stands DEF At
  <2>4. Doomed' = Doomed
    BY <1>0, <2>2, <2>3 DEF Doomed
  <2>5. CASE accidents' = accidents
    BY <1>0, <2>1, <2>2, <2>3, <2>4, <2>5, CalmGoesOn
  <2>6. CASE accidents' # accidents
    <3>1. accidents' # 0
      BY <1>2, <2>6 DEF MirrorParent, Mirrored, Calm, Accident, TypeOK
    <3> QED BY <3>1 DEF CalmOK
  <2> QED BY <2>5, <2>6
<1> SUFFICES ASSUME accidents' = 0, ReuseParent \/ FileParent \/ AnchorParent PROVE PassAgrees' /\ SessAgrees'
  BY <1>2 DEF CalmOK
<1>3. accidents = 0 /\ accidents' = accidents /\ ~Accident
  <2>1. accidents \in Nat /\ ~Accident
    BY DEF Accident, TypeOK
  <2>2. Calm \/ Accident \/ accidents' = accidents
    BY DEF ReuseParent, FileParent, AnchorParent
  <2> QED BY <2>1, <2>2 DEF Calm
<1>4. PassAgrees /\ SessAgrees
  BY <1>3 DEF CalmOK
<1>5. CASE ReuseParent
  <2>1. job' = [job EXCEPT !.todo = Tail(Tail(Tail(@)))] /\ UNCHANGED <<sess, issue>> /\ At("parent")
        /\ job.at # NoId /\ job.filed = job.dest
    BY <1>5 DEF ReuseParent, work
  <2>2. /\ job'.todo = Tail(Tail(Tail(job.todo))) /\ job'.at = job.at /\ job'.dest = job.dest /\ job'.ok = job.ok
        /\ job'.clean = job.clean /\ job'.plan = job.plan
    BY <1>1, <2>1 DEF Job
  <2>3. Ahead' = Ahead \ {"parent", "anchor", "mirror"} /\ Applying /\ "parent" \in Ahead
        /\ Ahead \cap {"detach", "detached"} = {} /\ Create
    <3>1. "parent" \in Ahead /\ Ahead \cap {"detach", "detached"} = {} /\ Applying
      BY <1>1, <2>1, Stands DEF At
    <3>2. Create
      BY <3>1, AskedIs DEF Listed
    <3>3. Ahead' = Ahead \ {"parent", "anchor", "mirror"}
      BY <1>0, <1>1, <2>1, <2>2, SkipsParent
    <3> QED BY <3>1, <3>2, <3>3
  <2>4. job.at = Anchor /\ job.filed = Resolved(sess.dest) /\ job.ok /\ job.clean
    BY <1>4, <2>3 DEF PassAgrees, HandOK
  <2>5. Holds(job.at)
    <3>1. job.at \in Parents \cup {Ticket} /\ (job.at = Ticket => sess.dest = "" /\ setup.on # "none")
      BY <2>1, <2>3, <2>4 DEF NamesOK, SessNames
    <3>2. setup \in Setups /\ job.dest \in setup.dests /\ setup.disp = "create"
      BY <2>3 DEF TypeOK, NamesOK, PassNames, Create
    <3>3. job.at # Ticket
      BY <2>1, <2>4, <3>1, <3>2 DEF Anew, Resolved
    <3>4. job.at \in Ids /\ job.at \notin {Ticket, NoId}
      BY <2>1, <3>1, <3>3, NamesAre
    <3>5. sess.dest # ""
      BY <2>3, <2>4, <3>4 DEF NamesOK, SessNames
    <3>6. issue[job.at].home = sess.dest
      BY <1>4, <2>3, <2>4, <3>4, <3>5 DEF SessAgrees
    <3> QED BY <2>1, <2>4, <3>4, <3>5, <3>6 DEF Holds, Resolved
  <2>6. Anchor' = Anchor /\ Holds(job.at)'
    BY <2>1, <2>2, <2>5 DEF Anchor, Holds
  <2>7. PassAgrees'
    BY <1>0, <2>2, <2>3, <2>4, <2>6 DEF PassAgrees
  <2>8. SessAgrees'
    BY <1>4, <2>1, <2>3, <2>6 DEF SessAgrees
  <2> QED BY <2>7, <2>8
<1>6. CASE AnchorParent
  <2>1. job' = Next1(job, TRUE, "ok") /\ sess' = Anchored(job.at) /\ issue' = issue /\ At("anchor")
    BY <1>3, <1>6 DEF AnchorParent, Accident, work, TypeOK
  <2>2. /\ job'.todo = Tail(job.todo) /\ job'.at = job.at /\ job'.dest = job.dest /\ job'.ok = job.ok
        /\ job'.clean = job.clean /\ job'.plan = job.plan
    BY <1>1, <2>1 DEF Job, Next1
  <2>3. sess'.anchor = job.at /\ sess'.dest = job.dest /\ Anchor' = job.at
    BY <1>1, <2>1 DEF Anchored, Session, Anchor
  <2>4. Ahead' = Ahead \ {"anchor"} /\ Applying /\ Ahead \cap {"detach", "detached", "parent"} = {} /\ Create
    <3>1. "anchor" \in Ahead /\ Ahead \cap {"detach", "detached", "parent"} = {} /\ Applying
      BY <1>1, <2>1, Stands DEF At
    <3>2. Create
      BY <3>1, AskedIs DEF Listed
    <3> QED BY <1>0, <1>1, <2>1, <2>2, <3>1, <3>2, Advances
  <2>5. job.at \in Parents /\ issue[job.at].home = job.dest
    <3>1. "anchor" \in Ahead
      BY <1>1, <2>1, Stands
    <3> QED BY <2>4, <3>1 DEF HandOK
  <2>6. Holds(job.at)'
    BY <2>1, <2>2, <2>5, NamesAre DEF Holds
  <2>7. job.clean => job.ok
    BY <1>4, <2>4 DEF PassAgrees
  <2>8. PassAgrees'
    BY <1>0, <2>2, <2>3, <2>4, <2>6, <2>7 DEF PassAgrees
  <2>9. SessAgrees'
    BY <2>1, <2>3, <2>5 DEF SessAgrees
  <2> QED BY <2>8, <2>9
<1>7. CASE FileParent
  <2>1. At("parent") /\ sess' = sess /\ ~(job.at # NoId /\ job.filed = job.dest)
    BY <1>7 DEF FileParent
  <2>2. "parent" \in Ahead /\ Ahead \cap {"detach", "detached"} = {} /\ Applying /\ Create /\ "anchor" \in Ahead
    <3>1. "parent" \in Ahead /\ Ahead \cap {"detach", "detached"} = {} /\ Applying /\ Asked \subseteq Ahead
      BY <1>1, <2>1, Stands DEF At
    <3>2. Create
      BY <3>1, AskedIs DEF Listed
    <3> QED BY <3>1, <3>2, AskedIs
  <2>3. job.at = Anchor /\ job.ok /\ job.clean /\ Anchor' = Anchor
    BY <1>4, <2>1, <2>2 DEF PassAgrees, HandOK, Anchor
  <2>4. PICK a \in Answers :
       \/ a = "refused" /\ job' = GiveUp(job, a) /\ UNCHANGED <<issue, rows>>
       \/ /\ a # "refused" /\ File(Fresh(Parent), NoId)
          /\ a = "ok" /\ job' = [Next1(job, TRUE, a) EXCEPT !.at = Fresh(Parent)]
    BY <1>3, <1>7 DEF FileParent
  <2>5. CASE a = "refused"
    <3>1. job'.todo = <<"settle">> /\ job'.at = job.at /\ job'.ok = FALSE /\ job'.clean = FALSE
      BY <1>1, <2>4, <2>5 DEF Job, GiveUp
    <3>2. Ahead' = {"settle"}
      BY <3>1, OnlySettles
    <3>3. PassAgrees'
      BY <1>0, <2>3, <3>1, <3>2 DEF PassAgrees
    <3>4. SessAgrees'
      BY <1>4, <2>1, <2>2, <2>3, <2>4, <2>5, <3>2 DEF SessAgrees
    <3> QED BY <3>3, <3>4
  <2>6. CASE a = "ok"
    <3>1. PICK x : x = Fresh(Parent)
      OBVIOUS
    <3>2. x \in Parents /\ x \in Ids /\ ~Exists(x)
      <4>1. Parent \in Titles /\ Num(Parent) \in Nat /\ Num(Parent) <= accidents
        BY <2>1, FilesAnew, NumIs DEF Spare, Titles
      <4>2. Num(Parent) <= MaxAccidents + 1
        BY <1>3, <4>1, BoundAssumption
      <4> QED BY <3>1, <4>1, <4>2, FreshIs DEF Parents
    <3>3. issue' = [issue EXCEPT ![x] = [home |-> job.dest, parent |-> NoId, has |-> {}]]
      BY <2>4, <2>6, <3>1 DEF File
    <3>4. /\ job'.todo = Tail(job.todo) /\ job'.at = x /\ job'.dest = job.dest /\ job'.ok = job.ok
          /\ job'.clean = job.clean /\ job'.plan = job.plan
      BY <1>1, <2>4, <2>6, <3>1 DEF Job, Next1
    <3>5. Ahead' = Ahead \ {"parent"}
      BY <1>0, <1>1, <2>1, <3>4, Advances
    <3>6. Holds(job.at)'
      BY <3>2, <3>3, <3>4 DEF Holds, TypeOK
    <3>7. PassAgrees'
      BY <1>0, <2>2, <2>3, <3>4, <3>5, <3>6 DEF PassAgrees, Past
    <3>8. Anchor \in Ids => issue'[Anchor] = issue[Anchor]
      BY <3>2, <3>3 DEF TypeOK, NamesOK, SessNames
    <3>9. SessAgrees'
      BY <1>4, <2>1, <2>2, <2>3, <3>5, <3>8 DEF SessAgrees
    <3> QED BY <3>7, <3>9
  <2> QED BY <2>4, <2>5, <2>6
<1> QED BY <1>5, <1>6, <1>7

LEMMA CalmWrites == ASSUME Addressed, KInv, NEW step \in Marks, Write(step) PROVE CalmOK'
<1> USE DEF KInv, GInv
<1>1. PICK a \in Answers :
        /\ job' = Next1(job, a = "ok" /\ Holds(job.at), a)
        /\ issue' = IF a # "refused" /\ Holds(job.at) THEN [issue EXCEPT ![job.at].has = @ \cup {step}] ELSE issue
  BY DEF Write
<1>2. UNCHANGED <<setup, sess, accidents>> /\ At(step) /\ step \in Steps /\ step # "settle"
  BY DEF Write, Marks, Steps
<1>3. job \in Job /\ job.todo \in Seq(Steps)
  BY JobIs DEF TypeOK
<1>4. /\ job'.todo = Tail(job.todo) /\ job'.at = job.at /\ job'.dest = job.dest /\ job'.plan = job.plan
      /\ job'.ids = job.ids /\ job'.left = job.left /\ job'.clean = (job.clean /\ a = "ok")
      /\ job'.ok = (job.ok /\ a = "ok" /\ Holds(job.at))
  BY <1>1, <1>3 DEF Job, Next1
<1>5. Ahead' = Ahead \ {step}
  BY <1>2, <1>3, <1>4, Advances
<1>6. /\ Applying /\ Ahead \cap {"detach", "detached", "parent"} = {} /\ step \in Ahead /\ step \in Asked
      /\ step # "description" => Ahead \cap {"description", "children", "slices"} = {}
      /\ step = "description" => Asked \ {"parent", "anchor", "mirror"} \subseteq Ahead
  <2>1. step \in Ahead
    BY <1>2, <1>3, AtIs
  <2>2. step \in Asked
    BY <2>1 DEF Listed, Marks
  <2> QED BY <1>2, <1>3, <2>1, <2>2, Stands DEF At, Marks
<1>7. \A x \in Ids : issue'[x].home = issue[x].home
  BY <1>1 DEF TypeOK, Issue
<1>8. Doomed => Doomed'
  BY <1>2, <1>4, <1>5 DEF Doomed, Marks
<1>9. ASSUME accidents = 0, job'.clean, job.ok, ~job'.ok
      PROVE  ~Create /\ ((Anchor \in Ids /\ ~Holds(Anchor)) \/ Doomed')
  <2>1. ~Holds(job.at) /\ PassAgrees
    BY <1>4, <1>9 DEF CalmOK
  <2>2. ~Create /\ job.at = Anchor
    BY <1>6, <1>9, <2>1 DEF PassAgrees
  <2>3. CASE Anchor \in Ids
    BY <2>1, <2>2, <2>3
  <2>4. CASE Anchor \notin Ids
    <3>1. setup.on = "none" /\ Anchor = NoId /\ setup \in Setups
      BY <2>2, <2>4, NamesAre DEF NamesOK, SessNames, TypeOK
    <3>2. setup.disp \notin {"create", "research", "no_change"}
      <4>1. setup.disp = "no_change" => Asked = {}
        BY DEF Asked, AskedOf
      <4>2. setup.disp = "research" => job.todo \in {<<>>, <<"settle">>}
        BY <2>2, <3>1 DEF RestOK
      <4>3. Head(<<"settle">>) = "settle"
        OBVIOUS
      <4> QED BY <1>2, <1>6, <2>2, <4>1, <4>2, <4>3 DEF Create, At, Applying
    <3>3. setup.disp = "split"
      BY <3>1, <3>2 DEF Addressed
    <3>4. step = "description"
      <4>1. "description" \in Asked \cap Marks
        BY <3>3 DEF Asked, AskedOf, Marks
      <4> QED BY <1>6, <1>9, <2>1, <3>3, <4>1 DEF DoneOK
    <3>5. "children" \in Ahead
      BY <1>6, <3>3, <3>4, AskedIs DEF SlicingSteps
    <3>6. Doomed
      BY <3>1, <3>3, <3>5 DEF Doomed, HandOK
    <3> QED BY <1>8, <2>2, <3>6
  <2> QED BY <2>3, <2>4
<1>10. "anchor" \in Ahead => "anchor" \in Ahead'
  BY <1>5 DEF Marks
<1> QED BY <1>2, <1>4, <1>5, <1>6, <1>7, <1>8, <1>9, <1>10, CalmGoesOn

\* A split of no ticket has found and filed none of its slices.
LEMMA DoomedHas == ASSUME KInv, Doomed PROVE job.fresh = NoId /\ \A x \in rows : x[1] \notin Slices
<1> USE DEF KInv, GInv
<1>1. \A x \in rows : x[1] \notin Slices
  BY DEF Doomed, NoneFiled, TypeOK
<1>2. job.fresh = NoId
  <2> SUFFICES ASSUME job.fresh # NoId PROVE FALSE
    OBVIOUS
  <2>1. job.left # {} /\ job.fresh \in {Slice} \X Copies /\ Exists(job.fresh)
    BY DEF HandOK
  <2>2. Slice \in Slices /\ Slice \in Titles /\ job.fresh[1] = Slice
    BY <2>1, SliceIs DEF Titles
  <2>3. job.fresh \in Ids
    BY <2>1, <2>2, NamesAre
  <2> QED BY <2>1, <2>2, <2>3 DEF Doomed, NoneFiled
<1> QED BY <1>1, <1>2

LEMMA CalmSlices ==
  ASSUME Addressed, KInv, ReadChildren \/ ReuseSlice \/ FileSlice \/ MirrorSlice \/ EndSlices \/ Relate \/ EndRelations
  PROVE  CalmOK'
<1> USE DEF KInv, GInv
<1>1. job \in Job /\ job.todo \in Seq(Steps) /\ setup' = setup /\ sess' = sess
  BY JobIs DEF TypeOK, ReadChildren, ReuseSlice, FileSlice, MirrorSlice, EndSlices, Relate, EndRelations
<1>2. /\ Applying /\ Ahead \cap {"detach", "detached", "parent", "anchor"} = {}
      /\ At("children") => "children" \in Ahead
      /\ At("slices") => "slices" \in Ahead /\ "children" \notin Ahead
      /\ At("relations") => Ahead \cap {"children", "slices"} = {}
  BY <1>1, Stands DEF At, ReadChildren, ReuseSlice, FileSlice, MirrorSlice, EndSlices, Relate, EndRelations
<1>3. CASE ReadChildren
  <2>1. /\ UNCHANGED <<issue, accidents>> /\ At("children")
        /\ job' = [job EXCEPT !.todo = Tail(@), !.left = job.plan,
             !.ids = [s \in Slices |-> IF \E x \in Under(job.at) : x[1] = s /\ s \in job.plan
                                       THEN CHOOSE x \in Under(job.at) : x[1] = s ELSE NoId]]
    BY <1>3 DEF ReadChildren, work
  <2>2. /\ job'.todo = Tail(job.todo) /\ job'.at = job.at /\ job'.dest = job.dest /\ job'.plan = job.plan
        /\ job'.ok = job.ok /\ job'.clean = job.clean /\ job'.left = job.plan
        /\ job'.ids = [s \in Slices |-> IF \E x \in Under(job.at) : x[1] = s /\ s \in job.plan
                                        THEN CHOOSE x \in Under(job.at) : x[1] = s ELSE NoId]
    BY <1>1, <2>1 DEF Job
  <2>3. Ahead' = Ahead \ {"children"}
    BY <1>1, <2>1, <2>2, Advances
  <2>4. Doomed => Doomed'
    <3> SUFFICES ASSUME Doomed PROVE Doomed'
      OBVIOUS
    <3>1. setup.on = "none" /\ setup.disp = "split" /\ setup \in Setups /\ job.plan \in setup.edits
      BY <1>2 DEF Doomed, TypeOK, NamesOK, PassNames
    <3>2. job'.left # {}
      BY <2>2, <3>1 DEF Addressed
    <3>3. \A s \in Slices : ~(\E x \in Under(job.at) : x[1] = s /\ s \in job.plan)
      BY DoomedHas DEF Under
    <3>4. job'.ids = NoSlices
      BY <2>2, <3>3 DEF NoSlices
    <3>5. "slices" \in Ahead'
      <4>1. "children" \in Ahead /\ "slices" \in Asked /\ Rank["children"] < Rank["slices"]
        BY <1>2, <2>1, <3>1, RankIs, AskedIs DEF SlicingSteps
      <4> QED BY <2>3, <4>1 DEF Listed
    <3> QED BY <1>1, <3>1, <3>2, <3>4, <3>5 DEF Doomed
  <2> QED BY <1>1, <1>2, <2>1, <2>2, <2>3, <2>4, CalmGoesOn
<1>4. CASE ReuseSlice
  <2>1. /\ UNCHANGED <<issue, accidents>> /\ job' = [job EXCEPT !.left = @ \ {Slice}]
        /\ job.left # {} /\ job.ids[Slice] # NoId
    BY <1>4 DEF ReuseSlice, work
  <2>2. /\ job'.todo = job.todo /\ job'.at = job.at /\ job'.dest = job.dest /\ job'.ok = job.ok
           /\ job'.clean = job.clean
    BY <1>1, <2>1 DEF Job
  <2>3. ~Doomed
    BY <2>1, SliceIs DEF Doomed, NoSlices
  <2>4. Ahead' = Ahead
    BY <2>2 DEF Ahead
  <2> QED BY <1>1, <1>2, <2>1, <2>2, <2>3, <2>4, CalmGoesOn
<1>5. CASE FileSlice
  <2>1. At("slices") /\ job.fresh = NoId /\ job.left # {} /\ job.ids[Slice] = NoId
    BY <1>5 DEF FileSlice
  <2>2. PICK a \in {"ok", "refused", "lost"} :
          /\ IF a = "refused" THEN UNCHANGED <<issue, rows>> ELSE File(Fresh(Slice), job.at)
          /\ IF a = "lost" THEN Accident ELSE Calm
          /\ job' = IF a = "ok" THEN [job EXCEPT !.fresh = Fresh(Slice)]
                    ELSE [job EXCEPT !.left = @ \ {Slice}, !.ok = FALSE, !.clean = FALSE]
    BY <1>5 DEF FileSlice, Answers
  <2>3. /\ job'.todo = job.todo /\ job'.at = job.at /\ job'.dest = job.dest /\ job'.ids = job.ids
        /\ \/ job'.ok = job.ok /\ job'.clean = job.clean /\ job'.left = job.left
           \/ job'.ok = FALSE /\ job'.clean = FALSE
    BY <1>1, <2>2 DEF Job
  <2>4. \A x \in Ids : Exists(x) => issue'[x].home = issue[x].home
    <3>1. Fresh(Slice) \in Ids /\ ~Exists(Fresh(Slice))
      BY <2>1, FreshSlice
    <3> QED BY <2>2, <3>1 DEF File, TypeOK
  <2>5. Ahead' = Ahead
    BY <2>3 DEF Ahead
  <2>6. Doomed /\ job'.clean => Doomed'
    BY <1>1, <2>3, <2>5 DEF Doomed
  <2>7. CASE a = "lost"
    BY <2>2, <2>7 DEF Accident, CalmOK, TypeOK
  <2>8. CASE a # "lost"
    <3>1. accidents' = accidents
      BY <2>2, <2>8 DEF Calm
    <3> QED BY <1>1, <1>2, <2>3, <2>4, <2>5, <2>6, <3>1, CalmGoesOn
  <2> QED BY <2>7, <2>8
<1>6. CASE MirrorSlice
  <2>1. /\ issue' = issue /\ job.fresh # NoId /\ (accidents' = accidents \/ accidents' # 0)
        /\ job' = [job EXCEPT !.fresh = NoId, !.left = @ \ {Slice}, !.ids[Slice] = job.fresh]
    BY <1>6 DEF MirrorSlice, Mirrored, Calm, Accident, TypeOK
  <2>2. job'.todo = job.todo /\ job'.at = job.at /\ job'.dest = job.dest /\ job'.ok = job.ok /\ job'.clean = job.clean
    BY <1>1, <2>1 DEF Job
  <2>3. ~Doomed
    BY <2>1, DoomedHas
  <2>4. Ahead' = Ahead
    BY <2>2 DEF Ahead
  <2>5. CASE accidents' = accidents
    BY <1>1, <1>2, <2>1, <2>2, <2>3, <2>4, <2>5, CalmGoesOn
  <2>6. CASE accidents' # 0
    BY <2>6 DEF CalmOK
  <2> QED BY <2>1, <2>5, <2>6
<1>7. CASE EndSlices
  <2>1. /\ UNCHANGED <<issue, accidents>> /\ At("slices") /\ job.left = {}
        /\ job' = [job EXCEPT !.todo = Tail(@),
             !.pairs = {b \in Blocks : job.ids[b[1]] # NoId /\ job.ids[b[2]] # NoId /\ Pair(b) \notin wired}]
    BY <1>7 DEF EndSlices, work
  <2>2. /\ job'.todo = Tail(job.todo) /\ job'.at = job.at /\ job'.dest = job.dest /\ job'.ok = job.ok
        /\ job'.clean = job.clean /\ job'.plan = job.plan
    BY <1>1, <2>1 DEF Job
  <2>3. ~Doomed
    BY <1>2, <2>1 DEF Doomed
  <2>4. Ahead' = Ahead \ {"slices"}
    BY <1>1, <2>1, <2>2, Advances
  <2> QED BY <1>1, <1>2, <2>1, <2>2, <2>3, <2>4, CalmGoesOn
<1>8. CASE Relate
  <2>1. /\ UNCHANGED <<issue, accidents>> /\ At("relations")
        /\ \E b \in job.pairs, a \in Answers :
             job' = [Next1(job, a = "ok", a) EXCEPT !.todo = job.todo, !.pairs = @ \ {b}]
    BY <1>8 DEF Relate
  <2>2. /\ job'.todo = job.todo /\ job'.at = job.at /\ job'.dest = job.dest
        /\ (job'.ok = job.ok /\ job'.clean = job.clean) \/ (job'.ok = FALSE /\ job'.clean = FALSE)
    BY <1>1, <2>1 DEF Job, Next1
  <2>3. ~Doomed
    BY <1>2, <2>1 DEF Doomed
  <2>4. Ahead' = Ahead
    BY <2>2 DEF Ahead
  <2> QED BY <1>1, <1>2, <2>1, <2>2, <2>3, <2>4, CalmGoesOn
<1>9. CASE EndRelations
  <2>1. UNCHANGED <<issue, accidents>> /\ At("relations") /\ job' = [job EXCEPT !.todo = Tail(@)]
    BY <1>9 DEF EndRelations, work
  <2>2. /\ job'.todo = Tail(job.todo) /\ job'.at = job.at /\ job'.dest = job.dest /\ job'.ok = job.ok
        /\ job'.clean = job.clean /\ job'.plan = job.plan
    BY <1>1, <2>1 DEF Job
  <2>3. ~Doomed
    BY <1>2, <2>1 DEF Doomed
  <2>4. Ahead' = Ahead \ {"relations"}
    BY <1>1, <2>1, <2>2, Advances
  <2> QED BY <1>1, <1>2, <2>1, <2>2, <2>3, <2>4, CalmGoesOn
<1> QED BY <1>3, <1>4, <1>5, <1>6, <1>7, <1>8, <1>9

LEMMA RestNext == ASSUME GInv, RestOK, [Next]_vars PROVE RestOK'
<1> USE DEF GInv
<1>1. Head(<<"settle">>) = "settle" /\ job \in Job
  BY DEF TypeOK
<1>2. CASE Step /\ ~Settle
  <2>1. Applying /\ Head(job.todo) # "settle" /\ setup' = setup
    BY <1>2
    DEF Step, DetachNothing, DetachInternal, DetachBusy, Detach, Detached, ReuseParent, FileParent, AnchorParent,
         MirrorParent, Write, ReadChildren, ReuseSlice, FileSlice, MirrorSlice, EndSlices, Relate, EndRelations, At,
         Marks
  <2>2. job'.at \in {job.at, Gone, Fresh(Parent)}
    <3>1. CASE DetachNothing \/ DetachInternal \/ DetachBusy \/ Detach \/ Detached
      BY <1>1, <3>1 DEF DetachNothing, DetachInternal, DetachBusy, Detach, Detached, GiveUp, Job
    <3>2. CASE ReuseParent \/ FileParent \/ AnchorParent \/ MirrorParent
      BY <1>1, <3>2 DEF ReuseParent, FileParent, AnchorParent, MirrorParent, GiveUp, Next1, Job
    <3>3. CASE \E step \in Marks : Write(step)
      BY <1>1, <3>3 DEF Write, Next1, Job
    <3>4. CASE ReadChildren \/ ReuseSlice \/ FileSlice \/ MirrorSlice
      BY <1>1, <3>4 DEF ReadChildren, ReuseSlice, FileSlice, MirrorSlice, Job
    <3>5. CASE EndSlices \/ Relate \/ EndRelations
      BY <1>1, <3>5 DEF EndSlices, Relate, EndRelations, Next1, Job
    <3> QED BY <1>2, <3>1, <3>2, <3>3, <3>4, <3>5 DEF Step
  <2>3. Gone # NoId /\ Fresh(Parent) # NoId
    BY NamesAre DEF Fresh, Parent, NoId
  <2> QED BY <1>1, <2>1, <2>2, <2>3 DEF RestOK, Applying
<1>3. CASE Settle \/ Crash
  <2>1. job' = Idle
    BY <1>3 DEF Settle, Crash
  <2>2. job'.todo = <<>>
    BY <2>1 DEF Idle
  <2> QED BY <2>2 DEF RestOK
<1>4. CASE Begin
  <2>1. setup' = setup
    BY <1>4 DEF Begin
  <2>2. PICK dest \in setup.dests, plan \in setup.edits :
          job' = [Idle EXCEPT
             !.todo = (IF WritesNothing THEN <<>>
                       ELSE (IF Converts(dest) THEN <<"detach", "detached">> ELSE <<>>) \o Plan(setup.disp, plan))
                      \o <<"settle">>,
             !.dest = dest, !.plan = plan, !.at = seen.anchor, !.filed = Resolved(seen.dest)]
    BY <1>4 DEF Begin
  <2>3. /\ job'.at = seen.anchor
        /\ WritesNothing => job'.todo = <<>> \o <<"settle">>
    BY <2>2 DEF Idle
  <2>4. <<>> \o <<"settle">> = <<"settle">>
    OBVIOUS
  <2> QED BY <2>1, <2>3, <2>4 DEF RestOK, WritesNothing
<1>5. CASE Click \/ Refused \/ Reopen \/ Refinish \/ Abandon \/ Pull \/ UNCHANGED vars
  BY <1>5 DEF RestOK, Click, Refused, Reopen, Refinish, Abandon, Pull, vars
<1> QED BY <1>2, <1>3, <1>4, <1>5 DEF Next, Step

LEMMA NoneFiledNext == ASSUME Addressed, GInv, NoneFiled, [Next]_vars PROVE NoneFiled'
<1> USE DEF GInv
<1>1. setup' = setup
  BY DEF Next, Step, DetachNothing, DetachInternal, DetachBusy, Detach, Detached, ReuseParent, FileParent, AnchorParent,
     MirrorParent, Write, ReadChildren, ReuseSlice, FileSlice, MirrorSlice, EndSlices, Relate, EndRelations, Settle,
     Click, Refused, Begin, Crash, Reopen, Refinish, Abandon, Pull, vars
<1> SUFFICES ASSUME setup.on = "none", setup.disp = "split", NEW x \in Ids, x[1] \in Slices
             PROVE  issue'[x].home = issue[x].home
  BY <1>1 DEF NoneFiled, Exists
<1>2. ~Exists(x)
  BY DEF NoneFiled
<1>3. issue \in [Ids -> Issue] /\ rows \subseteq {y \in Ids : Exists(y)}
  BY DEF TypeOK
<1>4. CASE Detach
  <2>1. x \notin rows /\ job.at \in rows
    BY <1>2, <1>3, <1>4 DEF Detach
  <2>2. issue'[x] = IF issue[x].parent = job.at /\ x \notin rows THEN [issue[x] EXCEPT !.parent = Gone] ELSE issue[x]
    BY <1>4, <2>1 DEF Detach, Under
  <2> QED BY <1>3, <2>2 DEF Issue
<1>5. CASE FileParent
  <2>1. Fresh(Parent)[1] = Parent /\ Parent \notin Slices
    BY NamesAre DEF Fresh
  <2> QED BY <1>3, <1>5, <2>1 DEF FileParent, File
<1>6. CASE \E step \in Marks : Write(step)
  BY <1>3, <1>6 DEF Write, Issue
<1>7. CASE FileSlice
  <2>1. Applying /\ setup \in Setups
    BY <1>7 DEF FileSlice, At, TypeOK
  <2>2. job.dest = "tracker"
    BY <2>1 DEF Addressed, NamesOK, PassNames
  <2>3. ~Holds(job.at)
    <3>1. job.at \in {NoId, Gone}
      BY <2>1 DEF NamesOK, SessNames, PassNames, Create
    <3> QED BY <3>1, NamesAre DEF Holds
  <2>4. issue' = issue
    BY <1>7, <2>2, <2>3 DEF FileSlice
  <2> QED BY <2>4
<1>8. CASE Step /\ ~Detach /\ ~FileParent /\ ~FileSlice /\ ~(\E step \in Marks : Write(step))
  <2>1. issue' = issue
    BY <1>8 DEF Step, DetachNothing, DetachInternal, DetachBusy, Detached, ReuseParent, AnchorParent,
       MirrorParent, ReadChildren, ReuseSlice, MirrorSlice, EndSlices, Relate, EndRelations, Settle, work
  <2> QED BY <2>1
<1>9. CASE Click \/ Refused \/ Begin \/ Crash \/ Reopen \/ Refinish \/ Abandon \/ Pull \/ UNCHANGED vars
  BY <1>9 DEF Click, Refused, Begin, Crash, Reopen, Refinish, Abandon, Pull, vars, work
<1> QED BY <1>4, <1>5, <1>6, <1>7, <1>8, <1>9 DEF Next

LEMMA CalmNext == ASSUME Anew, Addressed, KInv, [Next]_vars PROVE CalmOK'
<1>1. CASE Click \/ Refused \/ Reopen \/ Refinish \/ Abandon \/ Pull \/ UNCHANGED vars
  <2>1. UNCHANGED <<setup, issue, job, accidents>> /\ sess'.anchor = sess.anchor /\ sess'.dest = sess.dest
    BY <1>1 DEF Click, Refused, Reopen, Refinish, Abandon, Pull, vars, work, KInv, GInv, TypeOK, Session
  <2> QED BY <2>1, CalmApart DEF KInv
<1>2. CASE Step /\ ~Settle
  <2>1. CASE DetachNothing \/ DetachInternal \/ DetachBusy \/ Detach \/ Detached
    BY <2>1, CalmDetaches DEF KInv
  <2>2. CASE ReuseParent \/ FileParent \/ AnchorParent \/ MirrorParent
    BY <2>2, CalmParents DEF KInv
  <2>3. CASE \E step \in Marks : Write(step)
    BY <2>3, CalmWrites
  <2>4. CASE ReadChildren \/ ReuseSlice \/ FileSlice \/ MirrorSlice \/ EndSlices \/ Relate \/ EndRelations
    BY <2>4, CalmSlices
  <2> QED BY <1>2, <2>1, <2>2, <2>3, <2>4 DEF Step
<1>3. CASE Begin
  BY <1>3, CalmBegins DEF KInv
<1>4. CASE Settle \/ Crash
  BY <1>4, CalmEnds DEF KInv
<1> QED BY <1>1, <1>2, <1>3, <1>4 DEF Next, Step

\* A pass whose calls were all answered lands, whatever the passes before it left
\* behind, in every session that an apply can be addressed from: no half-filed parent,
\* converted ticket or half-wired breakdown wedges the retries (detachGrillAnchor,
\* applyGrillCreate, applyGrillSplit).
THEOREM RetriesLand == ASSUME Anew, Addressed PROVE Spec => []RetryLands
<1>1. Init => KInv
  <2> SUFFICES ASSUME Init PROVE KInv
    OBVIOUS
  <2>1. job.todo = <<>> /\ sess.dest = "" /\ ~Applying /\ \A x \in Ids : x[1] \in Slices => ~Exists(x)
    BY NamesAre DEF Init, Idle, Applying, Exists, Titles
  <2> QED BY <2>1, InitHolds DEF KInv, RestOK, NoneFiled, CalmOK, PassAgrees, SessAgrees
<1>2. KInv /\ [Next]_vars => KInv'
  BY NextHolds, RestNext, NoneFiledNext, CalmNext DEF KInv
<1>3. KInv => RetryLands
  <2> SUFFICES ASSUME KInv, At("settle"), job.clean, accidents = 0, ~job.ok
               PROVE  setup.disp # "create" /\ issue[sess.anchor].home # job.dest
    BY DEF RetryLands
  <2>1. Applying /\ Ahead = {"settle"}
    BY JobIs, Stands DEF KInv, GInv, At
  <2>2. ~Create /\ ((Anchor \in Ids /\ ~Holds(Anchor)) \/ Doomed)
    BY <2>1 DEF KInv, CalmOK, PassAgrees
  <2>3. ~Doomed
    BY <2>1 DEF Doomed
  <2> QED BY <2>2, <2>3 DEF Create, Anchor, Holds
<1> QED BY <1>1, <1>2, <1>3, PTL DEF Spec
=============================================================================
