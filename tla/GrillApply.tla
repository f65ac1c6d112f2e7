----------------------------- MODULE GrillApply -----------------------------
(***************************************************************************)
(* Applying a grilled outcome (webserver/grillapply.go): the hub writes    *)
(* what one finished interview proposed to the tracker, or to its own      *)
(* issue store, one call at a time, and settles the session as applied     *)
(* only when every call landed.  What a failed pass leaves behind is       *)
(* picked up by the next: the session's anchor names the parent already    *)
(* filed, the stored rows its slices, grill_relations the blocking edges.  *)
(*                                                                         *)
(* A pass is a list of steps still to do and what it carries; each step is *)
(* one call to a writer or one store transaction.  An issue is <<title,    *)
(* copy>>: a second copy of a title is the duplicate a retry must not      *)
(* file.  A detach keeps the name of an issue and moves its home, for      *)
(* everything that names the issue is rekeyed in the same transaction.     *)
(***************************************************************************)
EXTENDS Integers, Sequences, FiniteSets

CONSTANTS
  Slices,        \* positions in the proposed breakdown
  Blocks,        \* <<d, s>>: slice s is blocked by slice d
  Setups,        \* the sessions a behaviour may be about
  MaxAccidents   \* bound on what excuses a duplicate

Homes        == {"tracker", "internal"}
Dispositions == {"create", "split", "rewrite", "fix", "needs_split", "research", "no_change"}

ASSUME SliceAssumption == Slices \subseteq Nat \ {0} /\ IsFiniteSet(Slices)
ASSUME BlockAssumption == Blocks \subseteq Slices \X Slices
ASSUME SetupAssumption ==
  Setups \subseteq [disp : Dispositions, on : Homes \cup {"none"}, edits : SUBSET SUBSET Slices, dests : SUBSET Homes]
ASSUME BoundAssumption == MaxAccidents \in Nat

VARIABLES
  setup,     \* the outcome's disposition, the ticket grilled, the breakdowns and places a click may name
  sess,      \* grill_sessions: state, anchor issue, where the apply filed it
  issue,     \* every issue there is: home, parent, and which writes reached it
  rows,      \* the issues the store holds a row for
  links,     \* blocking relations on the tracker
  edges,     \* issue_relations: blocking edges in the store
  wired,     \* grill_relations: pairs an earlier pass wrote
  seen,      \* the session as a click read it, before it took the guard
  job,       \* the pass that holds the guard
  accidents  \* what befell the applies so far

work == <<issue, rows, links, edges, wired>>
vars == <<setup, sess, work, seen, job, accidents>>

Copies == 1 .. MaxAccidents + 2
Parent == 0                 \* the title of what a create files above its slices
Ticket == <<-1, 1>>         \* the ticket the session was opened on
Ids    == ({Parent} \cup Slices) \X Copies \cup {Ticket}
NoId   == <<-2, 1>>
Gone   == <<-3, 1>>         \* an identifier a conversion retired
Names  == Ids \cup {NoId, Gone}
Marks  == {"description", "comment", "labels"}

Seen    == [anchor : Names, dest : Homes \cup {"", "unread"}]
Unseen  == [anchor |-> NoId, dest |-> "unread"]
Session == [state : {"finished", "running", "applied", "abandoned"}, anchor : Names,
            dest : Homes \cup {""}]
Issue   == [home : Homes \cup {"none"}, parent : Names, has : SUBSET Marks]
Steps   == {"detach", "detached", "parent", "anchor", "mirror", "description", "children", "slices",
            "relations", "comment", "labels", "settle"}

\* at: the parent in hand; filed: where the session says it was filed; fresh: what
\* the last create filed, not yet recorded; pairs: the edges still to wire; ok:
\* every step landed; clean: no call was refused or lost.
Job  == [todo : Seq(Steps), dest : Homes, plan : SUBSET Slices, at : Names, filed : Homes \cup {""},
         fresh : Names, left : SUBSET Slices, ids : [Slices -> Names], pairs : SUBSET Blocks,
         ok : BOOLEAN, clean : BOOLEAN]
Idle == [todo |-> <<>>, dest |-> "internal", plan |-> {}, at |-> NoId, filed |-> "", fresh |-> NoId,
         left |-> {}, ids |-> [s \in Slices |-> NoId], pairs |-> {}, ok |-> TRUE, clean |-> TRUE]

Applying == job.todo # <<>>
At(step) == Applying /\ Head(job.todo) = step

\* A bug: only internal children are looked up.
FaultyUnder(p) == {x \in rows : issue[x].parent = p /\ issue[x].home = "internal"}

Exists(x) == issue[x].home # "none"
Under(p)  == {x \in rows : issue[x].parent = p}
Free(t)   == {c \in Copies : ~Exists(<<t, c>>)}
Least(S)  == CHOOSE s \in S : \A r \in S : s <= r
Fresh(t)  == <<t, Least(Free(t))>>

Accident == accidents < MaxAccidents /\ accidents' = accidents + 1
Calm     == UNCHANGED accidents

\* The place an apply goes to unless it names one: these repositories are on a tracker.
Resolved(d) == IF d = "" THEN "tracker" ELSE d

\* What a call to the writer comes to: the store's own never refuses, a tracker may
\* refuse, or do the write and lose its answer.  Neither reaches an issue that is not
\* of its home.
Answers  == IF job.dest = "internal" THEN {"ok"} ELSE {"ok", "refused", "lost"}
Holds(x) == x \in Ids /\ issue[x].home = job.dest

\* A bug: the last step decides.
FaultyNext1(f, landed, a) == [f EXCEPT !.todo = Tail(@), !.ok = landed, !.clean = @ /\ a = "ok"]

\* The pass f goes on to its next step; a step that did not land, or whose call was
\* not answered, is remembered.
Next1(f, landed, a) == [f EXCEPT !.todo = Tail(@), !.ok = @ /\ landed, !.clean = @ /\ a = "ok"]

GiveUp(f, a) == [f EXCEPT !.todo = <<"settle">>, !.ok = FALSE, !.clean = @ /\ a = "ok"]

Init ==
  /\ setup \in Setups
  /\ sess = [state |-> "finished", anchor |-> IF setup.on = "none" THEN NoId ELSE Ticket, dest |-> ""]
  /\ issue = [x \in Ids |-> [home |-> IF x = Ticket THEN setup.on ELSE "none", parent |-> NoId, has |-> {}]]
  /\ rows = IF setup.on = "none" THEN {} ELSE {Ticket}
  /\ links = {} /\ edges = {} /\ wired = {}
  /\ seen = Unseen /\ job = Idle /\ accidents = 0

(***************************************************************************)
(* The click                                                               *)
(***************************************************************************)
\* A click reads the session: only a finished one has an outcome to apply.
Click ==
  /\ sess.state = "finished" /\ seen = Unseen
  /\ seen' = [anchor |-> sess.anchor, dest |-> sess.dest]
  /\ UNCHANGED <<setup, sess, work, job, accidents>>

\* Another pass holds the guard.
Refused ==
  /\ seen # Unseen /\ Applying
  /\ seen' = Unseen
  /\ UNCHANGED <<setup, sess, work, job, accidents>>

Slicing == <<"children", "slices", "relations">>

Plan(disp, plan) ==
  CASE disp = "create"      -> <<"parent", "anchor", "mirror">> \o (IF plan = {} THEN <<>> ELSE Slicing) \o <<"comment">>
    [] disp = "split"       -> <<"description">> \o Slicing \o <<"comment", "labels">>
    [] disp = "rewrite"     -> <<"description", "comment", "labels">>
    [] disp = "fix"         -> <<"description", "comment">>
    [] disp = "needs_split" -> <<"comment", "labels">>
    [] disp = "research"    -> <<"comment">>

\* Only an anchor an earlier apply filed is converted by a create.
Converts(dest) == dest = "internal" /\ (setup.disp # "create" \/ seen.dest # "")

WritesNothing == setup.disp = "no_change" \/ (setup.disp = "research" /\ seen.anchor = NoId)

\* Nothing but an earlier read of the session, or sending to the tracker what is
\* filed internally, makes a pass start over beside what is there.
StartsOver(dest) ==
  \/ seen # [anchor |-> sess.anchor, dest |-> sess.dest]
  \/ setup.disp = "create" /\ dest = "tracker" /\ seen.dest = "internal"

Begin ==
  \E dest \in setup.dests, plan \in setup.edits :
    /\ seen # Unseen /\ ~Applying
    /\ job' = [Idle EXCEPT
         !.todo = (IF WritesNothing THEN <<>>
                   ELSE (IF Converts(dest) THEN <<"detach", "detached">> ELSE <<>>) \o Plan(setup.disp, plan))
                  \o <<"settle">>,
         !.dest = dest, !.plan = plan, !.at = seen.anchor, !.filed = Resolved(seen.dest)]
    /\ seen' = Unseen
    /\ IF StartsOver(dest) THEN Accident ELSE Calm
    /\ UNCHANGED <<setup, sess, work>>

(***************************************************************************)
(* Converting a tracker anchor                                             *)
(***************************************************************************)

\* A bug: the anchor without where it was filed.
FaultyAnchored(x) == [sess EXCEPT !.anchor = x]

\* SetIssue, or its write lost: logged, not fatal.
Anchored(x) == [sess EXCEPT !.anchor = x, !.dest = job.dest]

DetachNothing ==
  /\ At("detach") /\ job.at \notin rows
  /\ job' = [job EXCEPT !.todo = Tail(Tail(@))]
  /\ UNCHANGED <<setup, sess, work, seen, accidents>>

DetachInternal ==
  /\ At("detach") /\ job.at \in rows /\ issue[job.at].home = "internal"
  /\ \/ Calm /\ sess' = Anchored(job.at) /\ job' = [job EXCEPT !.todo = Tail(Tail(@)), !.filed = "internal"]
     \/ Accident /\ UNCHANGED sess /\ job' = [job EXCEPT !.todo = Tail(Tail(@))]
  /\ UNCHANGED <<setup, work, seen>>

\* A member the queue holds refuses the whole conversion.
DetachBusy ==
  /\ At("detach") /\ job.at \in rows /\ issue[job.at].home = "tracker"
  /\ job' = GiveUp(job, "refused")
  /\ UNCHANGED <<setup, sess, work, seen, accidents>>

\* Every member the store knows changes home; a child only the tracker knows is left
\* under the retired parent, and so is a click that read the session before.
Detach ==
  /\ At("detach") /\ job.at \in rows /\ issue[job.at].home = "tracker"
  /\ issue' = [x \in Ids |->
       IF x = job.at \/ (x \in Under(job.at) /\ issue[x].home = "tracker") THEN [issue[x] EXCEPT !.home = "internal"]
       ELSE IF issue[x].parent = job.at /\ x \notin rows THEN [issue[x] EXCEPT !.parent = Gone]
       ELSE issue[x]]
  /\ seen' = IF seen # Unseen /\ seen.anchor = job.at THEN [seen EXCEPT !.anchor = Gone] ELSE seen
  /\ job' = [job EXCEPT !.todo = Tail(@)]
  /\ UNCHANGED <<setup, sess, rows, links, edges, wired, accidents>>

\* The session is anchored on what its issue became; a label the tracker refuses to
\* drop is a warning, never a failed step.  A lost anchor write leaves the pass with
\* the retired name.
Detached ==
  /\ At("detached")
  /\ \/ Calm /\ sess' = Anchored(job.at)
        /\ job' = [job EXCEPT !.todo = Tail(@), !.filed = "internal"]
     \/ Accident /\ UNCHANGED sess
        /\ job' = [job EXCEPT !.todo = Tail(@), !.at = Gone]
  /\ UNCHANGED <<setup, issue, rows, links, edges, wired, seen>>

(***************************************************************************)
(* The parent a create files                                               *)
(***************************************************************************)
File(x, p) ==
  /\ issue' = [issue EXCEPT ![x] = [home |-> job.dest, parent |-> p, has |-> {}]]
  /\ rows' = IF job.dest = "internal" THEN rows \cup {x} ELSE rows

\* Only a parent filed where this pass files is reused.
ReuseParent ==
  /\ At("parent") /\ job.at # NoId /\ job.filed = job.dest
  /\ job' = [job EXCEPT !.todo = Tail(Tail(Tail(@)))]
  /\ UNCHANGED <<setup, sess, work, seen, accidents>>

FileParent ==
  /\ At("parent") /\ ~(job.at # NoId /\ job.filed = job.dest)
  /\ \E a \in Answers :
       \/ a = "refused" /\ job' = GiveUp(job, a) /\ Calm /\ UNCHANGED <<issue, rows>>
       \/ /\ a # "refused" /\ File(Fresh(Parent), NoId)
          /\ IF a = "ok" THEN job' = [Next1(job, TRUE, a) EXCEPT !.at = Fresh(Parent)] /\ Calm
             ELSE job' = GiveUp(job, a) /\ Accident
  /\ UNCHANGED <<setup, sess, links, edges, wired, seen>>

\* The anchor a retry will find; losing the write is logged, not fatal.
AnchorParent ==
  /\ At("anchor")
  /\ \/ Calm /\ sess' = Anchored(job.at)
     \/ Accident /\ UNCHANGED sess
  /\ job' = Next1(job, TRUE, "ok")
  /\ UNCHANGED <<setup, work, seen>>

\* A row for what was filed, unless the store itself filed it.
Mirrored(x) ==
  \/ Calm /\ rows' = rows \cup {x}
  \/ x \notin rows /\ Accident /\ UNCHANGED rows

MirrorParent ==
  /\ At("mirror") /\ Mirrored(job.at)
  /\ job' = Next1(job, TRUE, "ok")
  /\ UNCHANGED <<setup, sess, issue, links, edges, wired, seen>>

(***************************************************************************)
(* The parent's description, summary comment and labels                    *)
(***************************************************************************)
Write(step) ==
  /\ At(step)
  /\ \E a \in Answers :
       /\ job' = Next1(job, a = "ok" /\ Holds(job.at), a)
       /\ issue' = IF a # "refused" /\ Holds(job.at) THEN [issue EXCEPT ![job.at].has = @ \cup {step}] ELSE issue
  /\ UNCHANGED <<setup, sess, rows, links, edges, wired, seen, accidents>>

(***************************************************************************)
(* The slices and the relations between them                               *)
(***************************************************************************)
\* The slices an earlier pass filed are read once, by title, from the store.
ReadChildren ==
  /\ At("children")
  /\ job' = [job EXCEPT !.todo = Tail(@), !.left = job.plan,
       !.ids = [s \in Slices |-> IF \E x \in Under(job.at) : x[1] = s /\ s \in job.plan
                                 THEN CHOOSE x \in Under(job.at) : x[1] = s ELSE NoId]]
  /\ UNCHANGED <<setup, sess, work, seen, accidents>>

Slice == Least(job.left)

ReuseSlice ==
  /\ At("slices") /\ job.fresh = NoId /\ job.left # {} /\ job.ids[Slice] # NoId
  /\ job' = [job EXCEPT !.left = @ \ {Slice}]
  /\ UNCHANGED <<setup, sess, work, seen, accidents>>

\* A tracker refuses a child of an issue it does not have; the store takes any parent.
FileSlice ==
  /\ At("slices") /\ job.fresh = NoId /\ job.left # {} /\ job.ids[Slice] = NoId
  /\ \E a \in IF job.dest = "tracker" /\ ~Holds(job.at) THEN {"refused"} ELSE Answers :
       /\ IF a = "refused" THEN UNCHANGED <<issue, rows>> ELSE File(Fresh(Slice), job.at)
       /\ IF a = "lost" THEN Accident ELSE Calm
       /\ job' = IF a = "ok" THEN [job EXCEPT !.fresh = Fresh(Slice)]
                 ELSE [job EXCEPT !.left = @ \ {Slice}, !.ok = FALSE, !.clean = FALSE]
  /\ UNCHANGED <<setup, sess, links, edges, wired, seen>>

MirrorSlice ==
  /\ At("slices") /\ job.fresh # NoId /\ Mirrored(job.fresh)
  /\ job' = [job EXCEPT !.fresh = NoId, !.left = @ \ {Slice}, !.ids[Slice] = job.fresh]
  /\ UNCHANGED <<setup, sess, issue, links, edges, wired, seen>>

Pair(b) == <<job.ids[b[1]], job.ids[b[2]]>>

\* What is still to wire: both ends have an identifier and no earlier pass wrote it.
EndSlices ==
  /\ At("slices") /\ job.fresh = NoId /\ job.left = {}
  /\ job' = [job EXCEPT !.todo = Tail(@),
       !.pairs = {b \in Blocks : job.ids[b[1]] # NoId /\ job.ids[b[2]] # NoId /\ Pair(b) \notin wired}]
  /\ UNCHANGED <<setup, sess, work, seen, accidents>>

Relate ==
  /\ At("relations")
  /\ \E b \in job.pairs, a \in Answers :
       /\ job' = [Next1(job, a = "ok", a) EXCEPT !.todo = job.todo, !.pairs = @ \ {b}]
       /\ wired' = IF a = "ok" THEN wired \cup {Pair(b)} ELSE wired
       /\ IF job.dest = "internal" THEN edges' = edges \cup {Pair(b)} /\ UNCHANGED links
          ELSE links' = (IF a = "refused" THEN links ELSE links \cup {Pair(b)}) /\ UNCHANGED edges
  /\ UNCHANGED <<setup, sess, issue, rows, seen, accidents>>

EndRelations ==
  /\ At("relations") /\ job.pairs = {}
  /\ job' = [job EXCEPT !.todo = Tail(@)]
  /\ UNCHANGED <<setup, sess, work, seen, accidents>>

(***************************************************************************)
(* The end of a pass                                                       *)
(***************************************************************************)

\* Only a finished session becomes applied: what a person did to it in the meantime
\* stands.
Settle ==
  /\ At("settle")
  /\ sess' = [sess EXCEPT !.state = IF job.ok /\ @ = "finished" THEN "applied" ELSE @]
  /\ job' = Idle
  /\ UNCHANGED <<setup, work, seen, accidents>>

\* The hub is restarted: the guard is in memory only.
Crash ==
  /\ Applying /\ Accident
  /\ job' = Idle /\ seen' = Unseen
  /\ UNCHANGED <<setup, sess, work>>

(***************************************************************************)
(* People and the sync                                                     *)
(***************************************************************************)
\* A follow-up reopens the interview, whose next outcome supersedes the proposal.
Reopen ==
  /\ sess.state = "finished" /\ sess' = [sess EXCEPT !.state = "running"]
  /\ UNCHANGED <<setup, work, seen, job, accidents>>

Refinish ==
  /\ sess.state = "running" /\ sess' = [sess EXCEPT !.state = "finished"]
  /\ UNCHANGED <<setup, work, seen, job, accidents>>

Abandon ==
  /\ sess.state \in {"finished", "running"} /\ sess' = [sess EXCEPT !.state = "abandoned"]
  /\ UNCHANGED <<setup, work, seen, job, accidents>>

OnTracker == {x \in Ids : issue[x].home = "tracker"}

\* A pull stores every ticket and reflects the blockers the tracker reports.
Pull ==
  /\ rows' = rows \cup OnTracker
  /\ edges' = {e \in edges : e[2] \notin OnTracker} \cup {l \in links : l[2] \in OnTracker}
  /\ <<rows, edges>>' # <<rows, edges>>
  /\ UNCHANGED <<setup, sess, issue, links, wired, seen, job, accidents>>

Step ==
  \/ DetachNothing \/ DetachInternal \/ DetachBusy \/ Detach \/ Detached
  \/ ReuseParent \/ FileParent \/ AnchorParent \/ MirrorParent
  \/ \E step \in Marks : Write(step)
  \/ ReadChildren \/ ReuseSlice \/ FileSlice \/ MirrorSlice \/ EndSlices \/ Relate \/ EndRelations
  \/ Settle

Next ==
  \/ Click \/ Refused \/ Begin \/ Step \/ Crash
  \/ Reopen \/ Refinish \/ Abandon \/ Pull

Spec == Init /\ [][Next]_vars

(***************************************************************************)
(* What an apply promises                                                  *)
(***************************************************************************)
\* Everything keeps to its values, and the store has a row only for what exists.
TypeOK ==
  /\ setup \in Setups /\ sess \in Session /\ seen \in Seen /\ job \in Job
  /\ issue \in [Ids -> Issue]
  /\ rows \subseteq {x \in Ids : Exists(x)}
  /\ links \subseteq Ids \X Ids /\ edges \subseteq Ids \X Ids /\ wired \subseteq Ids \X Ids
  /\ accidents \in 0 .. MaxAccidents

\* However often an apply is retried, sent elsewhere, interrupted or overtaken, a title
\* is filed once more only for an answer, a store write or a hub that was lost, a click
\* that read the session too early, or a parent sent back from the store to the tracker (applyGrillCreate's anchor, grillExistingChildren).
FiledOncePerAccident ==
  \A t \in {Parent} \cup Slices :
    Cardinality({c \in Copies : Exists(<<t, c>>)}) <= 1 + accidents

\* What each disposition must have written to its issue.
Required ==
  CASE setup.disp \in {"split", "rewrite"} -> Marks
    [] setup.disp = "fix"                  -> {"description", "comment"}
    [] setup.disp = "needs_split"          -> {"comment", "labels"}
    [] OTHER                               -> {"comment"}

Landed(p) ==
  /\ issue[p].home = job.dest /\ Required \subseteq issue[p].has
  /\ setup.disp = "create" => p[1] = Parent
  /\ setup.disp \in {"create", "split"} =>
       \A s \in job.plan : \E c \in Copies : issue[<<s, c>>].home = job.dest /\ issue[<<s, c>>].parent = p

\* A session settles as applied only when its issue stands where the pass went, with
\* every slice of its breakdown under it and every write the disposition asks for on
\* it, whichever of several passes did each of them (handleGrillApply: "the session
\* settles as applied only when all of them succeed").
AppliedMeansFiled ==
  [][sess.state # "applied" /\ sess'.state = "applied" =>
       setup.disp = "no_change" \/ (setup.disp = "research" /\ job.at = NoId) \/ (job.at \in Ids /\ Landed(job.at))]_vars

\* A pass whose calls were all answered lands, whatever the passes before it left
\* behind: no half-filed parent, converted ticket or half-wired breakdown wedges the
\* retries of a session (detachGrillAnchor, applyGrillCreate, applyGrillSplit).
RetryLands ==
  At("settle") /\ job.clean /\ accidents = 0
    => job.ok \/ (setup.disp # "create" /\ issue[sess.anchor].home # job.dest)
=============================================================================
