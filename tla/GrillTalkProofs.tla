-------------------------- MODULE GrillTalkProofs --------------------------
(***************************************************************************)
(* The conversation of a grill session, for any members, setups and        *)
(* questions: its values stay in their ranges; a stop stands; and, of      *)
(* users who answer in time, the interviewer knows of the latest answer    *)
(* before it goes on and a session finishes on what was proposed since.    *)
(* The invariant says who may hold a call (CallersOK), what answers lie    *)
(* behind the question a call waits for (QuestionsOK), when an answer may  *)
(* still be on its way (AnswersOK), who is caught up (CaughtUp), and what  *)
(* the session is about to finish on (NewsOK).                             *)
(***************************************************************************)
EXTENDS GrillTalk, FiniteSetTheorems, SequenceTheorems, WellFoundedInduction, TLAPS

-----------------------------------------------------------------------------
(* The invariant *)

Providers == Members \cup {Interviewer}

TurnType  == [pc : {"off", "begun", "child", "gone", "settled", "panel", "ruled"},
              ends : {"ok", "error", "wall"}, again : BOOLEAN, by : {"", "user", "time"},
              ahead : BOOLEAN]
AskType   == [parts : {{}, One, Round}, rec : SUBSET Round, text : Nat]
CallType  == [pc : {"idle", "pose", "wait", "held", "finish", "finished"}, q : AskType, at : Nat,
              live : BOOLEAN]
PanelType == [round : Nat, todo : SUBSET Providers, kept : SUBSET Providers]
ReqType   == [pc : Kinds \cup {"idle", "move", "close", "accept", "launch", "silence", "kill"},
              seen : States, stopped : BOOLEAN]

\* What the hub holds in memory.
HubOK ==
  /\ turn \in TurnType /\ tail \in {"", "once", "again"}
  /\ call \in CallType /\ (call.pc = "pose" => call.q.parts # {})
  /\ panel \in PanelType /\ req \in ReqType

\* The session is over for good.
Dead == state \in {"applied", "abandoned"}

\* A request that is about to write an answer down.
AnswerDue ==
  \/ req.pc \in {"answers", "close", "accept"}
  \/ req.pc = "message" /\ req.seen # "running"

\* The last proposal or outcome is later than every answer.
News == \E i \in Decisions : \A j \in Answers : j < i

\* The agent knows of the latest answer.
Caught == Answers = {} \/ Highest(Answers) \in told

\* A call has a caller, or its caller is the child that has just gone.
CallersOK ==
  /\ call.pc # "idle" => turn.pc = IF call.live THEN "child" ELSE "gone"
  /\ call.pc = "held" => call.live \/ turn.ahead

\* A call that waits for an answer waits behind its question: before the session has
\* gone on, been put down or ended, no answer is there, and one when it has.
QuestionsOK ==
  /\ call.pc \in {"wait", "held"} => call.at \in DOMAIN log /\ log[call.at].kind = "question"
  /\ call.pc = "wait" \/ (call.pc = "held" /\ turn.ahead) => Dead \/ After(call.at) = {}
  /\ call.pc = "held" =>
       /\ state # "finished"
       /\ \/ Dead \/ turn.by = "user" \/ After(call.at) = {}
          \/ /\ state = "running" \/ req.pc \in {"move", "silence", "kill"}
             /\ \A i, j \in After(call.at) : i = j

\* An answer is written down at rest, while its question is held open, over a turn the
\* user has stopped, or too late.
AnswersOK ==
  AnswerDue =>
    /\ state # "running"
    /\ \/ Rests
       \/ call.pc = "held" /\ ~turn.ahead
       \/ call.pc = "idle" /\ turn.pc = "child" /\ turn.by = "user"
       \/ Dead

\* Who spoke knew of the latest answer, and who may speak next knows of it.
Heard(i) == LET before == {j \in Answers : j < i} IN before = {} \/ Highest(before) \in told

MaySpeak ==
  \/ call.pc \in {"pose", "finish", "finished"}
  \/ call.pc = "idle" /\ turn.pc = "child" /\ turn.by = ""

CaughtUp ==
  \/ Dead
  \/ /\ \A i \in DOMAIN log : Speaks(log[i]) => Heard(i)
     /\ MaySpeak => Caught

\* What finishes a session is later than its answers.
NewsOK == call.pc = "finished" \/ turn.pc = "ruled" => Dead \/ News

\* Challengers draft before anyone argues.
PanelOK == turn.pc = "panel" /\ panel.round = 0 => panel.todo \subseteq setup.challengers

TalkInv == TypeOK /\ HubOK /\ CallersOK /\ QuestionsOK /\ AnswersOK /\ CaughtUp /\ NewsOK /\ PanelOK

-----------------------------------------------------------------------------
(* Least and greatest numbers *)

LEMMA LeastIs ==
  ASSUME NEW S, S \subseteq Nat, S # {}
  PROVE  \E m \in S : \A n \in S : m <= n
<1> DEFINE Below == {0..n : n \in S}
<1>1. PICK B \in Below : \A C \in Below : ~(<<C, B>> \in StrictSubsetOrdering(Nat))
  <2>1. Below \subseteq FiniteSubsetsOf(Nat)
    <3> SUFFICES ASSUME NEW n \in S PROVE 0..n \in FiniteSubsetsOf(Nat)
      OBVIOUS
    <3>1. n \in Int /\ 0 \in Int /\ 0..n \subseteq Nat
      OBVIOUS
    <3>2. IsFiniteSet(0..n)
      BY <3>1, FS_Interval
    <3> QED BY <3>1, <3>2 DEF FiniteSubsetsOf
  <2>2. Below # {}
    OBVIOUS
  <2> HIDE DEF Below
  <2> QED BY <2>1, <2>2, FS_StrictSubsetOrderingWellFounded, WFMin
<1>2. PICK m \in S : B = 0..m
  OBVIOUS
<1>3. ASSUME NEW n \in S, n < m
      PROVE  FALSE
  <2>1. 0..n \subseteq 0..m /\ 0..n # 0..m /\ 0..n \subseteq Nat /\ 0..m \subseteq Nat
    BY <1>3
  <2>2. <<0..n, B>> \in StrictSubsetOrdering(Nat)
    BY <2>1, <1>2 DEF StrictSubsetOrdering
  <2> QED BY <2>2, <1>1
<1> QED BY <1>3

LEMMA HighestIs ==
  ASSUME NEW S, S \subseteq Nat, NEW n \in S, \A m \in S : m <= n
  PROVE  Highest(S) = n
<1>1. Highest(S) \in S /\ \A m \in S : m <= Highest(S)
  BY DEF Highest
<1>2. n \in Nat /\ Highest(S) \in Nat /\ n <= Highest(S) /\ Highest(S) <= n
  BY <1>1
<1> QED BY <1>2

LEMMA HighestIn ==
  ASSUME NEW n \in Nat, NEW S, S \subseteq 1..n, S # {}
  PROVE  Highest(S) \in S /\ \A m \in S : m <= Highest(S)
<1> DEFINE T == {n - m : m \in S}
<1>1. T \subseteq Nat /\ T # {}
  <2>1. ASSUME NEW m \in S PROVE n - m \in Nat
    <3>1. m \in 1..n
      OBVIOUS
    <3> QED BY <3>1
  <2> QED BY <2>1
<1>2. PICK k \in T : \A m \in T : k <= m
  BY <1>1, LeastIs
<1>3. PICK h \in S : k = n - h
  OBVIOUS
<1>4. ASSUME NEW m \in S PROVE m <= h
  <2>1. m \in 1..n /\ h \in 1..n /\ k <= n - m
    BY <1>2
  <2> QED BY <1>3, <2>1
<1> QED BY <1>4 DEF Highest

-----------------------------------------------------------------------------
(* The transcript *)

LEMMA LogIs ==
  ASSUME TypeOK
  PROVE  /\ Len(log) \in Nat /\ DOMAIN log = 1..Len(log)
         /\ \A i \in 1..Len(log) : log[i] \in Entry
         /\ Answers \subseteq 1..Len(log) /\ Decisions \subseteq 1..Len(log)
         /\ Pending \subseteq 1..Len(log)
<1>1. Len(log) \in Nat /\ DOMAIN log = 1..Len(log) /\ \A i \in 1..Len(log) : log[i] \in Entry
  BY LenProperties, ElementOfSeq DEF TypeOK
<1> QED BY <1>1 DEF Answers, Decisions, Pending, Of

LEMMA EntryIs ==
  /\ \A m \in Entry : m.kind \in {"question", "proposal", "answer", "interjection", "outcome"}
  /\ \A m \in Entry : m.kind = "question" => m \in Question
  /\ \A s \in BOOLEAN : Answer(s) \in Entry /\ Answer(s).kind = "answer"
  /\ [kind |-> "interjection"] \in Entry
  /\ \A m \in Providers : Outcome(m) \in Entry /\ Outcome(m).kind = "outcome"
  /\ \A m \in Providers, r \in Nat, e \in Providers \cup {""} :
       Draft(m, r, e) \in Entry /\ Draft(m, r, e).kind = "proposal"
BY DEF Entry, Question, Turn, Answer, Outcome, Draft, Providers

\* What was said keeps its kind and its speaker; only a round's answers come in later.
Longer(n) ==
  /\ log' \in Seq(Entry) /\ Len(log') = Len(log) + n
  /\ \A i \in 1..Len(log) : log'[i].kind = log[i].kind /\ (Speaks(log'[i]) <=> Speaks(log[i]))

LEMMA SameLog ==
  ASSUME TypeOK, UNCHANGED log
  PROVE  Longer(0)
BY LogIs DEF Longer, TypeOK

LEMMA SaysMore ==
  ASSUME TypeOK, NEW m \in Entry, Says(m)
  PROVE  /\ Longer(1) /\ log'[Len(log) + 1] = m
BY LogIs DEF Longer, TypeOK, Says

LEMMA GotMore ==
  ASSUME TypeOK, NEW i \in 1..Len(log), log[i].kind = "question", NEW got \in SUBSET Round
  PROVE  LET more == [log EXCEPT ![i].got = got]
         IN  /\ more \in Seq(Entry) /\ Len(more) = Len(log)
             /\ \A j \in 1..Len(log) :
                  more[j].kind = log[j].kind /\ (Speaks(more[j]) <=> Speaks(log[j]))
<1> DEFINE e == [log[i] EXCEPT !.got = got]
<1> DEFINE more == [log EXCEPT ![i] = e]
<1>1. log[i] \in Question
  BY LogIs, EntryIs
<1>2. e \in Question /\ e.kind = "question"
  BY <1>1 DEF Question
<1>3. e \in Entry
  BY <1>2 DEF Entry
<1>4. /\ Speaks(e) <=> Speaks(log[i])
  BY <1>2 DEF Speaks
<1> HIDE DEF e
<1>5. /\ more \in Seq(Entry) /\ Len(more) = Len(log)
      /\ \A j \in 1..Len(log) : more[j] = IF j = i THEN e ELSE log[j]
  BY <1>3, ExceptSeq DEF TypeOK
<1>6. [log EXCEPT ![i].got = got] = more
  BY DEF e
<1> QED BY <1>2, <1>4, <1>5, <1>6

\* The sets a step reads off the transcript.
LEMMA NoNewLine ==
  ASSUME TypeOK, Longer(0)
  PROVE  /\ Answers' = Answers /\ Decisions' = Decisions /\ \A n : After(n)' = After(n)
         /\ DOMAIN log' = DOMAIN log
<1>1. DOMAIN log' = 1..Len(log) /\ DOMAIN log = 1..Len(log)
  BY LogIs, LenProperties DEF Longer
<1> QED BY <1>1 DEF Longer, Answers, Decisions, After, Of

LEMMA NewLine ==
  ASSUME TypeOK, Longer(1)
  PROVE  LET n == Len(log) + 1  kind == log'[n].kind
         IN  /\ DOMAIN log' = DOMAIN log \cup {n} /\ n \notin DOMAIN log
             /\ Answers' = IF kind = "answer" THEN Answers \cup {n} ELSE Answers
             /\ Decisions' = IF kind \in {"proposal", "outcome"} THEN Decisions \cup {n} ELSE Decisions
<1>1. DOMAIN log' = 1..Len(log) + 1 /\ DOMAIN log = 1..Len(log) /\ Len(log) \in Nat
  BY LogIs, LenProperties DEF Longer
<1> QED BY <1>1 DEF Longer, Answers, Decisions, Of

-----------------------------------------------------------------------------
(* Types *)

LEMMA AppendIs ==
  ASSUME NEW t \in Seq(Entry), NEW m \in Entry
  PROVE  /\ Append(t, m) \in Seq(Entry) /\ Len(Append(t, m)) = Len(t) + 1
         /\ Append(t, m)[Len(t) + 1] = m
         /\ \A i \in 1..Len(t) : Append(t, m)[i] = t[i]
BY LenProperties

LEMMA TrailingIs ==
  ASSUME TypeOK, Trailing # 0
  PROVE  /\ Trailing = Len(log) /\ Trailing \in 1..Len(log)
         /\ log[Trailing].kind = "question" /\ log[Trailing] \in Question
<1>1. log # <<>> /\ Trailing = Len(log) /\ log[Len(log)].kind = "question"
  BY DEF Trailing
<1>2. Len(log) \in 1..Len(log)
  BY <1>1, LogIs, EmptySeq DEF TypeOK
<1> QED BY <1>1, <1>2, LogIs, EntryIs

LEMMA NumbersAre ==
  ASSUME TypeOK
  PROVE  Trailing \in Nat /\ Len(log) + 1 \in Nat /\ Text \in Nat
<1>1. Of("question") \subseteq 1..Len(log) /\ IsFiniteSet(1..Len(log))
  <2>1. Len(log) \in Int /\ 1 \in Int
    BY LogIs
  <2>2. IsFiniteSet(1..Len(log))
    BY <2>1, FS_Interval
  <2> QED BY <2>2, LogIs DEF Of
<1>2. IsFiniteSet(Of("question"))
  BY <1>1, FS_Subset
<1>3. Cardinality(Of("question")) \in Nat
  BY <1>2, FS_CardinalityType
<1>4. Trailing \in Nat
  <2>1. CASE Trailing = 0
    BY <2>1
  <2>2. CASE Trailing # 0
    BY <2>2, TrailingIs, LogIs
  <2> QED BY <2>1, <2>2
<1> QED BY <1>3, <1>4, LogIs DEF Text

LEMMA PartsAre == {} \notin {One, Round} /\ One \subseteq Round
BY DEF One, Round

LEMMA NothingIs ==
  /\ NoTurn \in TurnType /\ NoCall \in CallType /\ NoPanel \in PanelType /\ NoReq \in ReqType
  /\ NoTurn.pc = "off" /\ NoTurn.by = "" /\ NoCall.pc = "idle" /\ NoReq.pc = "idle"
BY DEF NoTurn, TurnType, NoCall, NoQ, CallType, AskType, NoPanel, PanelType, NoReq, ReqType, States

LEMMA MayIs ==
  ASSUME state \in States
  PROVE  /\ May("running")   <=> state \in {"waiting", "parked", "stalled", "finished"}
         /\ May("waiting")   <=> state = "running"
         /\ May("parked")    <=> state \in {"running", "waiting", "stalled"}
         /\ May("stalled")   <=> state \in {"running", "waiting", "parked"}
         /\ May("finished")  <=> state \in {"running", "waiting", "parked", "stalled"}
         /\ May("applied")   <=> state = "finished"
         /\ May("abandoned") <=> state \in {"running", "waiting", "parked", "stalled", "finished"}
BY DEF May, Legal, States

LEMMA TransitionIs ==
  ASSUME NEW s, NEW r, Transition(s, r)
  PROVE  \/ May(s) /\ state' = s /\ reason' = r /\ orphan' = FALSE
         \/ ~May(s) /\ UNCHANGED <<state, reason, orphan>>
BY DEF Transition, Becomes, session

SessionOK == state \in States /\ reason \in Reasons /\ orphan \in BOOLEAN

LEMMA TransitionKeeps ==
  ASSUME SessionOK, NEW s \in States, NEW r \in Reasons, Transition(s, r)
  PROVE  SessionOK'
BY TransitionIs DEF SessionOK

LEMMA SetupIs ==
  ASSUME TypeOK
  PROVE  setup.challengers \subseteq Members /\ setup.rounds \in Nat /\ setup.ahead \in BOOLEAN
BY SetupAssumption DEF TypeOK

LEMMA PanelIs ==
  ASSUME TypeOK, HubOK
  PROVE  /\ Panel \subseteq Providers /\ Holders \subseteq Providers
         /\ panel.kept \subseteq Providers /\ panel.todo \subseteq Providers
         /\ Winners \subseteq Providers
<1>1. Panel \subseteq Providers
  BY SetupIs DEF Panel, Providers
<1>2. Holders \subseteq Providers
  BY <1>1 DEF Holders
<1>3. panel.kept \subseteq Providers /\ panel.todo \subseteq Providers
  BY DEF HubOK, PanelType
<1>4. Agreed \subseteq Providers
  BY <1>3 DEF Agreed
<1>5. Winners \in {Holders, {}, panel.kept, Agreed}
  <2> HIDE DEF Holders, Agreed
  <2>1. CASE Cardinality(Holders) = 1
    BY <2>1 DEF Winners
  <2>2. CASE Cardinality(Holders) # 1 /\ panel.round = 0
    BY <2>2 DEF Winners
  <2>3. CASE Cardinality(Holders) # 1 /\ panel.round > 0
    BY <2>3 DEF Winners
  <2>4. panel.round = 0 \/ panel.round > 0
    <3>1. panel.round \in Nat
      BY DEF HubOK, PanelType
    <3> QED BY <3>1
  <2> QED BY <2>1, <2>2, <2>3, <2>4
<1> QED BY <1>1, <1>2, <1>3, <1>4, <1>5

LEMMA ReconcileIs ==
  ASSUME Reconcile
  PROVE  \/ UNCHANGED session
         \/ /\ state \in {"running", "parked"} /\ ~Stopped
            /\ Transition("parked", "trouble") \/ Transition("stalled", "trouble")
<1> DEFINE l == LeftBy
<1>1. IF l = <<state, reason>> THEN UNCHANGED session ELSE Transition(l[1], l[2])
  BY DEF Reconcile
<1>2. \/ l = <<state, reason>>
      \/ /\ state \in {"running", "parked"} /\ ~Stopped
         /\ l \in {<<"parked", "trouble">>, <<"stalled", "trouble">>}
  BY DEF LeftBy, Stopped
<1> HIDE DEF l
<1>3. CASE l = <<"parked", "trouble">>
  <2>1. l[1] = "parked" /\ l[2] = "trouble"
    BY <1>3
  <2> QED BY <1>1, <1>2, <2>1
<1>4. CASE l = <<"stalled", "trouble">>
  <2>1. l[1] = "stalled" /\ l[2] = "trouble"
    BY <1>4
  <2> QED BY <1>1, <1>2, <2>1
<1> QED BY <1>1, <1>2, <1>3, <1>4

\* What a step does to the session, and to what the hub holds.
LEMMA TurnTypes ==
  ASSUME TypeOK, HubOK, ATurn
  PROVE  SessionOK' /\ HubOK' /\ chain' \in BOOLEAN
<1> USE NothingIs DEF TypeOK, HubOK
<1>0. /\ "trouble" \in Reasons /\ SessionOK
      /\ {"parked", "stalled"} \subseteq States
  BY DEF Reasons, States, SessionOK
<1>1. CASE Spawn
  BY <1>1 DEF Spawn, TurnType, session, SessionOK
<1>2. CASE Unready
  <2>1. SessionOK'
    BY <1>0, <1>2, TransitionKeeps DEF Unready
  <2> QED BY <1>2, <2>1 DEF Unready, TurnType, talk
<1>3. CASE ChildExits
  BY <1>3 DEF ChildExits, TurnType, CallType, session, SessionOK
<1>4. CASE TimesOut
  BY <1>4 DEF TimesOut, TurnType, session, SessionOK
<1>5. CASE Reconcile
  <2>2. SessionOK'
    BY <1>0, <1>5, ReconcileIs, TransitionKeeps DEF session, SessionOK
  <2>3. turn' = [pc |-> "settled", ends |-> "ok",
                 again |-> state = "running" /\ ~DraftsPending /\ LeftBy = <<state, reason>>,
                 by |-> "", ahead |-> turn.ahead]
    BY <1>5 DEF Reconcile, NoTurn
  <2> QED BY <1>5, <2>2, <2>3 DEF Reconcile, TurnType
<1>6. CASE TurnEnds
  BY <1>6 DEF TurnEnds, session, SessionOK
<1>7. CASE GoesOn
  <2>1. turn' \in TurnType /\ panel' \in PanelType
    BY <1>7, SetupIs DEF GoesOn, Launched, NoTurn, TurnType, NoPanel, PanelType, Providers
  <2> QED BY <1>7, <2>1 DEF GoesOn, session, SessionOK
<1> QED BY <1>1, <1>2, <1>3, <1>4, <1>5, <1>6, <1>7 DEF ATurn

LEMMA PosedIs ==
  ASSUME TypeOK, HubOK, call.pc = "pose", NEW got \in SUBSET Round
  PROVE  Posed(got) \in Entry /\ Posed(got).kind = "question"
<1>1. Posed(got) \in Question
  BY DEF HubOK, CallType, AskType, Posed, Question
<1> QED BY <1>1 DEF Entry, Question

LEMMA CallTypes ==
  ASSUME TypeOK, HubOK, ACall
  PROVE  SessionOK' /\ HubOK'
<1> USE NothingIs DEF TypeOK, HubOK
<1>0. SessionOK /\ "" \in Reasons /\ {"parked", "waiting", "finished"} \subseteq States
  BY DEF Reasons, States, SessionOK
<1>1. ASSUME NEW n \in Nat PROVE Held(n) \in CallType /\ Held(n).pc # "pose"
  BY DEF Held, CallType
<1>2. CASE Heeds
  BY <1>2 DEF Heeds, hub, session, SessionOK
<1>3. CASE Asks
  <2>1. Text \in Nat
    BY NumbersAre
  <2>2. \E q \in AskType : q.parts # {} /\ call' = [NoCall EXCEPT !.pc = "pose", !.q = q]
    <3>1. ASSUME NEW p \in Poses, Calling("pose", [parts |-> p.parts, rec |-> p.rec, text |-> Text])
          PROVE  \E q \in AskType : q.parts # {} /\ call' = [NoCall EXCEPT !.pc = "pose", !.q = q]
      <4>1. p.parts \in {One, Round} /\ p.rec \in SUBSET Round
        BY PoseAssumption
      <4> QED BY <2>1, <3>1, <4>1, PartsAre DEF Calling, AskType
    <3>2. ASSUME Trailing # 0,
                 Calling("pose", [parts |-> log[Trailing].parts, rec |-> log[Trailing].rec,
                                  text |-> log[Trailing].text])
          PROVE  \E q \in AskType : q.parts # {} /\ call' = [NoCall EXCEPT !.pc = "pose", !.q = q]
      <4>1. log[Trailing] \in Question
        BY <3>2, TrailingIs
      <4> QED BY <3>2, <4>1, PartsAre DEF Calling, AskType, Question
    <3> QED BY <1>3, <3>1, <3>2 DEF Asks
  <2> QED BY <1>3, <2>2 DEF Asks, CallType, session, SessionOK
<1>4. CASE Proposes
  BY <1>4 DEF Proposes, Calling, NoCall, NoQ, AskType, CallType, session, SessionOK
<1>5. CASE PoseQuestion
  <2>1. Trailing \in Nat /\ Len(log) + 1 \in Nat
    BY NumbersAre
  <2>2. call' \in {NoCall, Held(Trailing), [call EXCEPT !.pc = "wait", !.at = Len(log) + 1]}
    BY <1>5 DEF PoseQuestion
  <2>3. call' \in CallType /\ call'.pc # "pose"
    BY <1>1, <2>1, <2>2 DEF CallType
  <2> QED BY <1>5, <2>3 DEF PoseQuestion, session, SessionOK
<1>6. CASE PoseRound
  <2>1. Trailing \in Nat /\ Len(log) + 1 \in Nat
    BY NumbersAre
  <2>2. \E at \in Nat : call' \in {NoCall, Held(at), [call EXCEPT !.pc = "wait", !.at = at]}
    BY <1>6, <2>1 DEF PoseRound
  <2>3. call' \in CallType /\ call'.pc # "pose"
    BY <1>1, <2>2 DEF CallType
  <2> QED BY <1>6, <2>3 DEF PoseRound, session, SessionOK
<1>7. CASE Waits
  <2>1. SessionOK'
    BY <1>0, <1>7, TransitionKeeps DEF Waits
  <2>2. call' \in {NoCall, Held(call.at)}
    BY <1>7 DEF Waits
  <2>3. call' \in CallType /\ call'.pc # "pose"
    BY <1>1, <2>2 DEF CallType
  <2> QED BY <1>7, <2>1, <2>3 DEF Waits
<1>8. CASE Returns \/ Drops
  BY <1>8 DEF Returns, Drops, session, SessionOK
<1>9. CASE Idles
  <2>1. SessionOK'
    BY <1>0, <1>9, TransitionKeeps DEF Idles
  <2> QED BY <1>9, <2>1 DEF Idles
<1>10. CASE Finishes
  <2>1. call' \in {NoCall, [call EXCEPT !.pc = "finished"]}
    BY <1>10 DEF Finishes
  <2>2. call' \in CallType /\ call'.pc # "pose"
    BY <2>1 DEF CallType
  <2> QED BY <1>10, <2>2 DEF Finishes, session, SessionOK
<1>11. CASE Finished
  <2>1. SessionOK'
    BY <1>0, <1>11, TransitionKeeps DEF Finished
  <2> QED BY <1>11, <2>1 DEF Finished
<1> QED BY <1>2, <1>3, <1>4, <1>5, <1>6, <1>7, <1>8, <1>9, <1>10, <1>11 DEF ACall

LEMMA PanelTypes ==
  ASSUME TypeOK, HubOK, APanel
  PROVE  SessionOK' /\ HubOK'
<1>r. panel.round \in Nat
  BY DEF HubOK, PanelType
<1>s. panel.round + 1 \in Nat
  BY <1>r
<1> USE NothingIs DEF TypeOK, HubOK
<1>0. /\ SessionOK /\ {"", "trouble"} \subseteq Reasons /\ {"parked", "finished"} \subseteq States
  BY DEF Reasons, States, SessionOK
<1>1. CASE MemberSpeaks \/ MemberDrops \/ NextRound
  <2>1. panel' \in PanelType
    <3>1. CASE MemberSpeaks
      <4>1. PICK m \in panel.todo : panel' = [panel EXCEPT !.todo = @ \ {m}, !.kept = @ \cup {m}]
        BY <3>1 DEF MemberSpeaks
      <4> QED BY <4>1 DEF PanelType
    <3>2. CASE MemberDrops
      <4>1. PICK m \in panel.todo : panel' = [panel EXCEPT !.todo = @ \ {m}]
        BY <3>2 DEF MemberDrops
      <4> QED BY <4>1 DEF PanelType
    <3>3. CASE NextRound
      <4>1. (IF panel.round = 0 THEN Holders ELSE panel.kept) \subseteq Providers
        BY PanelIs
      <4> QED BY <1>s, <3>3, <4>1 DEF NextRound, PanelType
    <3> QED BY <1>1, <3>1, <3>2, <3>3
  <2> QED BY <1>1, <2>1 DEF MemberSpeaks, MemberDrops, NextRound, session, SessionOK
<1>2. CASE PanelRules
  <2>1. SessionOK'
    BY <1>0, <1>2, TransitionKeeps DEF PanelRules, session, SessionOK
  <2> QED BY <1>2, <2>1 DEF PanelRules, Over, TurnType
<1>3. CASE PanelEnds
  <2>1. SessionOK'
    BY <1>0, <1>3, TransitionKeeps DEF PanelEnds
  <2> QED BY <1>3, <2>1 DEF PanelEnds, Over
<1>4. CASE PanelUnready
  <2>1. SessionOK'
    BY <1>0, <1>4, TransitionKeeps DEF PanelUnready
  <2> QED BY <1>4, <2>1 DEF PanelUnready, Over
<1> QED BY <1>1, <1>2, <1>3, <1>4 DEF APanel

LEMMA GoesIs ==
  ASSUME req \in ReqType, NEW pc \in {"move", "close", "launch", "silence", "kill"}, Goes(pc)
  PROVE  req' \in ReqType
BY DEF Goes, ReqType

LEMMA RequestTypes ==
  ASSUME TypeOK, HubOK, ARequest
  PROVE  SessionOK' /\ HubOK' /\ auto' \in BOOLEAN
<1> USE NothingIs DEF TypeOK, HubOK
<1>0. /\ SessionOK /\ {"", "stopped"} \subseteq Reasons
      /\ {"parked", "abandoned", "running"} \subseteq States
      /\ Stopped \in BOOLEAN
  BY DEF Reasons, States, SessionOK, Stopped
<1>1. ASSUME NEW k \in Kinds, Request(k)
      PROVE  SessionOK' /\ HubOK' /\ auto' \in BOOLEAN
  BY <1>0, <1>1 DEF Request, ReqType, session, SessionOK
<1>2. CASE Message \/ RoundForm \/ Closes \/ AcceptPending
  <2>1. req' \in ReqType
    BY <1>2, GoesIs DEF Message, RoundForm, Closes, AcceptPending, Done
  <2> QED BY <1>2, <2>1 DEF Message, RoundForm, Closes, AcceptPending, session, SessionOK
<1>3. CASE AutoSet
  BY <1>0, <1>3 DEF AutoSet, ReqType, session, SessionOK
<1>4. CASE Moves
  <2>1. SessionOK'
    BY <1>0, <1>4, TransitionKeeps DEF Moves
  <2> QED BY <1>4, <2>1, GoesIs DEF Moves, Done
<1>5. CASE Launches
  <2>1. turn' \in TurnType
    BY <1>5 DEF Launches, Launched, TurnType, NoTurn
  <2> QED BY <1>5, <2>1 DEF Launches, Done, session, SessionOK
<1>6. CASE PutsDown
  <2>1. SessionOK'
    BY <1>0, <1>6, TransitionKeeps DEF PutsDown, session, SessionOK
  <2> QED BY <1>6, <2>1, GoesIs DEF PutsDown, Done
<1>7. CASE Silences
  BY <1>7, GoesIs DEF Silences, session, SessionOK
<1>8. CASE Kills
  <2>1. turn' \in TurnType
    BY <1>8 DEF Kills, TurnType
  <2> QED BY <1>8, <2>1 DEF Kills, Done, session, SessionOK
<1> QED BY <1>1, <1>2, <1>3, <1>4, <1>5, <1>6, <1>7, <1>8 DEF ARequest

LEMMA WorldTypes ==
  ASSUME TypeOK, HubOK, AWorld
  PROVE  SessionOK' /\ HubOK'
<1> USE NothingIs DEF TypeOK, HubOK
<1>0. SessionOK /\ {"", "trouble"} \subseteq Reasons /\ {"applied", "abandoned"} \subseteq States
  BY DEF Reasons, States, SessionOK
<1>1. CASE Chooses
  BY <1>1 DEF Chooses, hub, session, SessionOK
<1>2. CASE Applies
  <2>1. SessionOK'
    BY <1>0, <1>2, TransitionKeeps DEF Applies
  <2> QED BY <1>2, <2>1 DEF Applies, hub
<1>3. CASE Retires
  BY <1>0, <1>3 DEF Retires, Becomes, hub, SessionOK
<1>4. CASE HubDies
  BY <1>4 DEF HubDies, SessionOK
<1> QED BY <1>1, <1>2, <1>3, <1>4 DEF AWorld

-----------------------------------------------------------------------------
(* What a step adds to the transcript *)

\* Faces of a step that writes: nothing but a round's boxes, one line, or a question
\* with the answer the hub gives it.
Silent   == Longer(0)
OneLine(kinds) == Longer(1) /\ log'[Len(log) + 1].kind \in kinds
TwoLines ==
  Longer(2) /\ log'[Len(log) + 1].kind = "question" /\ log'[Len(log) + 2].kind = "answer"

LEMMA PairIs ==
  ASSUME NEW S, NEW l \in Seq(S), NEW a \in S, NEW b \in S
  PROVE  /\ l \o <<a, b>> \in Seq(S) /\ Len(l \o <<a, b>>) = Len(l) + 2
         /\ \A i \in 1..Len(l) : (l \o <<a, b>>)[i] = l[i]
         /\ (l \o <<a, b>>)[Len(l) + 1] = a /\ (l \o <<a, b>>)[Len(l) + 2] = b
<1> DEFINE t == <<a, b>>
<1>1. t \in Seq(S) /\ Len(t) = 2 /\ t[1] = a /\ t[2] = b
  OBVIOUS
<1>2. Len(l) \in Nat
  BY LenProperties
<1> HIDE DEF t
<1>3. /\ l \o t \in Seq(S) /\ Len(l \o t) = Len(l) + Len(t)
      /\ \A i \in 1..Len(l) + Len(t) : (l \o t)[i] = IF i <= Len(l) THEN l[i] ELSE t[i - Len(l)]
  BY <1>1, ConcatProperties
<1>4. /\ \A i \in 1..Len(l) : (l \o t)[i] = l[i]
      /\ (l \o t)[Len(l) + 1] = a /\ (l \o t)[Len(l) + 2] = b
  BY <1>1, <1>2, <1>3
<1> QED BY <1>1, <1>3, <1>4 DEF t

LEMMA PoseQuestionIs ==
  ASSUME TypeOK, HubOK, PoseQuestion
  PROVE  \/ TwoLines /\ Tells(Len(log) + 2) /\ call' = NoCall
         \/ /\ Silent /\ told' = told
            /\ state = "waiting" /\ call' = Held(Trailing) /\ Trailing # 0 /\ UNCHANGED log
         \/ /\ OneLine({"question"}) /\ told' = told
            /\ call' = [call EXCEPT !.pc = "wait", !.at = Len(log) + 1]
<1>1. call.pc = "pose" /\ One \in SUBSET Round /\ {} \in SUBSET Round
  BY PartsAre DEF PoseQuestion
<1>2. CASE AutoAccepts /\ call.q.rec # {}
  <2>1. /\ Posed(One) \in Entry /\ Posed(One).kind = "question"
        /\ Answer(FALSE) \in Entry /\ Answer(FALSE).kind = "answer"
    BY <1>1, PosedIs, EntryIs
  <2>3. log' = log \o <<Posed(One), Answer(FALSE)>> /\ Tells(Len(log) + 2) /\ call' = NoCall
    BY <1>2 DEF PoseQuestion
  <2>4. log \in Seq(Entry)
    BY DEF TypeOK
  <2>5. /\ log' \in Seq(Entry) /\ Len(log') = Len(log) + 2
        /\ \A i \in 1..Len(log) : log'[i] = log[i]
        /\ log'[Len(log) + 1] = Posed(One) /\ log'[Len(log) + 2] = Answer(FALSE)
    <3> DEFINE a == Posed(One)  b == Answer(FALSE)
    <3>1. a \in Entry /\ b \in Entry /\ log' = log \o <<a, b>>
      BY <2>1, <2>3
    <3> HIDE DEF a, b
    <3>2. /\ log' \in Seq(Entry) /\ Len(log') = Len(log) + 2
          /\ \A i \in 1..Len(log) : log'[i] = log[i]
          /\ log'[Len(log) + 1] = a /\ log'[Len(log) + 2] = b
      BY <2>4, <3>1, PairIs
    <3> QED BY <3>2 DEF a, b
  <2>7. TwoLines
    BY <2>1, <2>5 DEF TwoLines, Longer
  <2> QED BY <2>3, <2>7
<1>3. CASE ~(AutoAccepts /\ call.q.rec # {})
  <2>1. CASE state = "waiting" /\ Same(Trailing)
    <3>1. UNCHANGED log /\ told' = told /\ call' = Held(Trailing) /\ Trailing # 0
      BY <1>3, <2>1 DEF PoseQuestion, Same
    <3> QED BY <2>1, <3>1, SameLog DEF Silent
  <2>2. CASE ~(state = "waiting" /\ Same(Trailing))
    <3>1. Says(Posed({})) /\ told' = told /\ call' = [call EXCEPT !.pc = "wait", !.at = Len(log) + 1]
      BY <1>3, <2>2 DEF PoseQuestion
    <3>2. Posed({}) \in Entry /\ Posed({}).kind = "question"
      BY <1>1, PosedIs
    <3> QED BY <3>1, <3>2, SaysMore DEF OneLine
  <2> QED BY <2>1, <2>2
<1> QED BY <1>2, <1>3

LEMMA SaysIs ==
  ASSUME TypeOK, NEW m \in Entry, NEW kinds, m.kind \in kinds, Says(m)
  PROVE  OneLine(kinds)
BY SaysMore DEF OneLine

LEMMA AnswerNext ==
  ASSUME NEW t \in Seq(Entry), log' = Append(t, Answer(FALSE))
  PROVE  /\ log' \in Seq(Entry) /\ Len(log') = Len(t) + 1 /\ log'[Len(t) + 1] = Answer(FALSE)
         /\ \A i \in 1..Len(t) : log'[i] = t[i]
<1> DEFINE a == Answer(FALSE)  more == Append(t, a)
<1>1. a \in Entry /\ log' = more
  BY EntryIs
<1> HIDE DEF a
<1>2. /\ more \in Seq(Entry) /\ Len(more) = Len(t) + 1 /\ more[Len(t) + 1] = a
      /\ \A i \in 1..Len(t) : more[i] = t[i]
  BY <1>1, AppendIs
<1> HIDE DEF more
<1>3. /\ log' \in Seq(Entry) /\ Len(log') = Len(t) + 1 /\ log'[Len(t) + 1] = a
      /\ \A i \in 1..Len(t) : log'[i] = t[i]
  BY <1>1, <1>2
<1> QED BY <1>3 DEF a

LEMMA PoseRoundIs ==
  ASSUME TypeOK, HubOK, PoseRound
  PROVE  \/ TwoLines /\ Tells(Len(log) + 2) /\ call' = NoCall
         \/ OneLine({"answer"}) /\ Tells(Len(log) + 1) /\ call' = NoCall
         \/ /\ Silent /\ told' = told /\ Trailing # 0
            /\ \/ call' = [call EXCEPT !.pc = "wait", !.at = Trailing]
               \/ state = "waiting" /\ call' = Held(Trailing)
         \/ /\ OneLine({"question"}) /\ told' = told
            /\ call' = [call EXCEPT !.pc = "wait", !.at = Len(log) + 1]
<1>1. call.pc = "pose" /\ call.q.rec \in SUBSET Round
  BY DEF PoseRound, HubOK, CallType, AskType
<1>2. Answer(FALSE) \in Entry /\ Answer(FALSE).kind = "answer"
  BY EntryIs
<1>3. log \in Seq(Entry) /\ Len(log) \in Nat
  BY LogIs DEF TypeOK
<1> DEFINE again == OpenRound /\ Same(Trailing)
<1>4. CASE again
  <2> DEFINE got  == log[Trailing].got \cup (IF AutoAccepts THEN call.q.rec ELSE {})
             more == [log EXCEPT ![Trailing].got = got]
  <2>1. /\ Trailing # 0 /\ Trailing = Len(log) /\ Trailing \in 1..Len(log)
        /\ log[Trailing].kind = "question" /\ log[Trailing] \in Question
    BY <1>4, TrailingIs DEF OpenRound
  <2>2. got \in SUBSET Round
    BY <1>1, <2>1 DEF Question
  <2>3. IF got = Round
        THEN log' = Append(more, Answer(FALSE)) /\ Tells(Len(more) + 1) /\ call' = NoCall
        ELSE /\ log' = more /\ told' = told
             /\ call' = IF state = "waiting" THEN Held(Trailing)
                                             ELSE [call EXCEPT !.pc = "wait", !.at = Trailing]
    BY <1>4 DEF PoseRound
  <2> HIDE DEF got
  <2>4. /\ more \in Seq(Entry) /\ Len(more) = Len(log)
        /\ \A j \in 1..Len(log) : more[j].kind = log[j].kind /\ (Speaks(more[j]) <=> Speaks(log[j]))
    BY <2>1, <2>2, GotMore
  <2> HIDE DEF more
  <2>5. CASE got = Round
    <3>1. /\ log' \in Seq(Entry) /\ Len(log') = Len(log) + 1 /\ log'[Len(log) + 1] = Answer(FALSE)
          /\ \A j \in 1..Len(log) : log'[j] = more[j]
      <4>1. log' = Append(more, Answer(FALSE))
        BY <2>3, <2>5
      <4> QED BY <1>2, <2>4, <4>1, AnswerNext
    <3>2. OneLine({"answer"})
      BY <1>2, <2>4, <3>1 DEF OneLine, Longer
    <3> QED BY <2>3, <2>4, <2>5, <3>2
  <2>6. CASE got # Round
    <3>1. Silent
      BY <1>3, <2>3, <2>4, <2>6 DEF Silent, Longer
    <3> QED BY <2>1, <2>3, <2>6, <3>1
  <2> QED BY <2>5, <2>6
<1>5. CASE ~again
  <2> DEFINE got  == IF AutoAccepts THEN call.q.rec ELSE {}
             more == Append(log, Posed(got))
  <2>1. got \in SUBSET Round
    BY <1>1
  <2>2. IF got = Round
        THEN log' = Append(more, Answer(FALSE)) /\ Tells(Len(more) + 1) /\ call' = NoCall
        ELSE /\ log' = more /\ told' = told
             /\ call' = [call EXCEPT !.pc = "wait", !.at = Len(log) + 1]
    BY <1>5 DEF PoseRound
  <2> HIDE DEF got
  <2>3. Posed(got) \in Entry /\ Posed(got).kind = "question"
    BY <1>1, <2>1, PosedIs
  <2>4. /\ more \in Seq(Entry) /\ Len(more) = Len(log) + 1 /\ more[Len(log) + 1].kind = "question"
        /\ \A i \in 1..Len(log) : more[i] = log[i]
    BY <1>3, <2>3, AppendIs
  <2> HIDE DEF more
  <2>5. CASE got = Round
    <3>1. /\ log' \in Seq(Entry) /\ Len(log') = Len(log) + 2 /\ log'[Len(log) + 2] = Answer(FALSE)
          /\ \A j \in 1..Len(log) + 1 : log'[j] = more[j]
      <4>1. log' = Append(more, Answer(FALSE))
        BY <2>2, <2>5
      <4>2. /\ log' \in Seq(Entry) /\ Len(log') = Len(more) + 1 /\ log'[Len(more) + 1] = Answer(FALSE)
            /\ \A j \in 1..Len(more) : log'[j] = more[j]
        BY <1>2, <2>4, <4>1, AnswerNext
      <4> DEFINE a == Answer(FALSE)
      <4> HIDE DEF a
      <4>3. Len(more) = Len(log) + 1 /\ Len(more) + 1 = Len(log) + 2 /\ log'[Len(more) + 1] = a
        BY <1>3, <2>4, <4>2 DEF a
      <4> QED BY <4>2, <4>3 DEF a
    <3>2. TwoLines
      <4>1. Len(log) + 1 \in 1..Len(log) + 1 /\ 1..Len(log) \subseteq 1..Len(log) + 1
        BY <1>3
      <4>2. log'[Len(log) + 1] = more[Len(log) + 1] /\ \A i \in 1..Len(log) : log'[i] = log[i]
        BY <2>4, <3>1, <4>1
      <4>3. log'[Len(log) + 1].kind = "question" /\ log'[Len(log) + 2].kind = "answer"
        <5>1. log'[Len(log) + 1].kind = "question"
          BY <2>4, <4>2
        <5>2. log'[Len(log) + 2].kind = "answer"
          BY <1>2, <3>1
        <5> QED BY <5>1, <5>2
      <4> QED BY <3>1, <4>2, <4>3 DEF TwoLines, Longer
    <3>3. Len(more) + 1 = Len(log) + 2
      BY <1>3, <2>4
    <3> QED BY <2>2, <2>5, <3>2, <3>3
  <2>6. CASE got # Round
    <3>1. OneLine({"question"})
      BY <2>2, <2>4, <2>6 DEF OneLine, Longer
    <3> QED BY <2>2, <2>6, <3>1
  <2> QED BY <2>5, <2>6
<1> QED BY <1>4, <1>5

LEMMA FinishesIs ==
  ASSUME TypeOK, HubOK, Finishes
  PROVE  /\ told' = told
         /\ \/ Silent /\ call' = NoCall
            \/ OneLine({"proposal"}) /\ call' = NoCall
            \/ OneLine({"outcome"}) /\ call' = [call EXCEPT !.pc = "finished"]
<1>1. /\ Draft(Interviewer, 0, "") \in Entry /\ Draft(Interviewer, 0, "").kind = "proposal"
      /\ Outcome(Interviewer) \in Entry /\ Outcome(Interviewer).kind = "outcome"
  BY EntryIs DEF Providers
<1>2. CASE ~Finishable
  BY <1>2, SameLog DEF Finishes, Silent
<1>3. CASE Finishable /\ setup.challengers # {}
  BY <1>1, <1>3, SaysIs DEF Finishes
<1>4. CASE Finishable /\ setup.challengers = {}
  BY <1>1, <1>4, SaysIs DEF Finishes
<1> QED BY <1>2, <1>3, <1>4

LEMMA MemberSpeaksIs ==
  ASSUME TypeOK, HubOK, MemberSpeaks
  PROVE  /\ told' = told
         /\ \E m \in panel.todo : /\ OneLine({"proposal"})
                                  /\ log'[Len(log) + 1].by = m /\ log'[Len(log) + 1].round = panel.round
<1>1. PICK m \in panel.todo :
        \E e \in {""} \cup (IF panel.round = 0 THEN {} ELSE Holders \ {m}) : Says(Draft(m, panel.round, e))
  BY DEF MemberSpeaks
<1>2. PICK e \in {""} \cup Holders : Says(Draft(m, panel.round, e))
  BY <1>1
<1>3. m \in Providers /\ e \in Providers \cup {""} /\ panel.round \in Nat
  BY PanelIs DEF HubOK, PanelType
<1> DEFINE d == Draft(m, panel.round, e)
<1>4. d \in Entry /\ d.kind = "proposal"
  BY <1>3, EntryIs
<1>5. d.by = m /\ d.round = panel.round
  BY DEF Draft
<1> HIDE DEF d
<1>6. OneLine({"proposal"}) /\ log'[Len(log) + 1] = d
  <2>1. Says(d)
    BY <1>2 DEF d
  <2> QED BY <1>4, <2>1, SaysIs, SaysMore
<1> QED BY <1>5, <1>6 DEF MemberSpeaks

LEMMA PanelRulesIs ==
  ASSUME TypeOK, HubOK, PanelRules
  PROVE  /\ told' = told
         /\ \/ UNCHANGED log /\ (turn'.pc = "ruled" => state = "running" /\ Holders # {})
            \/ OneLine({"outcome"})
<1>1. CASE state # "running" \/ Decided
  BY <1>1, NothingIs DEF PanelRules, Over
<1>2. CASE state = "running" /\ ~Decided /\ Holders = {}
  BY <1>2, NothingIs DEF PanelRules, Over
<1>3. CASE state = "running" /\ ~Decided /\ Holders # {}
  <2>1. CASE Winners = {}
    BY <1>3, <2>1 DEF PanelRules
  <2>2. CASE Winners # {}
    <3>1. PICK w \in Winners : Says(Outcome(w))
      BY <1>3, <2>2 DEF PanelRules
    <3>2. Outcome(w) \in Entry /\ Outcome(w).kind = "outcome"
      BY PanelIs, EntryIs
    <3> QED BY <3>1, <3>2, SaysIs DEF PanelRules
  <2> QED BY <2>1, <2>2
<1> QED BY <1>1, <1>2, <1>3

\* What the requests and the user's choice write.
LEMMA RequestsWrite ==
  ASSUME TypeOK, HubOK
  PROVE  /\ Message => \/ req.seen = "running" /\ OneLine({"interjection"}) /\ req' = NoReq
                       \/ Silent /\ req' = NoReq
                       \/ req.seen # "running" /\ OneLine({"answer"}) /\ req'.pc = "move"
         /\ RoundForm => Silent /\ (req' = NoReq \/ req'.pc \in {"close", "move"})
         /\ Closes => OneLine({"answer"}) /\ req'.pc = "move"
         /\ AcceptPending => \/ Silent /\ (req' = NoReq \/ req'.pc = "close")
                             \/ OneLine({"answer"}) /\ req'.pc = "move"
         /\ Chooses => OneLine({"outcome"})
<1>1. \A pc : Goes(pc) => req'.pc = pc
  BY DEF HubOK, ReqType, Goes
<1>2. req.stopped \in BOOLEAN
  BY DEF HubOK, ReqType
<1>3. /\ \A s \in BOOLEAN : Answer(s) \in Entry /\ Answer(s).kind = "answer"
      /\ [kind |-> "interjection"] \in Entry
  BY EntryIs
<1>4. ASSUME NEW s \in BOOLEAN, Says(Answer(s)) PROVE OneLine({"answer"})
  BY <1>3, <1>4, SaysIs
<1>5. ASSUME Says([kind |-> "interjection"]) PROVE OneLine({"interjection"})
  BY <1>3, <1>5, SaysIs
<1>6. ASSUME UNCHANGED log PROVE Silent
  BY <1>6, SameLog DEF Silent
<1>7. ASSUME Trailing # 0, NEW in \in SUBSET Round,
             log' = [log EXCEPT ![Trailing].got = @ \cup in]
      PROVE  Silent
  <2>1. Trailing \in 1..Len(log) /\ log[Trailing].kind = "question" /\ log[Trailing] \in Question
    BY <1>7, TrailingIs
  <2> DEFINE got  == log[Trailing].got \cup in
             more == [log EXCEPT ![Trailing].got = got]
  <2>2. got \in SUBSET Round /\ log' = more
    BY <1>7, <2>1 DEF Question
  <2> HIDE DEF got
  <2>3. /\ more \in Seq(Entry) /\ Len(more) = Len(log)
        /\ \A j \in 1..Len(log) : more[j].kind = log[j].kind /\ (Speaks(more[j]) <=> Speaks(log[j]))
    BY <2>1, <2>2, GotMore
  <2> HIDE DEF more
  <2>4. Len(log) \in Nat /\ Len(log) + 0 = Len(log)
    BY LogIs
  <2> QED BY <2>2, <2>3, <2>4 DEF Silent, Longer
<1>8. Message => \/ req.seen = "running" /\ OneLine({"interjection"}) /\ req' = NoReq
                 \/ Silent /\ req' = NoReq
                 \/ req.seen # "running" /\ OneLine({"answer"}) /\ req'.pc = "move"
  BY <1>1, <1>2, <1>4, <1>5, <1>6 DEF Message, Done
<1>9. RoundForm => Silent /\ (req' = NoReq \/ req'.pc \in {"close", "move"})
  <2> SUFFICES ASSUME RoundForm PROVE Silent /\ (req' = NoReq \/ req'.pc \in {"close", "move"})
    OBVIOUS
  <2>1. CASE ~OpenRound
    BY <2>1, <1>6 DEF RoundForm, Done
  <2>2. CASE OpenRound
    <3>1. PICK in \in SUBSET (Round \ log[Trailing].got) \ {{}} :
            /\ log' = [log EXCEPT ![Trailing].got = @ \cup in]
            /\ IF log[Trailing].got \cup in = Round THEN Goes("close") ELSE IF Spawns THEN Goes("move") ELSE Done
      BY <2>2 DEF RoundForm
    <3>2. in \in SUBSET Round /\ Trailing # 0
      BY <2>2 DEF OpenRound
    <3>3. Silent
      BY <1>7, <3>1, <3>2
    <3> QED BY <1>1, <3>1, <3>3 DEF Done
  <2> QED BY <2>1, <2>2
<1>10. Closes => OneLine({"answer"}) /\ req'.pc = "move"
  BY <1>1, <1>4 DEF Closes
<1>11. AcceptPending => \/ Silent /\ (req' = NoReq \/ req'.pc = "close")
                        \/ OneLine({"answer"}) /\ req'.pc = "move"
  <2> SUFFICES ASSUME AcceptPending
               PROVE  \/ Silent /\ (req' = NoReq \/ req'.pc = "close")
                      \/ OneLine({"answer"}) /\ req'.pc = "move"
    OBVIOUS
  <2>1. CASE Trailing = 0
    BY <2>1, <1>6 DEF AcceptPending, Done
  <2>2. CASE Trailing # 0 /\ IsRound(log[Trailing])
    <3>1. log[Trailing].rec \in SUBSET Round
      BY <2>2, TrailingIs DEF Question
    <3>2. /\ log' = [log EXCEPT ![Trailing].got = @ \cup log[Trailing].rec]
          /\ Goes("close") \/ Done
      BY <2>2 DEF AcceptPending
    <3>3. Silent
      BY <1>7, <2>2, <3>1, <3>2
    <3> QED BY <1>1, <3>2, <3>3 DEF Done
  <2>3. CASE Trailing # 0 /\ ~IsRound(log[Trailing])
    BY <1>1, <1>2, <1>4, <1>6, <2>3 DEF AcceptPending, Done
  <2> QED BY <2>1, <2>2, <2>3
<1>12. Chooses => OneLine({"outcome"})
  <2> SUFFICES ASSUME NEW m \in Holders, Says(Outcome(m)) PROVE OneLine({"outcome"})
    BY DEF Chooses
  <2>1. Outcome(m) \in Entry /\ Outcome(m).kind = "outcome"
    BY PanelIs, EntryIs
  <2> QED BY <2>1, SaysIs
<1> QED BY <1>8, <1>9, <1>10, <1>11, <1>12

\* An answer is a line of a request that is due, or of a hub that answers for the user
\* and tells the caller.
Answered ==
  AnswerDue /\ OneLine({"answer"}) /\ req'.pc = "move" /\ UNCHANGED <<session, told, turn, tail, call>>

SelfAnswered ==
  /\ call.pc = "pose" /\ call' = NoCall /\ UNCHANGED <<session, turn, tail, req>>
  /\ \/ TwoLines /\ Tells(Len(log) + 2)
     \/ OneLine({"answer"}) /\ Tells(Len(log) + 1)

Others == {"question", "proposal", "interjection", "outcome"}

LEMMA TranscriptGrows ==
  ASSUME TypeOK, HubOK, Next
  PROVE  Silent \/ OneLine(Others) \/ Answered \/ SelfAnswered
<1>1. ASSUME UNCHANGED log PROVE Silent
  BY <1>1, SameLog DEF Silent
<1>2. ASSUME NEW kinds \in SUBSET Others, OneLine(kinds) PROVE OneLine(Others)
  BY <1>2 DEF OneLine
<1>3. CASE ATurn
  BY <1>1, <1>3 DEF ATurn, Spawn, Unready, ChildExits, TimesOut, Reconcile, TurnEnds, GoesOn, talk
<1>4. CASE ACall
  <2>1. CASE Heeds \/ Asks \/ Proposes \/ Waits \/ Returns \/ Idles \/ Drops \/ Finished
    BY <1>1, <2>1 DEF Heeds, Asks, Proposes, Waits, Returns, Idles, Drops, Finished, talk
  <2>2. CASE PoseQuestion
    <3>1. CASE TwoLines /\ Tells(Len(log) + 2) /\ call' = NoCall
      BY <2>2, <3>1 DEF PoseQuestion, SelfAnswered
    <3> QED BY <1>2, <2>2, <3>1, PoseQuestionIs DEF Others
  <2>3. CASE PoseRound
    <3>1. CASE \/ TwoLines /\ Tells(Len(log) + 2) /\ call' = NoCall
               \/ OneLine({"answer"}) /\ Tells(Len(log) + 1) /\ call' = NoCall
      BY <2>3, <3>1 DEF PoseRound, SelfAnswered
    <3> QED BY <1>2, <2>3, <3>1, PoseRoundIs DEF Others
  <2>4. CASE Finishes
    BY <1>2, <2>4, FinishesIs DEF Others
  <2> QED BY <1>4, <2>1, <2>2, <2>3, <2>4 DEF ACall
<1>5. CASE APanel
  <2>1. CASE MemberSpeaks
    BY <1>2, <2>1, MemberSpeaksIs DEF Others
  <2>2. CASE PanelRules
    BY <1>1, <1>2, <2>2, PanelRulesIs DEF Others
  <2>3. CASE MemberDrops \/ NextRound \/ PanelEnds \/ PanelUnready
    BY <1>1, <2>3 DEF MemberDrops, NextRound, PanelEnds, PanelUnready, talk
  <2> QED BY <1>5, <2>1, <2>2, <2>3 DEF APanel
<1>6. CASE ARequest
  <2>1. CASE Message
    BY <1>2, <2>1, RequestsWrite DEF Message, Others, Answered, AnswerDue
  <2>2. CASE RoundForm \/ Closes \/ AcceptPending
    BY <2>2, RequestsWrite DEF Closes, AcceptPending, Answered, AnswerDue
  <2>3. CASE (\E k \in Kinds : Request(k)) \/ AutoSet \/ Moves \/ Launches \/ PutsDown \/ Silences \/ Kills
    BY <1>1, <2>3 DEF Request, AutoSet, Moves, Launches, PutsDown, Silences, Kills, talk
  <2> QED BY <1>6, <2>1, <2>2, <2>3 DEF ARequest
<1>7. CASE AWorld
  <2>1. CASE Chooses
    BY <1>2, <2>1, RequestsWrite DEF Others
  <2>2. CASE Applies \/ Retires \/ HubDies
    BY <1>1, <2>2 DEF Applies, Retires, HubDies, talk
  <2> QED BY <1>7, <2>1, <2>2 DEF AWorld
<1> QED BY <1>3, <1>4, <1>5, <1>6, <1>7 DEF Next

-----------------------------------------------------------------------------
(* The types *)

LEMMA ToldGrows ==
  ASSUME TypeOK, HubOK, Next
  PROVE  told \subseteq told' /\ told' \subseteq Nat /\ cursor' \in Nat
<1>1. /\ Len(log) + 1 \in Nat /\ Len(log) + 2 \in Nat /\ told \subseteq Nat /\ cursor \in Nat
      /\ Answers # {} => Highest(Answers) \in Nat
      /\ Pending # {} => Highest(Pending) \in Nat
      /\ Answers \subseteq Nat
  <2>1. Len(log) \in Nat /\ Answers \subseteq 1..Len(log) /\ Pending \subseteq 1..Len(log)
    BY LogIs
  <2>2. /\ Answers # {} => Highest(Answers) \in Answers
        /\ Pending # {} => Highest(Pending) \in Pending
    BY <2>1, HighestIn
  <2>3. told \subseteq Nat /\ cursor \in Nat
    BY DEF TypeOK
  <2>4. 1..Len(log) \subseteq Nat /\ Len(log) + 1 \in Nat /\ Len(log) + 2 \in Nat
    BY <2>1
  <2> QED BY <2>1, <2>2, <2>3, <2>4
<1>2. ASSUME NEW n \in Nat, Tells(n) PROVE told \subseteq told' /\ told' \subseteq Nat
  BY <1>1, <1>2 DEF Tells
<1>3. ASSUME UNCHANGED told PROVE told \subseteq told' /\ told' \subseteq Nat
  BY <1>1, <1>3
<1>4. ASSUME UNCHANGED cursor PROVE cursor' \in Nat
  BY <1>1, <1>4
<1>5. CASE Spawn
  <2> DEFINE steer  == chain /\ Pending # {}
             latest == turn.by = "" /\ ~(OpenRound /\ log[Trailing].got # {}) /\ Answers # {}
             more   == IF steer \/ ~chain THEN Answers ELSE IF latest THEN {Highest(Answers)} ELSE {}
  <2>1. cursor' = (IF steer THEN Highest(Pending) ELSE cursor) /\ told' = told \cup more
    BY <1>5 DEF Spawn, Prompt
  <2>2. more \subseteq Nat
    BY <1>1
  <2>3. cursor' \in Nat
    BY <1>1, <2>1
  <2> HIDE DEF more
  <2> QED BY <1>1, <2>1, <2>2, <2>3
<1>6. CASE Returns
  <2> DEFINE first == CHOOSE i \in After(call.at) : \A j \in After(call.at) : i <= j
  <2>1. UNCHANGED told \/ (After(call.at) # {} /\ Tells(first))
    BY <1>6 DEF Returns
  <2>2. ASSUME After(call.at) # {} PROVE first \in Nat
    <3>1. After(call.at) \subseteq Nat
      BY <1>1 DEF After
    <3>2. \E i \in After(call.at) : \A j \in After(call.at) : i <= j
      BY <2>2, <3>1, LeastIs
    <3> QED BY <3>1, <3>2
  <2>3. UNCHANGED cursor
    BY <1>6 DEF Returns
  <2> HIDE DEF first
  <2> QED BY <1>2, <1>3, <1>4, <2>1, <2>2, <2>3
<1>7. CASE Heeds
  BY <1>1, <1>3, <1>7 DEF Heeds
<1>8. CASE PoseQuestion
  <2>1. UNCHANGED told \/ Tells(Len(log) + 2)
    BY <1>8, PoseQuestionIs
  <2> QED BY <1>1, <1>2, <1>3, <1>4, <1>8, <2>1 DEF PoseQuestion
<1>9. CASE PoseRound
  <2>1. UNCHANGED told \/ Tells(Len(log) + 1) \/ Tells(Len(log) + 2)
    BY <1>9, PoseRoundIs
  <2> QED BY <1>1, <1>2, <1>3, <1>4, <1>9, <2>1 DEF PoseRound
<1>10. CASE ATurn /\ ~Spawn
  BY <1>3, <1>4, <1>10 DEF ATurn, Unready, ChildExits, TimesOut, Reconcile, TurnEnds, GoesOn, talk
<1>11. CASE Asks \/ Proposes \/ Waits \/ Idles \/ Drops \/ Finishes \/ Finished
  BY <1>3, <1>4, <1>11 DEF Asks, Proposes, Waits, Idles, Drops, Finishes, Finished, talk
<1>12. CASE APanel
  BY <1>3, <1>4, <1>12 DEF APanel, MemberSpeaks, MemberDrops, NextRound, PanelRules, PanelEnds, PanelUnready, talk
<1>13. CASE ARequest
  BY <1>3, <1>4, <1>13
  DEF ARequest, Request, Message, RoundForm, Closes, AutoSet, AcceptPending, Moves, Launches, PutsDown,
      Silences, Kills, talk
<1>14. CASE AWorld
  BY <1>3, <1>4, <1>14 DEF AWorld, Chooses, Applies, Retires, HubDies, talk
<1> QED BY <1>5, <1>6, <1>7, <1>8, <1>9, <1>10, <1>11, <1>12, <1>13, <1>14 DEF Next, ACall

LEMMA TypesKept ==
  ASSUME TypeOK, HubOK, Next
  PROVE  TypeOK' /\ HubOK'
<1>1. log' \in Seq(Entry)
  <2>1. \/ Longer(0) \/ Longer(1) \/ Longer(2)
    BY TranscriptGrows DEF Silent, OneLine, Answered, SelfAnswered, TwoLines
  <2> QED BY <2>1 DEF Longer
<1>2. cursor' \in Nat /\ told' \subseteq Nat
  BY ToldGrows
<1>3. setup' = setup
  BY DEF Next, ATurn, ACall, APanel, ARequest, AWorld, Spawn, Unready, ChildExits, TimesOut, Reconcile,
     TurnEnds, GoesOn, Heeds, Asks, Proposes, PoseQuestion, PoseRound, Waits, Returns, Idles, Drops,
     Finishes, Finished, MemberSpeaks, MemberDrops, NextRound, PanelRules, PanelEnds, PanelUnready,
     Request, Message, RoundForm, Closes, AutoSet, AcceptPending, Moves, Launches, PutsDown, Silences,
     Kills, Chooses, Applies, Retires, HubDies
<1>4. SessionOK' /\ HubOK'
  BY TurnTypes, CallTypes, PanelTypes, RequestTypes, WorldTypes DEF Next
<1>5. chain' \in BOOLEAN /\ auto' \in BOOLEAN
  <2>0. chain \in BOOLEAN /\ auto \in BOOLEAN
    BY DEF TypeOK
  <2>1. CASE ATurn
    <3>1. auto' = auto
      BY <2>1 DEF ATurn, Spawn, Unready, ChildExits, TimesOut, Reconcile, TurnEnds, GoesOn
    <3> QED BY <2>0, <2>1, <3>1, TurnTypes
  <2>2. CASE ARequest
    <3>1. chain' = chain
      BY <2>2
      DEF ARequest, Request, Message, RoundForm, Closes, AutoSet, AcceptPending, Moves, Launches, PutsDown,
          Silences, Kills
    <3> QED BY <2>0, <2>2, <3>1, RequestTypes
  <2>3. CASE ACall \/ APanel \/ AWorld
    <3>1. chain' = chain /\ auto' = auto
      BY <2>3
      DEF ACall, APanel, AWorld, Heeds, Asks, Proposes, PoseQuestion, PoseRound, Waits, Returns, Idles,
          Drops, Finishes, Finished, MemberSpeaks, MemberDrops, NextRound, PanelRules, PanelEnds,
          PanelUnready, Chooses, Applies, Retires, HubDies
    <3> QED BY <2>0, <3>1
  <2> QED BY <2>1, <2>2, <2>3 DEF Next
<1>6. setup' \in Setups
  BY <1>3 DEF TypeOK
<1> QED BY <1>1, <1>2, <1>4, <1>5, <1>6 DEF TypeOK, SessionOK

LEMMA TypesStart ==
  ASSUME Init
  PROVE  TypeOK /\ HubOK
<1>1. setup.ahead \in BOOLEAN
  BY SetupAssumption DEF Init
<1>2. HubOK
  BY <1>1, NothingIs DEF Init, HubOK, NoTurn, TurnType
<1>3. TypeOK
  <2>1. <<>> \in Seq(Entry) /\ {} \subseteq Nat /\ 0 \in Nat
    OBVIOUS
  <2> QED BY <2>1 DEF Init, TypeOK, States, Reasons
<1> QED BY <1>2, <1>3

LEMMA TypesStutter ==
  ASSUME TypeOK, HubOK, UNCHANGED vars
  PROVE  TypeOK' /\ HubOK'
BY DEF vars, session, talk, hub, TypeOK, HubOK

\* Whatever the users, the world and the agents do, a session's values stay in their
\* ranges: the transcript holds whole entries and no other, the numbers the prompts
\* are made from name entries, and no call, request or panel is in a state its
\* handler does not know.
THEOREM TalkTyped == Spec => []TypeOK
<1>1. Init => TypeOK /\ HubOK
  BY TypesStart
<1>2. TypeOK /\ HubOK /\ [Next]_vars => (TypeOK /\ HubOK)'
  BY TypesKept, TypesStutter
<1> QED BY <1>1, <1>2, PTL DEF Spec

-----------------------------------------------------------------------------
(* A stop stands *)

LEMMA StopSteps ==
  ASSUME SessionOK, Next, Stopped, ~Stopped'
  PROVE  \/ state' = "running" /\ req.pc \in {"move", "resume"}
         \/ state' \in {"finished", "abandoned"}
<1>1. state = "parked" /\ reason = "stopped" /\ state \in States
  BY DEF Stopped, SessionOK
<1>2. ASSUME UNCHANGED session PROVE FALSE
  BY <1>2 DEF Stopped, session
<1>3. ASSUME NEW r, Transition("parked", r) PROVE FALSE
  BY <1>1, <1>3, TransitionIs, MayIs DEF Stopped
<1>4. CASE ATurn
  <2>1. CASE Reconcile
    BY <1>2, <2>1, ReconcileIs
  <2>2. CASE Unready
    BY <1>3, <2>2 DEF Unready
  <2> QED BY <1>2, <1>4, <2>1, <2>2 DEF ATurn, Spawn, ChildExits, TimesOut, TurnEnds, GoesOn
<1>5. CASE ACall
  <2>1. CASE Waits
    <3>1. Transition("waiting", "")
      BY <2>1 DEF Waits
    <3> QED BY <1>1, <3>1, TransitionIs, MayIs DEF Stopped
  <2>2. CASE Idles
    BY <1>3, <2>2 DEF Idles
  <2>3. CASE Finished
    <3>1. Transition("finished", "")
      BY <2>3 DEF Finished
    <3> QED BY <1>1, <3>1, TransitionIs, MayIs
  <2> QED BY <1>2, <1>5, <2>1, <2>2, <2>3
      DEF ACall, Heeds, Asks, Proposes, PoseQuestion, PoseRound, Returns, Drops, Finishes
<1>6. CASE APanel
  <2>1. CASE PanelRules
    BY <1>1, <1>2, <2>1 DEF PanelRules
  <2>2. CASE PanelEnds
    <3>1. Transition("finished", "")
      BY <2>2 DEF PanelEnds
    <3> QED BY <1>1, <3>1, TransitionIs, MayIs
  <2>3. CASE PanelUnready
    BY <1>3, <2>3 DEF PanelUnready
  <2> QED BY <1>2, <1>6, <2>1, <2>2, <2>3 DEF APanel, MemberSpeaks, MemberDrops, NextRound
<1>7. CASE ARequest
  <2>1. CASE Moves
    <3>1. Transition("running", "") /\ req.pc \in {"move", "resume"}
      BY <2>1 DEF Moves
    <3> QED BY <1>1, <3>1, TransitionIs, MayIs
  <2>2. CASE PutsDown
    <3>1. \/ UNCHANGED session
          \/ Transition("parked", "stopped") \/ Transition("abandoned", "")
      BY <2>2 DEF PutsDown
    <3>2. CASE Transition("abandoned", "")
      BY <1>1, <3>2, TransitionIs, MayIs
    <3> QED BY <1>2, <1>3, <3>1, <3>2
  <2> QED BY <1>2, <1>7, <2>1, <2>2
      DEF ARequest, Request, Message, RoundForm, Closes, AutoSet, AcceptPending, Launches, Silences, Kills
<1>8. CASE AWorld
  <2>1. CASE Retires
    BY <2>1 DEF Retires, Becomes
  <2>2. CASE HubDies
    BY <1>1, <2>2 DEF HubDies, Stopped
  <2> QED BY <1>1, <1>2, <1>8, <2>1, <2>2 DEF AWorld, Chooses, Applies
<1> QED BY <1>4, <1>5, <1>6, <1>7, <1>8 DEF Next

\* A stop stands, whatever the killed turn leaves, whatever the turn that was about to
\* start finds, and whoever else parks, waits or idles: only the user's own move, an
\* outcome that was on its way, or the end of the session replaces it.
THEOREM StopKept == Spec => StopStands
<1>1. Init => TypeOK /\ HubOK
  BY TypesStart
<1>2. TypeOK /\ HubOK /\ [Next]_vars => (TypeOK /\ HubOK)'
  BY TypesKept, TypesStutter
<1> DEFINE Lifted == Stopped /\ ~Stopped' =>
                       \/ state' = "running" /\ req.pc \in {"move", "resume"}
                       \/ state' \in {"finished", "abandoned"}
<1>3. TypeOK /\ [Next]_vars => [Lifted]_vars
  BY StopSteps DEF TypeOK, SessionOK
<1> QED BY <1>1, <1>2, <1>3, PTL DEF Spec, StopStands

-----------------------------------------------------------------------------
(* What a step leaves of the session, the transcript and the callers *)

LEMMA SessionSteps ==
  ASSUME SessionOK, Next
  PROVE  /\ Dead => Dead'
         /\ state' = "running" => state = "running" \/ Moves
         /\ state' = "finished" => state = "finished" \/ Finished \/ PanelEnds
<1> DEFINE Goal == /\ Dead => Dead'
                   /\ state' = "running" => state = "running" \/ Moves
                   /\ state' = "finished" => state = "finished" \/ Finished \/ PanelEnds
<1>0. state \in States
  BY DEF SessionOK
<1>1. ASSUME state' = state PROVE Goal
  BY <1>1 DEF Dead
<1>2. ASSUME NEW s \in States, NEW r, Transition(s, r) PROVE /\ Dead => Dead'
                                                             /\ state' \in {state, s}
  BY <1>0, <1>2, TransitionIs, MayIs DEF Dead, States
<1>3. ASSUME NEW s \in {"waiting", "parked", "stalled", "applied", "abandoned"}, NEW r, Transition(s, r)
      PROVE  Goal
  <2>1. s \in States
    BY DEF States
  <2> QED BY <1>2, <1>3, <2>1
<1>4. {"running", "finished"} \subseteq States
  BY DEF States
<1> SUFFICES Goal
  OBVIOUS
<1> HIDE DEF Goal
<1>5. CASE Spawn \/ ChildExits \/ TimesOut \/ TurnEnds \/ GoesOn
  BY <1>1, <1>5 DEF Spawn, ChildExits, TimesOut, TurnEnds, GoesOn, session
<1>6. CASE Unready \/ Reconcile \/ Waits \/ Idles \/ PanelUnready
  BY <1>1, <1>3, <1>6, ReconcileIs DEF Unready, Waits, Idles, PanelUnready, session
<1>7. CASE Heeds \/ Asks \/ Proposes \/ PoseQuestion \/ PoseRound \/ Returns \/ Drops \/ Finishes
  BY <1>1, <1>7 DEF Heeds, Asks, Proposes, PoseQuestion, PoseRound, Returns, Drops, Finishes, session
<1>8. CASE Finished \/ PanelEnds
  <2>1. Transition("finished", "")
    BY <1>8 DEF Finished, PanelEnds
  <2> QED BY <1>2, <1>4, <1>8, <2>1 DEF Goal
<1>9. CASE MemberSpeaks \/ MemberDrops \/ NextRound \/ PanelRules
  BY <1>1, <1>3, <1>9 DEF MemberSpeaks, MemberDrops, NextRound, PanelRules, session
<1>10. CASE Moves
  <2>1. Transition("running", "")
    BY <1>10 DEF Moves
  <2> QED BY <1>2, <1>4, <1>10, <2>1 DEF Goal
<1>11. CASE PutsDown
  <2>1. UNCHANGED session \/ Transition("parked", "stopped") \/ Transition("abandoned", "")
    BY <1>11 DEF PutsDown
  <2> QED BY <1>1, <1>3, <2>1 DEF session
<1>12. CASE \/ \E k \in Kinds : Request(k)
            \/ Message \/ RoundForm \/ Closes \/ AutoSet \/ AcceptPending \/ Launches \/ Silences \/ Kills
  BY <1>1, <1>12 DEF Request, Message, RoundForm, Closes, AutoSet, AcceptPending, Launches, Silences, Kills, session
<1>13. CASE Chooses \/ Applies \/ HubDies
  BY <1>1, <1>3, <1>13 DEF Chooses, Applies, HubDies, session
<1>14. CASE Retires
  BY <1>14 DEF Retires, Becomes, Dead, Goal
<1> QED BY <1>5, <1>6, <1>7, <1>8, <1>9, <1>10, <1>11, <1>12, <1>13, <1>14
        DEF Next, ATurn, ACall, APanel, ARequest, AWorld

LEMMA TwoNewLines ==
  ASSUME TypeOK, TwoLines
  PROVE  LET n == Len(log)
         IN  /\ DOMAIN log' = DOMAIN log \cup {n + 1, n + 2}
             /\ Answers' = Answers \cup {n + 2} /\ Decisions' = Decisions
<1>1. DOMAIN log' = 1..Len(log) + 2 /\ DOMAIN log = 1..Len(log) /\ Len(log) \in Nat
  BY LogIs, LenProperties DEF Longer, TwoLines
<1>2. \A i \in 1..Len(log) + 2 : i \in 1..Len(log) \/ i = Len(log) + 1 \/ i = Len(log) + 2
  BY <1>1
<1> QED BY <1>1, <1>2 DEF Longer, TwoLines, Answers, Decisions, Of

LEMMA Keeps ==
  ASSUME TypeOK, HubOK, Next
  PROVE  /\ Len(log) \in Nat /\ Len(log') \in Nat /\ Len(log) <= Len(log')
         /\ DOMAIN log = 1..Len(log) /\ DOMAIN log' = 1..Len(log')
         /\ \A i \in 1..Len(log) : log'[i].kind = log[i].kind /\ (Speaks(log'[i]) <=> Speaks(log[i]))
         /\ \A i \in 1..Len(log) : i \in Answers' <=> i \in Answers
         /\ Answers \subseteq 1..Len(log) /\ Answers' \subseteq 1..Len(log')
         /\ Decisions \subseteq Decisions'
<1>1. Longer(0) \/ Longer(1) \/ Longer(2)
  BY TranscriptGrows DEF Silent, OneLine, Answered, SelfAnswered, TwoLines
<1>2. /\ Len(log) \in Nat /\ DOMAIN log = 1..Len(log) /\ Answers \subseteq 1..Len(log)
      /\ Decisions \subseteq 1..Len(log)
  BY LogIs
<1>3. log' \in Seq(Entry) /\ (Len(log') = Len(log) \/ Len(log') = Len(log) + 1 \/ Len(log') = Len(log) + 2)
  BY <1>1, <1>2 DEF Longer
<1>4. Len(log') \in Nat /\ DOMAIN log' = 1..Len(log') /\ Len(log) <= Len(log')
  BY <1>2, <1>3, LenProperties
<1>5. \A i \in 1..Len(log) : log'[i].kind = log[i].kind /\ (Speaks(log'[i]) <=> Speaks(log[i]))
  BY <1>1 DEF Longer
<1>6. \A i \in 1..Len(log) : i \in DOMAIN log' /\ i \in DOMAIN log
  BY <1>2, <1>4
<1>7. \A i \in 1..Len(log) : i \in Answers' <=> i \in Answers
  BY <1>5, <1>6 DEF Answers, Of
<1>8. Answers' \subseteq 1..Len(log')
  BY <1>4 DEF Answers, Of
<1>9. Decisions \subseteq Decisions'
  BY <1>2, <1>5, <1>6 DEF Decisions, Of
<1> QED BY <1>2, <1>4, <1>5, <1>7, <1>8, <1>9

LEMMA AnswersGrow ==
  ASSUME TypeOK, HubOK, Next
  PROVE  \/ Answers' = Answers
         \/ Answered /\ Answers' = Answers \cup {Len(log) + 1} /\ Len(log') = Len(log) + 1
         \/ /\ SelfAnswered
            /\ \E n \in {Len(log) + 1, Len(log) + 2} : Answers' = Answers \cup {n} /\ Tells(n)
<1>1. CASE Silent
  BY <1>1, NoNewLine DEF Silent
<1>2. CASE OneLine(Others)
  BY <1>2, NewLine DEF OneLine, Others
<1>3. CASE Answered
  BY <1>3, NewLine DEF Answered, OneLine, Longer
<1>4. CASE SelfAnswered
  <2>1. CASE TwoLines /\ Tells(Len(log) + 2)
    BY <1>4, <2>1, TwoNewLines
  <2>2. CASE OneLine({"answer"}) /\ Tells(Len(log) + 1)
    BY <1>4, <2>2, NewLine DEF OneLine
  <2> QED BY <1>4, <2>1, <2>2 DEF SelfAnswered
<1> QED BY <1>1, <1>2, <1>3, <1>4, TranscriptGrows

\* Steps that leave the interviewer's call and its turn's process as they are.
SameCaller == call' = call /\ turn'.pc = turn.pc /\ turn'.ahead = turn.ahead

LEMMA CallersSteps ==
  ASSUME HubOK, CallersOK, "hasty" \notin Gestures, Next
  PROVE  CallersOK'
<1> USE DEF HubOK
<1>1. ASSUME SameCaller PROVE CallersOK'
  BY <1>1 DEF SameCaller, CallersOK
<1>2. ASSUME call'.pc = "idle" PROVE CallersOK'
  BY <1>2 DEF CallersOK
<1>3. CASE Spawn \/ Reconcile \/ GoesOn
  BY <1>2, <1>3 DEF Spawn, Reconcile, GoesOn, Quiet
<1>4. CASE Unready \/ TimesOut \/ TurnEnds
  BY <1>2, <1>4 DEF Unready, TimesOut, TurnEnds, CallersOK
<1>5. CASE ChildExits
  <2>1. turn'.pc = "gone" /\ (call'.pc = "idle" \/ (call'.pc \notin {"idle", "held"} /\ call'.live = FALSE))
    BY <1>5, NothingIs DEF ChildExits, CallType, TurnType
  <2> QED BY <2>1 DEF CallersOK
<1>6. CASE Heeds \/ Drops \/ Idles \/ Returns
  BY <1>1, <1>2, <1>6, NothingIs DEF Heeds, Drops, Idles, Returns, hub, SameCaller
<1>7. CASE Asks \/ Proposes
  <2>1. turn' = turn /\ turn.pc = "child" /\ call'.live = TRUE /\ call'.pc # "held"
    BY <1>7 DEF Asks, Proposes, Calls, Calling, NoCall
  <2> QED BY <2>1 DEF CallersOK
<1>8. CASE PoseQuestion \/ PoseRound \/ Waits \/ Finishes
  <2>1. /\ turn' = turn /\ call.pc # "idle"
        /\ \/ call' = NoCall
           \/ \E at : call' = Held(at)
           \/ \E at : call' = [call EXCEPT !.pc = "wait", !.at = at]
           \/ call' = [call EXCEPT !.pc = "finished"]
    BY <1>8 DEF PoseQuestion, PoseRound, Waits, Finishes
  <2>2. \/ call'.pc = "idle"
        \/ call'.live = call.live /\ (call'.pc = "held" => call.live \/ turn.ahead)
    BY <2>1, NothingIs DEF Held, CallType
  <2> QED BY <1>2, <2>1, <2>2 DEF CallersOK
<1>9. CASE Finished
  BY <1>2, <1>9, NothingIs DEF Finished
<1>10. CASE APanel
  <2>1. call' = call /\ turn.pc \in {"panel", "ruled"}
    BY <1>10 DEF APanel, MemberSpeaks, MemberDrops, NextRound, PanelRules, PanelEnds, PanelUnready
  <2> QED BY <1>2, <2>1 DEF CallersOK
<1>11. CASE Launches
  BY <1>1, <1>2, <1>11 DEF Launches, Launched, Active, SameCaller, CallersOK
<1>12. CASE Kills
  BY <1>1, <1>12 DEF Kills, SameCaller, TurnType
<1>13. CASE \/ \E k \in Kinds : Request(k)
            \/ Message \/ RoundForm \/ Closes \/ AutoSet \/ AcceptPending \/ Moves \/ PutsDown \/ Silences
  BY <1>1, <1>13
  DEF Request, Message, RoundForm, Closes, AutoSet, AcceptPending, Moves, PutsDown, Silences, SameCaller
<1>14. CASE Chooses \/ Applies \/ Retires
  BY <1>1, <1>14 DEF Chooses, Applies, Retires, hub, SameCaller
<1>15. CASE HubDies
  BY <1>2, <1>15, NothingIs DEF HubDies
<1> QED BY <1>3, <1>4, <1>5, <1>6, <1>7, <1>8, <1>9, <1>10, <1>11, <1>12, <1>13, <1>14, <1>15
        DEF Next, ATurn, ACall, APanel, ARequest, AWorld

-----------------------------------------------------------------------------
(* Questions and the answers behind them *)

LEMMA CallIdleOK ==
  ASSUME call'.pc \notin {"wait", "held"}
  PROVE  QuestionsOK'
BY DEF QuestionsOK

\* A call that goes on waiting waits behind the same question; what lets an answer
\* stand behind it does not go away.
LEMMA CallWaitsOn ==
  ASSUME TypeOK, HubOK, QuestionsOK, Next,
         call'.pc = call.pc, call'.at = call.at, Answers' = Answers, turn'.ahead = turn.ahead,
         call.pc = "held" =>
           /\ turn.by = "user" => turn'.by = "user"
           /\ state' = "finished" => state = "finished"
           /\ state = "running" \/ req.pc \in {"move", "silence", "kill"} =>
                Dead' \/ turn'.by = "user" \/ state' = "running" \/ req'.pc \in {"move", "silence", "kill"}
  PROVE  QuestionsOK'
<1>1. Dead => Dead'
  BY SessionSteps DEF TypeOK, SessionOK
<1>2. call.pc \in {"wait", "held"} => call.at \in DOMAIN log' /\ log'[call.at].kind = "question"
  <2> SUFFICES ASSUME call.pc \in {"wait", "held"}
               PROVE  call.at \in DOMAIN log' /\ log'[call.at].kind = "question"
    OBVIOUS
  <2>1. call.at \in 1..Len(log) /\ log[call.at].kind = "question"
    BY Keeps DEF QuestionsOK
  <2>2. call.at \in 1..Len(log')
    BY <2>1, Keeps
  <2> QED BY <2>1, <2>2, Keeps
<1>3. \A n : After(n)' = After(n)
  BY DEF After
<1>4. After(call.at)' = After(call.at)
  BY <1>3 DEF After
<1> QED BY <1>1, <1>2, <1>4 DEF QuestionsOK

\* A question that ends the transcript has no answer behind it.
LEMMA NothingAfter ==
  ASSUME TypeOK, HubOK, Next, Answers' = Answers, NEW n \in Nat, Len(log) <= n,
         call'.at = n
  PROVE  After(call.at)' = {}
<1>1. \A i \in Answers : i \in 1..Len(log)
  BY LogIs
<1>2. \A i \in Answers : ~(i > n)
  BY <1>1, LogIs
<1> QED BY <1>2 DEF After

LEMMA QuestionsSteps ==
  ASSUME TypeOK, HubOK, CallersOK, QuestionsOK, AnswersOK, "hasty" \notin Gestures, Next
  PROVE  QuestionsOK'
<1>0. Dead => Dead'
  BY SessionSteps DEF TypeOK, SessionOK
<1>a. CASE Answered /\ Answers' = Answers \cup {Len(log) + 1} /\ Len(log') = Len(log) + 1
  <2>1. /\ call' = call /\ turn' = turn /\ state' = state /\ AnswerDue /\ req'.pc = "move"
        /\ Answers' = Answers \cup {Len(log) + 1}
    BY <1>a DEF Answered, session
  <2>2. call.pc \in {"wait", "held"} => call.at \in DOMAIN log' /\ log'[call.at].kind = "question"
    <3> SUFFICES ASSUME call.pc \in {"wait", "held"}
                 PROVE  call.at \in DOMAIN log' /\ log'[call.at].kind = "question"
      OBVIOUS
    <3>1. call.at \in 1..Len(log) /\ log[call.at].kind = "question"
      BY Keeps DEF QuestionsOK
    <3>2. call.at \in 1..Len(log')
      BY <3>1, Keeps
    <3> QED BY <3>1, <3>2, Keeps
  <2>3. call.pc = "wait" \/ (call.pc = "held" /\ turn.ahead) => Dead
    BY <2>1 DEF AnswersOK, Rests
  <2>4. After(call.at) = {} => \A i, j \in After(call.at)' : i = j
    <3> SUFFICES ASSUME After(call.at) = {}, NEW i \in Answers', i > call.at
                 PROVE  i = Len(log) + 1
      BY <2>1 DEF After
    <3>1. i \notin Answers
      BY DEF After
    <3> QED BY <2>1, <3>1
  <2>5. call.pc = "held" =>
          /\ state # "finished"
          /\ Dead \/ turn.by = "user" \/ After(call.at) = {}
    <3>1. state # "running" /\ req.pc \notin {"move", "silence", "kill"}
      BY <2>1 DEF AnswersOK, AnswerDue
    <3> QED BY <3>1 DEF QuestionsOK
  <2> QED BY <2>1, <2>2, <2>3, <2>4, <2>5 DEF QuestionsOK, Dead
<1>b. CASE SelfAnswered
  BY <1>b, CallIdleOK, NothingIs DEF SelfAnswered
<1>c. CASE Answers' = Answers
  <2> USE <1>c
  <2>1. CASE Spawn \/ Reconcile \/ GoesOn
    BY <2>1, CallIdleOK DEF Spawn, Reconcile, GoesOn, Quiet
  <2>2. CASE Unready \/ TimesOut \/ TurnEnds \/ APanel
    <3>1. call' = call /\ turn.pc \notin {"child", "gone"}
      BY <2>2 DEF Unready, TimesOut, TurnEnds, APanel, MemberSpeaks, MemberDrops, NextRound, PanelRules,
                  PanelEnds, PanelUnready
    <3> QED BY <3>1, CallIdleOK DEF CallersOK
  <2>3. CASE ChildExits
    <3>1. /\ turn'.ahead = turn.ahead
          /\ call'.pc = "idle" \/ (call.pc # "held" /\ call'.pc = call.pc /\ call'.at = call.at)
      BY <2>3, NothingIs DEF ChildExits, HubOK, CallType, TurnType
    <3> QED BY <3>1, CallIdleOK, CallWaitsOn
  <2>4. CASE Heeds \/ Asks \/ Proposes \/ Returns \/ Idles \/ Drops \/ Finishes \/ Finished
    <3>1. \/ call.pc = "idle" /\ call' = call
          \/ call'.pc \in {"idle", "pose", "finish", "finished"}
      BY <2>4, NothingIs
      DEF Heeds, Calls, Asks, Proposes, Calling, Returns, Idles, Drops, Finishes, Finished, hub, HubOK,
          CallType, NoCall
    <3> QED BY <3>1, CallIdleOK
  <2>5. ASSUME turn' = turn, state' = state, call.pc = "pose",
               \/ /\ Silent /\ Trailing # 0
                  /\ \/ call' = [call EXCEPT !.pc = "wait", !.at = Trailing]
                     \/ state = "waiting" /\ call' = Held(Trailing)
               \/ OneLine({"question"}) /\ call' = [call EXCEPT !.pc = "wait", !.at = Len(log) + 1]
        PROVE  QuestionsOK'
    <3>1. CASE /\ Silent /\ Trailing # 0
               /\ \/ call' = [call EXCEPT !.pc = "wait", !.at = Trailing]
                  \/ state = "waiting" /\ call' = Held(Trailing)
      <4>1. Trailing = Len(log) /\ Trailing \in 1..Len(log) /\ log[Trailing].kind = "question"
        BY <3>1, TrailingIs
      <4>2. \/ call'.pc = "idle"
            \/ /\ call'.at = Trailing
               /\ call'.pc = "wait" \/ (call'.pc = "held" /\ state = "waiting")
        BY <3>1, NothingIs DEF Held, HubOK, CallType
      <4>3. Trailing \in DOMAIN log' /\ log'[Trailing].kind = "question"
        <5>1. Trailing \in 1..Len(log')
          BY <4>1, Keeps
        <5> QED BY <4>1, <5>1, Keeps
      <4>4. CASE call'.at = Trailing
        <5>1. After(call.at)' = {}
          BY <4>1, <4>4, NothingAfter, LogIs
        <5> QED BY <2>5, <4>2, <4>3, <4>4, <5>1, CallIdleOK DEF QuestionsOK
      <4> QED BY <4>2, <4>4, CallIdleOK
    <3>2. CASE OneLine({"question"}) /\ call' = [call EXCEPT !.pc = "wait", !.at = Len(log) + 1]
      <4>1. call'.at = Len(log) + 1 /\ call'.pc = "wait" /\ Len(log) + 1 \in Nat /\ Len(log) <= Len(log) + 1
        <5>1. Len(log) \in Nat /\ Len(log) + 1 \in Nat /\ Len(log) <= Len(log) + 1
          BY LogIs
        <5>2. call'.at = Len(log) + 1 /\ call'.pc = "wait"
          BY <3>2 DEF HubOK, CallType
        <5> QED BY <5>1, <5>2
      <4>2. After(call.at)' = {}
        BY <4>1, NothingAfter
      <4>3. Len(log) + 1 \in DOMAIN log' /\ log'[Len(log) + 1].kind = "question"
        <5>1. Len(log') = Len(log) + 1 /\ Len(log) + 1 \in 1..Len(log) + 1
          BY <3>2, LogIs DEF OneLine, Longer
        <5> QED BY <3>2, <5>1, Keeps DEF OneLine
      <4> QED BY <4>1, <4>2, <4>3 DEF QuestionsOK
    <3> QED BY <2>5, <3>1, <3>2
  <2>6. CASE PoseQuestion
    <3>1. turn' = turn /\ state' = state /\ call.pc = "pose"
      BY <2>6 DEF PoseQuestion, session
    <3> QED BY <2>5, <2>6, <3>1, PoseQuestionIs, CallIdleOK, NothingIs
  <2>7. CASE PoseRound
    <3>1. turn' = turn /\ state' = state /\ call.pc = "pose"
      BY <2>7 DEF PoseRound, session
    <3> QED BY <2>5, <2>7, <3>1, PoseRoundIs, CallIdleOK, NothingIs
  <2>8. CASE Waits
    <3>1. CASE ~May("waiting")
      BY <2>8, <3>1, CallIdleOK, NothingIs DEF Waits
    <3>2. CASE May("waiting")
      <4>1. state = "running" /\ state' = "waiting" /\ call.pc = "wait" /\ turn' = turn
        BY <2>8, <3>2, TransitionIs, MayIs DEF Waits, TypeOK
      <4>2. call'.pc = "idle" \/ (call'.pc = "held" /\ call'.at = call.at)
        BY <2>8, <3>2, NothingIs DEF Waits, Held, HubOK, CallType
      <4>3. call.at \in 1..Len(log) /\ log[call.at].kind = "question" /\ After(call.at) = {}
        BY <4>1, Keeps DEF QuestionsOK, Dead
      <4>4. call.at \in DOMAIN log' /\ log'[call.at].kind = "question"
        <5>1. call.at \in 1..Len(log')
          BY <4>3, Keeps
        <5> QED BY <4>3, <5>1, Keeps
      <4>5. call'.at = call.at => After(call.at)' = {}
        BY <4>3 DEF After
      <4> QED BY <4>1, <4>2, <4>4, <4>5, CallIdleOK DEF QuestionsOK
    <3> QED BY <3>1, <3>2
  <2>9. CASE Launches
    <3>1. call' = call /\ state' = state /\ (Active => turn' = turn) /\ req.pc = "launch"
      BY <2>9 DEF Launches, Launched, session
    <3>2. call.pc # "idle" => Active
      BY DEF CallersOK, Active
    <3> QED BY <3>1, <3>2, CallIdleOK, CallWaitsOn
  <2>10. CASE Kills
    <3>1. call' = call /\ state' = state /\ (Active => turn'.by = "user") /\ turn'.ahead = turn.ahead
      BY <2>10 DEF Kills, session, HubOK, TurnType
    <3>2. call.pc # "idle" => Active
      BY DEF CallersOK, Active
    <3> QED BY <3>1, <3>2, CallIdleOK, CallWaitsOn
  <2>11. CASE Moves
    <3>1. call' = call /\ turn' = turn
      BY <2>11 DEF Moves
    <3>2. state' = "running" \/ (Dead' /\ state' = state)
      BY <2>11, TransitionIs, MayIs DEF Moves, TypeOK, Dead, States
    <3> QED BY <3>1, <3>2, CallWaitsOn
  <2>12. CASE PutsDown
    <3>1. call' = call /\ turn' = turn /\ req.pc \in {"stop", "abandon"}
      BY <2>12 DEF PutsDown
    <3>2. \A pc : Goes(pc) => req'.pc = pc
      BY DEF HubOK, ReqType, Goes
    <3>3. state' = "finished" => state = "finished"
      BY <2>12, TransitionIs DEF PutsDown, session
    <3>4. CASE req.pc = "stop"
      <4>1. \/ req'.pc = "silence"
            \/ ~May("parked") /\ state' = state
        BY <2>12, <3>2, <3>4, TransitionIs DEF PutsDown
      <4>2. state = "running" => May("parked")
        BY MayIs DEF TypeOK
      <4> QED BY <3>1, <3>3, <4>1, <4>2, CallWaitsOn
    <3>5. CASE req.pc = "abandon"
      <4>1. Transition("abandoned", "")
        BY <2>12, <3>5 DEF PutsDown
      <4>2. Dead'
        BY <4>1, TransitionIs, MayIs DEF TypeOK, Dead, States
      <4> QED BY <3>1, <3>3, <4>2, CallWaitsOn
    <3> QED BY <3>1, <3>4, <3>5
  <2>13. CASE Silences
    <3>1. call' = call /\ turn' = turn /\ state' = state /\ req'.pc = "kill"
      BY <2>13 DEF Silences, Goes, HubOK, ReqType, session
    <3> QED BY <3>1, CallWaitsOn
  <2>14. CASE (\E k \in Kinds : Request(k)) \/ Message \/ RoundForm \/ Closes \/ AutoSet \/ AcceptPending
    <3>1. call' = call /\ turn' = turn /\ state' = state /\ req.pc \notin {"move", "silence", "kill"}
      BY <2>14 DEF Request, Message, RoundForm, Closes, AutoSet, AcceptPending, session
    <3> QED BY <3>1, CallWaitsOn
  <2>15. CASE Chooses \/ Applies \/ Retires
    <3>1. call' = call /\ turn' = turn /\ req' = req
      BY <2>15 DEF Chooses, Applies, Retires, hub
    <3>2. state' = state \/ (state' \in {"applied", "abandoned"} /\ Dead')
      BY <2>15, TransitionIs DEF Chooses, Applies, Retires, Becomes, session, Dead
    <3> QED BY <3>1, <3>2, CallWaitsOn
  <2>16. CASE HubDies
    BY <2>16, CallIdleOK, NothingIs DEF HubDies
  <2> QED BY <2>1, <2>2, <2>3, <2>4, <2>6, <2>7, <2>8, <2>9, <2>10, <2>11, <2>12, <2>13, <2>14, <2>15, <2>16
          DEF Next, ATurn, ACall, ARequest, AWorld
<1> QED BY <1>a, <1>b, <1>c, AnswersGrow

-----------------------------------------------------------------------------
(* Answers on their way *)

\* What a due answer may find: nobody, its question, a stopped child, or nobody any more.
Takeable ==
  \/ Rests
  \/ call.pc = "held" /\ ~turn.ahead
  \/ call.pc = "idle" /\ turn.pc = "child" /\ turn.by = "user"
  \/ Dead

LEMMA AnswersSteps ==
  ASSUME TypeOK, HubOK, CallersOK, QuestionsOK, AnswersOK, "hasty" \notin Gestures, Next
  PROVE  AnswersOK'
<1> SUFFICES ASSUME AnswerDue' PROVE (state' # "running") /\ Takeable'
  BY DEF AnswersOK, Takeable
<1>0. Dead => Dead'
  BY SessionSteps DEF TypeOK, SessionOK
<1>1. AnswerDue => state # "running" /\ Takeable
  BY DEF AnswersOK, Takeable
<1>2. ASSUME AnswerDue, UNCHANGED <<session, turn, tail, call>>
      PROVE  state' # "running" /\ Takeable'
  BY <1>1, <1>2 DEF session, Takeable, Rests, Dead
<1>3. ASSUME AnswerDue, UNCHANGED req, ~Dead, ATurn \/ ACall \/ APanel
      PROVE  Takeable'
  <2>1. Served => FALSE
    BY <1>3 DEF Served, AnswerDue
  <2>2. ASSUME Rests PROVE FALSE
    <3>1. turn.pc = "off" /\ tail = "" /\ call.pc = "idle"
      BY <2>2 DEF Rests
    <3> QED BY <1>3, <3>1
            DEF ATurn, ACall, APanel, Spawn, Unready, ChildExits, TimesOut, Reconcile, TurnEnds, GoesOn,
                Heeds, Asks, Proposes, Calls, PoseQuestion, PoseRound, Waits, Returns, Idles, Drops,
                Finishes, Finished, MemberSpeaks, MemberDrops, NextRound, PanelRules, PanelEnds,
                PanelUnready
  <2>3. ASSUME call.pc = "held", ~turn.ahead PROVE Takeable'
    <3>1. turn.pc = "child" /\ call.live
      BY <2>3 DEF CallersOK
    <3>2. ~Quiet
      BY <2>3 DEF Quiet
    <3>3. CASE Returns
      <4>1. turn' = turn /\ call'.pc = "idle"
        BY <3>3, NothingIs DEF Returns
      <4>2. turn.by = "user"
        <5>1. ~Dead /\ state # "running" /\ req.pc \notin {"move", "silence", "kill"}
          BY <1>1, <1>3 DEF AnswerDue
        <5>2. After(call.at) # {}
          <6>1. state # "finished"
            BY <2>3 DEF QuestionsOK
          <6> QED BY <1>3, <3>3, <6>1 DEF Returns, Ended, Dead
        <5> QED BY <2>3, <5>1, <5>2 DEF QuestionsOK
      <4> QED BY <3>1, <4>1, <4>2 DEF Takeable
    <3>4. ~Returns => FALSE
      BY <1>3, <2>1, <2>3, <3>1, <3>2
      DEF ATurn, ACall, APanel, Spawn, Unready, ChildExits, TimesOut, Reconcile, TurnEnds, GoesOn,
          Heeds, Asks, Proposes, Calls, PoseQuestion, PoseRound, Waits, Idles, Drops,
          Finishes, Finished, MemberSpeaks, MemberDrops, NextRound, PanelRules, PanelEnds,
          PanelUnready
    <3> QED BY <3>3, <3>4
  <2>4. ASSUME call.pc = "idle", turn.pc = "child", turn.by = "user" PROVE Takeable'
    <3>1. CASE GoesOn
      <4>1. turn' = turn /\ call' = call
        BY <2>4, <3>1 DEF GoesOn, Launched, Active
      <4> QED BY <2>4, <4>1 DEF Takeable
    <3>2. ~GoesOn => FALSE
      BY <1>3, <2>1, <2>4
      DEF ATurn, ACall, APanel, Spawn, Unready, ChildExits, TimesOut, Reconcile, TurnEnds,
          Heeds, Asks, Proposes, Calls, PoseQuestion, PoseRound, Waits, Returns, Idles, Drops,
          Finishes, Finished, MemberSpeaks, MemberDrops, NextRound, PanelRules, PanelEnds,
          PanelUnready
    <3> QED BY <3>1, <3>2
  <2> QED BY <1>1, <1>3, <2>2, <2>3, <2>4 DEF Takeable
<1>4. CASE ATurn \/ ACall \/ APanel
  <2>1. req' = req
    BY <1>4
    DEF ATurn, ACall, APanel, Spawn, Unready, ChildExits, TimesOut, Reconcile, TurnEnds, GoesOn,
        Heeds, Asks, Proposes, PoseQuestion, PoseRound, Waits, Returns, Idles, Drops,
        Finishes, Finished, MemberSpeaks, MemberDrops, NextRound, PanelRules, PanelEnds,
        PanelUnready, hub
  <2>2. AnswerDue
    BY <2>1 DEF AnswerDue
  <2>3. ~Moves
    BY <2>2 DEF Moves, AnswerDue
  <2>4. state' # "running"
    BY <1>1, <2>2, <2>3, SessionSteps DEF TypeOK, SessionOK
  <2> QED BY <1>0, <1>3, <1>4, <2>1, <2>2, <2>4 DEF Takeable
<1>5. CASE RoundForm \/ Message \/ Closes \/ AcceptPending
  <2>1. AnswerDue
    <3>1. CASE Message
      BY <3>1, RequestsWrite, NothingIs DEF AnswerDue
    <3> QED BY <1>5, <3>1 DEF RoundForm, Closes, AcceptPending, AnswerDue
  <2> QED BY <1>2, <1>5, <2>1 DEF RoundForm, Message, Closes, AcceptPending
<1>6. ASSUME NEW k \in Kinds, Request(k) PROVE state' # "running" /\ Takeable'
  <2>1. /\ UNCHANGED <<session, turn, tail, call>> /\ req'.pc = k /\ req'.seen = state
        /\ Takes(k)
    BY <1>6 DEF Request
  <2>2. k \in {"message", "answers"} /\ state # "running"
    BY <2>1 DEF AnswerDue, Takes, Accepts, Kinds
  <2>3. Rests \/ Asked
    BY <2>1, <2>2 DEF Takes, InTime
  <2> QED BY <2>1, <2>2, <2>3 DEF session, Takeable, Rests, Asked
<1>7. CASE AutoSet
  <2>1. UNCHANGED <<session, turn, tail, call>> /\ ~auto /\ Accepts(state)
    BY <1>7, NothingIs DEF AutoSet, AnswerDue
  <2>2. Rests \/ Asked
    BY <1>7, <2>1 DEF AutoSet, InTime
  <2> QED BY <2>1, <2>2 DEF session, Takeable, Rests, Asked, Accepts
<1>8. CASE Moves \/ Launches \/ PutsDown \/ Silences \/ Kills \/ HubDies
  <2>1. \A pc : Goes(pc) => req'.pc = pc
    BY DEF HubOK, ReqType, Goes
  <2>2. req'.pc \in {"idle", "launch", "silence", "kill"}
    BY <1>8, <2>1, NothingIs DEF Moves, Launches, PutsDown, Silences, Kills, HubDies, Done
  <2> QED BY <2>2 DEF AnswerDue
<1>9. CASE Chooses \/ Applies \/ Retires
  <2>1. UNCHANGED <<turn, tail, call, req>>
    BY <1>9 DEF Chooses, Applies, Retires, hub
  <2>2. AnswerDue
    BY <2>1 DEF AnswerDue
  <2>3. state' # "running"
    <3>1. ~Moves
      BY <2>2 DEF Moves, AnswerDue
    <3> QED BY <1>1, <2>2, <3>1, SessionSteps DEF TypeOK, SessionOK
  <2> QED BY <1>0, <1>1, <2>1, <2>2, <2>3 DEF Takeable, Rests
<1> QED BY <1>4, <1>5, <1>6, <1>7, <1>8, <1>9 DEF Next, ARequest, AWorld

-----------------------------------------------------------------------------
(* What finishes a session *)

\* Who holds a draft in the cycle that is still open has drafted since the last answer.
LEMMA HoldersNews ==
  ASSUME TypeOK, Holders # {}
  PROVE  News
<1>1. PICK i \in Cycle : log[i].kind = "proposal"
  BY DEF Holders, Drafts
<1>2. Len(log) \in Nat /\ Answers \subseteq 1..Len(log) /\ DOMAIN log = 1..Len(log)
  BY LogIs
<1>3. Reopens \subseteq Answers
  BY DEF Reopens
<1>4. Reopens # {} => Highest(Reopens) \in Reopens /\ \A m \in Reopens : m <= Highest(Reopens)
  <2>1. Reopens \subseteq 1..Len(log)
    BY <1>2, <1>3
  <2> QED BY <1>2, <2>1, HighestIn
<1>5. i \in 1..Len(log)
  <2>1. CASE Reopens = {}
    BY <1>1, <1>2, <2>1 DEF Cycle
  <2>2. CASE Reopens # {}
    <3>1. i \in Highest(Reopens) .. Len(log) /\ Highest(Reopens) \in 1..Len(log)
      BY <1>1, <1>2, <1>3, <1>4, <2>2 DEF Cycle
    <3> QED BY <1>2, <3>1
  <2> QED BY <2>1, <2>2
<1>6. i \in Decisions
  BY <1>1, <1>2, <1>5 DEF Decisions, Of
<1>7. \A j \in Answers : j < i
  <2> SUFFICES ASSUME NEW j \in Answers, ~(j < i) PROVE FALSE
    OBVIOUS
  <2> DEFINE Later == {k \in Answers : k > i}
  <2>1. j # i
    BY <1>1 DEF Answers, Of
  <2>2. j \in Later /\ Later \subseteq Nat
    <3>1. j \in 1..Len(log)
      BY <1>2
    <3>2. j > i
      BY <1>5, <2>1, <3>1
    <3>3. \A k \in 1..Len(log) : k \in Nat
      OBVIOUS
    <3> QED BY <1>2, <3>2, <3>3
  <2>3. PICK k \in Later : \A m \in Later : k <= m
    BY <2>2, LeastIs
  <2>4. \A m \in Answers : ~(i < m /\ m < k)
    BY <1>2, <1>5, <2>3
  <2>5. k \in Reopens
    BY <1>6, <2>3, <2>4 DEF Reopens
  <2>6. i \in Highest(Reopens) .. Len(log) /\ k <= Highest(Reopens) /\ Highest(Reopens) \in 1..Len(log)
    BY <1>1, <1>2, <1>3, <1>4, <2>5 DEF Cycle
  <2> QED BY <1>2, <1>5, <2>2, <2>3, <2>6
<1> QED BY <1>6, <1>7 DEF News

LEMMA NewsSteps ==
  ASSUME TypeOK, HubOK, CallersOK, AnswersOK, NewsOK, "hasty" \notin Gestures, Next
  PROVE  NewsOK'
<1> SUFFICES ASSUME call'.pc = "finished" \/ turn'.pc = "ruled", ~Dead' PROVE News'
  BY DEF NewsOK
<1>0. ~Dead
  BY SessionSteps DEF TypeOK, SessionOK
<1>1. ASSUME News, Answers' = Answers PROVE News'
  BY <1>1, Keeps DEF News
<1>2. ASSUME OneLine({"outcome"}) PROVE News'
  <2>1. /\ Answers' = Answers /\ Len(log) + 1 \in Decisions' /\ Len(log) \in Nat
        /\ Answers \subseteq 1..Len(log)
    BY <1>2, NewLine, LogIs DEF OneLine
  <2>2. \A j \in Answers' : j < Len(log) + 1
    BY <2>1
  <2> QED BY <2>1, <2>2 DEF News
<1>3. CASE Answered
  <2>1. turn' = turn /\ call' = call /\ AnswerDue
    BY <1>3 DEF Answered
  <2>2. call.pc # "finished" /\ turn.pc # "ruled"
    BY <1>0, <2>1 DEF AnswersOK, Rests, CallersOK
  <2> QED BY <2>1, <2>2
<1>4. CASE SelfAnswered
  <2>1. call'.pc = "idle" /\ turn' = turn /\ turn.pc # "ruled"
    BY <1>4, NothingIs DEF SelfAnswered, CallersOK
  <2> QED BY <2>1
<1>5. CASE Answers' = Answers
  <2>1. CASE Finishes
    <3>1. CASE OneLine({"outcome"})
      BY <1>2, <3>1
    <3>2. CASE call' = NoCall
      <4>1. turn' = turn /\ turn.pc # "ruled"
        BY <2>1 DEF Finishes, CallersOK
      <4> QED BY <3>2, <4>1, NothingIs
    <3> QED BY <2>1, <3>1, <3>2, FinishesIs
  <2>2. CASE PanelRules
    <3>1. CASE OneLine({"outcome"})
      BY <1>2, <3>1
    <3>2. CASE turn'.pc = "ruled" => state = "running" /\ Holders # {}
      <4>1. call' = call /\ call.pc = "idle"
        BY <2>2 DEF PanelRules, CallersOK
      <4> QED BY <1>1, <1>5, <3>2, <4>1, HoldersNews
    <3> QED BY <2>2, <3>1, <3>2, PanelRulesIs
  <2>3. CASE ~Finishes /\ ~PanelRules
    <3>1. call'.pc = "finished" => call.pc = "finished"
      <4>1. CASE ATurn \/ APanel \/ ARequest \/ AWorld
        <5>1. call' \in {call, NoCall} \/ call' = [call EXCEPT !.live = FALSE]
          BY <4>1
          DEF ATurn, APanel, ARequest, AWorld, Spawn, Unready, ChildExits, TimesOut, Reconcile, TurnEnds,
              GoesOn, MemberSpeaks, MemberDrops, NextRound, PanelRules, PanelEnds, PanelUnready,
              Request, Message, RoundForm, Closes, AutoSet, AcceptPending, Moves, Launches, PutsDown,
              Silences, Kills, Chooses, Applies, Retires, HubDies, hub
        <5> QED BY <5>1, NothingIs DEF HubOK, CallType
      <4>2. CASE Heeds \/ Returns \/ Idles \/ Drops \/ Finished
        BY <4>2, NothingIs DEF Heeds, Returns, Idles, Drops, Finished, hub
      <4>3. CASE Asks \/ Proposes
        BY <4>3 DEF Asks, Proposes, Calling, NoCall
      <4>4. CASE PoseQuestion \/ PoseRound \/ Waits
        <5>1. \/ call' = NoCall
              \/ \E at : call' = Held(at)
              \/ \E at : call' = [call EXCEPT !.pc = "wait", !.at = at]
          BY <4>4 DEF PoseQuestion, PoseRound, Waits
        <5> QED BY <5>1, NothingIs DEF Held, HubOK, CallType
      <4> QED BY <2>3, <4>1, <4>2, <4>3, <4>4 DEF Next, ACall
    <3>2. turn'.pc = "ruled" => turn.pc = "ruled"
      BY <2>3, NothingIs
      DEF Next, ATurn, ACall, APanel, ARequest, AWorld, Spawn, Unready, ChildExits, TimesOut, Reconcile,
          TurnEnds, GoesOn, Heeds, Asks, Proposes, PoseQuestion, PoseRound, Waits, Returns, Idles, Drops,
          Finished, MemberSpeaks, MemberDrops, NextRound, PanelEnds, PanelUnready, Over,
          Request, Message, RoundForm, Closes, AutoSet, AcceptPending, Moves, Launches, Launched, PutsDown,
          Silences, Kills, Chooses, Applies, Retires, HubDies, hub, HubOK, TurnType, NoTurn
    <3> QED BY <1>0, <1>1, <1>5, <3>1, <3>2 DEF NewsOK
  <2> QED BY <2>1, <2>2, <2>3
<1> QED BY <1>3, <1>4, <1>5, AnswersGrow

-----------------------------------------------------------------------------
(* Who has been told *)

\* Nobody answers later than who is on the transcript: its answers are those before i.
LEMMA HeardIsCaught ==
  ASSUME TypeOK, NEW i \in 1..Len(log), i \notin Answers, After(i) = {}, Heard(i)
  PROVE  Caught
<1>1. Len(log) \in Nat /\ Answers \subseteq 1..Len(log)
  BY LogIs
<1>2. ASSUME NEW j \in Answers PROVE j < i
  <2>1. j \in 1..Len(log) /\ ~(j > i) /\ j # i
    BY <1>1 DEF After
  <2> QED BY <1>1, <2>1
<1>3. {j \in Answers : j < i} = Answers
  BY <1>2
<1> QED BY <1>3 DEF Heard, Caught

LEMMA CaughtStays ==
  ASSUME TypeOK, HubOK, Next, Caught, Answers' = Answers
  PROVE  Caught'
BY ToldGrows DEF Caught

\* What was heard when it was said stays heard.
LEMMA HeardStays ==
  ASSUME TypeOK, HubOK, Next, NEW i \in 1..Len(log), Heard(i)
  PROVE  Heard(i)'
<1>1. {j \in Answers' : j < i} = {j \in Answers : j < i}
  <2>1. ASSUME NEW j \in Answers', j < i PROVE j \in Answers
    <3>1. j \in 1..Len(log') /\ Len(log) \in Nat /\ Len(log') \in Nat
      BY Keeps
    <3>2. j \in 1..Len(log)
      BY <2>1, <3>1
    <3> QED BY <3>2, Keeps
  <2>2. Answers \subseteq Answers'
    BY Keeps
  <2> QED BY <2>1, <2>2
<1> QED BY <1>1, ToldGrows DEF Heard

\* Who speaks up when the transcript says no more than he knows has heard.
LEMMA NewHeard ==
  ASSUME TypeOK, HubOK, Next, Caught, NEW n, n = Len(log) + 1,
         \A j \in Answers' : j < n => j \in Answers
  PROVE  Heard(n)'
<1>1. Len(log) \in Nat /\ Answers \subseteq 1..Len(log) /\ Answers \subseteq Answers'
  BY Keeps
<1>2. \A j \in Answers : j < n
  BY <1>1
<1>3. {j \in Answers' : j < n} = Answers
  BY <1>1, <1>2
<1> QED BY <1>3, ToldGrows DEF Heard, Caught

LEMMA NewSpeakers ==
  ASSUME TypeOK, HubOK, PanelOK, MaySpeak => Caught, Next,
         NEW n \in 1..Len(log'), n \notin 1..Len(log), Speaks(log'[n])
  PROVE  Heard(n)'
<1>0. Len(log) \in Nat /\ Len(log) + 1 \in Nat /\ Answers \subseteq 1..Len(log)
  BY Keeps
<1>1. Speaks(log'[n]) => log'[n].kind \in {"question", "proposal"}
  BY DEF Speaks
<1>2. ASSUME Longer(1) PROVE n = Len(log) + 1
  BY <1>0, <1>2 DEF Longer
<1>3. ASSUME OneLine({"question", "proposal"}), Caught PROVE Heard(n)'
  <2>1. n = Len(log) + 1
    BY <1>2, <1>3 DEF OneLine
  <2>2. Answers' = Answers
    BY <1>3, NewLine DEF OneLine
  <2> QED BY <1>3, <2>1, <2>2, NewHeard
<1>4. ASSUME TwoLines, Caught PROVE Heard(n)'
  <2>1. n = Len(log) + 1
    <3>1. n = Len(log) + 1 \/ n = Len(log) + 2
      BY <1>0, <1>4 DEF TwoLines, Longer
    <3> QED BY <1>1, <1>4, <3>1 DEF TwoLines
  <2>2. \A j \in Answers' : j < n => j \in Answers
    <3>1. Answers' = Answers \cup {Len(log) + 2}
      BY <1>4, TwoNewLines
    <3> QED BY <1>0, <2>1, <3>1
  <2> QED BY <1>4, <2>1, <2>2, NewHeard
<1>5. ASSUME NEW kinds, kinds \cap {"question", "proposal"} = {}, OneLine(kinds) PROVE FALSE
  BY <1>1, <1>2, <1>5 DEF OneLine
<1>6. ASSUME Silent PROVE FALSE
  BY <1>0, <1>6 DEF Silent, Longer
<1>7. ASSUME UNCHANGED log PROVE FALSE
  BY <1>7
<1>8. CASE ATurn
  BY <1>7, <1>8 DEF ATurn, Spawn, Unready, ChildExits, TimesOut, Reconcile, TurnEnds, GoesOn, talk
<1>9. CASE ACall
  <2>1. CASE Heeds \/ Asks \/ Proposes \/ Waits \/ Returns \/ Idles \/ Drops \/ Finished
    BY <1>7, <2>1 DEF Heeds, Asks, Proposes, Waits, Returns, Idles, Drops, Finished, talk
  <2>2. ASSUME OneLine({"question"}) \/ OneLine({"proposal"})
        PROVE  OneLine({"question", "proposal"})
    BY <2>2 DEF OneLine
  <2>3. CASE PoseQuestion
    <3>1. Caught
      BY <2>3 DEF PoseQuestion, MaySpeak
    <3> QED BY <1>3, <1>4, <1>6, <2>2, <2>3, <3>1, PoseQuestionIs
  <2>4. CASE PoseRound
    <3>1. Caught
      BY <2>4 DEF PoseRound, MaySpeak
    <3> QED BY <1>3, <1>4, <1>5, <1>6, <2>2, <2>4, <3>1, PoseRoundIs
  <2>5. CASE Finishes
    <3>1. Caught
      BY <2>5 DEF Finishes, MaySpeak
    <3> QED BY <1>3, <1>5, <1>6, <2>2, <2>5, <3>1, FinishesIs
  <2> QED BY <1>9, <2>1, <2>3, <2>4, <2>5 DEF ACall
<1>10. CASE APanel
  <2>1. CASE MemberSpeaks
    <3>1. PICK m \in panel.todo : /\ OneLine({"proposal"})
                                  /\ log'[Len(log) + 1].by = m /\ log'[Len(log) + 1].round = panel.round
      BY <2>1, MemberSpeaksIs
    <3>2. log'[n].kind = "proposal" /\ log'[n].by = m /\ log'[n].round = panel.round
      BY <1>2, <3>1 DEF OneLine
    <3>3. m = Interviewer /\ panel.round = 0
      BY <3>2 DEF Speaks
    <3>4. m \in Members
      BY <2>1, <3>3, SetupIs DEF PanelOK, MemberSpeaks
    <3> QED BY <3>3, <3>4, MemberAssumption
  <2>2. CASE PanelRules
    BY <1>5, <1>7, <2>2, PanelRulesIs
  <2>3. CASE MemberDrops \/ NextRound \/ PanelEnds \/ PanelUnready
    BY <1>7, <2>3 DEF MemberDrops, NextRound, PanelEnds, PanelUnready, talk
  <2> QED BY <1>10, <2>1, <2>2, <2>3 DEF APanel
<1>11. CASE ARequest
  <2>1. CASE Message \/ RoundForm \/ Closes \/ AcceptPending
    BY <1>5, <1>6, <2>1, RequestsWrite
  <2>2. CASE (\E k \in Kinds : Request(k)) \/ AutoSet \/ Moves \/ Launches \/ PutsDown \/ Silences \/ Kills
    BY <1>7, <2>2 DEF Request, AutoSet, Moves, Launches, PutsDown, Silences, Kills, talk
  <2> QED BY <1>11, <2>1, <2>2 DEF ARequest
<1>12. CASE AWorld
  <2>1. CASE Chooses
    BY <1>5, <2>1, RequestsWrite
  <2>2. CASE Applies \/ Retires \/ HubDies
    BY <1>7, <2>2 DEF Applies, Retires, HubDies, talk
  <2> QED BY <1>12, <2>1, <2>2 DEF AWorld
<1> QED BY <1>8, <1>9, <1>10, <1>11, <1>12 DEF Next

\* Who may speak next has been told: by the prompt of a new turn, by the call that
\* returns, or because nobody answered.
LEMMA SpeakersSteps ==
  ASSUME TypeOK, HubOK, CallersOK, QuestionsOK, AnswersOK, CaughtUp, "hasty" \notin Gestures, Next,
         ~Dead', MaySpeak'
  PROVE  Caught'
<1>0. ~Dead
  BY SessionSteps DEF TypeOK, SessionOK
<1>1. /\ MaySpeak => Caught
      /\ \A i \in 1..Len(log) : Speaks(log[i]) => Heard(i)
  BY <1>0, LogIs DEF CaughtUp
<1>2. Len(log) \in Nat /\ Answers \subseteq 1..Len(log) /\ told \subseteq told'
  BY LogIs, ToldGrows
<1>a. CASE Answered
  BY <1>0, <1>a DEF Answered, AnswersOK, Rests, MaySpeak
<1>b. CASE SelfAnswered /\ \E n \in {Len(log) + 1, Len(log) + 2} : Answers' = Answers \cup {n} /\ Tells(n)
  <2>1. PICK n \in {Len(log) + 1, Len(log) + 2} : Answers' = Answers \cup {n} /\ Tells(n)
    BY <1>b
  <2>2. call'.pc = "idle" /\ turn' = turn /\ call.pc = "pose"
    BY <1>b, NothingIs DEF SelfAnswered
  <2>3. call.live
    BY <2>2 DEF MaySpeak, CallersOK
  <2>4. n \in told'
    BY <2>1, <2>3 DEF Tells
  <2>5. Answers' \subseteq Nat /\ n \in Answers' /\ \A m \in Answers' : m <= n
    BY <1>2, <2>1
  <2>6. Highest(Answers') = n
    BY <2>5, HighestIs
  <2> QED BY <2>4, <2>6 DEF Caught
<1>c. CASE Answers' = Answers
  <2> USE <1>c
  <2>1. ASSUME Caught PROVE Caught'
    BY <2>1, CaughtStays
  <2>2. ASSUME call.pc \in {"wait", "held"}, After(call.at) = {} PROVE Caught'
    <3>1. call.at \in 1..Len(log) /\ log[call.at].kind = "question"
      BY <2>2, LogIs DEF QuestionsOK
    <3>2. Heard(call.at) /\ call.at \notin Answers
      BY <1>1, <3>1 DEF Speaks, Answers, Of
    <3>3. Caught
      BY <2>2, <3>1, <3>2, HeardIsCaught
    <3> QED BY <2>1, <3>3
  <2>3. CASE Spawn
    <3> DEFINE steer  == chain /\ Pending # {}
               latest == turn.by = "" /\ ~(OpenRound /\ log[Trailing].got # {}) /\ Answers # {}
               more   == IF steer \/ ~chain THEN Answers ELSE IF latest THEN {Highest(Answers)} ELSE {}
    <3>1. told' = told \cup more
      BY <2>3 DEF Spawn, Prompt
    <3>2. turn.by = ""
      <4>1. turn'.by = turn.by /\ call' = call /\ call.pc = "idle"
        BY <2>3 DEF Spawn, Quiet, HubOK, TurnType
      <4> QED BY <4>1 DEF MaySpeak
    <3>3. Answers # {} => Highest(Answers) \in Answers
      BY <1>2, HighestIn
    <3>4. CASE steer \/ ~chain
      <4>1. more = Answers
        BY <3>4
      <4> HIDE DEF more
      <4> QED BY <3>1, <3>3, <4>1 DEF Caught
    <3>5. CASE ~(steer \/ ~chain) /\ latest
      <4>1. more = {Highest(Answers)}
        BY <3>5
      <4> HIDE DEF more
      <4> QED BY <3>1, <4>1 DEF Caught
    <3>6. CASE ~latest
      <4>1. CASE Answers = {}
        BY <4>1 DEF Caught
      <4>2. CASE Answers # {}
        <5>1. Trailing # 0
          BY <3>2, <3>6, <4>2 DEF OpenRound
        <5>2. Trailing = Len(log) /\ Trailing \in 1..Len(log) /\ log[Trailing].kind = "question"
          BY <5>1, TrailingIs
        <5>3. Heard(Trailing) /\ Trailing \notin Answers
          BY <1>1, <5>2 DEF Speaks, Answers, Of
        <5>4. After(Trailing) = {}
          <6>1. \A i \in Answers : ~(i > Trailing)
            BY <1>2, <5>2
          <6> QED BY <6>1 DEF After
        <5>5. Caught
          BY <5>2, <5>3, <5>4, HeardIsCaught
        <5> QED BY <2>1, <5>5
      <4> QED BY <4>1, <4>2
    <3> QED BY <3>4, <3>5, <3>6
  <2>4. CASE Returns
    <3> DEFINE first == CHOOSE i \in After(call.at) : \A j \in After(call.at) : i <= j
    <3>1. call.pc = "held" /\ ~turn.ahead /\ turn' = turn /\ call'.pc = "idle" /\ state' = state
      BY <2>4, NothingIs DEF Returns, session
    <3>2. call.live /\ turn.by = ""
      BY <3>1 DEF CallersOK, MaySpeak
    <3>3. CASE After(call.at) = {}
      BY <2>2, <3>1, <3>3
    <3>4. CASE After(call.at) # {}
      <4>1. Tells(first)
        BY <2>4, <3>4 DEF Returns
      <4>2. \A i, j \in After(call.at) : i = j
        BY <1>0, <3>1, <3>2, <3>4 DEF QuestionsOK
      <4>3. first \in After(call.at)
        <5>1. After(call.at) \subseteq Nat
          <6>1. \A i \in 1..Len(log) : i \in Nat
            OBVIOUS
          <6> QED BY <1>2, <6>1 DEF After
        <5>2. \E i \in After(call.at) : \A j \in After(call.at) : i <= j
          BY <3>4, <5>1, LeastIs
        <5> QED BY <5>2
      <4> HIDE DEF first
      <4>4. call.at \in 1..Len(log)
        BY <3>1, LogIs DEF QuestionsOK
      <4>5. first \in Answers /\ first > call.at
        BY <4>3 DEF After
      <4>6. \A m \in Answers : m <= first
        <5> SUFFICES ASSUME NEW m \in Answers, ~(m <= first) PROVE FALSE
          OBVIOUS
        <5>1. m \in 1..Len(log) /\ first \in 1..Len(log)
          BY <1>2, <4>5
        <5>2. m > call.at /\ m # first
          BY <4>4, <4>5, <5>1
        <5>3. m \in After(call.at)
          BY <5>2 DEF After
        <5> QED BY <4>2, <4>3, <5>2, <5>3
      <4>7. Highest(Answers) = first
        <5>1. Answers \subseteq Nat
          BY <1>2
        <5> QED BY <4>5, <4>6, <5>1, HighestIs
      <4>8. first \in told'
        BY <3>2, <4>1 DEF Tells
      <4> QED BY <4>7, <4>8 DEF Caught
    <3> QED BY <3>3, <3>4
  <2>5. CASE Idles \/ Drops
    <3>1. call.pc = "held" /\ (turn.ahead \/ After(call.at) = {})
      BY <2>5 DEF Idles, Drops
    <3>2. After(call.at) = {}
      BY <1>0, <3>1 DEF QuestionsOK
    <3> QED BY <2>2, <3>1, <3>2
  <2>6. CASE Waits
    <3>1. call.pc = "wait"
      BY <2>6 DEF Waits
    <3>2. After(call.at) = {}
      BY <1>0, <3>1 DEF QuestionsOK
    <3> QED BY <2>2, <3>1, <3>2
  <2>7. CASE Heeds \/ Asks \/ Proposes \/ PoseQuestion \/ PoseRound \/ Finishes \/ Finished
    <3>1. MaySpeak
      BY <2>7 DEF Heeds, Asks, Proposes, Calls, PoseQuestion, PoseRound, Finishes, Finished, MaySpeak
    <3> QED BY <1>1, <2>1, <3>1
  <2>8. CASE ChildExits
    <3>1. /\ turn'.pc = "gone"
          /\ call'.pc = "idle" \/ call'.pc = call.pc
      BY <2>8, NothingIs DEF ChildExits, HubOK, CallType, TurnType
    <3>2. MaySpeak
      BY <3>1 DEF MaySpeak
    <3> QED BY <1>1, <2>1, <3>2
  <2>9. CASE Unready \/ TimesOut \/ Reconcile \/ TurnEnds \/ GoesOn \/ APanel
    <3>1. call' = call /\ (turn'.pc # "child" \/ turn' = turn)
      BY <2>9, NothingIs
      DEF Unready, TimesOut, Reconcile, TurnEnds, GoesOn, Launched, APanel, MemberSpeaks, MemberDrops,
          NextRound, PanelRules, PanelEnds, PanelUnready, Over, HubOK, TurnType, NoTurn
    <3>2. MaySpeak
      BY <3>1 DEF MaySpeak
    <3> QED BY <1>1, <2>1, <3>2
  <2>10. CASE ARequest
    <3>1. call' = call /\ (turn'.pc # "child" \/ turn' = turn \/ turn'.by = "user")
      BY <2>10
      DEF ARequest, Request, Message, RoundForm, Closes, AutoSet, AcceptPending, Moves, Launches, Launched,
          PutsDown, Silences, Kills, HubOK, TurnType, NoTurn
    <3>2. MaySpeak
      BY <3>1 DEF MaySpeak
    <3> QED BY <1>1, <2>1, <3>2
  <2>11. CASE AWorld
    <3>1. \/ turn'.pc = "off" /\ call'.pc = "idle"
          \/ call' = call /\ turn' = turn
      BY <2>11, NothingIs DEF AWorld, Chooses, Applies, Retires, HubDies, hub
    <3>2. MaySpeak
      BY <3>1 DEF MaySpeak
    <3> QED BY <1>1, <2>1, <3>2
  <2> QED BY <2>3, <2>4, <2>5, <2>6, <2>7, <2>8, <2>9, <2>10, <2>11 DEF Next, ATurn, ACall
<1> QED BY <1>a, <1>b, <1>c, AnswersGrow

LEMMA CaughtSteps ==
  ASSUME TypeOK, HubOK, CallersOK, QuestionsOK, AnswersOK, CaughtUp, PanelOK, "hasty" \notin Gestures, Next
  PROVE  CaughtUp'
<1> SUFFICES ASSUME ~Dead' PROVE (\A i \in DOMAIN log' : Speaks(log'[i]) => Heard(i)') /\ (MaySpeak' => Caught')
  BY DEF CaughtUp
<1>0. ~Dead
  BY SessionSteps DEF TypeOK, SessionOK
<1>1. /\ MaySpeak => Caught
      /\ \A i \in 1..Len(log) : Speaks(log[i]) => Heard(i)
  BY <1>0, LogIs DEF CaughtUp
<1>2. ASSUME NEW i \in DOMAIN log', Speaks(log'[i]) PROVE Heard(i)'
  <2>1. i \in 1..Len(log')
    BY Keeps
  <2>2. CASE i \in 1..Len(log)
    <3>1. Speaks(log[i])
      BY <1>2, <2>2, Keeps
    <3> QED BY <1>1, <2>2, <3>1, HeardStays
  <2>3. CASE i \notin 1..Len(log)
    BY <1>1, <1>2, <2>1, <2>3, NewSpeakers
  <2> QED BY <2>2, <2>3
<1>3. MaySpeak' => Caught'
  BY SpeakersSteps
<1> QED BY <1>2, <1>3

LEMMA PanelSteps ==
  ASSUME TypeOK, HubOK, PanelOK, Next
  PROVE  PanelOK'
<1>0. setup' = setup
  BY DEF Next, ATurn, ACall, APanel, ARequest, AWorld, Spawn, Unready, ChildExits, TimesOut, Reconcile,
     TurnEnds, GoesOn, Heeds, Asks, Proposes, PoseQuestion, PoseRound, Waits, Returns, Idles, Drops,
     Finishes, Finished, MemberSpeaks, MemberDrops, NextRound, PanelRules, PanelEnds, PanelUnready,
     Request, Message, RoundForm, Closes, AutoSet, AcceptPending, Moves, Launches, PutsDown, Silences,
     Kills, Chooses, Applies, Retires, HubDies
<1>1. ASSUME panel' = panel, turn'.pc = "panel" => turn.pc = "panel" PROVE PanelOK'
  BY <1>0, <1>1 DEF PanelOK
<1>2. ASSUME turn'.pc # "panel" PROVE PanelOK'
  BY <1>2 DEF PanelOK
<1>3. CASE GoesOn
  <2>1. \/ panel' = [NoPanel EXCEPT !.todo = setup.challengers]
        \/ panel' = panel /\ (turn' = turn \/ turn' = [NoTurn EXCEPT !.pc = "begun"])
    BY <1>3 DEF GoesOn, Launched
  <2>2. CASE panel' = [NoPanel EXCEPT !.todo = setup.challengers]
    BY <1>0, <2>2 DEF PanelOK, NoPanel
  <2> QED BY <1>1, <1>2, <2>1, <2>2 DEF NoTurn
<1>4. CASE MemberSpeaks \/ MemberDrops
  <2>1. turn' = turn /\ panel'.round = panel.round /\ panel'.todo \subseteq panel.todo
    BY <1>4 DEF MemberSpeaks, MemberDrops, HubOK, PanelType
  <2> QED BY <1>0, <2>1 DEF PanelOK
<1>5. CASE NextRound
  <2>1. panel'.round # 0
    <3>1. panel.round \in Nat /\ panel'.round = panel.round + 1
      BY <1>5 DEF NextRound, HubOK, PanelType
    <3> QED BY <3>1
  <2> QED BY <2>1 DEF PanelOK
<1>6. CASE PanelRules \/ PanelEnds \/ PanelUnready \/ HubDies \/ Spawn \/ Unready \/ ChildExits \/ Reconcile \/ TurnEnds
  BY <1>2, <1>6, NothingIs
  DEF PanelRules, PanelEnds, PanelUnready, HubDies, Spawn, Unready, ChildExits, Reconcile, TurnEnds, Over,
      HubOK, TurnType, NoTurn
<1>7. CASE TimesOut \/ ACall \/ ARequest \/ Chooses \/ Applies \/ Retires
  <2>1. panel' = panel /\ (turn'.pc = turn.pc \/ turn'.pc = "begun")
    BY <1>7
    DEF TimesOut, ACall, ARequest, Heeds, Asks, Proposes, PoseQuestion, PoseRound, Waits, Returns, Idles,
        Drops, Finishes, Finished, Request, Message, RoundForm, Closes, AutoSet, AcceptPending, Moves,
        Launches, Launched, PutsDown, Silences, Kills, Chooses, Applies, Retires, hub, HubOK, TurnType, NoTurn
  <2> QED BY <1>1, <2>1
<1> QED BY <1>3, <1>4, <1>5, <1>6, <1>7 DEF Next, ATurn, APanel, AWorld

-----------------------------------------------------------------------------
(* The invariant, and what it shows *)

LEMMA TalkStarts ==
  ASSUME Init
  PROVE  TalkInv
<1>1. TypeOK /\ HubOK
  BY TypesStart
<1>2. /\ call.pc = "idle" /\ req.pc = "idle" /\ turn.pc = "begun" /\ log = <<>>
  BY NothingIs DEF Init, NoTurn
<1>3. CallersOK /\ QuestionsOK /\ AnswersOK /\ NewsOK /\ PanelOK
  BY <1>2 DEF CallersOK, QuestionsOK, AnswersOK, AnswerDue, NewsOK, PanelOK
<1>4. CaughtUp
  BY <1>2 DEF CaughtUp, MaySpeak
<1> QED BY <1>1, <1>3, <1>4 DEF TalkInv

LEMMA TalkSteps ==
  ASSUME TalkInv, "hasty" \notin Gestures, [Next]_vars
  PROVE  TalkInv'
<1>1. CASE Next
  BY <1>1, TypesKept, CallersSteps, QuestionsSteps, AnswersSteps, CaughtSteps, NewsSteps, PanelSteps DEF TalkInv
<1>2. CASE UNCHANGED vars
  <2>1. UNCHANGED <<setup, state, reason, orphan, log, cursor, told, turn, tail, call, panel, req>>
    BY <1>2 DEF vars, session, talk, hub
  <2>2. TypeOK' /\ HubOK'
    BY <1>2, TypesStutter DEF TalkInv
  <2>3. CallersOK' /\ AnswersOK'
    BY <2>1 DEF TalkInv, CallersOK, AnswersOK, AnswerDue, Rests, Dead
  <2>4. QuestionsOK'
    <3>1. After(call.at)' = After(call.at)
      BY <2>1 DEF After, Answers, Of
    <3> QED BY <2>1, <3>1 DEF TalkInv, QuestionsOK, Dead
  <2>5. CaughtUp' /\ NewsOK' /\ PanelOK'
    BY <2>1 DEF TalkInv, CaughtUp, MaySpeak, Caught, Heard, NewsOK, News, PanelOK, Dead, Answers, Decisions, Of
  <2> QED BY <2>2, <2>3, <2>4, <2>5 DEF TalkInv
<1> QED BY <1>1, <1>2

\* Of users who answer in time: before the interviewer of a live session asks or
\* proposes again it has been told the latest answer, whatever calls were dropped,
\* returned late or idled away, and however its turns ended and were launched again.
THEOREM AnswersReached ==
  ASSUME "hasty" \notin Gestures
  PROVE  Spec => []AnswersReach
<1>1. Init => TalkInv
  BY TalkStarts
<1>2. TalkInv /\ [Next]_vars => TalkInv'
  BY TalkSteps
<1>3. TalkInv => AnswersReach
  BY DEF TalkInv, CaughtUp, Heard, AnswersReach, Dead, Ended
<1> QED BY <1>1, <1>2, <1>3, PTL DEF Spec

\* Of users who answer in time: a session finishes on what was proposed since the
\* latest answer, by its interviewer or by its panel, and a follow-up that reopens it
\* takes an earlier outcome, draft or vote out of play.
THEOREM FinishedOnNews ==
  ASSUME "hasty" \notin Gestures
  PROVE  Spec => FinishesOnNews
<1> DEFINE Newly == state # "finished" /\ state' = "finished" => \E i \in Decisions : \A j \in Answers : j < i
<1>1. Init => TalkInv
  BY TalkStarts
<1>2. TalkInv /\ [Next]_vars => TalkInv'
  BY TalkSteps
<1>3. TalkInv /\ [Next]_vars => [Newly]_vars
  <2> SUFFICES ASSUME TalkInv, Next, state # "finished", state' = "finished"
               PROVE  News
    BY DEF News
  <2>1. SessionOK
    BY DEF TalkInv, TypeOK, SessionOK
  <2>2. Finished \/ PanelEnds
    BY <2>1, SessionSteps
  <2>3. call.pc = "finished" \/ turn.pc = "ruled"
    BY <2>2 DEF Finished, PanelEnds
  <2>4. ~Dead
    BY <2>1, SessionSteps DEF Dead
  <2> QED BY <2>3, <2>4 DEF TalkInv, NewsOK
<1> QED BY <1>1, <1>2, <1>3, PTL DEF Spec, FinishesOnNews
=============================================================================
