----------------------------- MODULE GrillTalk -----------------------------
(***************************************************************************)
(* The conversation of one grill session (webserver/grill.go, grillmcp.go, *)
(* grillround.go, grillrunner.go, grilldraft.go, hubstore/grill.go): an    *)
(* agent interviews the user one turn, that is one child process, at a     *)
(* time.  The child asks and proposes through calls to the hub and may     *)
(* block in one; the user answers, interjects, stops and resumes through   *)
(* others; the hub settles the session when the child is gone, and lets a  *)
(* panel of further providers argue about what the interviewer proposed.   *)
(* One step is one store transaction or one process operation; the store's *)
(* Transition, which reads and writes, is one.                             *)
(***************************************************************************)
EXTENDS Integers, Sequences, FiniteSets

CONSTANTS
  Members,      \* providers that may be asked for a second opinion
  Setups,       \* the sessions a behaviour may be about, with a bound on the gestures and
                \* one on the interviewer's calls
  Poses,        \* the questions an interviewer may put
  Gestures      \* what the user and the world may do

Interviewer == "interviewer"
One   == {1}        \* ask_user has one question,
Round == {1, 2}     \* a round of ask_round two

Kinds == {"message", "answers", "resume", "stop", "abandon", "auto"}
World == {"choose", "apply", "close", "restart"}
\* Permissions: to answer while the turn the answer is for is winding down, and to
\* interject into a pre-grill's turn.
Liberties == {"hasty", "aside"}

ASSUME MemberAssumption == Interviewer \notin Members /\ IsFiniteSet(Members)
ASSUME SetupAssumption  ==
  Setups \subseteq [challengers : SUBSET Members, rounds : Nat, ahead : BOOLEAN, gestures : Nat, calls : Nat]
ASSUME PoseAssumption   == Poses \subseteq [parts : {One, Round}, rec : SUBSET Round]
ASSUME GestureAssumption == Gestures \subseteq Kinds \cup World \cup Liberties

VARIABLES
  setup,     \* challengers, challenge rounds, whether this is a pre-grill nobody watches
  state,     \* grill_sessions.state
  reason,    \* grill_sessions.parked_reason
  auto,      \* the session answers its own recommendations
  chain,     \* the agent's own session can be resumed
  log,       \* grill_messages
  cursor,    \* interjections up to this message are delivered
  turn,      \* the turn that holds the session's one slot, grillRunner.inflight
  tail,      \* what the goroutine of an ended turn still has to do
  call,      \* the interviewer's call to the hub
  panel,     \* the second-opinion phase
  req,       \* the user's request
  told,      \* answers the agent was told of, or a prompt passed over
  orphan,    \* a hub died while this session was running
  gestures, calls   \* what is left of the bounds

session == <<state, reason, orphan>>
talk    == <<log, cursor, told>>
hub     == <<turn, tail, call, panel, req>>
vars    == <<setup, session, auto, chain, talk, hub, gestures, calls>>

States  == {"running", "waiting", "parked", "stalled", "finished", "applied", "abandoned"}
Reasons == {"", "stopped", "trouble"}

Question == [kind : {"question"}, text : Nat, parts : {One, Round}, rec : SUBSET Round, got : SUBSET Round]
Turn     == [kind : {"proposal"}, by : Members \cup {Interviewer}, round : Nat, endorse : Members \cup {Interviewer, ""}]
Entry    == Question \cup Turn \cup [kind : {"answer"}, steer : BOOLEAN] \cup [kind : {"interjection"}]
              \cup [kind : {"outcome"}, by : Members \cup {Interviewer}]

NoTurn  == [pc |-> "off", ends |-> "ok", again |-> FALSE, by |-> "", ahead |-> FALSE]
NoQ     == [parts |-> {}, rec |-> {}, text |-> 0]
NoCall  == [pc |-> "idle", q |-> NoQ, at |-> 0, live |-> TRUE]
NoPanel == [round |-> 0, todo |-> {}, kept |-> {}]
NoReq   == [pc |-> "idle", seen |-> "running", stopped |-> FALSE]

Highest(S) == CHOOSE n \in S : \A m \in S : m <= n

Ended(s)   == s \in {"finished", "applied", "abandoned"}
Accepts(s) == s \in {"waiting", "parked", "stalled", "finished"}

Legal ==
  [running  |-> {"waiting", "parked", "stalled", "finished", "abandoned"},
   waiting  |-> {"running", "parked", "stalled", "finished", "abandoned"},
   parked   |-> {"running", "stalled", "finished", "abandoned"},
   stalled  |-> {"running", "parked", "finished", "abandoned"},
   finished |-> {"running", "applied", "abandoned"},
   applied  |-> {}, abandoned |-> {}]

\* The state machine's move; an illegal one is refused and changes nothing.
May(s)           == s \in Legal[state]
Becomes(s, r)    == state' = s /\ reason' = r /\ orphan' = FALSE
Transition(s, r) == IF May(s) THEN Becomes(s, r) ELSE UNCHANGED session
Stopped          == state = "parked" /\ reason = "stopped"

(***************************************************************************)
(* The transcript                                                          *)
(***************************************************************************)
Of(kind)    == {i \in DOMAIN log : log[i].kind = kind}
Answers     == Of("answer")
Pending     == {i \in Of("interjection") : i > cursor}
Says(m)     == log' = Append(log, m)
Answer(s)   == [kind |-> "answer", steer |-> s]

\* The question the transcript ends in; it is answered by whatever follows it.
Trailing    == IF log # <<>> /\ log[Len(log)].kind = "question" THEN Len(log) ELSE 0
IsRound(m)  == m.parts = Round
OpenRound   == Trailing # 0 /\ IsRound(log[Trailing]) /\ log[Trailing].got # Round
After(n)    == {i \in Answers : i > n}

\* Faulty variant: a reopened session remembers what it had settled.
FaultyCycle == DOMAIN log

\* A finished session that takes an answer reopens, and its earlier proposals settle
\* nothing: the cycle begins with the latest answer that follows one.
Decisions   == Of("proposal") \cup Of("outcome")
Reopens     == {i \in Answers : \E j \in Decisions : j < i /\ \A k \in Answers : ~(j < k /\ k < i)}
Cycle       == IF Reopens = {} THEN DOMAIN log ELSE Highest(Reopens) .. Len(log)
Drafts(m)   == {i \in Cycle : log[i].kind = "proposal" /\ log[i].by = m /\ log[i].endorse = ""}
Panel       == {Interviewer} \cup setup.challengers
Holders     == {m \in Panel : Drafts(m) # {}}
Decided     == \E i \in Cycle : log[i].kind = "outcome"
Spoke(m, r) == {i \in Cycle : log[i].kind = "proposal" /\ log[i].by = m /\ log[i].round = r}
DraftsPending == setup.challengers # {} /\ state = "running" /\ Holders # {} /\ ~Decided

(***************************************************************************)
(* A turn: begin, the child, reconcile, end                                *)
(***************************************************************************)
Active == turn.pc # "off"

\* Unless hasty, who answers does so at rest or while the question is held open, and
\* the hub has served the answer before the call that waits for it or its child is
\* gone, as it has served every call of a child before the next one starts.
Rests   == turn.pc = "off" /\ tail = "" /\ call.pc = "idle"
Asked   == call.pc = "held" /\ call.live /\ ~turn.ahead
InTime  == "hasty" \in Gestures \/ Rests \/ Asked
Quiet   == "hasty" \in Gestures \/ call.pc = "idle"
Served  ==
  \/ "hasty" \in Gestures
  \/ req.pc \in {"idle", "stop", "abandon", "silence", "kill"}
  \/ req.pc = "message" /\ req.seen = "running"

\* launch does nothing while another turn holds the slot.
Launched == IF Active THEN turn ELSE [NoTurn EXCEPT !.pc = "begun"]

\* Faulty variant: a resumed agent is told to go on, not what was answered.
FaultyPrompt ==
  LET steer == chain /\ Pending # {}
  IN /\ cursor' = IF steer THEN Highest(Pending) ELSE cursor
     /\ told' = IF steer \/ ~chain THEN told \cup Answers ELSE told

\* The prompt: what was interjected outranks an open round, and that the latest
\* answer; a session the agent cannot resume starts from its first prompt.
Prompt ==
  LET steer  == chain /\ Pending # {}
      rest   == OpenRound /\ log[Trailing].got # {}
      latest == turn.by = "" /\ ~rest /\ Answers # {}
  IN /\ cursor' = IF steer THEN Highest(Pending) ELSE cursor
     /\ told' = told \cup (IF steer \/ ~chain THEN Answers ELSE IF latest THEN {Highest(Answers)} ELSE {})

Spawn ==
  /\ turn.pc = "begun" /\ Quiet
  /\ turn' = [turn EXCEPT !.pc = "child"]
  /\ Prompt
  /\ UNCHANGED <<setup, session, auto, chain, log, tail, call, panel, req, gestures, calls>>

\* No repository, no provider, no prompt: the session is put down before a child exists.
Unready ==
  /\ turn.pc = "begun"
  /\ Transition("parked", "trouble")
  /\ turn' = [turn EXCEPT !.pc = "settled"]
  /\ UNCHANGED <<setup, auto, chain, talk, tail, call, panel, req, gestures, calls>>

\* A child ends of itself, or because its turn was canceled; what it leaves may name
\* a session to resume and may read as a provider's wall.  A call it was blocked in
\* ends with it, one the hub is serving does not.
ChildExits ==
  /\ turn.pc = "child"
  /\ Served
  /\ \E e \in {"ok", "error", "wall"} :
       /\ turn.by # "" => e # "ok"
       /\ turn' = [turn EXCEPT !.pc = "gone", !.ends = e]
  /\ chain' \in {chain, TRUE}
  /\ call' = IF call.pc \in {"idle", "held"} THEN NoCall ELSE [call EXCEPT !.live = FALSE]
  /\ UNCHANGED <<setup, session, auto, talk, tail, panel, req, gestures, calls>>

\* grillTurnTimeout; to an interviewer's turn it is one more way to end.
TimesOut ==
  /\ turn.pc = "panel" /\ turn.by = ""
  /\ turn' = [turn EXCEPT !.by = "time"]
  /\ UNCHANGED <<setup, session, auto, chain, talk, tail, call, panel, req, gestures, calls>>

\* Faulty variant: a wall stalls whatever is parked.
FaultyLeftBy ==
  CASE state = "parked" /\ turn.ends = "wall" -> <<"stalled", "trouble">>
    [] state = "running" /\ ~DraftsPending /\ turn.ends = "wall"  -> <<"stalled", "trouble">>
    [] state = "running" /\ ~DraftsPending /\ turn.ends = "error" -> <<"parked", "trouble">>
    [] state = "running" /\ ~DraftsPending /\ turn.ends = "ok" /\ ~(chain /\ Pending # {}) -> <<"parked", "trouble">>
    [] OTHER -> <<state, reason>>

\* What a turn leaves on a session that its calls did not settle: a stop stands, a
\* pending panel or a queued interjection keeps the session running.
LeftBy ==
  CASE state = "parked" /\ turn.ends = "wall" /\ ~Stopped -> <<"stalled", "trouble">>
    [] state = "running" /\ ~DraftsPending /\ turn.ends = "wall"  -> <<"stalled", "trouble">>
    [] state = "running" /\ ~DraftsPending /\ turn.ends = "error" -> <<"parked", "trouble">>
    [] state = "running" /\ ~DraftsPending /\ turn.ends = "ok" /\ ~(chain /\ Pending # {}) -> <<"parked", "trouble">>
    [] OTHER -> <<state, reason>>

Reconcile ==
  /\ turn.pc = "gone" /\ Quiet
  /\ LET s == LeftBy IN IF s = <<state, reason>> THEN UNCHANGED session ELSE Transition(s[1], s[2])
  /\ turn' = [NoTurn EXCEPT !.pc = "settled", !.ahead = turn.ahead,
                !.again = state = "running" /\ ~DraftsPending /\ LeftBy = <<state, reason>>]
  /\ UNCHANGED <<setup, auto, chain, talk, tail, call, panel, req, gestures, calls>>

\* The slot is free; the goroutine that held it goes on.  A pre-grill's turn has none.
TurnEnds ==
  /\ turn.pc = "settled" /\ tail = ""
  /\ tail' = IF turn.ahead THEN "" ELSE IF turn.again THEN "again" ELSE "once"
  /\ turn' = NoTurn
  /\ UNCHANGED <<setup, session, auto, chain, talk, call, panel, req, gestures, calls>>

\* Faulty variant: what was interjected waits for a turn that nobody launches.
FaultyGoesOn ==
  /\ tail # "" /\ Quiet
  /\ IF DraftsPending /\ ~Active
     THEN turn' = [NoTurn EXCEPT !.pc = "panel"] /\ panel' = [NoPanel EXCEPT !.todo = setup.challengers]
     ELSE UNCHANGED <<turn, panel>>
  /\ tail' = ""
  /\ UNCHANGED <<setup, session, auto, chain, talk, call, req, gestures, calls>>

\* It opens the panel, or goes round; neither happens when the slot is taken again.
GoesOn ==
  /\ tail # "" /\ Quiet
  /\ IF DraftsPending /\ ~Active
     THEN /\ turn' = [NoTurn EXCEPT !.pc = "panel"]
          /\ panel' = [NoPanel EXCEPT !.todo = setup.challengers]
     ELSE /\ turn' = IF tail = "again" /\ ~DraftsPending THEN Launched ELSE turn
          /\ UNCHANGED panel
  /\ tail' = ""
  /\ UNCHANGED <<setup, session, auto, chain, talk, call, req, gestures, calls>>

(***************************************************************************)
(* What the interviewer calls                                              *)
(***************************************************************************)
\* A live interviewer calls; what the user interjected is the answer to any call.
Calls ==
  turn.pc = "child" /\ turn.by = "" /\ call.pc = "idle" /\ calls > 0 /\ calls' = calls - 1

Heeds ==
  /\ Calls /\ Pending # {}
  /\ cursor' = Highest(Pending)
  /\ UNCHANGED <<setup, session, auto, chain, log, told, hub, gestures>>

Calling(pc, q) == call' = [NoCall EXCEPT !.pc = pc, !.q = q]
Text           == Cardinality(Of("question")) + 1

\* ask_user and ask_round: a new question, or the one the transcript ends in put again.
Asks ==
  /\ Calls /\ Pending = {}
  /\ \/ \E p \in Poses : Calling("pose", [parts |-> p.parts, rec |-> p.rec, text |-> Text])
     \/ LET t == log[Trailing] IN
        Trailing # 0 /\ Calling("pose", [parts |-> t.parts, rec |-> t.rec, text |-> t.text])
  /\ UNCHANGED <<setup, session, auto, chain, talk, turn, tail, panel, req, gestures>>

\* finish_session.
Proposes ==
  /\ Calls /\ Pending = {}
  /\ Calling("finish", NoQ)
  /\ UNCHANGED <<setup, session, auto, chain, talk, turn, tail, panel, req, gestures>>

Posed(got)  == [kind |-> "question", text |-> call.q.text, parts |-> call.q.parts, rec |-> call.q.rec, got |-> got]
AutoAccepts == auto /\ ~Ended(state)
Same(i)     == i # 0 /\ log[i].text = call.q.text
\* The call blocks, unless its caller is gone.
Held(at)    == IF call.live \/ turn.ahead THEN [call EXCEPT !.pc = "held", !.at = at] ELSE NoCall
Tells(i)    == told' = IF call.live THEN told \cup {i} ELSE told

\* ask_user: a recommendation an auto-accepting session takes; the question it is
\* already waiting on; or one more question.
PoseQuestion ==
  /\ call.pc = "pose" /\ ~IsRound(call.q)
  /\ \/ /\ AutoAccepts /\ call.q.rec # {}
        /\ log' = log \o <<Posed(One), Answer(FALSE)>>
        /\ Tells(Len(log) + 2)
        /\ call' = NoCall
     \/ /\ ~(AutoAccepts /\ call.q.rec # {})
        /\ IF state = "waiting" /\ Same(Trailing)
           THEN call' = Held(Trailing) /\ UNCHANGED log
           ELSE Says(Posed({})) /\ call' = [call EXCEPT !.pc = "wait", !.at = Len(log) + 1]
        /\ UNCHANGED told
  /\ UNCHANGED <<setup, session, auto, chain, cursor, turn, tail, panel, req, gestures, calls>>

\* ask_round: an open round it matches is taken up again; recommendations answer
\* what they can, and a round they complete never reaches the user.
PoseRound ==
  /\ call.pc = "pose" /\ IsRound(call.q)
  /\ LET again == OpenRound /\ Same(Trailing)
         at    == IF again THEN Trailing ELSE Len(log) + 1
         got   == (IF again THEN log[at].got ELSE {}) \cup (IF AutoAccepts THEN call.q.rec ELSE {})
         posed == IF again THEN [log EXCEPT ![at].got = got] ELSE Append(log, Posed(got))
     IN IF got = Round
        THEN log' = Append(posed, Answer(FALSE)) /\ Tells(Len(posed) + 1) /\ call' = NoCall
        ELSE /\ log' = posed
             /\ call' = IF again /\ state = "waiting" THEN Held(at) ELSE [call EXCEPT !.pc = "wait", !.at = at]
             /\ UNCHANGED told
  /\ UNCHANGED <<setup, session, auto, chain, cursor, turn, tail, panel, req, gestures, calls>>

\* The session waits; one that was put down or ended meanwhile does not, and the
\* agent is told to end its turn.
Waits ==
  /\ call.pc = "wait"
  /\ Transition("waiting", "")
  /\ call' = IF May("waiting") THEN Held(call.at) ELSE NoCall
  /\ UNCHANGED <<setup, auto, chain, talk, turn, tail, panel, req, gestures, calls>>

\* The blocked call returns the first answer after its question, or that the session
\* ended.
Returns ==
  LET first == CHOOSE i \in After(call.at) : \A j \in After(call.at) : i <= j IN
  /\ call.pc = "held" /\ ~turn.ahead
  /\ \/ After(call.at) # {} /\ Tells(first)
     \/ After(call.at) = {} /\ Ended(state) /\ UNCHANGED told
  /\ call' = NoCall
  /\ UNCHANGED <<setup, session, auto, chain, log, cursor, turn, tail, panel, req, gestures, calls>>

\* Nobody answers for grillAskIdleTimeout, or nobody is there to: the session parks.
Idles ==
  /\ call.pc = "held" /\ (turn.ahead \/ After(call.at) = {}) /\ Served
  /\ Transition("parked", "")
  /\ call' = NoCall
  /\ UNCHANGED <<setup, auto, chain, talk, turn, tail, panel, req, gestures, calls>>

\* A provider's client gives up on a long call; it may put the question again.
Drops ==
  /\ call.pc = "held" /\ ~turn.ahead /\ Served
  /\ "hasty" \in Gestures \/ After(call.at) = {}
  /\ call' = NoCall
  /\ UNCHANGED <<setup, session, auto, chain, talk, turn, tail, panel, req, gestures, calls>>

Draft(m, r, e) == [kind |-> "proposal", by |-> m, round |-> r, endorse |-> e]
Outcome(m)     == [kind |-> "outcome", by |-> m]
Finishable     == state \in {"running", "waiting", "parked", "stalled"}

\* With challengers the interviewer's proposal is one of several, otherwise it is the
\* outcome.
Finishes ==
  /\ call.pc = "finish"
  /\ CASE ~Finishable -> UNCHANGED log /\ call' = NoCall
       [] Finishable /\ setup.challengers # {} -> Says(Draft(Interviewer, 0, "")) /\ call' = NoCall
       [] Finishable /\ setup.challengers = {} -> Says(Outcome(Interviewer)) /\ call' = [call EXCEPT !.pc = "finished"]
  /\ UNCHANGED <<setup, session, auto, chain, cursor, told, turn, tail, panel, req, gestures, calls>>

Finished ==
  /\ call.pc = "finished"
  /\ Transition("finished", "")
  /\ call' = NoCall
  /\ UNCHANGED <<setup, auto, chain, talk, turn, tail, panel, req, gestures, calls>>

(***************************************************************************)
(* The panel                                                               *)
(***************************************************************************)
\* submit_decision: a draft of its own, and in a round that or the name of a holder;
\* its own name counts as its own draft does.
MemberSpeaks ==
  /\ turn.pc = "panel" /\ turn.by = "" /\ state = "running"
  /\ \E m \in panel.todo :
       /\ Spoke(m, panel.round) = {}
       /\ \E e \in {""} \cup (IF panel.round = 0 THEN {} ELSE Holders \ {m}) : Says(Draft(m, panel.round, e))
       /\ panel' = [panel EXCEPT !.todo = @ \ {m}, !.kept = @ \cup {m}]
  /\ UNCHANGED <<setup, session, auto, chain, cursor, told, turn, tail, call, req, gestures, calls>>

MemberDrops ==
  /\ turn.pc = "panel"
  /\ \E m \in panel.todo : panel' = [panel EXCEPT !.todo = @ \ {m}]
  /\ UNCHANGED <<setup, session, auto, chain, talk, turn, tail, call, req, gestures, calls>>

\* grillConsensus: all who are left stand with one of them; who revised stands alone.
Vote(m) == LET i == Highest(Spoke(m, panel.round)) IN IF log[i].endorse = "" THEN m ELSE log[i].endorse
Agreed  == {w \in panel.kept : \A m \in panel.kept : Vote(m) = w}

Contests ==
  /\ panel.round < setup.rounds /\ turn.by = ""
  /\ IF panel.round = 0 THEN Cardinality(Holders) > 1 ELSE Cardinality(panel.kept) > 1 /\ Agreed = {}

NextRound ==
  /\ turn.pc = "panel" /\ panel.todo = {} /\ Contests
  /\ panel' = [panel EXCEPT !.round = @ + 1, !.kept = {}, !.todo = IF panel.round = 0 THEN Holders ELSE panel.kept]
  /\ UNCHANGED <<setup, session, auto, chain, talk, turn, tail, call, req, gestures, calls>>

\* The one the panel settles on, if there is one.
Winners ==
  CASE Cardinality(Holders) = 1 -> Holders
    [] Cardinality(Holders) # 1 /\ panel.round = 0 -> {}
    [] Cardinality(Holders) # 1 /\ panel.round > 0 -> IF Cardinality(panel.kept) = 1 THEN panel.kept ELSE Agreed

Over == turn' = NoTurn /\ panel' = NoPanel

\* finishPanel: a session the user has put down meanwhile is left alone; without a
\* winner the proposals lie side by side for the user to choose from.
PanelRules ==
  /\ turn.pc = "panel" /\ panel.todo = {} /\ ~Contests
  /\ CASE state # "running" \/ Decided ->
            Over /\ UNCHANGED <<session, log>>
       [] state = "running" /\ ~Decided /\ Holders = {} ->
            Over /\ Transition("parked", "trouble") /\ UNCHANGED log
       [] state = "running" /\ ~Decided /\ Holders # {} ->
            /\ IF Winners = {} THEN UNCHANGED log ELSE \E w \in Winners : Says(Outcome(w))
            /\ turn' = [turn EXCEPT !.pc = "ruled"]
            /\ UNCHANGED <<session, panel>>
  /\ UNCHANGED <<setup, auto, chain, cursor, told, tail, call, req, gestures, calls>>

PanelEnds ==
  /\ turn.pc = "ruled"
  /\ Transition("finished", "")
  /\ Over
  /\ UNCHANGED <<setup, auto, chain, talk, tail, call, req, gestures, calls>>

\* No repository or no config for the panel.
PanelUnready ==
  /\ turn.pc = "panel" /\ panel = [NoPanel EXCEPT !.todo = setup.challengers]
  /\ Transition("parked", "trouble")
  /\ Over
  /\ UNCHANGED <<setup, auto, chain, talk, tail, call, req, gestures, calls>>

(***************************************************************************)
(* The user's requests, one at a time                                      *)
(***************************************************************************)
Gesture == gestures > 0 /\ gestures' = gestures - 1

\* A request reads the session and is refused, or goes on with what it read.
Takes(kind) ==
  CASE kind = "message" -> IF state = "running" THEN turn.ahead => "aside" \in Gestures ELSE Accepts(state) /\ InTime
    [] kind = "answers" -> Accepts(state) /\ InTime
    [] kind = "resume"  -> state = "stalled" /\ InTime
    [] kind = "auto"    -> ~Ended(state)
    [] kind = "stop"    -> ~Ended(state) /\ ~(Stopped /\ Active) /\ (state = "running" \/ Active)
    [] kind = "abandon" -> state \notin {"abandoned", "applied"}

Request(kind) ==
  /\ kind \in Gestures /\ req.pc = "idle" /\ Takes(kind)
  /\ Gesture
  /\ req' = [pc |-> kind, seen |-> state, stopped |-> Stopped]
  /\ UNCHANGED <<setup, session, auto, chain, talk, turn, tail, call, panel, calls>>

Goes(pc) == req' = [req EXCEPT !.pc = pc]
Done     == req' = NoReq

\* Answering a session that waits resumes a turn only when none is there to take it.
Spawns == req.seen \in {"parked", "stalled", "finished"} \/ (req.seen = "waiting" /\ ~Active)

\* Typed into a running session it is an interjection; a line does not answer a round.
Message ==
  /\ req.pc = "message"
  /\ CASE req.seen = "running" -> Says([kind |-> "interjection"]) /\ Done
       [] req.seen # "running" /\ OpenRound /\ ~req.stopped -> UNCHANGED log /\ Done
       [] req.seen # "running" /\ ~(OpenRound /\ ~req.stopped) -> Says(Answer(req.stopped)) /\ Goes("move")
  /\ UNCHANGED <<setup, session, auto, chain, cursor, told, turn, tail, call, panel, gestures, calls>>

\* A round's form; what is answered stays answered, and the last answer closes it.
RoundForm ==
  /\ req.pc = "answers"
  /\ IF ~OpenRound THEN UNCHANGED log /\ Done
     ELSE \E in \in SUBSET (Round \ log[Trailing].got) \ {{}} :
            /\ log' = [log EXCEPT ![Trailing].got = @ \cup in]
            /\ IF log[Trailing].got \cup in = Round THEN Goes("close") ELSE IF Spawns THEN Goes("move") ELSE Done
  /\ UNCHANGED <<setup, session, auto, chain, cursor, told, turn, tail, call, panel, gestures, calls>>

Closes ==
  /\ req.pc = "close"
  /\ Says(Answer(FALSE))
  /\ Goes("move")
  /\ UNCHANGED <<setup, session, auto, chain, cursor, told, turn, tail, call, panel, gestures, calls>>

\* The switch is set, and what is asked right now is answered with it.
AutoSet ==
  /\ req.pc = "auto" /\ (~auto /\ Accepts(state) => InTime)
  /\ auto' = ~auto
  /\ req' = IF ~auto /\ Accepts(state) THEN [pc |-> "accept", seen |-> state, stopped |-> Stopped] ELSE NoReq
  /\ UNCHANGED <<setup, session, chain, talk, turn, tail, call, panel, gestures, calls>>

AcceptPending ==
  /\ req.pc = "accept"
  /\ LET t == log[Trailing] IN
     CASE Trailing = 0 -> UNCHANGED log /\ Done
       [] Trailing # 0 /\ IsRound(t) ->
            /\ log' = [log EXCEPT ![Trailing].got = @ \cup t.rec]
            /\ IF t.got \cup t.rec = Round THEN Goes("close") ELSE Done
       [] Trailing # 0 /\ ~IsRound(t) ->
            IF t.rec = {} THEN UNCHANGED log /\ Done ELSE Says(Answer(req.stopped)) /\ Goes("move")
  /\ UNCHANGED <<setup, session, auto, chain, cursor, told, turn, tail, call, panel, gestures, calls>>

\* Back to running, and the turn a session without a child needs.
Moves ==
  /\ req.pc \in {"move", "resume"}
  /\ Transition("running", "")
  /\ IF May("running") THEN Goes("launch") ELSE Done
  /\ UNCHANGED <<setup, auto, chain, talk, turn, tail, call, panel, gestures, calls>>

Launches ==
  /\ req.pc = "launch"
  /\ turn' = IF Spawns THEN Launched ELSE turn
  /\ Done
  /\ UNCHANGED <<setup, session, auto, chain, talk, tail, call, panel, gestures, calls>>

\* Stop parks the session before it kills the turn; abandon ends it first.
PutsDown ==
  /\ req.pc \in {"stop", "abandon"}
  /\ LET to == IF req.pc = "stop" THEN "parked" ELSE "abandoned" IN
     IF req.pc = "stop" /\ req.seen = "parked" THEN UNCHANGED session /\ Goes("silence")
     ELSE /\ Transition(to, IF req.pc = "stop" THEN "stopped" ELSE "")
          /\ IF ~May(to) THEN Done ELSE Goes(IF req.pc = "stop" THEN "silence" ELSE "kill")
  /\ UNCHANGED <<setup, auto, chain, talk, turn, tail, call, panel, gestures, calls>>

Silences ==
  /\ req.pc = "silence"
  /\ auto' = FALSE
  /\ Goes("kill")
  /\ UNCHANGED <<setup, session, chain, talk, turn, tail, call, panel, gestures, calls>>

Kills ==
  /\ req.pc = "kill"
  /\ turn' = IF Active THEN [turn EXCEPT !.by = "user"] ELSE turn
  /\ Done
  /\ UNCHANGED <<setup, session, auto, chain, talk, tail, call, panel, gestures, calls>>

(***************************************************************************)
(* What else reaches a session                                             *)
(***************************************************************************)
\* The user picks one of a finished panel's proposals,
Chooses ==
  /\ "choose" \in Gestures /\ Gesture
  /\ state = "finished" /\ setup.challengers # {} /\ ~Decided
  /\ \E m \in Holders : Says(Outcome(m))
  /\ UNCHANGED <<setup, session, auto, chain, cursor, told, hub, calls>>

\* or applies the outcome (GrillApply);
Applies ==
  /\ "apply" \in Gestures /\ Gesture
  /\ state = "finished" /\ Decided
  /\ Transition("applied", "")
  /\ UNCHANGED <<setup, auto, chain, talk, hub, calls>>

\* the issue is closed, which retires a session that is not at work;
Retires ==
  /\ "close" \in Gestures /\ Gesture
  /\ state \in {"waiting", "parked", "stalled", "finished"}
  /\ Becomes("abandoned", "trouble")
  /\ UNCHANGED <<setup, auto, chain, talk, hub, calls>>

\* or the hub dies: turns, calls and requests are gone, sessions are as they were.
HubDies ==
  /\ "restart" \in Gestures /\ Gesture
  /\ turn' = NoTurn /\ tail' = "" /\ call' = NoCall /\ panel' = NoPanel /\ req' = NoReq
  /\ orphan' = (state = "running")
  /\ UNCHANGED <<setup, state, reason, auto, chain, talk, calls>>

-----------------------------------------------------------------------------

Init ==
  /\ setup \in Setups
  /\ state = "running" /\ reason = "" /\ orphan = FALSE
  /\ auto \in (IF setup.ahead THEN {TRUE} ELSE BOOLEAN)
  /\ chain = FALSE
  /\ log = <<>> /\ cursor = 0 /\ told = {}
  /\ turn = [NoTurn EXCEPT !.pc = "begun", !.ahead = setup.ahead]
  /\ tail = "" /\ call = NoCall /\ panel = NoPanel /\ req = NoReq
  /\ gestures = setup.gestures /\ calls = setup.calls

ATurn    == Spawn \/ Unready \/ ChildExits \/ TimesOut \/ Reconcile \/ TurnEnds \/ GoesOn
ACall    == Heeds \/ Asks \/ Proposes \/ PoseQuestion \/ PoseRound \/ Waits \/ Returns \/ Idles \/ Drops \/ Finishes \/ Finished
APanel   == MemberSpeaks \/ MemberDrops \/ NextRound \/ PanelRules \/ PanelEnds \/ PanelUnready
ARequest == (\E k \in Kinds : Request(k)) \/ Message \/ RoundForm \/ Closes \/ AutoSet \/ AcceptPending \/ Moves
              \/ Launches \/ PutsDown \/ Silences \/ Kills
AWorld   == Chooses \/ Applies \/ Retires \/ HubDies

Next == ATurn \/ ACall \/ APanel \/ ARequest \/ AWorld

\* Goroutines and handlers run on, a child ends or is killed at grillTurnTimeout, and
\* so does a member's run; nobody has to call, answer or time out.
Fair ==
  /\ WF_vars(Spawn \/ Unready) /\ WF_vars(ChildExits) /\ WF_vars(Reconcile) /\ WF_vars(TurnEnds) /\ WF_vars(GoesOn)
  /\ WF_vars(PoseQuestion \/ PoseRound \/ Waits \/ Finishes \/ Finished)
  /\ WF_vars(MemberSpeaks \/ MemberDrops) /\ WF_vars(NextRound \/ PanelRules \/ PanelEnds)
  /\ WF_vars(Message \/ RoundForm \/ Closes \/ AutoSet \/ AcceptPending \/ Moves \/ Launches)
  /\ WF_vars(PutsDown \/ Silences \/ Kills)

Spec == Init /\ [][Next]_vars /\ Fair

-----------------------------------------------------------------------------
(***************************************************************************)
(* Properties                                                              *)
(***************************************************************************)
TypeOK ==
  /\ setup \in Setups /\ state \in States /\ reason \in Reasons /\ orphan \in BOOLEAN
  /\ auto \in BOOLEAN /\ chain \in BOOLEAN
  /\ log \in Seq(Entry) /\ cursor \in Nat /\ told \subseteq Nat

\* A session that is running comes to rest - it waits, is put down, or ends - whatever
\* its turn died of, whoever stopped what in between, and however the panel went,
\* unless the hub itself died over it (reconcile and the goroutine of launch; nothing
\* else settles a running session).
RunningSettles == (state = "running" /\ ~orphan) ~> (state # "running" \/ orphan)

\* Before the interviewer of a live session asks or proposes again it has been told the user's latest
\* answer, by the call that asked, by its prompt, or by the hub answering for the user;
\* a prompt passes one over only for what the user interjected since, or when the
\* agent's own session is gone (grillAnswerAfter, answerPrompt).
Speaks(m) ==
  \/ m.kind = "question"
  \/ m.kind = "proposal" /\ m.by = Interviewer /\ m.round = 0
AnswersReach ==
  \A i \in DOMAIN log : LET before == {j \in Answers : j < i} IN
    Speaks(log[i]) /\ before # {} /\ ~Ended(state) => Highest(before) \in told

\* A session finishes on what was proposed since the user's last answer: a follow-up
\* reopens it, and neither an earlier proposal nor an earlier panel's votes settle it
\* again (grillActiveCycle, grillDraftsPending, finishPanel).
FinishesOnNews ==
  [][state # "finished" /\ state' = "finished" => \E i \in Decisions : \A j \in Answers : j < i]_vars

\* A stop stands until the user goes on, an outcome that was already on its way
\* arrives, or the session is abandoned: no turn that it killed, and none that was
\* still to come, parks the session for another reason or reads the kill as a wall
\* (handleGrillStop, reconcile).
StopStands ==
  [][Stopped /\ ~Stopped' =>
       \/ state' = "running" /\ req.pc \in {"move", "resume"}
       \/ state' \in {"finished", "abandoned"}]_vars
=============================================================================
