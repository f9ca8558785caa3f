-------------------------- MODULE NavigationProofs ---------------------------
(***************************************************************************)
(* The Navigation example: what holds of the worker and its evaluator for  *)
(* any time limits and any number of streams, and what holds of the driver *)
(* of a native capture, its recorder and its finalizer.                    *)
(***************************************************************************)
EXTENDS NavWorkload, NavCapture, TLAPS


-----------------------------------------------------------------------------
(* Types.                                                                  *)

\* The time limits are numbers.
LEMMA Limits ==
  /\ MinSeen \in Nat \ {0} /\ Horizon \in Nat \ {0}
  /\ ReadyBudget \in Nat /\ ObserveBudget \in Nat /\ ActionBudget \in Nat /\ CallBudget \in Nat
  /\ TriggerBudget \in Nat /\ ServiceBudget \in Nat /\ MaxAge \in Nat
  BY ParametersAdmitted

\* The lesser of two numbers is one of them, and not above either.
LEMMA EarlierIs ==
  ASSUME NEW a \in Nat, NEW b \in Nat
  PROVE  Earlier(a, b) = IF a <= b THEN a ELSE b
<1>1. CASE a <= b
  <2>1. a \in {a, b} /\ \A y \in {a, b} : a <= y
    BY <1>1
  <2>2. \A x \in {a, b} : (\A y \in {a, b} : x <= y) => x = a
    BY <1>1
  <2> QED BY <1>1, <2>1, <2>2 DEF Earlier, Min
<1>2. CASE ~(a <= b)
  <2>1. b \in {a, b} /\ \A y \in {a, b} : b <= y
    BY <1>2
  <2>2. \A x \in {a, b} : (\A y \in {a, b} : x <= y) => x = b
    BY <1>2
  <2> QED BY <1>2, <2>1, <2>2 DEF Earlier, Min
<1> QED BY <1>1, <1>2

\* An earlier deadline is a time, and not after either.
LEMMA EarlierTyped ==
  ASSUME NEW a \in Time, NEW b \in Time
  PROVE  Earlier(a, b) \in Time /\ Earlier(a, b) <= a /\ Earlier(a, b) <= b
  BY EarlierIs, Limits DEF Time

\* A deadline lies within the clock.
LEMMA LaterTyped ==
  ASSUME now \in Time, NEW d \in Nat
  PROVE  Later(d) \in Time /\ Later(d) >= now
<1>1. Later(d) = Earlier(now + d, Horizon)
  BY DEF Later, Earlier
<1> QED BY <1>1, EarlierIs, Limits DEF Time

\* The greater of 1 and a stamp.
LEMMA MaxIs ==
  ASSUME NEW a \in Nat
  PROVE  Max({1, a}) \in Nat \ {0} /\ Max({1, a}) >= a
<1>1. PICK x \in {1, a} : \A y \in {1, a} : x >= y
  BY DEF Max
<1> DEFINE m == Max({1, a})
<1>2. m \in {1, a} /\ \A y \in {1, a} : m >= y
  BY <1>1 DEF Max
<1> QED BY <1>2

\* The places of the worker.
Places == Looping \cup {"start", "refused", "start-up", "graph", "server", "goal", "acted",
                        "shutdown", "over", "service", "decide", "decided", "done"}

\* The initial state and every step keep the types.
LEMMA InitTyped == Init => TypeOK
<1> SUFFICES ASSUME Init PROVE TypeOK
  OBVIOUS
<1>1. Unseen \in Seen
  BY Limits DEF Unseen, Seen, Time
<1>2. [k \in Kinds |-> Unseen] \in [Kinds -> Seen]
  BY <1>1
<1>3. EmptyReport \in Report
  BY <1>2, Limits DEF EmptyReport, Report, Time
<1>4. now \in Time /\ deadline \in Time /\ until \in Time /\ robot \in 0 .. Horizon + 1
  BY Limits DEF Init, Time
<1>5. seen \in [Kinds -> Seen] /\ report \in Report
  BY <1>2, <1>3 DEF Init
<1>6. asked \subseteq {"cancel", "service"} /\ futures \subseteq Replies /\ replies \subseteq Replies
  BY DEF Init
<1> QED BY <1>4, <1>5, <1>6 DEF Init, TypeOK

\* Time, Nav2 and the evaluator.
LEMMA OutsideTyped ==
  ASSUME TypeOK, Tick \/ Nav2 \/ Evaluate
  PROVE  TypeOK'
<1>1. CASE Tick
  BY <1>1, Limits DEF Tick, TypeOK, Time, worker, nav2
<1>2. CASE Nav2
  <2>1. CASE ServerStarts
    BY <2>1 DEF ServerStarts, TypeOK, worker
  <2>2. CASE RobotArrives
    BY <2>2, Limits DEF RobotArrives, TypeOK, worker, Time
  <2>3. CASE AnswerGoal
    BY <2>3 DEF AnswerGoal, TypeOK, worker, Replies
  <2>4. CASE FinishGoal
    BY <2>4 DEF FinishGoal, TypeOK, worker, Replies
  <2>5. CASE AnswerCancel
    BY <2>5 DEF AnswerCancel, TypeOK, worker, Replies
  <2>6. CASE AnswerService
    BY <2>6 DEF AnswerService, TypeOK, worker, Replies
  <2>7. CASE ServerStops
    <3>1. goal' \in Terminal \cup {"none", "sent", "executing", "canceling", "rejected"}
      BY <2>7 DEF ServerStops, TypeOK, Terminal
    <3> QED BY <2>7, <3>1 DEF ServerStops, TypeOK, worker, Replies
  <2> QED BY <1>2, <2>1, <2>2, <2>3, <2>4, <2>5, <2>6, <2>7 DEF Nav2
<1>3. CASE Evaluate
  BY <1>3 DEF Evaluate, TypeOK, worker, nav2
<1> QED BY <1>1, <1>2, <1>3

\* The loops and what they observe.
LEMMA LoopsTyped ==
  ASSUME TypeOK, \/ Loops \/ \E r \in Replies : ReceiveReply(r)
                 \/ ShutdownSpins
  PROVE  TypeOK'
<1>1. CASE LoopGoesOn \/ SpinIdle \/ ShutdownSpins
  BY <1>1 DEF LoopGoesOn, SpinIdle, ShutdownSpins, Returns, TypeOK, nav2
<1>2. ASSUME NEW k \in Kinds, ReceiveMessage(k) PROVE TypeOK'
  <2>1. PICK stamp \in Max({1, seen[k].stamp}) .. now :
          seen' = [seen EXCEPT ![k] = [n |-> Earlier(@.n + 1, MinSeen), at |-> now, stamp |-> stamp]]
    BY <1>2 DEF ReceiveMessage
  <2>2. seen[k].stamp \in Nat /\ seen[k].n \in Nat /\ now \in Time
    BY Limits DEF TypeOK, Seen, Time
  <2>3. stamp \in Time
    BY <2>2, MaxIs, Limits DEF Time
  <2>4. Earlier(seen[k].n + 1, MinSeen) \in 0 .. MinSeen
    BY <2>2, EarlierIs, Limits
  <2>5. [n |-> Earlier(seen[k].n + 1, MinSeen), at |-> now, stamp |-> stamp] \in Seen
    BY <2>2, <2>3, <2>4 DEF Seen
  <2>6. seen' \in [Kinds -> Seen]
    BY <2>1, <2>5 DEF TypeOK
  <2> QED BY <1>2, <2>6 DEF ReceiveMessage, Returns, TypeOK, nav2
<1>3. ASSUME NEW r \in Replies, ReceiveReply(r) PROVE TypeOK'
  BY <1>3 DEF ReceiveReply, Returns, TypeOK
<1> QED BY <1>1, <1>2, <1>3 DEF Loops

\* A step of the worker that observes nothing.
LEMMA StepTyped ==
  ASSUME TypeOK, pc' \in Places, spinning' \in BOOLEAN, deadline' \in Time, until' \in Time,
         report' \in Report, goal' \in {goal, "sent"}, asked' \subseteq asked \cup {"cancel", "service"},
         UNCHANGED <<mode, seen, futures, now, verdict, server, robot, ack, replies>>
  PROVE  TypeOK'
<1>1. goal' \in Terminal \cup {"none", "sent", "executing", "canceling", "rejected"}
  BY DEF TypeOK
<1>2. seen' \in [Kinds -> Seen] /\ asked' \subseteq {"cancel", "service"}
  BY DEF TypeOK
<1> QED BY <1>1, <1>2 DEF TypeOK, Places

\* A call's own deadline.
LEMMA UntilTyped ==
  ASSUME TypeOK, NEW d \in Nat
  PROVE  Earlier(deadline, Later(d)) \in Time /\ Later(d) \in Time
  BY LaterTyped, EarlierTyped DEF TypeOK

\* The steps that leave the report alone.
LEMMA UnreportedTyped ==
  ASSUME TypeOK, \/ Admit \/ NavigatorActive \/ GraphReady \/ ServerFound \/ SendGoal \/ NotDue
                 \/ ArrivalSeen \/ TimesOut \/ Fails
  PROVE  TypeOK'
<1>0. /\ pc \in Places /\ spinning \in BOOLEAN /\ deadline \in Time /\ until \in Time
      /\ report \in Report
  BY DEF TypeOK, Places
<1>1. CASE Admit \/ GraphReady \/ NotDue \/ ArrivalSeen
  <2>1. /\ pc' \in {"refused", "start-up", "server", "act", "decide"}
        /\ UNCHANGED <<deadline, until, report>> /\ Quiet
    BY <1>1 DEF Admit, GraphReady, NotDue, ArrivalSeen, Goes
  <2> QED BY <1>0, <2>1, StepTyped DEF Quiet, nav2, Places, Looping
<1>2. CASE NavigatorActive \/ ServerFound
  <2>1. /\ pc' \in {"graph", "observe"} /\ deadline' \in {deadline, Later(ReadyBudget)}
        /\ until' \in {until, Later(ObserveBudget)} /\ UNCHANGED report /\ Quiet
    BY <1>2 DEF NavigatorActive, ServerFound, Goes
  <2>2. deadline' \in Time /\ until' \in Time
    BY <1>0, <2>1, UntilTyped, Limits
  <2> QED BY <1>0, <2>1, <2>2, StepTyped DEF Quiet, nav2, Places, Looping
<1>3. CASE SendGoal
  <2>1. Later(ActionBudget) \in Time /\ Earlier(Later(ActionBudget), Later(CallBudget)) \in Time
    BY UntilTyped, EarlierTyped, Limits
  <2>2. deadline' \in Time /\ until' \in Time /\ pc' = "send"
    BY <1>3, <2>1 DEF SendGoal
  <2> QED BY <1>0, <1>3, <2>2, StepTyped DEF SendGoal, Places, Looping
<1>4. CASE TimesOut \/ Fails
  <2>1. Raise
    BY <1>4 DEF TimesOut, Fails
  <2> QED BY <1>0, <2>1, StepTyped DEF Raise, nav2, Places
<1> QED BY <1>1, <1>2, <1>3, <1>4

\* The steps that write the report.
LEMMA ReportedTyped ==
  ASSUME TypeOK, \/ Ready \/ GoalAnswered \/ Trigger \/ CancelAnswered \/ ShutdownReturns
                 \/ TakeResult \/ AskNomotion \/ NomotionAnswered \/ Decide \/ NoResult \/ WriteReport
  PROVE  TypeOK'
<1>0. /\ pc \in Places /\ spinning \in BOOLEAN /\ deadline \in Time /\ until \in Time
      /\ report \in Report /\ now \in Time /\ seen \in [Kinds -> Seen] /\ ack \in BOOLEAN
  BY DEF TypeOK, Places
<1>1. CASE Ready
  <2>1. pc' \in {"done", "goal"} /\ Quiet /\ UNCHANGED <<deadline, until>>
    BY <1>1 DEF Ready, Goes
  <2>2. report' \in Report
    BY <1>0, <1>1 DEF Ready, Report
  <2> QED BY <1>0, <2>1, <2>2, StepTyped DEF Quiet, nav2, Places
<1>2. CASE GoalAnswered \/ CancelAnswered \/ ShutdownReturns \/ WriteReport
  <2>1. pc' \in {"act", "over", "done"} /\ Quiet /\ UNCHANGED <<deadline, until>>
    BY <1>2 DEF GoalAnswered, CancelAnswered, ShutdownReturns, WriteReport, Goes
  <2>2. report' \in Report
    <3>1. CASE GoalAnswered
      BY <1>0, <3>1 DEF GoalAnswered, Report
    <3>2. CASE CancelAnswered
      BY <1>0, <3>2 DEF CancelAnswered, Report
    <3>3. CASE ShutdownReturns \/ WriteReport
      BY <1>0, <3>3 DEF ShutdownReturns, WriteReport, Report
    <3> QED BY <1>2, <3>1, <3>2, <3>3
  <2> QED BY <1>0, <2>1, <2>2, StepTyped DEF Quiet, nav2, Places, Looping
<1>3. CASE Trigger
  <2>1. report' \in Report
    BY <1>0, <1>3 DEF Trigger, Report
  <2>2. CASE pc' = "cancel" /\ Asks("cancel") /\ until' = Earlier(deadline, Later(CallBudget))
    BY <1>0, <1>3, <2>1, <2>2, StepTyped, UntilTyped, Limits DEF Trigger, Asks, Places, Looping
  <2>3. CASE Goes("shutdown") /\ UNCHANGED until
    BY <1>0, <1>3, <2>1, <2>3, StepTyped DEF Trigger, Goes, Quiet, nav2, Places
  <2> QED BY <1>3, <2>2, <2>3 DEF Trigger
<1>4. CASE TakeResult \/ NomotionAnswered
  <2>1. /\ pc' \in {"service", "decide", "arrive"} /\ Quiet /\ UNCHANGED deadline
        /\ until' \in {Earlier(deadline, Later(ServiceBudget)), Earlier(deadline, Later(MaxAge))}
    BY <1>4 DEF TakeResult, NomotionAnswered, Goes
  <2>2. report' \in Report
    BY <1>0, <1>4 DEF TakeResult, NomotionAnswered, Report
  <2>3. until' \in Time
    BY <2>1, UntilTyped, Limits
  <2> QED BY <1>0, <2>1, <2>2, <2>3, StepTyped DEF Quiet, nav2, Places, Looping
<1>5. CASE AskNomotion
  <2>1. seen["amcl_pose"].stamp \in Time
    BY <1>0 DEF Kinds, Seen
  <2>2. report' \in Report
    BY <1>0, <1>5, <2>1 DEF AskNomotion, Report
  <2> QED BY <1>0, <1>5, <2>2, StepTyped DEF AskNomotion, Asks, Places, Looping
<1>6. CASE Decide \/ NoResult
  <2>1. pc' = "decided" /\ Quiet /\ UNCHANGED <<deadline, until>>
    BY <1>6 DEF Decide, NoResult, Goes
  <2>2. \E st \in {"complete", "incomplete", "server-unavailable"}, b \in BOOLEAN :
          report' = [report EXCEPT !.status = st, !.expected = b]
    <3>1. CASE Decide
      <4> DEFINE late == (mode = "success" /\ now >= until) \/ report.result >= deadline
                 st == IF late THEN "incomplete" ELSE "complete"
                 b == ~late /\ Matched
      <4>1. report' = [report EXCEPT !.status = st, !.expected = b]
        BY <3>1 DEF Decide
      <4>2. st \in {"complete", "incomplete", "server-unavailable"} /\ b \in BOOLEAN
        BY DEF Matched
      <4> HIDE DEF st, b
      <4> QED BY <4>1, <4>2
    <3>2. CASE NoResult
      <4> DEFINE gone == mode = "server-failure" /\ ~report.present /\ now < deadline
                 st == IF gone THEN "server-unavailable" ELSE "incomplete"
      <4>1. report' = [report EXCEPT !.status = st, !.expected = gone]
        BY <3>2 DEF NoResult
      <4>2. st \in {"complete", "incomplete", "server-unavailable"} /\ gone \in BOOLEAN
        OBVIOUS
      <4> HIDE DEF st, gone
      <4> QED BY <4>1, <4>2
    <3> QED BY <1>6, <3>1, <3>2
  <2>3. report' \in Report
    BY <1>0, <2>2 DEF Report
  <2> QED BY <1>0, <2>1, <2>3, StepTyped DEF Quiet, nav2, Places
<1> QED BY <1>1, <1>2, <1>3, <1>4, <1>5, <1>6

\* Every step keeps the types.
LEMMA NextTyped ==
  ASSUME TypeOK, [Next]_vars
  PROVE  TypeOK'
<1>1. CASE UNCHANGED vars
  BY <1>1 DEF vars, worker, nav2, TypeOK
<1> QED BY <1>1, OutsideTyped, LoopsTyped, UnreportedTyped, ReportedTyped DEF Next, Worker

\* What is always so: every variable of the worker, of Nav2 and of the
\* evaluator keeps its kind, whatever the limits are.
THEOREM TypeCorrect == Spec => []TypeOK
<1> QED BY InitTyped, NextTyped, PTL DEF Spec

-----------------------------------------------------------------------------
(* What the worker and Nav2 keep true on the way to the report.            *)

\* Where no goal has been sent yet, and where the result has been taken.
Unsent == {"start", "refused", "start-up", "graph", "server", "observe", "goal"}
Resulted == {"service", "call", "arrive", "decide", "decided"}

\* Only the loops spin, and only a written report is judged.
SpinInv ==
  /\ spinning => pc \in Looping \cup {"shutdown"}
  /\ verdict # "none" => pc = "done"

\* The goal as the server has it, and what the worker holds about it.
GoalInv ==
  /\ pc \in Unsent => goal = "none"
  /\ pc \notin Unsent \cup {"done"} => goal # "none"
  /\ goal = "none" => robot = 0
  /\ "result" \in replies \cup futures => goal \in Terminal
  /\ report.result # 0 => goal \in Terminal

\* No time in the report, and none of a message, is ahead of the clock; the
\* robot arrives after the start.
TimeInv ==
  /\ now >= 1
  /\ \A k \in Kinds : seen[k].at <= now /\ seen[k].stamp <= now
  /\ report.started <= now /\ report.result <= now /\ report.requested <= now
  /\ report.responded <= now /\ report.finished <= now
  /\ robot # 0 => report.started < robot

\* The trigger comes once the goal is accepted, not before its time, and takes
\* the server away at most; the server is not started again.
TriggerInv ==
  /\ report.trigger # 0 => /\ pc \notin Unsent \cup {"send"}
                           /\ report.trigger >= report.accepted + TriggerBudget
  /\ pc = "shutdown" => report.trigger # 0
  /\ ~report.present => server = "down" /\ goal # "none" /\ report.trigger # 0

\* The cancel is asked for once, and its answer is not replaced.
AskInv ==
  /\ report.trigger = 0 => "cancel" \notin asked \cup replies \cup futures
  /\ "cancel" \in replies \cup futures => "cancel" \notin asked
  /\ report.ack => ack /\ "cancel" \in futures

\* The worker starts once it has seen enough of each stream.
SeenInv ==
  /\ report.started # 0 => \A k \in Streams : seen[k].n >= MinSeen
  /\ pc \notin (Unsent \ {"goal"}) \cup {"done"} => report.started # 0

\* The stages after the result, in their order.
ArrivalInv ==
  /\ pc \notin Resulted \cup {"done"} => report.result = 0
  /\ pc \in {"service", "call", "arrive", "decide"} => report.result # 0
  /\ pc \in {"call", "arrive"} \/ (pc = "decide" /\ mode = "success") =>
       report.result <= report.requested
  /\ pc = "arrive" \/ (pc = "decide" /\ mode = "success") =>
       report.responded # 0 /\ report.requested <= report.responded

\* What the worker claims, as it would decide at t.
MatchedAt(t) ==
  CASE mode = "success" ->
         /\ goal = "succeeded" /\ FreshAt(t) /\ Arrived
         /\ Moved("amcl_pose") /\ Moved("odom")
    [] mode \in {"cancel", "timeout"} ->
         report.trigger # 0 /\ goal = "canceled" /\ report.ack
    [] OTHER -> report.trigger # 0 /\ ~report.present

\* The worker decided at t, after all that it had seen.
DecidedAt(t) ==
  /\ report.result <= t /\ report.responded <= t
  /\ pc = "done" => t <= report.finished
  /\ \A k \in Kinds : seen[k].at <= t
  /\ report.expected <=> MatchedAt(t)

\* A claim is the decision of a moment that the worker has been through.
ClaimInv ==
  /\ pc \notin {"decided", "done"} => report.status = "error"
  /\ report.status \in {"error", "ready", "incomplete"} => ~report.expected
  /\ report.status = "server-unavailable" => report.expected /\ report.result = 0
  /\ report.expected => report.started # 0
  /\ report.status = "complete" =>
       /\ report.result # 0
       /\ mode = "success" => /\ report.responded # 0 /\ report.result <= report.requested
                              /\ report.requested <= report.responded
       /\ \E t \in 1 .. now : DecidedAt(t)

\* A verdict given stays true, for nothing moves any more.
VerdictInv ==
  verdict # "none" => mode # "prepare" /\ PassedTrue /\ VerdictsAgree

Reaching == SpinInv /\ GoalInv /\ TimeInv /\ TriggerInv /\ AskInv /\ SeenInv /\ ArrivalInv
JudgedInv == ClaimInv /\ VerdictInv

\* Only the loops and the upstream shutdown start a spin, and a spin ends before
\* they are left.
LEMMA SpinStep ==
  ASSUME TypeOK, SpinInv, [Next]_vars
  PROVE  SpinInv'
<1>1. CASE Tick \/ Nav2 \/ Evaluate \/ UNCHANGED vars
  <2>1. UNCHANGED <<spinning, pc>> /\ (verdict' # "none" => pc = "done")
    BY <1>1 DEF Tick, Nav2, ServerStarts, RobotArrives, AnswerGoal, FinishGoal, AnswerCancel, AnswerService,
                ServerStops, Evaluate, vars, worker, nav2, SpinInv
  <2> QED BY <2>1 DEF SpinInv
<1>2. CASE Loops \/ ShutdownSpins \/ \E r \in Replies : ReceiveReply(r)
  <2>1. CASE LoopGoesOn \/ ShutdownSpins
    BY <2>1 DEF LoopGoesOn, ShutdownSpins, SpinInv, Looping
  <2>2. CASE Returns
    BY <2>2 DEF Returns, SpinInv, Looping
  <2>3. Loops \/ (\E r \in Replies : ReceiveReply(r)) => LoopGoesOn \/ Returns
    BY DEF Loops, SpinIdle, ReceiveMessage, ReceiveReply
  <2> QED BY <1>2, <2>1, <2>2, <2>3
<1>3. CASE Fails \/ TimesOut
  BY <1>3 DEF Fails, TimesOut, Raise, SpinInv, Looping
<1>4. CASE \/ Admit \/ NavigatorActive \/ GraphReady \/ ServerFound \/ Ready \/ GoalAnswered
           \/ NotDue \/ CancelAnswered \/ ShutdownReturns \/ TakeResult
           \/ NomotionAnswered \/ ArrivalSeen \/ Decide \/ NoResult \/ WriteReport
  <2>1. ~spinning /\ pc # "done" /\ Quiet
    BY <1>4 DEF Admit, NavigatorActive, GraphReady, ServerFound, Ready, GoalAnswered, NotDue,
                CancelAnswered, ShutdownReturns, TakeResult, NomotionAnswered, ArrivalSeen, Decide, NoResult,
                WriteReport, Goes, Leaves, Settles, LoopOver, SpinInv, Looping
  <2> QED BY <2>1 DEF Quiet, SpinInv
<1>5. CASE SendGoal \/ Trigger \/ AskNomotion
  BY <1>5 DEF SendGoal, Trigger, AskNomotion, Asks, Goes, Quiet, SpinInv, Looping
<1> QED BY <1>1, <1>2, <1>3, <1>4, <1>5 DEF Next, Worker

\* What every step but a few leaves alone, seen from the invariants: the loops
\* move between act and acted, and the rest follows the order of the worker.
LEMMA SpinsKeep ==
  ASSUME TypeOK, \/ Loops \/ ShutdownSpins \/ \E r \in Replies : ReceiveReply(r)
  PROVE  /\ pc' = pc \/ (pc = "act" /\ pc' = "acted")
         /\ UNCHANGED <<mode, now, deadline, until, report, verdict, server, goal, robot, ack, asked>>
         /\ replies' \subseteq replies /\ replies' \cup futures' = replies \cup futures
         /\ futures \subseteq futures'
         /\ \A k \in Kinds : \/ seen'[k] = seen[k]
                             \/ /\ seen'[k].at = now /\ seen'[k].stamp <= now
                                /\ seen'[k].n \in {seen[k].n + 1, MinSeen}
<1>1. CASE LoopGoesOn \/ ShutdownSpins \/ SpinIdle
  BY <1>1 DEF LoopGoesOn, ShutdownSpins, SpinIdle, Returns, nav2
<1>2. ASSUME NEW r \in Replies, ReceiveReply(r)
      PROVE  /\ pc' = pc \/ (pc = "act" /\ pc' = "acted")
             /\ UNCHANGED <<mode, now, deadline, until, report, verdict, server, goal, robot, ack, asked>>
             /\ replies' \subseteq replies /\ replies' \cup futures' = replies \cup futures
             /\ futures \subseteq futures' /\ UNCHANGED seen
  BY <1>2 DEF ReceiveReply, Returns
<1>3. ASSUME NEW k \in Kinds, ReceiveMessage(k)
      PROVE  /\ pc' = pc \/ (pc = "act" /\ pc' = "acted")
             /\ UNCHANGED <<mode, now, deadline, until, report, verdict, server, goal, robot, ack, asked>>
             /\ UNCHANGED <<replies, futures>>
             /\ \A j \in Kinds : \/ seen'[j] = seen[j]
                                 \/ /\ seen'[j].at = now /\ seen'[j].stamp <= now
                                    /\ seen'[j].n \in {seen[j].n + 1, MinSeen}
  <2>1. PICK stamp \in Max({1, seen[k].stamp}) .. now :
          seen' = [seen EXCEPT ![k] = [n |-> Earlier(@.n + 1, MinSeen), at |-> now, stamp |-> stamp]]
    BY <1>3 DEF ReceiveMessage
  <2>2. seen[k].stamp \in Nat /\ seen[k].n \in Nat /\ now \in Nat /\ seen \in [Kinds -> Seen]
    BY Limits DEF TypeOK, Seen, Time
  <2>3. stamp <= now
    BY <2>2, MaxIs
  <2>4. Earlier(seen[k].n + 1, MinSeen) \in {seen[k].n + 1, MinSeen}
    BY <2>2, EarlierIs, Limits
  <2>5. /\ seen'[k] = [n |-> Earlier(seen[k].n + 1, MinSeen), at |-> now, stamp |-> stamp]
        /\ \A j \in Kinds \ {k} : seen'[j] = seen[j]
    BY <2>1, <2>2
  <2> QED BY <1>3, <2>3, <2>4, <2>5 DEF ReceiveMessage, Returns, nav2
<1> QED BY <1>1, <1>2, <1>3 DEF Loops

\* The end of the try block.
LEMMA RaiseKeeps ==
  ASSUME Fails \/ TimesOut
  PROVE  /\ pc' = "done" /\ pc \notin {"decided", "done"}
         /\ UNCHANGED <<mode, seen, futures, report, nav2, now, verdict>>
  BY DEF Fails, TimesOut, Raise, Limited

\* The places a step of the worker goes to while it says nothing new.
LEMMA QuietKeeps ==
  ASSUME TypeOK, Admit \/ NavigatorActive \/ GraphReady \/ ServerFound \/ NotDue \/ ArrivalSeen
  PROVE  /\ <<pc, pc'>> \in {<<"start", "refused">>, <<"start", "start-up">>, <<"start-up", "graph">>,
                             <<"graph", "server">>, <<"server", "observe">>, <<"acted", "act">>,
                             <<"arrive", "decide">>}
         /\ UNCHANGED report /\ Quiet
  BY DEF Admit, NavigatorActive, GraphReady, ServerFound, NotDue, ArrivalSeen, Goes, Leaves

\* The goal is sent once, and its end is not taken back.
LEMMA GoalStep ==
  ASSUME TypeOK, GoalInv, [Next]_vars
  PROVE  GoalInv'
<1>0. /\ pc \in Places /\ report \in Report
  BY DEF TypeOK, Places
<1>1. CASE Tick \/ Evaluate \/ UNCHANGED vars
  BY <1>1 DEF Tick, Evaluate, vars, worker, nav2, GoalInv
<1>2. CASE Nav2
  <2>1. UNCHANGED <<pc, futures, report>>
    BY <1>2 DEF Nav2, ServerStarts, RobotArrives, AnswerGoal, FinishGoal, AnswerCancel, AnswerService,
                ServerStops, worker
  <2>2. CASE ServerStarts \/ AnswerService
    BY <2>1, <2>2 DEF ServerStarts, AnswerService, GoalInv
  <2>3. CASE RobotArrives
    BY <2>1, <2>3 DEF RobotArrives, GoalInv
  <2>4. CASE AnswerGoal
    BY <2>1, <2>4 DEF AnswerGoal, GoalInv, Terminal
  <2>5. CASE FinishGoal
    BY <2>1, <2>5 DEF FinishGoal, GoalInv, Terminal
  <2>6. CASE AnswerCancel
    BY <2>1, <2>6 DEF AnswerCancel, GoalInv, Terminal
  <2>7. CASE ServerStops
    BY <2>1, <2>7 DEF ServerStops, GoalInv, Terminal
  <2> QED BY <1>2, <2>2, <2>3, <2>4, <2>5, <2>6, <2>7 DEF Nav2
<1>3. CASE Loops \/ ShutdownSpins \/ \E r \in Replies : ReceiveReply(r)
  BY <1>3, SpinsKeep DEF GoalInv, Unsent
<1>4. CASE Fails \/ TimesOut
  BY <1>4, RaiseKeeps DEF nav2, GoalInv, Unsent
<1>5. CASE Admit \/ NavigatorActive \/ GraphReady \/ ServerFound \/ NotDue \/ ArrivalSeen
  BY <1>5, QuietKeeps DEF Quiet, nav2, GoalInv, Unsent
<1>6. CASE SendGoal
  BY <1>6 DEF SendGoal, GoalInv, Unsent, Terminal
<1>7. CASE \/ Ready \/ GoalAnswered \/ Trigger \/ CancelAnswered \/ ShutdownReturns \/ AskNomotion
           \/ NomotionAnswered \/ Decide \/ NoResult \/ WriteReport
  <2>1. report'.result = report.result
    BY <1>0, <1>7 DEF Ready, GoalAnswered, Trigger, CancelAnswered, ShutdownReturns, AskNomotion,
                      NomotionAnswered, Decide, NoResult, WriteReport, Report
  <2>2. UNCHANGED <<goal, robot, replies, futures>>
    BY <1>7 DEF Ready, GoalAnswered, Trigger, CancelAnswered, ShutdownReturns, AskNomotion,
                NomotionAnswered, Decide, NoResult, WriteReport, Goes, Quiet, Asks, nav2
  <2>3. /\ pc' \in Unsent => pc \in Unsent
        /\ pc' \notin Unsent \cup {"done"} => pc \notin Unsent \cup {"done"}
    BY <1>7 DEF Ready, GoalAnswered, Trigger, CancelAnswered, ShutdownReturns, AskNomotion,
                NomotionAnswered, Decide, NoResult, WriteReport, Goes, Unsent, Leaves, Settles, LoopOver
  <2> QED BY <2>1, <2>2, <2>3 DEF GoalInv
<1>8. CASE TakeResult
  BY <1>0, <1>8 DEF TakeResult, LoopOver, Leaves, Goes, Quiet, nav2, Report, GoalInv, Unsent
<1> QED BY <1>1, <1>2, <1>3, <1>4, <1>5, <1>6, <1>7, <1>8 DEF Next, Worker

\* What each step that writes the report writes into it.
LEMMA ReportWrites ==
  ASSUME TypeOK
  PROVE  /\ Ready => \/ /\ pc' = "done" /\ mode = "prepare" /\ report' = [report EXCEPT !.status = "ready"]
                     \/ /\ pc' = "goal" /\ mode # "prepare"
                        /\ report' = [report EXCEPT !.initial = seen, !.started = now]
         /\ Ready \/ GoalAnswered \/ CancelAnswered \/ ShutdownReturns \/ TakeResult \/ NomotionAnswered
              \/ Decide \/ NoResult \/ WriteReport => Quiet
         /\ Trigger \/ AskNomotion =>
              UNCHANGED <<mode, spinning, seen, futures, now, verdict, server, goal, robot, ack, replies>>
         /\ AskNomotion => asked' = asked \cup {"service"}
         /\ Trigger => \/ asked' = asked \cup {"cancel"} /\ pc' = "cancel"
                       \/ asked' = asked /\ pc' = "shutdown"
<1>1. /\ Ready => \/ /\ pc' = "done" /\ mode = "prepare" /\ report' = [report EXCEPT !.status = "ready"]
                  \/ /\ pc' = "goal" /\ mode # "prepare"
                     /\ report' = [report EXCEPT !.initial = seen, !.started = now]
  BY DEF Ready, Goes
<1>2. Ready \/ GoalAnswered \/ CancelAnswered \/ ShutdownReturns \/ TakeResult \/ NomotionAnswered
        \/ Decide \/ NoResult \/ WriteReport => Quiet
  BY DEF Ready, GoalAnswered, CancelAnswered, ShutdownReturns, TakeResult, NomotionAnswered, Decide,
         NoResult, WriteReport, Goes
<1>3. Trigger \/ AskNomotion =>
        UNCHANGED <<mode, spinning, seen, futures, now, verdict, server, goal, robot, ack, replies>>
  BY DEF Trigger, AskNomotion, Asks, Goes, Quiet, nav2
<1>4. AskNomotion => asked' = asked \cup {"service"}
  BY DEF AskNomotion, Asks
<1>5. Trigger => \/ asked' = asked \cup {"cancel"} /\ pc' = "cancel"
                 \/ asked' = asked /\ pc' = "shutdown"
  BY DEF Trigger, Asks, Goes, Quiet, nav2
<1> QED BY <1>1, <1>2, <1>3, <1>4, <1>5

\* Times are taken from the clock, and the robot leaves after the start.
LEMMA TimeStep ==
  ASSUME TypeOK, TimeInv, GoalInv, [Next]_vars
  PROVE  TimeInv'
<1>0. /\ report \in Report /\ now \in Nat /\ robot \in Nat /\ seen \in [Kinds -> Seen]
      /\ \A k \in Kinds : seen[k].at \in Nat /\ seen[k].stamp \in Nat
      /\ report.started \in Nat /\ report.result \in Nat /\ report.requested \in Nat
      /\ report.responded \in Nat /\ report.finished \in Nat
  BY Limits DEF TypeOK, Report, Seen, Time
<1>1. CASE Evaluate \/ UNCHANGED vars
  BY <1>1 DEF Evaluate, vars, worker, nav2, TimeInv
<1>2. CASE Tick
  BY <1>0, <1>2 DEF Tick, worker, nav2, TimeInv
<1>3. CASE Nav2
  <2>1. UNCHANGED <<now, seen, report>> /\ (robot' = robot \/ robot' = now + 1)
    BY <1>3 DEF Nav2, ServerStarts, RobotArrives, AnswerGoal, FinishGoal, AnswerCancel, AnswerService,
                ServerStops, worker
  <2> QED BY <1>0, <2>1 DEF TimeInv
<1>4. CASE Loops \/ ShutdownSpins \/ \E r \in Replies : ReceiveReply(r)
  <2>1. /\ UNCHANGED <<now, report, robot>>
        /\ \A k \in Kinds : \/ seen'[k] = seen[k]
                            \/ seen'[k].at = now /\ seen'[k].stamp <= now
    BY <1>4, SpinsKeep
  <2> QED BY <1>0, <2>1 DEF TimeInv
<1>5. CASE Fails \/ TimesOut
  BY <1>5, RaiseKeeps DEF nav2, TimeInv
<1>6. CASE Admit \/ NavigatorActive \/ GraphReady \/ ServerFound \/ NotDue \/ ArrivalSeen
  BY <1>6, QuietKeeps DEF Quiet, nav2, TimeInv
<1>7. CASE SendGoal
  BY <1>7 DEF SendGoal, TimeInv
<1>8. CASE Ready
  <2>1. robot = 0 /\ UNCHANGED <<now, seen, robot>>
    BY <1>8, ReportWrites DEF Ready, Leaves, GoalInv, Unsent, Quiet, nav2
  <2>2. /\ report'.result = report.result /\ report'.requested = report.requested
        /\ report'.responded = report.responded /\ report'.finished = report.finished
        /\ report'.started \in {report.started, now}
    BY <1>0, <1>8, ReportWrites DEF Report
  <2> QED BY <1>0, <2>1, <2>2 DEF TimeInv
<1>9. CASE \/ GoalAnswered \/ Trigger \/ CancelAnswered \/ ShutdownReturns \/ TakeResult \/ AskNomotion
           \/ NomotionAnswered \/ Decide \/ NoResult \/ WriteReport
  <2>1. UNCHANGED <<now, seen, robot>>
    BY <1>9, ReportWrites DEF Quiet, nav2
  <2>2. /\ report'.started = report.started
        /\ report'.result \in {report.result, now} /\ report'.requested \in {report.requested, now}
        /\ report'.responded \in {report.responded, now} /\ report'.finished \in {report.finished, now}
    BY <1>0, <1>9 DEF GoalAnswered, Trigger, CancelAnswered, ShutdownReturns, TakeResult, AskNomotion,
                      NomotionAnswered, Decide, NoResult, WriteReport, Report
  <2> QED BY <1>0, <2>1, <2>2 DEF TimeInv
<1> QED BY <1>1, <1>2, <1>3, <1>4, <1>5, <1>6, <1>7, <1>8, <1>9 DEF Next, Worker

\* The trigger is set once, when it is due; the server it took stays away.
LEMMA TriggerStep ==
  ASSUME TypeOK, TriggerInv, TimeInv, GoalInv, [Next]_vars
  PROVE  TriggerInv'
<1>0. /\ report \in Report /\ now \in Nat \ {0} /\ report.trigger \in Nat /\ report.accepted \in Nat
  BY Limits DEF TypeOK, Report, Time, TimeInv
<1>1. CASE Tick \/ Evaluate \/ UNCHANGED vars
  BY <1>1 DEF Tick, Evaluate, vars, worker, nav2, TriggerInv
<1>2. CASE Nav2
  <2>1. UNCHANGED <<pc, report>>
    BY <1>2 DEF Nav2, ServerStarts, RobotArrives, AnswerGoal, FinishGoal, AnswerCancel, AnswerService,
                ServerStops, worker
  <2>2. server = "down" /\ goal # "none" => server' = "down" /\ goal' # "none"
    BY <1>2 DEF Nav2, ServerStarts, RobotArrives, AnswerGoal, FinishGoal, AnswerCancel, AnswerService,
                ServerStops
  <2> QED BY <2>1, <2>2 DEF TriggerInv
<1>3. CASE Loops \/ ShutdownSpins \/ \E r \in Replies : ReceiveReply(r)
  BY <1>3, SpinsKeep DEF TriggerInv, Unsent
<1>4. CASE Fails \/ TimesOut
  BY <1>4, RaiseKeeps DEF nav2, TriggerInv, Unsent
<1>5. CASE Admit \/ NavigatorActive \/ GraphReady \/ ServerFound \/ NotDue \/ ArrivalSeen
  BY <1>5, QuietKeeps DEF Quiet, nav2, TriggerInv, Unsent
<1>6. CASE SendGoal
  BY <1>6 DEF SendGoal, TriggerInv, Unsent, GoalInv
<1>7. CASE GoalAnswered
  <2>1. report'.trigger = 0 /\ report'.present = report.present /\ pc' = "act"
    BY <1>0, <1>7 DEF GoalAnswered, Settles, Leaves, Goes, Report, TriggerInv
  <2> QED BY <1>0, <1>7, <2>1 DEF TriggerInv, Goes, GoalAnswered, Settles, Leaves
<1>8. CASE Trigger
  <2>1. /\ report'.trigger = now /\ report'.accepted = report.accepted /\ report'.present = report.present
        /\ now >= report.accepted + TriggerBudget /\ report.trigger = 0
    BY <1>0, <1>8 DEF Trigger, Due, Report
  <2>2. pc' \in {"cancel", "shutdown"}
    BY <1>8, ReportWrites
  <2> QED BY <1>0, <1>8, <2>1, <2>2 DEF TriggerInv, Unsent
<1>9. CASE ShutdownReturns
  <2>1. /\ report'.trigger = report.trigger /\ report'.accepted = report.accepted
        /\ report'.present = (server = "up") /\ pc = "shutdown" /\ pc' \in {"act", "over"}
        /\ UNCHANGED <<server, goal>>
    BY <1>0, <1>9 DEF ShutdownReturns, Report, Goes, Quiet, nav2
  <2>2. goal # "none" /\ server \in {"up", "down"}
    BY <2>1 DEF GoalInv, Unsent, TypeOK
  <2> QED BY <2>1, <2>2 DEF TriggerInv, Unsent
<1>10. CASE \/ Ready \/ CancelAnswered \/ TakeResult \/ AskNomotion
            \/ NomotionAnswered \/ Decide \/ NoResult \/ WriteReport
  <2>1. UNCHANGED <<server, goal>>
    BY <1>10, ReportWrites DEF Quiet, nav2
  <2>2. /\ report'.trigger = report.trigger /\ report'.accepted = report.accepted
        /\ report'.present = report.present
    BY <1>0, <1>10 DEF Ready, CancelAnswered, TakeResult, AskNomotion, NomotionAnswered, Decide,
                       NoResult, WriteReport, Report
  <2>3. pc' # "shutdown" /\ (pc' \in Unsent \cup {"send"} => pc \in Unsent)
    BY <1>10 DEF Ready, CancelAnswered, TakeResult, AskNomotion, NomotionAnswered, Decide, NoResult,
                 WriteReport, Goes, Leaves, Unsent
  <2> QED BY <2>1, <2>2, <2>3 DEF TriggerInv
<1> QED BY <1>1, <1>2, <1>3, <1>4, <1>5, <1>6, <1>7, <1>8, <1>9, <1>10 DEF Next, Worker

\* The cancel is asked for once, at the trigger.
LEMMA AskStep ==
  ASSUME TypeOK, AskInv, TimeInv, [Next]_vars
  PROVE  AskInv'
<1>0. report \in Report /\ now \in Nat \ {0}
  BY Limits DEF TypeOK, Time, TimeInv
<1>1. CASE Tick \/ Evaluate \/ UNCHANGED vars
  BY <1>1 DEF Tick, Evaluate, vars, worker, nav2, AskInv
<1>2. CASE Nav2
  <2>1. UNCHANGED <<futures, report>>
    BY <1>2 DEF Nav2, ServerStarts, RobotArrives, AnswerGoal, FinishGoal, AnswerCancel, AnswerService,
                ServerStops, worker
  <2>2. CASE AnswerCancel
    BY <2>1, <2>2 DEF AnswerCancel, AskInv
  <2>3. CASE ~AnswerCancel
    <3>1. asked' \subseteq asked /\ replies' \subseteq replies \cup {"goal", "result", "service"}
          /\ UNCHANGED ack
      BY <1>2, <2>3 DEF Nav2, ServerStarts, RobotArrives, AnswerGoal, FinishGoal, AnswerService, ServerStops
    <3> QED BY <2>1, <3>1 DEF AskInv
  <2> QED BY <2>2, <2>3
<1>3. CASE Loops \/ ShutdownSpins \/ \E r \in Replies : ReceiveReply(r)
  <2>1. /\ UNCHANGED <<report, ack, asked>>
        /\ replies' \cup futures' = replies \cup futures /\ futures \subseteq futures'
    BY <1>3, SpinsKeep
  <2> QED BY <2>1 DEF AskInv
<1>4. CASE Fails \/ TimesOut
  BY <1>4, RaiseKeeps DEF nav2, AskInv
<1>5. CASE Admit \/ NavigatorActive \/ GraphReady \/ ServerFound \/ NotDue \/ ArrivalSeen
  BY <1>5, QuietKeeps DEF Quiet, nav2, AskInv
<1>6. CASE SendGoal
  BY <1>6 DEF SendGoal, AskInv
<1>7. CASE Trigger
  <2>1. report'.ack = report.ack /\ report.trigger = 0 /\ UNCHANGED <<futures, replies, ack>>
    BY <1>0, <1>7, ReportWrites DEF Trigger, Due, Report
  <2>2. asked' = asked \cup {"cancel"} \/ asked' = asked
    BY <1>7, ReportWrites
  <2>3. report'.trigger # 0
    BY <1>0, <1>7 DEF Trigger, Report
  <2> QED BY <2>1, <2>2, <2>3 DEF AskInv
<1>8. CASE CancelAnswered
  <2>1. /\ report'.trigger = report.trigger /\ report'.ack = ack
        /\ "cancel" \in futures /\ UNCHANGED <<futures, replies, asked, ack>>
    BY <1>0, <1>8, ReportWrites DEF CancelAnswered, Settles, Leaves, Awaits, Report, Quiet, nav2
  <2> QED BY <2>1 DEF AskInv
<1>9. CASE \/ Ready \/ GoalAnswered \/ ShutdownReturns \/ TakeResult \/ AskNomotion
           \/ NomotionAnswered \/ Decide \/ NoResult \/ WriteReport
  <2>1. UNCHANGED <<futures, replies, ack>> /\ asked' \in {asked, asked \cup {"service"}}
    BY <1>9, ReportWrites DEF Quiet, nav2
  <2>2. report'.trigger = report.trigger /\ report'.ack = report.ack
    BY <1>0, <1>9 DEF Ready, GoalAnswered, ShutdownReturns, TakeResult, AskNomotion, NomotionAnswered,
                      Decide, NoResult, WriteReport, Report
  <2> QED BY <2>1, <2>2 DEF AskInv
<1> QED BY <1>1, <1>2, <1>3, <1>4, <1>5, <1>6, <1>7, <1>8, <1>9 DEF Next, Worker

\* What has been counted stays counted.
LEMMA SeenStep ==
  ASSUME TypeOK, SeenInv, TimeInv, [Next]_vars
  PROVE  SeenInv'
<1>0. /\ report \in Report /\ now \in Nat \ {0} /\ MinSeen \in Nat
      /\ \A k \in Kinds : seen[k].n \in Nat
  BY Limits DEF TypeOK, Time, TimeInv, Seen
<1>1. CASE Tick \/ Evaluate \/ Nav2 \/ UNCHANGED vars
  <2>1. UNCHANGED <<pc, seen, report>>
    BY <1>1 DEF Tick, Evaluate, Nav2, ServerStarts, RobotArrives, AnswerGoal, FinishGoal, AnswerCancel,
                AnswerService, ServerStops, vars, worker
  <2> QED BY <2>1 DEF SeenInv
<1>2. CASE Loops \/ ShutdownSpins \/ \E r \in Replies : ReceiveReply(r)
  <2>1. /\ pc' = pc \/ (pc = "act" /\ pc' = "acted")
        /\ UNCHANGED report
        /\ \A k \in Kinds : seen'[k].n = seen[k].n \/ seen'[k].n \in {seen[k].n + 1, MinSeen}
    BY <1>2, SpinsKeep
  <2>2. \A k \in Streams : seen[k].n >= MinSeen => seen'[k].n >= MinSeen
    BY <1>0, <2>1 DEF Kinds
  <2> QED BY <2>1, <2>2 DEF SeenInv, Unsent
<1>3. CASE Fails \/ TimesOut
  BY <1>3, RaiseKeeps DEF SeenInv
<1>4. CASE Admit \/ NavigatorActive \/ GraphReady \/ ServerFound \/ NotDue \/ ArrivalSeen
  BY <1>4, QuietKeeps DEF Quiet, SeenInv, Unsent
<1>5. CASE SendGoal
  BY <1>5 DEF SendGoal, SeenInv, Unsent
<1>6. CASE Ready
  <2>1. UNCHANGED seen /\ pc' \in {"done", "goal"}
    BY <1>6, ReportWrites DEF Quiet
  <2>2. \A k \in Streams : seen[k].n >= MinSeen
    BY <1>0, <1>6, ParametersAdmitted DEF Ready, Leaves, Awaits, Kinds
  <2>3. pc' = "goal" => report'.started = now
    BY <1>0, <1>6, ReportWrites DEF Report
  <2> QED BY <1>0, <2>1, <2>2, <2>3 DEF SeenInv
<1>7. CASE \/ GoalAnswered \/ Trigger \/ CancelAnswered \/ ShutdownReturns \/ TakeResult \/ AskNomotion
           \/ NomotionAnswered \/ Decide \/ NoResult \/ WriteReport
  <2>1. UNCHANGED seen
    BY <1>7, ReportWrites DEF Quiet
  <2>2. report'.started = report.started
    BY <1>0, <1>7 DEF GoalAnswered, Trigger, CancelAnswered, ShutdownReturns, TakeResult, AskNomotion,
                      NomotionAnswered, Decide, NoResult, WriteReport, Report
  <2>3. pc \notin (Unsent \ {"goal"}) \cup {"done"}
    BY <1>7 DEF GoalAnswered, Trigger, CancelAnswered, ShutdownReturns, TakeResult, AskNomotion,
                NomotionAnswered, Decide, NoResult, WriteReport, Settles, Leaves, LoopOver, Unsent
  <2> QED BY <2>1, <2>2, <2>3 DEF SeenInv
<1> QED BY <1>1, <1>2, <1>3, <1>4, <1>5, <1>6, <1>7 DEF Next, Worker

\* A stage is left for the next one only.
LEMMA ArrivalStep ==
  ASSUME TypeOK, ArrivalInv, TimeInv, [Next]_vars
  PROVE  ArrivalInv'
<1>0. /\ report \in Report /\ now \in Nat \ {0}
      /\ report.result \in Nat /\ report.requested \in Nat /\ report.responded \in Nat
      /\ report.result <= now /\ report.requested <= now
  BY Limits DEF TypeOK, Time, TimeInv, Report
<1>1. CASE Tick \/ Evaluate \/ Nav2 \/ UNCHANGED vars
  <2>1. UNCHANGED <<pc, mode, report>>
    BY <1>1 DEF Tick, Evaluate, Nav2, ServerStarts, RobotArrives, AnswerGoal, FinishGoal, AnswerCancel,
                AnswerService, ServerStops, vars, worker
  <2> QED BY <2>1 DEF ArrivalInv
<1>2. CASE Loops \/ ShutdownSpins \/ \E r \in Replies : ReceiveReply(r)
  <2>1. /\ pc' = pc \/ (pc = "act" /\ pc' = "acted")
        /\ UNCHANGED <<report, mode>>
    BY <1>2, SpinsKeep
  <2> QED BY <2>1 DEF ArrivalInv, Resulted
<1>3. CASE Fails \/ TimesOut
  BY <1>3, RaiseKeeps DEF ArrivalInv, Resulted
<1>4. CASE Admit \/ NavigatorActive \/ GraphReady \/ ServerFound \/ NotDue \/ ArrivalSeen
  BY <1>4, QuietKeeps DEF Quiet, ArrivalInv, Resulted
<1>5. CASE SendGoal
  BY <1>5 DEF SendGoal, ArrivalInv, Resulted
<1>6. CASE Ready \/ GoalAnswered \/ Trigger \/ CancelAnswered \/ ShutdownReturns
  <2>1. report'.result = report.result
    BY <1>0, <1>6 DEF Ready, GoalAnswered, Trigger, CancelAnswered, ShutdownReturns, Report
  <2>2. pc \notin Resulted \cup {"done"} /\ pc' \notin Resulted
    BY <1>6, ReportWrites DEF Ready, GoalAnswered, Trigger, CancelAnswered, ShutdownReturns, Settles,
                Leaves, Goes, Resulted
  <2> QED BY <2>1, <2>2 DEF ArrivalInv, Resulted
<1>7. CASE TakeResult
  <2>1. report'.result = now /\ UNCHANGED mode
        /\ pc' = IF mode = "success" THEN "service" ELSE "decide"
    BY <1>0, <1>7 DEF TakeResult, Report, Goes, Quiet
  <2> QED BY <1>0, <2>1 DEF ArrivalInv, Resulted
<1>8. CASE AskNomotion
  <2>1. report'.result = report.result /\ report'.requested = now /\ pc = "service" /\ pc' = "call"
    BY <1>0, <1>8 DEF AskNomotion, Report
  <2> QED BY <1>0, <2>1 DEF ArrivalInv, Resulted
<1>9. CASE NomotionAnswered
  <2>1. /\ report'.result = report.result /\ report'.requested = report.requested
        /\ report'.responded = now /\ pc = "call" /\ pc' = "arrive"
    BY <1>0, <1>9 DEF NomotionAnswered, Report, Settles, Leaves, Goes
  <2> QED BY <1>0, <2>1 DEF ArrivalInv, Resulted
<1>10. CASE Decide \/ NoResult \/ WriteReport
  BY <1>10 DEF Decide, NoResult, WriteReport, Goes, ArrivalInv, Resulted
<1> QED BY <1>1, <1>2, <1>3, <1>4, <1>5, <1>6, <1>7, <1>8, <1>9, <1>10 DEF Next, Worker

-----------------------------------------------------------------------------
(* What the worker claims, and what the evaluator makes of it.             *)

\* What is decided depends on nothing that moves once the goal has ended.
LEMMA MatchedKeeps ==
  ASSUME NEW t, UNCHANGED <<mode, goal, seen, robot>>,
         report'.result = report.result, report'.prior = report.prior,
         report'.requested = report.requested, report'.initial = report.initial,
         report'.trigger = report.trigger, report'.ack = report.ack,
         report'.present = report.present
  PROVE  MatchedAt(t)' <=> MatchedAt(t)
<1>1. FreshAt(t)' <=> FreshAt(t)
  BY DEF FreshAt
<1>2. Arrived' <=> Arrived
  BY DEF Arrived
<1>3. \A k : Moved(k)' <=> Moved(k)
  BY DEF Moved, AtGoal
<1> QED BY <1>1, <1>2, <1>3 DEF MatchedAt

\* A written report is only judged.
LEMMA DoneStep ==
  ASSUME TypeOK, SpinInv, pc = "done", [Next]_vars
  PROVE  /\ UNCHANGED <<pc, mode, now, seen, report, server, goal, robot, ack>>
         /\ verdict' = verdict \/ Evaluate
<1>1. CASE Evaluate \/ UNCHANGED vars
  BY <1>1 DEF Evaluate, vars, worker, nav2
<1>2. CASE Worker \/ Fails
  <2>1. ~spinning
    BY DEF SpinInv, Looping
  <2> QED BY <1>2, <2>1 DEF Worker, Loops, LoopGoesOn, SpinIdle, ReceiveMessage, ReceiveReply, Returns, Admit,
                            NavigatorActive, GraphReady, ServerFound, Ready, SendGoal, GoalAnswered, NotDue,
                            Trigger, CancelAnswered, ShutdownSpins, ShutdownReturns, TakeResult, AskNomotion,
                            NomotionAnswered, ArrivalSeen, Decide, NoResult, WriteReport, TimesOut, Fails,
                            Leaves, Settles, LoopOver, Limited, Looping
<1>3. CASE Tick \/ (Nav2 /\ ~Ended)
  BY <1>3 DEF Tick, Ended
<1> QED BY <1>1, <1>2, <1>3 DEF Next

\* Between the decision and the report only time goes on, and Nav2 that is of
\* no more use.
LEMMA DecidedStep ==
  ASSUME TypeOK, SpinInv, pc = "decided", [Next]_vars
  PROVE  /\ UNCHANGED <<mode, seen>> /\ now' >= now
         /\ goal \in Terminal => UNCHANGED <<goal, robot>>
         /\ (pc' = pc /\ UNCHANGED report) \/ WriteReport
<1>0. now \in Nat
  BY Limits DEF TypeOK, Time
<1>1. CASE UNCHANGED vars \/ Evaluate \/ Tick
  BY <1>0, <1>1 DEF Evaluate, Tick, vars, worker, nav2
<1>2. CASE Worker \/ Fails
  <2>1. ~spinning
    BY DEF SpinInv, Looping
  <2>2. WriteReport
    BY <1>2, <2>1 DEF Worker, Loops, LoopGoesOn, SpinIdle, ReceiveMessage, ReceiveReply, Returns, Admit,
                      NavigatorActive, GraphReady, ServerFound, Ready, SendGoal, GoalAnswered, NotDue,
                      Trigger, CancelAnswered, ShutdownSpins, ShutdownReturns, TakeResult, AskNomotion,
                      NomotionAnswered, ArrivalSeen, Decide, NoResult, TimesOut, Fails,
                      Leaves, Settles, LoopOver, Limited, Looping
  <2> QED BY <1>0, <2>2 DEF WriteReport, Goes, Quiet, nav2
<1>3. CASE Nav2
  <2>1. UNCHANGED <<pc, mode, seen, now, report>>
    BY <1>3 DEF Nav2, ServerStarts, RobotArrives, AnswerGoal, FinishGoal, AnswerCancel, AnswerService,
                ServerStops, worker
  <2>2. goal \in Terminal => UNCHANGED <<goal, robot>>
    BY <1>3 DEF Nav2, ServerStarts, RobotArrives, AnswerGoal, FinishGoal, AnswerCancel, AnswerService,
                ServerStops, Terminal
  <2> QED BY <1>0, <2>1, <2>2
<1> QED BY <1>1, <1>2, <1>3 DEF Next

\* A worker that has not started claims nothing.
LEMMA ClaimInit == Init => ClaimInv
  BY DEF Init, EmptyReport, ClaimInv

\* The decision itself.
LEMMA DecideClaims ==
  ASSUME TypeOK, Reaching, ClaimInv, Decide
  PROVE  ClaimInv'
<1> DEFINE late == (mode = "success" /\ now >= until) \/ report.result >= deadline
<1>0. /\ report \in Report /\ now \in Nat \ {0} /\ now' = now /\ pc = "decide" /\ pc' = "decided"
      /\ report.result \in Nat /\ report.responded \in Nat
      /\ report.result <= now /\ report.responded <= now
      /\ \A k \in Kinds : seen[k].at <= now
      /\ UNCHANGED <<mode, goal, seen, robot>>
  BY Limits DEF TypeOK, Time, Report, Reaching, TimeInv, Decide, Goes, Quiet, nav2
<1>1. /\ report.result # 0 /\ report.started # 0
      /\ mode = "success" => /\ report.responded # 0 /\ report.result <= report.requested
                             /\ report.requested <= report.responded
  BY <1>0 DEF Reaching, ArrivalInv, SeenInv, Unsent
<1>2. report' = [report EXCEPT !.status = IF late THEN "incomplete" ELSE "complete",
                               !.expected = ~late /\ Matched]
  BY DEF Decide
<1> HIDE DEF late
<1>3. /\ report'.status = (IF late THEN "incomplete" ELSE "complete")
      /\ report'.expected = (~late /\ Matched)
      /\ report'.result = report.result /\ report'.prior = report.prior
      /\ report'.requested = report.requested /\ report'.responded = report.responded
      /\ report'.initial = report.initial /\ report'.trigger = report.trigger
      /\ report'.ack = report.ack /\ report'.present = report.present
      /\ report'.started = report.started
  BY <1>0, <1>2 DEF Report
<1>4. Matched <=> MatchedAt(now)
  BY DEF Matched, MatchedAt
<1>5. PICK t \in Nat : t = now
  BY <1>0
<1>6. MatchedAt(t)' <=> MatchedAt(t)
  BY <1>0, <1>3, MatchedKeeps
<1>7. ~late => DecidedAt(t)'
  BY <1>0, <1>3, <1>4, <1>5, <1>6 DEF DecidedAt
<1>8. t \in 1 .. now'
  BY <1>0, <1>5
<1> QED BY <1>0, <1>1, <1>3, <1>7, <1>8 DEF ClaimInv

\* A claim is made at the decision, and stands.
LEMMA ClaimStep ==
  ASSUME TypeOK, Reaching, ClaimInv, [Next]_vars
  PROVE  ClaimInv'
<1>0. report \in Report /\ now \in Nat \ {0}
  BY Limits DEF TypeOK, Time, Reaching, TimeInv
<1>1. CASE pc = "done"
  <2>1. UNCHANGED <<pc, mode, now, seen, report, goal, robot>>
    BY <1>1, DoneStep DEF Reaching
  <2>2. \A t \in 1 .. now : DecidedAt(t) => DecidedAt(t)'
    BY <2>1, MatchedKeeps DEF DecidedAt
  <2> QED BY <2>1, <2>2 DEF ClaimInv
<1>2. CASE pc = "decided"
  <2>1. /\ UNCHANGED <<mode, seen>> /\ now' >= now
        /\ goal \in Terminal => UNCHANGED <<goal, robot>>
        /\ (pc' = pc /\ UNCHANGED report) \/ WriteReport
    BY <1>2, DecidedStep DEF Reaching
  <2>2. /\ report'.status = report.status /\ report'.expected = report.expected
        /\ report'.result = report.result /\ report'.prior = report.prior
        /\ report'.requested = report.requested /\ report'.responded = report.responded
        /\ report'.initial = report.initial /\ report'.trigger = report.trigger
        /\ report'.ack = report.ack /\ report'.present = report.present
        /\ report'.started = report.started
        /\ pc' = pc \/ (pc' = "done" /\ report'.finished = now)
    BY <1>0, <2>1 DEF WriteReport, Goes, Report
  <2>3. ASSUME report.status = "complete" PROVE \E t \in 1 .. now' : DecidedAt(t)'
    <3>1. report.result # 0 /\ goal \in Terminal
      BY <2>3 DEF ClaimInv, Reaching, GoalInv
    <3>2. PICK t \in 1 .. now : DecidedAt(t)
      BY <2>3 DEF ClaimInv
    <3>3. MatchedAt(t)' <=> MatchedAt(t)
      BY <2>1, <2>2, <3>1, MatchedKeeps
    <3>4. DecidedAt(t)'
      BY <1>0, <1>2, <2>1, <2>2, <3>2, <3>3 DEF DecidedAt
    <3>5. now' \in Nat
      BY NextTyped, Limits DEF TypeOK, Time
    <3>6. t \in 1 .. now'
      BY <1>0, <2>1, <3>2, <3>5
    <3> QED BY <3>4, <3>6
  <2> QED BY <1>2, <2>1, <2>2, <2>3 DEF ClaimInv
<1>3. CASE pc \notin {"decided", "done"}
  <2>0. report.status = "error" /\ ~report.expected
    BY <1>3 DEF ClaimInv
  <2>1. CASE UNCHANGED vars \/ Tick \/ Evaluate \/ Nav2 \/ Loops \/ ShutdownSpins
             \/ (\E r \in Replies : ReceiveReply(r)) \/ Fails \/ TimesOut
             \/ Admit \/ NavigatorActive \/ GraphReady \/ ServerFound \/ NotDue \/ ArrivalSeen \/ SendGoal
    <3>1. UNCHANGED report
      BY <2>1, SpinsKeep, RaiseKeeps, QuietKeeps
         DEF vars, worker, Tick, Evaluate, Nav2, ServerStarts, RobotArrives, AnswerGoal, FinishGoal,
             AnswerCancel, AnswerService, ServerStops, SendGoal
    <3> QED BY <2>0, <3>1 DEF ClaimInv
  <2>2. CASE Decide
    BY <2>2, DecideClaims
  <2>3. CASE NoResult
    <3> DEFINE gone == mode = "server-failure" /\ ~report.present /\ now < deadline
    <3>1. report.result = 0 /\ report.started # 0 /\ pc' = "decided"
      BY <2>3 DEF NoResult, LoopOver, Leaves, Goes, Reaching, ArrivalInv, SeenInv, Resulted, Unsent
    <3>2. report' = [report EXCEPT !.status = IF gone THEN "server-unavailable" ELSE "incomplete",
                                   !.expected = gone]
      BY <2>3 DEF NoResult
    <3> HIDE DEF gone
    <3>3. /\ report'.status = (IF gone THEN "server-unavailable" ELSE "incomplete")
          /\ report'.expected = gone
          /\ report'.result = report.result /\ report'.started = report.started
      BY <1>0, <3>2 DEF Report
    <3> QED BY <3>1, <3>3 DEF ClaimInv
  <2>4. CASE Ready \/ GoalAnswered \/ Trigger \/ CancelAnswered \/ ShutdownReturns \/ TakeResult
             \/ AskNomotion \/ NomotionAnswered
    <3>1. report'.status \in {"error", "ready"} /\ report'.expected = report.expected
      BY <1>0, <2>0, <2>4 DEF Ready, GoalAnswered, Trigger, CancelAnswered, ShutdownReturns, TakeResult,
                              AskNomotion, NomotionAnswered, Report
    <3>2. report'.status = "error" \/ pc' = "done"
      BY <1>0, <2>0, <2>4 DEF Ready, GoalAnswered, Trigger, CancelAnswered, ShutdownReturns, TakeResult,
                              AskNomotion, NomotionAnswered, Report, Goes
    <3> QED BY <2>0, <3>1, <3>2 DEF ClaimInv
  <2>5. ~WriteReport
    BY <1>3 DEF WriteReport
  <2> QED BY <2>1, <2>2, <2>3, <2>4, <2>5 DEF Next, Worker
<1> QED BY <1>1, <1>2, <1>3

\* What the evaluator matches has happened.
LEMMA MatchedHappened ==
  ASSUME TypeOK, Reaching, mode # "prepare", report.result # 0, EvaluatorMatched
  PROVE  Happened
<1>0. /\ now \in Nat /\ robot \in Nat /\ report.started \in Nat
      /\ "odom" \in Kinds /\ "amcl_pose" \in Kinds
      /\ \A k \in Kinds : seen[k].stamp \in Nat /\ seen[k].stamp <= now
      /\ mode \in {"success", "cancel", "timeout", "server-failure"}
  BY Limits, ParametersAdmitted DEF TypeOK, Time, Report, Seen, Kinds, Reaching, TimeInv
<1>1. CASE mode = "success"
  <2>1. goal = "succeeded" /\ AtGoal(seen["odom"].stamp) /\ AtGoal(seen["amcl_pose"].stamp)
    BY <1>1 DEF EvaluatorMatched, Moved
  <2>2. robot # 0 /\ seen["odom"].stamp >= robot /\ seen["amcl_pose"].stamp >= robot
    BY <2>1 DEF AtGoal
  <2>3. report.started < robot
    BY <2>2 DEF Reaching, TimeInv
  <2>4. now >= robot /\ seen["odom"].stamp >= report.started /\ seen["amcl_pose"].stamp >= report.started
    BY <1>0, <2>2, <2>3
  <2> QED BY <1>1, <2>1, <2>2, <2>4 DEF Happened, AtGoal
<1>2. CASE mode \in {"cancel", "timeout"}
  <2>1. goal = "canceled" /\ report.trigger # 0 /\ report.ack
    BY <1>2 DEF EvaluatorMatched
  <2> QED BY <1>2, <2>1 DEF Happened, Reaching, TriggerInv, AskInv
<1>3. CASE mode = "server-failure"
  <2>1. ~report.present
    BY <1>3 DEF EvaluatorMatched
  <2> QED BY <1>3, <2>1 DEF Happened, Reaching, TriggerInv, GoalInv
<1> QED BY <1>0, <1>1, <1>2, <1>3

\* What the evaluator matches the worker has claimed.
LEMMA MatchedClaimed ==
  ASSUME TypeOK, Reaching, ClaimInv, pc = "done", mode # "prepare", EvaluatorMatched,
         report.status \in {"complete", "server-unavailable"}
  PROVE  report.expected
<1>1. CASE report.status = "server-unavailable"
  BY <1>1 DEF ClaimInv
<1>2. CASE report.status = "complete"
  <2>1. PICK t \in 1 .. now : DecidedAt(t)
    BY <1>2 DEF ClaimInv
  <2>2. /\ t \in Nat /\ report.finished \in Nat /\ report.result \in Nat /\ MaxAge \in Nat
        /\ \A k \in Kinds : seen[k].at \in Nat
        /\ "amcl_pose" \in Kinds
        /\ mode \in {"success", "cancel", "timeout", "server-failure"}
    BY Limits, ParametersAdmitted DEF TypeOK, Time, Report, Seen, Kinds
  <2>3. t <= report.finished /\ \A k \in Kinds : seen[k].at <= t
    BY <2>1 DEF DecidedAt
  <2>4. CASE mode = "success"
    <3>1. FreshAt(report.finished)
      BY <2>4 DEF EvaluatorMatched
    <3>2. \A k \in Kinds : seen[k].at >= report.result /\ report.finished - seen[k].at <= MaxAge
      BY <2>2, <3>1 DEF FreshAt
    <3>3. \A k \in Kinds : t - seen[k].at \in 0 .. MaxAge
      BY <2>2, <2>3, <3>2
    <3>4. FreshAt(t) /\ Arrived
      BY <2>4, <3>2, <3>3 DEF FreshAt, Arrived, EvaluatorMatched
    <3>5. Moved("amcl_pose") /\ Moved("odom") /\ goal = "succeeded"
      BY <2>4 DEF EvaluatorMatched
    <3>6. MatchedAt(t)
      BY <2>4, <3>4, <3>5 DEF MatchedAt
    <3> QED BY <2>1, <3>6 DEF DecidedAt
  <2>5. CASE mode \in {"cancel", "timeout"}
    <3>1. MatchedAt(t)
      BY <2>5 DEF EvaluatorMatched, MatchedAt
    <3> QED BY <2>1, <3>1 DEF DecidedAt
  <2>6. CASE mode = "server-failure"
    <3>1. ~report.present /\ report.trigger # 0
      BY <2>6 DEF EvaluatorMatched, Reaching, TriggerInv
    <3>2. MatchedAt(t)
      BY <2>6, <3>1 DEF MatchedAt
    <3> QED BY <2>1, <3>2 DEF DecidedAt
  <2> QED BY <2>2, <2>4, <2>5, <2>6
<1> QED BY <1>1, <1>2

\* What the worker has claimed the evaluator matches, unless it has got late.
LEMMA ClaimedMatched ==
  ASSUME TypeOK, Reaching, ClaimInv, pc = "done", mode # "prepare", report.expected,
         report.status = "complete", ~Late
  PROVE  EvaluatorMatched
<1>1. PICK t \in 1 .. now : DecidedAt(t)
  BY DEF ClaimInv
<1>2. /\ t \in Nat /\ report.finished \in Nat /\ report.result \in Nat /\ report.started \in Nat
      /\ report.responded \in Nat /\ report.requested \in Nat /\ ActionBudget \in Nat /\ MaxAge \in Nat
      /\ report.trigger \in Nat /\ report.accepted \in Nat /\ TriggerBudget \in Nat
      /\ "amcl_pose" \in Kinds
      /\ mode \in {"success", "cancel", "timeout", "server-failure"}
  BY Limits, ParametersAdmitted DEF TypeOK, Time, Report, Kinds
<1>3. MatchedAt(t)
  BY <1>1 DEF DecidedAt
<1>4. /\ t <= report.finished /\ report.result <= t /\ report.responded <= t
      /\ report.result - report.started < ActionBudget
      /\ mode = "success" => /\ report.finished - report.started < ActionBudget
                             /\ report.finished - report.responded < MaxAge
                             /\ FreshAt(report.finished)
  BY <1>1, <1>2 DEF DecidedAt, Late
<1>5. report.result <= report.finished /\ report.responded <= report.finished
  BY <1>2, <1>4
<1>6. CASE mode = "success"
  <2>1. /\ report.responded # 0 /\ report.result <= report.requested
        /\ report.requested <= report.responded
    BY <1>6 DEF ClaimInv
  <2>2. goal = "succeeded" /\ Arrived /\ Moved("amcl_pose") /\ Moved("odom")
    BY <1>3, <1>6 DEF MatchedAt
  <2>3. seen["amcl_pose"].at >= report.requested /\ seen["amcl_pose"].stamp > report.prior
    BY <2>2 DEF Arrived
  <2> QED BY <1>4, <1>5, <1>6, <2>1, <2>2, <2>3 DEF EvaluatorMatched
<1>7. CASE mode \in {"cancel", "timeout"}
  <2>1. goal = "canceled" /\ report.trigger # 0 /\ report.ack
    BY <1>3, <1>7 DEF MatchedAt
  <2>2. report.trigger - report.accepted >= TriggerBudget
    BY <1>2, <2>1 DEF Reaching, TriggerInv
  <2> QED BY <1>4, <1>5, <1>7, <2>1, <2>2 DEF EvaluatorMatched
<1>8. CASE mode = "server-failure"
  <2>1. ~report.present
    BY <1>3, <1>8 DEF MatchedAt
  <2> QED BY <1>4, <1>5, <1>8, <2>1 DEF EvaluatorMatched
<1> QED BY <1>2, <1>6, <1>7, <1>8

\* The verdict is given once, of a report that no longer moves.
LEMMA VerdictStep ==
  ASSUME TypeOK, Reaching, ClaimInv, VerdictInv, [Next]_vars
  PROVE  VerdictInv'
<1>1. CASE Evaluate
  <2>1. /\ pc = "done" /\ mode # "prepare"
        /\ verdict' = IF report.result = 0 THEN "raised"
                      ELSE IF \E k \in Streams : seen[k].n < MinSeen THEN "error"
                      ELSE IF report.status \notin {"complete", "server-unavailable"} THEN "error"
                      ELSE IF EvaluatorMatched THEN "passed" ELSE "failed"
        /\ UNCHANGED <<mode, now, seen, report, server, goal, robot, ack>>
    BY <1>1 DEF Evaluate, worker, nav2
  <2>2. verdict' = "passed" =>
          /\ report.result # 0 /\ EvaluatorMatched
          /\ report.status \in {"complete", "server-unavailable"}
    BY <2>1
  <2>3. verdict' = "passed" => Happened /\ report.expected
    BY <2>1, <2>2, MatchedHappened, MatchedClaimed
  <2>4. PassedTrue'
    <3>1. Happened' <=> Happened
      BY <2>1 DEF Happened, AtGoal
    <3> QED BY <2>3, <3>1 DEF PassedTrue
  <2>5. ASSUME report.expected, verdict' \in {"raised", "error", "failed"}
        PROVE  \/ report.status = "server-unavailable" /\ verdict' = "raised"
               \/ report.status = "complete" /\ verdict' = "failed" /\ Late
    <3>1. report.status \in {"complete", "server-unavailable"} /\ report.started # 0
      BY <2>5 DEF ClaimInv, TypeOK, Report
    <3>2. ~ \E k \in Streams : seen[k].n < MinSeen
      <4>1. \A k \in Streams : seen[k].n >= MinSeen /\ seen[k].n \in Nat /\ MinSeen \in Nat
        BY <3>1, Limits DEF Reaching, SeenInv, TypeOK, Seen, Kinds
      <4> QED BY <4>1
    <3>3. CASE report.status = "server-unavailable"
      BY <2>1, <3>3 DEF ClaimInv
    <3>4. CASE report.status = "complete"
      <4>1. report.result # 0
        BY <3>4 DEF ClaimInv
      <4>2. ~EvaluatorMatched /\ verdict' = "failed"
        BY <2>1, <2>5, <3>1, <3>2, <4>1
      <4> QED BY <2>1, <2>5, <3>4, <4>2, ClaimedMatched
    <3> QED BY <3>1, <3>3, <3>4
  <2>6. VerdictsAgree'
    <3>1. Late' <=> Late
      BY <2>1 DEF Late, FreshAt
    <3> QED BY <2>1, <2>3, <2>5, <3>1 DEF VerdictsAgree
  <2> QED BY <2>1, <2>4, <2>6 DEF VerdictInv
<1>2. CASE pc = "done" /\ ~Evaluate
  <2>1. UNCHANGED <<mode, now, seen, report, server, goal, robot, ack, verdict>>
    BY <1>2, DoneStep DEF Reaching
  <2>2. (PassedTrue' <=> PassedTrue) /\ (VerdictsAgree' <=> VerdictsAgree)
    BY <2>1 DEF PassedTrue, Happened, VerdictsAgree, Late, AtGoal, FreshAt
  <2> QED BY <2>1, <2>2 DEF VerdictInv
<1>3. CASE pc # "done" /\ ~Evaluate
  <2>1. verdict = "none" /\ UNCHANGED verdict
    <3>1. verdict = "none"
      BY <1>3 DEF Reaching, SpinInv
    <3>2. CASE Worker \/ Fails
      <4>1. CASE SendGoal \/ Trigger \/ AskNomotion
        BY <3>1, <4>1, ReportWrites DEF SendGoal
      <4>2. CASE ~(SendGoal \/ Trigger \/ AskNomotion)
        BY <3>1, <3>2, <4>2, ReportWrites, SpinsKeep, RaiseKeeps, QuietKeeps DEF Worker, Quiet
      <4> QED BY <4>1, <4>2
    <3>3. CASE Tick \/ Nav2 \/ UNCHANGED vars
      BY <3>1, <3>3 DEF Tick, Nav2, ServerStarts, RobotArrives, AnswerGoal, FinishGoal, AnswerCancel,
                        AnswerService, ServerStops, vars
    <3> QED BY <1>3, <3>1, <3>2, <3>3 DEF Next
  <2> QED BY <2>1 DEF VerdictInv
<1> QED BY <1>1, <1>2, <1>3

-----------------------------------------------------------------------------
\* The evaluator's verdict is true of what happened and agrees with what the
\* worker claims, for any time limits and however long messages and replies
\* were queued.
THEOREM VerdictHolds == Spec => []VerdictTrue
<1> DEFINE Inv == TypeOK /\ Reaching /\ JudgedInv
<1>1. Init => Inv
  <2> SUFFICES ASSUME Init PROVE Reaching /\ JudgedInv
    BY InitTyped
  <2>1. \A k \in Kinds : seen[k] = [n |-> 0, at |-> 0, stamp |-> 0]
    BY DEF Init, Unseen
  <2>2. SpinInv /\ GoalInv /\ TriggerInv /\ AskInv /\ SeenInv /\ ArrivalInv /\ VerdictInv
    BY DEF Init, EmptyReport, SpinInv, GoalInv, TriggerInv, AskInv, SeenInv, ArrivalInv, VerdictInv, Unsent,
           Resulted
  <2>3. TimeInv
    BY <2>1 DEF Init, EmptyReport, TimeInv
  <2> QED BY <2>2, <2>3, ClaimInit DEF Reaching, JudgedInv
<1>2. Inv /\ [Next]_vars => Inv'
  BY NextTyped, SpinStep, GoalStep, TimeStep, TriggerStep, AskStep, SeenStep, ArrivalStep, ClaimStep, VerdictStep
     DEF Reaching, JudgedInv
<1>3. Inv => VerdictTrue
  BY DEF JudgedInv, VerdictInv, VerdictTrue, PassedTrue, VerdictsAgree
<1> QED BY <1>1, <1>2, <1>3, PTL DEF Spec

-----------------------------------------------------------------------------
(* The capture.                                                            *)

Opening == {"create", "start", "inspect", "prepare"}
Preparing == {"await_prepare", "prove_prepare"}
Handover == {"record", "ready", "case"}
Casing == {"await_case", "prove_case"}
Finishing == {"recover", "request", "write", "drain", "probe"}
Ending == {"events", "checkpoint", "end"}
Steps == Opening \union Preparing \union Handover \union Casing \union Finishing
           \union {"clean", "remove", "killed"} \union Ending
Probed == {"prepare", "case", "recorder"}
FileNames == {"before", "stopped", "cleanup", "events", "checkpoint", "quarantine",
              "acquisition-quarantine", "drain-refusal", "cleanup-failure"}

\* What is true or false.
Flags ==
  /\ failure \in BOOLEAN /\ cid \in BOOLEAN /\ workerSettled \in BOOLEAN
  /\ recorderSettled \in BOOLEAN /\ boxOk \in BOOLEAN /\ failed \in BOOLEAN
  /\ ready \in BOOLEAN /\ signalled \in BOOLEAN /\ output \in BOOLEAN
  /\ fault \in BOOLEAN /\ spans \in BOOLEAN

\* The other types, one by one.
CaptureKinds ==
  /\ step \in Steps
  /\ absent \subseteq Probed /\ facts \subseteq {"prepare", "case"}
  /\ box \in {"none", "created", "running", "exited", "removed"}
  /\ process \in [{"prepare", "case"} -> {"none", "alive", "ok", "bad", "dead"}]
  /\ job \in {"none", "running", "ok", "bad", "lost"}
  /\ recorderJob \in {"none", "running", "ok", "bad", "lost"}
  /\ rec \in {"none", "start", "starting", "recording", "closing", "closed",
              "reported", "exited", "died"}
  /\ why \in {"none", "stop", "signal", "torn", "error"}
  /\ state \in {"absent", "incomplete", "failed", "complete"}
  /\ bag \in {"none", "open", "closed"}
  /\ stopFile \in {"absent", "created", "written"}
  /\ files \subseteq FileNames
  /\ fin \in {"idle", "capture", "identity", "bag", "documents", "project", "copy",
              "evaluate", "refused", "evaluated"}

\* Whoever counts as settled has no process left in the container.
SettledInv ==
  /\ workerSettled => Alive = {}
  /\ recorderSettled => ~RecorderAlive
  /\ recorderJob = "none" => rec = "none"
  /\ step \in Opening \union Preparing \union {"record"} => recorderJob = "none"
  /\ step \in Opening \union Preparing \union Handover \union Casing => ~recorderSettled
  /\ step \in Opening => \A w \in Workers : process[w] = "none"
  /\ step \in Preparing \union Handover => process["case"] = "none"
  /\ step \in Handover \union Casing => process["prepare"] # "alive"

\* What the driver's jobs say of the processes.
JobInv ==
  /\ \A w \in Workers : step = ProveStep[w] =>
       job = "lost" \/ (job \in {"ok", "bad"} /\ process[w] = job)
  /\ recorderJob \in {"ok", "bad"} => rec = "exited" /\ (failed <=> recorderJob = "bad")
  /\ step = "probe" => recorderJob \in {"ok", "bad"}
  /\ step \in {"ready", "case"} \union Casing => recorderJob # "none"

\* The recorder in its order, and the request it stops for.
RecorderInv ==
  /\ ready => rec \notin {"none", "start", "starting"} /\ state # "absent"
  /\ rec \in {"none", "start", "starting", "recording"} => why = "none"
  /\ rec \in {"starting", "recording", "closing", "closed", "reported", "exited"} =>
       state # "absent"
  /\ rec \in {"closed", "reported", "exited"} /\ ~failed => bag = "closed"
  /\ rec \in {"reported", "exited"} => state = IF failed THEN "failed" ELSE "complete"
  /\ step = "case" \/ process["case"] # "none" => ready
  /\ process["case"] # "none" /\ Recording => spans
  /\ why \in {"stop", "torn"} => stopFile # "absent"
  /\ stopFile # "absent" =>
       step \in {"write", "drain", "probe", "clean", "remove", "killed"} \union Ending

\* How far a driver has come that throws nothing.
ProgressInv ==
  ~failure /\ step # "killed" =>
    /\ step # "create" => cid
    /\ step \in {"inspect", "prepare"} \union Preparing \union Handover \union Casing
                \union Finishing \union {"clean"} => box \in {"running", "exited"}
    /\ step = "remove" => box = "exited" /\ boxOk
    /\ step \in Ending => box = "removed"
    /\ step \in Handover \union Casing => process["prepare"] = "ok"
    /\ step \in Finishing \union {"clean", "remove"} \union Ending =>
         workerSettled /\ recorderJob # "none" /\ \A w \in Workers : process[w] = "ok"
    /\ step \in {"clean", "remove"} \union Ending =>
         recorderSettled /\ rec = "exited" /\ ~failed /\ bag = "closed"
    /\ why = "stop" => spans

\* What is thrown comes of a fault or of the request that was not yet written.
FaultInv ==
  /\ failure \/ failed => fault \/ why = "torn"
  /\ \A w \in Workers : process[w] = "bad" => fault
  /\ step \in Opening \union Preparing \union Handover \union Casing => ~failure
  /\ step = "end" => failure \/ "checkpoint" \in files

\* What is left behind has a file that says so.
LeftInv ==
  /\ "checkpoint" \in files => step = "end" /\ ~failure
  /\ step \in Ending /\ cid /\ Quiescent => box = "removed" \/ "cleanup-failure" \in files
  /\ step = "checkpoint" => ~failure
  /\ step \in {"request", "write", "drain", "probe", "remove"} => cid
  /\ step \in {"clean"} \union Ending /\ ~cid =>
       box = "none" \/ "acquisition-quarantine" \in files
  /\ step \in {"checkpoint", "end"} => Quiescent \/ "quarantine" \in files

\* A finalizer that has read the identity has seen the checkpoint.
FinalizerInv ==
  fin \in {"bag", "documents", "project", "copy", "evaluate", "evaluated"} =>
    "checkpoint" \in files

CaptureInv ==
  /\ Flags /\ CaptureKinds /\ SettledInv /\ JobInv /\ RecorderInv /\ ProgressInv /\ FaultInv
  /\ LeftInv /\ FinalizerInv

\* The driver's steps about each of the workers.
LEMMA WorkerPlaces ==
  /\ AwaitStep["prepare"] = "await_prepare" /\ AwaitStep["case"] = "await_case"
  /\ ProveStep["prepare"] = "prove_prepare" /\ ProveStep["case"] = "prove_case"
  /\ \A w : w \in Workers <=> w = "prepare" \/ w = "case"
  BY DEF AwaitStep, ProveStep, Workers

\* The names of the steps and of the files.
LEMMA Named ==
  /\ "create" \in Steps /\ "start" \in Steps /\ "inspect" \in Steps /\ "prepare" \in Steps
  /\ "await_prepare" \in Steps /\ "prove_prepare" \in Steps /\ "record" \in Steps /\ "ready" \in Steps
  /\ "case" \in Steps /\ "await_case" \in Steps /\ "prove_case" \in Steps /\ "recover" \in Steps
  /\ "request" \in Steps /\ "write" \in Steps /\ "drain" \in Steps /\ "probe" \in Steps
  /\ "clean" \in Steps /\ "remove" \in Steps /\ "killed" \in Steps /\ "events" \in Steps
  /\ "checkpoint" \in Steps /\ "end" \in Steps
  /\ "before" \in FileNames /\ "stopped" \in FileNames /\ "cleanup" \in FileNames
  /\ "events" \in FileNames /\ "checkpoint" \in FileNames /\ "quarantine" \in FileNames
  /\ "acquisition-quarantine" \in FileNames /\ "drain-refusal" \in FileNames
  /\ "cleanup-failure" \in FileNames
  /\ "prepare" \in Probed /\ "case" \in Probed /\ "recorder" \in Probed
  BY DEF Steps, FileNames, Probed, Opening, Preparing, Handover, Casing, Finishing, Ending

\* The types of the model are these.
LEMMA KindsAre == Flags /\ CaptureKinds <=> CaptureTypeOK
<1>1. {failure, cid, workerSettled, recorderSettled, boxOk, failed, ready, signalled,
        output, fault, spans} \subseteq BOOLEAN
      <=> /\ failure \in BOOLEAN /\ cid \in BOOLEAN /\ workerSettled \in BOOLEAN
          /\ recorderSettled \in BOOLEAN /\ boxOk \in BOOLEAN /\ failed \in BOOLEAN
          /\ ready \in BOOLEAN /\ signalled \in BOOLEAN /\ output \in BOOLEAN
          /\ fault \in BOOLEAN /\ spans \in BOOLEAN
  <2> DEFINE S == {failure, cid, workerSettled, recorderSettled, boxOk, failed, ready, signalled,
                   output, fault, spans}
  <2>1. /\ failure \in S /\ cid \in S /\ workerSettled \in S /\ recorderSettled \in S
        /\ boxOk \in S /\ failed \in S /\ ready \in S /\ signalled \in S
        /\ output \in S /\ fault \in S /\ spans \in S
    OBVIOUS
  <2>2. \A x \in S : \/ x = failure \/ x = cid \/ x = workerSettled \/ x = recorderSettled
                     \/ x = boxOk \/ x = failed \/ x = ready \/ x = signalled
                     \/ x = output \/ x = fault \/ x = spans
    OBVIOUS
  <2> HIDE DEF S
  <2>3. S \subseteq BOOLEAN
        <=> /\ failure \in BOOLEAN /\ cid \in BOOLEAN /\ workerSettled \in BOOLEAN
            /\ recorderSettled \in BOOLEAN /\ boxOk \in BOOLEAN /\ failed \in BOOLEAN
            /\ ready \in BOOLEAN /\ signalled \in BOOLEAN /\ output \in BOOLEAN
            /\ fault \in BOOLEAN /\ spans \in BOOLEAN
    BY <2>1, <2>2
  <2> QED BY <2>3 DEF S
<1>2. /\ {AwaitStep[w] : w \in Workers} = {"await_prepare", "await_case"}
      /\ {ProveStep[w] : w \in Workers} = {"prove_prepare", "prove_case"}
  BY WorkerPlaces
<1>3. Workers = {"prepare", "case"}
  BY DEF Workers
<1> QED BY <1>1, <1>2, <1>3 DEF Flags, CaptureKinds, CaptureTypeOK, FinSteps, Steps, Probed,
       FileNames, Opening, Preparing, Handover, Casing, Finishing, Ending

\* The finalizer leaves to the others what is theirs, and passes the identity
\* only where the checkpoint is.
LEMMA FinalizerLeaves ==
  ASSUME Flags, CaptureKinds, Finalizer
  PROVE  /\ UNCHANGED <<driver, boxVars, procs, job, recorderJob, recorder, stopFile,
                        signalled, files, history>>
         /\ output' \in BOOLEAN
         /\ fin' \in {"idle", "capture", "identity", "bag", "documents", "project", "copy",
                      "evaluate", "refused", "evaluated"}
         /\ FinalizerInv => FinalizerInv'
<1>1. CASE ReadContext \/ ReadCapture
  BY <1>1 DEF ReadContext, ReadCapture, FinReads, FinGoes, Flags, FinalizerInv
<1>2. CASE ReadIdentity
  <2>1. fin' \in {"bag", "refused"} /\ (fin' = "bag" => "checkpoint" \in files)
    BY <1>2 DEF ReadIdentity, FinReads, FinGoes
  <2> QED BY <1>2, <2>1 DEF ReadIdentity, FinReads, FinGoes, Flags, FinalizerInv
<1>3. CASE ReadBag
  BY <1>3 DEF ReadBag, FinReads, FinGoes, Flags, FinalizerInv
<1>4. CASE WriteDocuments
  BY <1>4 DEF WriteDocuments, FinGoes, Flags, FinalizerInv
<1>5. CASE Project \/ CopyEvidence \/ EvaluateCapture
  BY <1>5 DEF Project, CopyEvidence, EvaluateCapture, FinReads, FinGoes, Flags, FinalizerInv
<1>6. CASE FinRefuses \/ FinAgain
  BY <1>6 DEF FinRefuses, FinAgain, FinGoes, Flags, FinalizerInv
<1> QED BY <1>1, <1>2, <1>3, <1>4, <1>5, <1>6 DEF Finalizer

\* What is true or false stays so.
LEMMA FlagsNext ==
  ASSUME Flags, CaptureKinds, [CaptureNext]_captureVars
  PROVE  Flags'
<1> USE DEF driver, boxVars, procs, recorder, history
<1>1. CASE BoxDies
  <2>1. UNCHANGED <<failure, cid, workerSettled, recorderSettled, failed, ready, signalled,
                     output>>
    BY <1>1 DEF BoxDies, RecorderAlive
  <2>2. boxOk' \in BOOLEAN /\ fault' \in BOOLEAN /\ spans' \in BOOLEAN
    BY <1>1 DEF BoxDies, RecorderAlive, Flags
  <2> QED BY <2>1, <2>2 DEF Flags
<1>2. ASSUME NEW w \in Workers, WorkerExits(w) PROVE Flags'
  <2>1. UNCHANGED <<failure, cid, workerSettled, recorderSettled, boxOk, failed, ready,
                     signalled, output, spans>>
    BY <1>2 DEF WorkerExits, Workers
  <2>2. fault' \in BOOLEAN
    BY <1>2 DEF WorkerExits, Workers, Flags
  <2> QED BY <2>1, <2>2 DEF Flags
<1>3. CASE RecorderStarts
  <2>1. UNCHANGED <<failure, cid, workerSettled, recorderSettled, boxOk, failed, ready,
                     signalled, output, spans>>
    BY <1>3 DEF RecorderStarts, RecorderKeeps
  <2>2. fault' \in BOOLEAN
    BY <1>3 DEF RecorderStarts, RecorderKeeps, Flags
  <2> QED BY <2>1, <2>2 DEF Flags
<1>4. CASE RecorderReady
  <2>1. UNCHANGED <<failure, cid, workerSettled, recorderSettled, boxOk, failed, signalled,
                     output, fault, spans>>
    BY <1>4 DEF RecorderReady, RecorderKeeps
  <2>2. ready' \in BOOLEAN
    BY <1>4 DEF RecorderReady, RecorderKeeps, Flags
  <2> QED BY <2>1, <2>2 DEF Flags
<1>5. CASE RecorderStops
  <2>1. UNCHANGED <<failure, cid, workerSettled, recorderSettled, boxOk, ready, signalled,
                     output, fault>>
    BY <1>5 DEF RecorderStops, RecorderLeaves, RecorderKeeps, Recording
  <2>2. failed' \in BOOLEAN /\ spans' \in BOOLEAN
    BY <1>5 DEF RecorderStops, RecorderLeaves, RecorderKeeps, Recording, Flags
  <2> QED BY <2>1, <2>2 DEF Flags
<1>6. CASE RecorderFails
  <2>1. UNCHANGED <<failure, cid, workerSettled, recorderSettled, boxOk, ready, signalled,
                     output>>
    BY <1>6 DEF RecorderFails, RecorderLeaves, RecorderKeeps, Recording
  <2>2. failed' \in BOOLEAN /\ fault' \in BOOLEAN /\ spans' \in BOOLEAN
    BY <1>6 DEF RecorderFails, RecorderLeaves, RecorderKeeps, Recording, Flags
  <2> QED BY <2>1, <2>2 DEF Flags
<1>7. CASE RecorderCloses
  <2>1. UNCHANGED <<failure, cid, workerSettled, recorderSettled, boxOk, ready, signalled,
                     output, spans>>
    BY <1>7 DEF RecorderCloses, RecorderKeeps
  <2>2. failed' \in BOOLEAN /\ fault' \in BOOLEAN
    BY <1>7 DEF RecorderCloses, RecorderKeeps, Flags
  <2> QED BY <2>1, <2>2 DEF Flags
<1>8. CASE RecorderDies
  <2>1. UNCHANGED <<failure, cid, workerSettled, recorderSettled, boxOk, failed, ready,
                     signalled, output>>
    BY <1>8 DEF RecorderDies, RecorderAlive, Recording, RecorderKeeps
  <2>2. fault' \in BOOLEAN /\ spans' \in BOOLEAN
    BY <1>8 DEF RecorderDies, RecorderAlive, Recording, RecorderKeeps, Flags
  <2> QED BY <2>1, <2>2 DEF Flags
<1>9. CASE Signal
  <2>1. UNCHANGED <<failure, cid, workerSettled, recorderSettled, boxOk, failed, ready,
                     output, fault, spans>>
    BY <1>9 DEF Signal, RecorderAlive
  <2>2. signalled' \in BOOLEAN
    BY <1>9 DEF Signal, RecorderAlive, Flags
  <2> QED BY <2>1, <2>2 DEF Flags
<1>10. CASE Create
  <2>1. UNCHANGED <<workerSettled, recorderSettled, boxOk, failed, ready, signalled, output,
                     spans>>
    BY <1>10 DEF Create, DriverKeeps, Goto, Throws
  <2>2. failure' \in BOOLEAN /\ cid' \in BOOLEAN /\ fault' \in BOOLEAN
    BY <1>10 DEF Create, DriverKeeps, Goto, Throws, Flags
  <2> QED BY <2>1, <2>2 DEF Flags
<1>11. CASE StartBox
  <2>1. UNCHANGED <<cid, workerSettled, recorderSettled, boxOk, failed, ready, signalled,
                     output, spans>>
    BY <1>11 DEF StartBox, DriverKeeps, Goto, Throws
  <2>2. failure' \in BOOLEAN /\ fault' \in BOOLEAN
    BY <1>11 DEF StartBox, DriverKeeps, Goto, Throws, Flags
  <2> QED BY <2>1, <2>2 DEF Flags
<1>12. CASE InspectBefore
  <2>1. UNCHANGED <<cid, workerSettled, recorderSettled, boxOk, failed, ready, signalled,
                     output, spans>>
    BY <1>12 DEF InspectBefore, DriverKeeps, Goto, Throws
  <2>2. failure' \in BOOLEAN /\ fault' \in BOOLEAN
    BY <1>12 DEF InspectBefore, DriverKeeps, Goto, Throws, Flags
  <2> QED BY <2>1, <2>2 DEF Flags
<1>13. ASSUME NEW w \in Workers, RunWorker(w) PROVE Flags'
  <2>1. UNCHANGED <<failure, cid, recorderSettled, boxOk, failed, ready, signalled, output,
                     fault>>
    BY <1>13 DEF RunWorker, Goto, Recording, Workers
  <2>2. workerSettled' \in BOOLEAN /\ spans' \in BOOLEAN
    BY <1>13 DEF RunWorker, Goto, Recording, Workers, Flags
  <2> QED BY <2>1, <2>2 DEF Flags
<1>14. ASSUME NEW w \in Workers, AwaitWorker(w) PROVE Flags'
  <2>1. UNCHANGED <<failure, cid, workerSettled, recorderSettled, boxOk, failed, ready,
                     signalled, output, spans>>
    BY <1>14 DEF AwaitWorker, DriverKeeps, Goto, Workers
  <2>2. fault' \in BOOLEAN
    BY <1>14 DEF AwaitWorker, DriverKeeps, Goto, Workers, Flags
  <2> QED BY <2>1, <2>2 DEF Flags
<1>15. ASSUME NEW w \in Workers, ProveWorker(w) PROVE Flags'
  <2>1. UNCHANGED <<cid, recorderSettled, boxOk, failed, ready, signalled, output, spans>>
    BY <1>15 DEF ProveWorker, DriverKeeps, Goto, Throws, Workers
  <2>2. failure' \in BOOLEAN /\ workerSettled' \in BOOLEAN /\ fault' \in BOOLEAN
    BY <1>15 DEF ProveWorker, DriverKeeps, Goto, Throws, Workers, Flags
  <2> QED BY <2>1, <2>2 DEF Flags
<1>16. CASE AwaitReady
  <2>1. UNCHANGED <<cid, workerSettled, recorderSettled, boxOk, failed, ready, signalled,
                     output, spans>>
    BY <1>16 DEF AwaitReady, DriverKeeps, Goto, Throws
  <2>2. failure' \in BOOLEAN /\ fault' \in BOOLEAN
    BY <1>16 DEF AwaitReady, DriverKeeps, Goto, Throws, Flags
  <2> QED BY <2>1, <2>2 DEF Flags
<1>17. CASE Recover
  <2>1. UNCHANGED <<workerSettled, recorderSettled, boxOk, failed, ready, signalled, output,
                     spans>>
    BY <1>17 DEF Recover, DriverKeeps, Goto, Notes
  <2>2. failure' \in BOOLEAN /\ cid' \in BOOLEAN /\ fault' \in BOOLEAN
    BY <1>17 DEF Recover, DriverKeeps, Goto, Notes, Flags
  <2> QED BY <2>1, <2>2 DEF Flags
<1>18. CASE CreateStop
  <2>1. UNCHANGED <<cid, workerSettled, recorderSettled, boxOk, failed, ready, signalled,
                     output, fault, spans>>
    BY <1>18 DEF CreateStop, DriverKeeps, Goto, Notes
  <2>2. failure' \in BOOLEAN
    BY <1>18 DEF CreateStop, DriverKeeps, Goto, Notes, Flags
  <2> QED BY <2>1, <2>2 DEF Flags
<1>19. CASE AwaitRecorder
  <2>1. UNCHANGED <<cid, workerSettled, recorderSettled, boxOk, failed, ready, signalled,
                     output, spans>>
    BY <1>19 DEF AwaitRecorder, DriverKeeps, Goto, Notes
  <2>2. failure' \in BOOLEAN /\ fault' \in BOOLEAN
    BY <1>19 DEF AwaitRecorder, DriverKeeps, Goto, Notes, Flags
  <2> QED BY <2>1, <2>2 DEF Flags
<1>20. CASE ProbeRecorder
  <2>1. UNCHANGED <<cid, workerSettled, boxOk, failed, ready, signalled, output, spans>>
    BY <1>20 DEF ProbeRecorder, DriverKeeps, Goto, Notes, RecorderAlive
  <2>2. failure' \in BOOLEAN /\ recorderSettled' \in BOOLEAN /\ fault' \in BOOLEAN
    BY <1>20 DEF ProbeRecorder, DriverKeeps, Goto, Notes, RecorderAlive, Flags
  <2> QED BY <2>1, <2>2 DEF Flags
<1>21. CASE StopBox
  <2>1. UNCHANGED <<cid, workerSettled, recorderSettled, failed, ready, signalled, output,
                     spans>>
    BY <1>21 DEF StopBox, DriverKeeps, Goto, Notes, Quiescent
  <2>2. failure' \in BOOLEAN /\ boxOk' \in BOOLEAN /\ fault' \in BOOLEAN
    BY <1>21 DEF StopBox, DriverKeeps, Goto, Notes, Quiescent, Flags
  <2> QED BY <2>1, <2>2 DEF Flags
<1>22. CASE RemoveBox
  <2>1. UNCHANGED <<cid, workerSettled, recorderSettled, boxOk, failed, ready, signalled,
                     output, spans>>
    BY <1>22 DEF RemoveBox, DriverKeeps, Goto, Notes
  <2>2. failure' \in BOOLEAN /\ fault' \in BOOLEAN
    BY <1>22 DEF RemoveBox, DriverKeeps, Goto, Notes, Flags
  <2> QED BY <2>1, <2>2 DEF Flags
<1>23. CASE DriverKilled
  <2>1. UNCHANGED <<failure, cid, workerSettled, recorderSettled, boxOk, failed, ready,
                     signalled, output, spans>>
    BY <1>23 DEF DriverKilled, DriverKeeps, Goto
  <2>2. fault' \in BOOLEAN
    BY <1>23 DEF DriverKilled, DriverKeeps, Goto, Flags
  <2> QED BY <2>1, <2>2 DEF Flags
<1>24. CASE Finalizer
  BY <1>24, FinalizerLeaves DEF Flags
<1>25. CASE (\E w \in Workers : WorkerWritesFacts(w)) \/ RecorderReports \/ RecorderExits
          \/ StartRecorder \/ WriteStop \/ LeaveBox \/ WriteEvents \/ Checkpoint
  BY <1>25 DEF WorkerWritesFacts, RecorderReports, RecorderKeeps, RecorderExits,
       StartRecorder, Goto, WriteStop, DriverKeeps, LeaveBox, Quiescent, WriteEvents,
       Checkpoint, Flags
<1>26. CASE UNCHANGED captureVars
  BY <1>26 DEF captureVars, Flags
<1> QED BY <1>1, <1>2, <1>3, <1>4, <1>5, <1>6, <1>7, <1>8, <1>9, <1>10, <1>11, <1>12, <1>13,
           <1>14, <1>15, <1>16, <1>17, <1>18, <1>19, <1>20, <1>21, <1>22, <1>23, <1>24, <1>25,
           <1>26
          DEF CaptureNext, Driver, Recorder, Environment

\* The other types.
LEMMA KindsNext ==
  ASSUME Flags, CaptureKinds, [CaptureNext]_captureVars
  PROVE  CaptureKinds'
<1> USE DEF driver, boxVars, procs, recorder, history
<1>1. CASE BoxDies
  BY <1>1, WorkerPlaces, Named DEF BoxDies, RecorderAlive, CaptureKinds
<1>2. ASSUME NEW w \in Workers, WorkerWritesFacts(w) PROVE CaptureKinds'
  BY <1>2, WorkerPlaces, Named DEF WorkerWritesFacts, CaptureKinds, Workers
<1>3. ASSUME NEW w \in Workers, WorkerExits(w) PROVE CaptureKinds'
  BY <1>3, WorkerPlaces, Named DEF WorkerExits, CaptureKinds, Workers
<1>4. CASE RecorderStarts
  BY <1>4, WorkerPlaces, Named DEF RecorderStarts, RecorderKeeps, CaptureKinds
<1>5. CASE RecorderReady
  BY <1>5, WorkerPlaces, Named DEF RecorderReady, RecorderKeeps, CaptureKinds
<1>6. CASE RecorderStops
  BY <1>6, WorkerPlaces, Named DEF RecorderStops, RecorderLeaves, RecorderKeeps, Recording,
       CaptureKinds
<1>7. CASE RecorderFails
  BY <1>7, WorkerPlaces, Named DEF RecorderFails, RecorderLeaves, RecorderKeeps, Recording,
       CaptureKinds
<1>8. CASE RecorderCloses
  BY <1>8, WorkerPlaces, Named DEF RecorderCloses, RecorderKeeps, CaptureKinds
<1>9. CASE RecorderReports
  BY <1>9, WorkerPlaces, Named DEF RecorderReports, RecorderKeeps, CaptureKinds
<1>10. CASE RecorderExits
  BY <1>10, WorkerPlaces, Named DEF RecorderExits, RecorderKeeps, CaptureKinds
<1>11. CASE RecorderDies
  BY <1>11, WorkerPlaces, Named DEF RecorderDies, RecorderAlive, Recording, RecorderKeeps,
       CaptureKinds
<1>12. CASE Create
  BY <1>12, WorkerPlaces, Named DEF Create, DriverKeeps, Goto, Throws, CaptureKinds
<1>13. CASE StartBox
  BY <1>13, WorkerPlaces, Named DEF StartBox, DriverKeeps, Goto, Throws, CaptureKinds
<1>14. CASE InspectBefore
  BY <1>14, WorkerPlaces, Named DEF InspectBefore, DriverKeeps, Goto, Throws, CaptureKinds
<1>15. ASSUME NEW w \in Workers, RunWorker(w) PROVE CaptureKinds'
  BY <1>15, WorkerPlaces, Named DEF RunWorker, Goto, Recording, CaptureKinds, Workers
<1>16. ASSUME NEW w \in Workers, AwaitWorker(w) PROVE CaptureKinds'
  BY <1>16, WorkerPlaces, Named DEF AwaitWorker, DriverKeeps, Goto, CaptureKinds, Workers
<1>17. ASSUME NEW w \in Workers, ProveWorker(w) PROVE CaptureKinds'
  BY <1>17, WorkerPlaces, Named DEF ProveWorker, DriverKeeps, Goto, Throws, CaptureKinds,
       Workers
<1>18. CASE StartRecorder
  BY <1>18, WorkerPlaces, Named DEF StartRecorder, Goto, CaptureKinds
<1>19. CASE AwaitReady
  BY <1>19, WorkerPlaces, Named DEF AwaitReady, DriverKeeps, Goto, Throws, CaptureKinds
<1>20. CASE Recover
  BY <1>20, WorkerPlaces, Named DEF Recover, DriverKeeps, Goto, Notes, CaptureKinds
<1>21. CASE CreateStop
  BY <1>21, WorkerPlaces, Named DEF CreateStop, DriverKeeps, Goto, Notes, CaptureKinds
<1>22. CASE WriteStop
  BY <1>22, WorkerPlaces, Named DEF WriteStop, DriverKeeps, Goto, CaptureKinds
<1>23. CASE AwaitRecorder
  BY <1>23, WorkerPlaces, Named DEF AwaitRecorder, DriverKeeps, Goto, Notes, CaptureKinds
<1>24. CASE ProbeRecorder
  BY <1>24, WorkerPlaces, Named DEF ProbeRecorder, DriverKeeps, Goto, Notes, RecorderAlive,
       CaptureKinds
<1>25. CASE StopBox
  BY <1>25, WorkerPlaces, Named DEF StopBox, DriverKeeps, Goto, Notes, Quiescent, CaptureKinds
<1>26. CASE RemoveBox
  BY <1>26, WorkerPlaces, Named DEF RemoveBox, DriverKeeps, Goto, Notes, CaptureKinds
<1>27. CASE LeaveBox
  BY <1>27, WorkerPlaces, Named DEF LeaveBox, DriverKeeps, Goto, Quiescent, CaptureKinds
<1>28. CASE WriteEvents
  BY <1>28, WorkerPlaces, Named DEF WriteEvents, DriverKeeps, Goto, Quiescent, CaptureKinds
<1>29. CASE Checkpoint
  BY <1>29, WorkerPlaces, Named DEF Checkpoint, DriverKeeps, Goto, CaptureKinds
<1>30. CASE DriverKilled
  BY <1>30, WorkerPlaces, Named DEF DriverKilled, DriverKeeps, Goto, CaptureKinds
<1>31. CASE Finalizer
  <2>1. UNCHANGED <<step, absent, facts, box, process, job, recorderJob, rec, why, state, bag,
                    stopFile, files>>
    BY <1>31, FinalizerLeaves
  <2>2. fin' \in {"idle", "capture", "identity", "bag", "documents", "project", "copy",
                 "evaluate", "refused", "evaluated"}
    BY <1>31, FinalizerLeaves
  <2> QED BY <2>1, <2>2 DEF CaptureKinds
<1>32. CASE Signal
  BY <1>32 DEF Signal, RecorderAlive, CaptureKinds
<1>33. CASE UNCHANGED captureVars
  BY <1>33 DEF captureVars, CaptureKinds
<1> QED BY <1>1, <1>2, <1>3, <1>4, <1>5, <1>6, <1>7, <1>8, <1>9, <1>10, <1>11, <1>12, <1>13,
           <1>14, <1>15, <1>16, <1>17, <1>18, <1>19, <1>20, <1>21, <1>22, <1>23, <1>24, <1>25,
           <1>26, <1>27, <1>28, <1>29, <1>30, <1>31, <1>32, <1>33
          DEF CaptureNext, Driver, Recorder, Environment

\* A worker counts as settled when it was seen gone, and before it is started; the
\* recorder when it was seen gone.
LEMMA SettledNext ==
  ASSUME Flags, CaptureKinds, SettledInv, [CaptureNext]_captureVars
  PROVE  SettledInv'
<1> USE DEF driver, boxVars, procs, recorder, history
<1>1. CASE BoxDies
  BY <1>1, WorkerPlaces DEF BoxDies, RecorderAlive, SettledInv, Alive, Flags, CaptureKinds,
       Opening, Preparing, Handover, Casing
<1>2. ASSUME NEW w \in Workers, WorkerExits(w) PROVE SettledInv'
  BY <1>2, WorkerPlaces DEF WorkerExits, SettledInv, Alive, RecorderAlive, Flags,
       CaptureKinds, Opening, Preparing, Handover, Casing, Workers
<1>3. CASE RecorderStarts
  BY <1>3, WorkerPlaces DEF RecorderStarts, RecorderKeeps, SettledInv, Alive, RecorderAlive,
       Flags, CaptureKinds, Opening, Preparing, Handover, Casing
<1>4. CASE RecorderReady
  BY <1>4, WorkerPlaces DEF RecorderReady, RecorderKeeps, SettledInv, Alive, RecorderAlive,
       Flags, CaptureKinds, Opening, Preparing, Handover, Casing
<1>5. CASE RecorderStops
  BY <1>5, WorkerPlaces DEF RecorderStops, RecorderLeaves, RecorderKeeps, Recording,
       SettledInv, Alive, RecorderAlive, Flags, CaptureKinds, Opening, Preparing, Handover,
       Casing
<1>6. CASE RecorderFails
  BY <1>6, WorkerPlaces DEF RecorderFails, RecorderLeaves, RecorderKeeps, Recording,
       SettledInv, Alive, RecorderAlive, Flags, CaptureKinds, Opening, Preparing, Handover,
       Casing
<1>7. CASE RecorderCloses
  BY <1>7, WorkerPlaces DEF RecorderCloses, RecorderKeeps, SettledInv, Alive, RecorderAlive,
       Flags, CaptureKinds, Opening, Preparing, Handover, Casing
<1>8. CASE RecorderReports
  BY <1>8, WorkerPlaces DEF RecorderReports, RecorderKeeps, SettledInv, Alive, RecorderAlive,
       Flags, CaptureKinds, Opening, Preparing, Handover, Casing
<1>9. CASE RecorderExits
  BY <1>9, WorkerPlaces DEF RecorderExits, RecorderKeeps, SettledInv, Alive, RecorderAlive,
       Flags, CaptureKinds, Opening, Preparing, Handover, Casing
<1>10. CASE RecorderDies
  BY <1>10, WorkerPlaces DEF RecorderDies, RecorderAlive, Recording, RecorderKeeps,
       SettledInv, Alive, Flags, CaptureKinds, Opening, Preparing, Handover, Casing
<1>11. CASE Create
  BY <1>11, WorkerPlaces DEF Create, DriverKeeps, Goto, Throws, SettledInv, Alive,
       RecorderAlive, Flags, CaptureKinds, Opening, Preparing, Handover, Casing
<1>12. CASE StartBox
  BY <1>12, WorkerPlaces DEF StartBox, DriverKeeps, Goto, Throws, SettledInv, Alive,
       RecorderAlive, Flags, CaptureKinds, Opening, Preparing, Handover, Casing
<1>13. CASE InspectBefore
  BY <1>13, WorkerPlaces DEF InspectBefore, DriverKeeps, Goto, Throws, SettledInv, Alive,
       RecorderAlive, Flags, CaptureKinds, Opening, Preparing, Handover, Casing
<1>14. ASSUME NEW w \in Workers, RunWorker(w) PROVE SettledInv'
  BY <1>14, WorkerPlaces DEF RunWorker, Goto, Recording, SettledInv, Alive, RecorderAlive,
       Flags, CaptureKinds, Opening, Preparing, Handover, Casing, Workers
<1>15. ASSUME NEW w \in Workers, AwaitWorker(w) PROVE SettledInv'
  BY <1>15, WorkerPlaces DEF AwaitWorker, DriverKeeps, Goto, SettledInv, Alive, RecorderAlive,
       Flags, CaptureKinds, Opening, Preparing, Handover, Casing, Workers
<1>16. ASSUME NEW w \in Workers, ProveWorker(w) PROVE SettledInv'
  BY <1>16, WorkerPlaces DEF ProveWorker, DriverKeeps, Goto, Throws, SettledInv, Alive,
       RecorderAlive, Flags, CaptureKinds, Opening, Preparing, Handover, Casing, Workers
<1>17. CASE StartRecorder
  BY <1>17, WorkerPlaces DEF StartRecorder, Goto, SettledInv, Alive, RecorderAlive, Flags,
       CaptureKinds, Opening, Preparing, Handover, Casing
<1>18. CASE AwaitReady
  BY <1>18, WorkerPlaces DEF AwaitReady, DriverKeeps, Goto, Throws, SettledInv, Alive,
       RecorderAlive, Flags, CaptureKinds, Opening, Preparing, Handover, Casing
<1>19. CASE Recover
  BY <1>19, WorkerPlaces DEF Recover, DriverKeeps, Goto, Notes, SettledInv, Alive,
       RecorderAlive, Flags, CaptureKinds, Opening, Preparing, Handover, Casing
<1>20. CASE CreateStop
  BY <1>20, WorkerPlaces DEF CreateStop, DriverKeeps, Goto, Notes, SettledInv, Alive,
       RecorderAlive, Flags, CaptureKinds, Opening, Preparing, Handover, Casing
<1>21. CASE WriteStop
  BY <1>21, WorkerPlaces DEF WriteStop, DriverKeeps, Goto, SettledInv, Alive, RecorderAlive,
       Flags, CaptureKinds, Opening, Preparing, Handover, Casing
<1>22. CASE AwaitRecorder
  BY <1>22, WorkerPlaces DEF AwaitRecorder, DriverKeeps, Goto, Notes, SettledInv, Alive,
       RecorderAlive, Flags, CaptureKinds, Opening, Preparing, Handover, Casing
<1>23. CASE ProbeRecorder
  BY <1>23, WorkerPlaces DEF ProbeRecorder, DriverKeeps, Goto, Notes, RecorderAlive,
       SettledInv, Alive, Flags, CaptureKinds, Opening, Preparing, Handover, Casing
<1>24. CASE StopBox
  BY <1>24, WorkerPlaces DEF StopBox, DriverKeeps, Goto, Notes, Quiescent, SettledInv, Alive,
       RecorderAlive, Flags, CaptureKinds, Opening, Preparing, Handover, Casing
<1>25. CASE RemoveBox
  BY <1>25, WorkerPlaces DEF RemoveBox, DriverKeeps, Goto, Notes, SettledInv, Alive,
       RecorderAlive, Flags, CaptureKinds, Opening, Preparing, Handover, Casing
<1>26. CASE LeaveBox
  BY <1>26, WorkerPlaces DEF LeaveBox, DriverKeeps, Goto, Quiescent, SettledInv, Alive,
       RecorderAlive, Flags, CaptureKinds, Opening, Preparing, Handover, Casing
<1>27. CASE WriteEvents
  BY <1>27, WorkerPlaces DEF WriteEvents, DriverKeeps, Goto, Quiescent, SettledInv, Alive,
       RecorderAlive, Flags, CaptureKinds, Opening, Preparing, Handover, Casing
<1>28. CASE Checkpoint
  BY <1>28, WorkerPlaces DEF Checkpoint, DriverKeeps, Goto, SettledInv, Alive, RecorderAlive,
       Flags, CaptureKinds, Opening, Preparing, Handover, Casing
<1>29. CASE DriverKilled
  BY <1>29, WorkerPlaces DEF DriverKilled, DriverKeeps, Goto, SettledInv, Alive,
       RecorderAlive, Flags, CaptureKinds, Opening, Preparing, Handover, Casing
<1>30. CASE Finalizer
  BY <1>30, FinalizerLeaves DEF SettledInv, Alive, RecorderAlive, Flags, CaptureKinds,
       Opening, Preparing, Handover, Casing
<1>31. CASE (\E w \in Workers : WorkerWritesFacts(w)) \/ Signal
  BY <1>31 DEF WorkerWritesFacts, Signal, RecorderAlive, SettledInv, Alive, Flags,
       CaptureKinds, Opening, Preparing, Handover, Casing
<1>32. CASE UNCHANGED captureVars
  BY <1>32 DEF captureVars, SettledInv, Alive, RecorderAlive, Flags, CaptureKinds, Opening,
       Preparing, Handover, Casing
<1> QED BY <1>1, <1>2, <1>3, <1>4, <1>5, <1>6, <1>7, <1>8, <1>9, <1>10, <1>11, <1>12, <1>13,
           <1>14, <1>15, <1>16, <1>17, <1>18, <1>19, <1>20, <1>21, <1>22, <1>23, <1>24, <1>25,
           <1>26, <1>27, <1>28, <1>29, <1>30, <1>31, <1>32
          DEF CaptureNext, Driver, Recorder, Environment

\* A job that was not lost ended as its process did.
LEMMA JobNext ==
  ASSUME Flags, CaptureKinds, SettledInv, RecorderInv, JobInv, [CaptureNext]_captureVars
  PROVE  JobInv'
<1> USE DEF driver, boxVars, procs, recorder, history
<1>1. CASE BoxDies
  BY <1>1, WorkerPlaces DEF BoxDies, RecorderAlive, JobInv, Flags, CaptureKinds, Handover,
       Casing
<1>2. ASSUME NEW w \in Workers, WorkerExits(w) PROVE JobInv'
  BY <1>2, WorkerPlaces DEF WorkerExits, JobInv, Flags, CaptureKinds, Handover, Casing,
       Workers
<1>3. CASE RecorderStarts
  BY <1>3, WorkerPlaces DEF RecorderStarts, RecorderKeeps, JobInv, Flags, CaptureKinds,
       Handover, Casing
<1>4. CASE RecorderReady
  BY <1>4, WorkerPlaces DEF RecorderReady, RecorderKeeps, JobInv, Flags, CaptureKinds,
       Handover, Casing
<1>5. CASE RecorderStops
  BY <1>5, WorkerPlaces DEF RecorderStops, RecorderLeaves, RecorderKeeps, Recording, JobInv,
       Flags, CaptureKinds, Handover, Casing
<1>6. CASE RecorderFails
  BY <1>6, WorkerPlaces DEF RecorderFails, RecorderLeaves, RecorderKeeps, Recording, JobInv,
       Flags, CaptureKinds, Handover, Casing
<1>7. CASE RecorderCloses
  BY <1>7, WorkerPlaces DEF RecorderCloses, RecorderKeeps, JobInv, Flags, CaptureKinds,
       Handover, Casing
<1>8. CASE RecorderReports
  BY <1>8, WorkerPlaces DEF RecorderReports, RecorderKeeps, JobInv, Flags, CaptureKinds,
       Handover, Casing
<1>9. CASE RecorderExits
  BY <1>9, WorkerPlaces DEF RecorderExits, RecorderKeeps, JobInv, Flags, CaptureKinds,
       Handover, Casing
<1>10. CASE RecorderDies
  BY <1>10, WorkerPlaces DEF RecorderDies, RecorderAlive, Recording, RecorderKeeps, JobInv,
       Flags, CaptureKinds, Handover, Casing
<1>11. CASE Create
  BY <1>11, WorkerPlaces DEF Create, DriverKeeps, Goto, Throws, JobInv, Flags, CaptureKinds,
       Handover, Casing
<1>12. CASE StartBox
  BY <1>12, WorkerPlaces DEF StartBox, DriverKeeps, Goto, Throws, JobInv, Flags, CaptureKinds,
       Handover, Casing
<1>13. CASE InspectBefore
  BY <1>13, WorkerPlaces DEF InspectBefore, DriverKeeps, Goto, Throws, JobInv, Flags,
       CaptureKinds, Handover, Casing
<1>14. ASSUME NEW w \in Workers, RunWorker(w) PROVE JobInv'
  BY <1>14, WorkerPlaces DEF RunWorker, Goto, Recording, JobInv, Flags, CaptureKinds,
       Handover, Casing, Workers
<1>15. ASSUME NEW w \in Workers, AwaitWorker(w) PROVE JobInv'
  BY <1>15, WorkerPlaces DEF AwaitWorker, DriverKeeps, Goto, JobInv, Flags, CaptureKinds,
       Handover, Casing, Workers
<1>16. ASSUME NEW w \in Workers, ProveWorker(w) PROVE JobInv'
  BY <1>16, WorkerPlaces DEF ProveWorker, DriverKeeps, Goto, Throws, JobInv, Flags,
       CaptureKinds, Handover, Casing, Workers
<1>17. CASE StartRecorder
  BY <1>17, WorkerPlaces DEF StartRecorder, Goto, JobInv, Flags, CaptureKinds, Handover,
       Casing
<1>18. CASE AwaitReady
  BY <1>18, WorkerPlaces DEF AwaitReady, DriverKeeps, Goto, Throws, JobInv, Flags,
       CaptureKinds, Handover, Casing
<1>19. CASE Recover
  BY <1>19, WorkerPlaces DEF Recover, DriverKeeps, Goto, Notes, JobInv, Flags, CaptureKinds,
       Handover, Casing
<1>20. CASE CreateStop
  BY <1>20, WorkerPlaces DEF CreateStop, DriverKeeps, Goto, Notes, JobInv, Flags,
       CaptureKinds, Handover, Casing
<1>21. CASE WriteStop
  BY <1>21, WorkerPlaces DEF WriteStop, DriverKeeps, Goto, JobInv, Flags, CaptureKinds,
       Handover, Casing
<1>22. CASE AwaitRecorder
  BY <1>22, WorkerPlaces DEF AwaitRecorder, DriverKeeps, Goto, Notes, JobInv, Flags,
       CaptureKinds, Handover, Casing
<1>23. CASE ProbeRecorder
  BY <1>23, WorkerPlaces DEF ProbeRecorder, DriverKeeps, Goto, Notes, RecorderAlive, JobInv,
       Flags, CaptureKinds, Handover, Casing
<1>24. CASE StopBox
  BY <1>24, WorkerPlaces DEF StopBox, DriverKeeps, Goto, Notes, Quiescent, JobInv, Flags,
       CaptureKinds, Handover, Casing
<1>25. CASE RemoveBox
  BY <1>25, WorkerPlaces DEF RemoveBox, DriverKeeps, Goto, Notes, JobInv, Flags, CaptureKinds,
       Handover, Casing
<1>26. CASE LeaveBox
  BY <1>26, WorkerPlaces DEF LeaveBox, DriverKeeps, Goto, Quiescent, JobInv, Flags,
       CaptureKinds, Handover, Casing
<1>27. CASE WriteEvents
  BY <1>27, WorkerPlaces DEF WriteEvents, DriverKeeps, Goto, Quiescent, JobInv, Flags,
       CaptureKinds, Handover, Casing
<1>28. CASE Checkpoint
  BY <1>28, WorkerPlaces DEF Checkpoint, DriverKeeps, Goto, JobInv, Flags, CaptureKinds,
       Handover, Casing
<1>29. CASE DriverKilled
  BY <1>29, WorkerPlaces DEF DriverKilled, DriverKeeps, Goto, JobInv, Flags, CaptureKinds,
       Handover, Casing
<1>30. CASE Finalizer
  BY <1>30, FinalizerLeaves DEF JobInv, Flags, CaptureKinds, Handover, Casing
<1>31. CASE (\E w \in Workers : WorkerWritesFacts(w)) \/ Signal
  BY <1>31 DEF WorkerWritesFacts, Signal, RecorderAlive, JobInv, Flags, CaptureKinds,
       Handover, Casing
<1>32. CASE UNCHANGED captureVars
  BY <1>32 DEF captureVars, JobInv, Flags, CaptureKinds, Handover, Casing
<1> QED BY <1>1, <1>2, <1>3, <1>4, <1>5, <1>6, <1>7, <1>8, <1>9, <1>10, <1>11, <1>12, <1>13,
           <1>14, <1>15, <1>16, <1>17, <1>18, <1>19, <1>20, <1>21, <1>22, <1>23, <1>24, <1>25,
           <1>26, <1>27, <1>28, <1>29, <1>30, <1>31, <1>32
          DEF CaptureNext, Driver, Recorder, Environment

\* The recorder goes through its states once, and no case runs before it is ready.
LEMMA RecorderNext ==
  ASSUME Flags, CaptureKinds, SettledInv, RecorderInv, [CaptureNext]_captureVars
  PROVE  RecorderInv'
<1> USE DEF driver, boxVars, procs, recorder, history
<1>1. CASE BoxDies
  BY <1>1, WorkerPlaces DEF BoxDies, RecorderAlive, RecorderInv, SettledInv, Flags,
       CaptureKinds, Recording, Ending
<1>2. ASSUME NEW w \in Workers, WorkerExits(w) PROVE RecorderInv'
  BY <1>2, WorkerPlaces DEF WorkerExits, RecorderInv, SettledInv, Flags, CaptureKinds,
       Recording, Ending, Workers
<1>3. CASE RecorderStarts
  BY <1>3, WorkerPlaces DEF RecorderStarts, RecorderKeeps, RecorderInv, SettledInv, Flags,
       CaptureKinds, Recording, Ending
<1>4. CASE RecorderReady
  BY <1>4, WorkerPlaces DEF RecorderReady, RecorderKeeps, RecorderInv, SettledInv, Flags,
       CaptureKinds, Recording, Ending
<1>5. CASE RecorderStops
  BY <1>5, WorkerPlaces DEF RecorderStops, RecorderLeaves, RecorderKeeps, Recording,
       RecorderInv, SettledInv, Flags, CaptureKinds, Ending
<1>6. CASE RecorderFails
  BY <1>6, WorkerPlaces DEF RecorderFails, RecorderLeaves, RecorderKeeps, Recording,
       RecorderInv, SettledInv, Flags, CaptureKinds, Ending
<1>7. CASE RecorderCloses
  BY <1>7, WorkerPlaces DEF RecorderCloses, RecorderKeeps, RecorderInv, SettledInv, Flags,
       CaptureKinds, Recording, Ending
<1>8. CASE RecorderReports
  BY <1>8, WorkerPlaces DEF RecorderReports, RecorderKeeps, RecorderInv, SettledInv, Flags,
       CaptureKinds, Recording, Ending
<1>9. CASE RecorderExits
  BY <1>9, WorkerPlaces DEF RecorderExits, RecorderKeeps, RecorderInv, SettledInv, Flags,
       CaptureKinds, Recording, Ending
<1>10. CASE RecorderDies
  BY <1>10, WorkerPlaces DEF RecorderDies, RecorderAlive, Recording, RecorderKeeps,
       RecorderInv, SettledInv, Flags, CaptureKinds, Ending
<1>11. CASE Create
  BY <1>11, WorkerPlaces DEF Create, DriverKeeps, Goto, Throws, RecorderInv, SettledInv,
       Flags, CaptureKinds, Recording, Ending
<1>12. CASE StartBox
  BY <1>12, WorkerPlaces DEF StartBox, DriverKeeps, Goto, Throws, RecorderInv, SettledInv,
       Flags, CaptureKinds, Recording, Ending
<1>13. CASE InspectBefore
  BY <1>13, WorkerPlaces DEF InspectBefore, DriverKeeps, Goto, Throws, RecorderInv,
       SettledInv, Flags, CaptureKinds, Recording, Ending
<1>14. ASSUME NEW w \in Workers, RunWorker(w) PROVE RecorderInv'
  BY <1>14, WorkerPlaces DEF RunWorker, Goto, Recording, RecorderInv, SettledInv, Flags,
       CaptureKinds, Ending, Workers
<1>15. ASSUME NEW w \in Workers, AwaitWorker(w) PROVE RecorderInv'
  BY <1>15, WorkerPlaces DEF AwaitWorker, DriverKeeps, Goto, RecorderInv, SettledInv, Flags,
       CaptureKinds, Recording, Ending, Workers
<1>16. ASSUME NEW w \in Workers, ProveWorker(w) PROVE RecorderInv'
  BY <1>16, WorkerPlaces DEF ProveWorker, DriverKeeps, Goto, Throws, RecorderInv, SettledInv,
       Flags, CaptureKinds, Recording, Ending, Workers
<1>17. CASE StartRecorder
  BY <1>17, WorkerPlaces DEF StartRecorder, Goto, RecorderInv, SettledInv, Flags,
       CaptureKinds, Recording, Ending
<1>18. CASE AwaitReady
  BY <1>18, WorkerPlaces DEF AwaitReady, DriverKeeps, Goto, Throws, RecorderInv, SettledInv,
       Flags, CaptureKinds, Recording, Ending
<1>19. CASE Recover
  BY <1>19, WorkerPlaces DEF Recover, DriverKeeps, Goto, Notes, RecorderInv, SettledInv,
       Flags, CaptureKinds, Recording, Ending
<1>20. CASE CreateStop
  BY <1>20, WorkerPlaces DEF CreateStop, DriverKeeps, Goto, Notes, RecorderInv, SettledInv,
       Flags, CaptureKinds, Recording, Ending
<1>21. CASE WriteStop
  BY <1>21, WorkerPlaces DEF WriteStop, DriverKeeps, Goto, RecorderInv, SettledInv, Flags,
       CaptureKinds, Recording, Ending
<1>22. CASE AwaitRecorder
  BY <1>22, WorkerPlaces DEF AwaitRecorder, DriverKeeps, Goto, Notes, RecorderInv, SettledInv,
       Flags, CaptureKinds, Recording, Ending
<1>23. CASE ProbeRecorder
  BY <1>23, WorkerPlaces DEF ProbeRecorder, DriverKeeps, Goto, Notes, RecorderAlive,
       RecorderInv, SettledInv, Flags, CaptureKinds, Recording, Ending
<1>24. CASE StopBox
  BY <1>24, WorkerPlaces DEF StopBox, DriverKeeps, Goto, Notes, Quiescent, RecorderInv,
       SettledInv, Flags, CaptureKinds, Recording, Ending
<1>25. CASE RemoveBox
  BY <1>25, WorkerPlaces DEF RemoveBox, DriverKeeps, Goto, Notes, RecorderInv, SettledInv,
       Flags, CaptureKinds, Recording, Ending
<1>26. CASE LeaveBox
  BY <1>26, WorkerPlaces DEF LeaveBox, DriverKeeps, Goto, Quiescent, RecorderInv, SettledInv,
       Flags, CaptureKinds, Recording, Ending
<1>27. CASE WriteEvents
  BY <1>27, WorkerPlaces DEF WriteEvents, DriverKeeps, Goto, Quiescent, RecorderInv,
       SettledInv, Flags, CaptureKinds, Recording, Ending
<1>28. CASE Checkpoint
  BY <1>28, WorkerPlaces DEF Checkpoint, DriverKeeps, Goto, RecorderInv, SettledInv, Flags,
       CaptureKinds, Recording, Ending
<1>29. CASE DriverKilled
  BY <1>29, WorkerPlaces DEF DriverKilled, DriverKeeps, Goto, RecorderInv, SettledInv, Flags,
       CaptureKinds, Recording, Ending
<1>30. CASE Finalizer
  BY <1>30, FinalizerLeaves DEF RecorderInv, SettledInv, Flags, CaptureKinds, Recording,
       Ending
<1>31. CASE (\E w \in Workers : WorkerWritesFacts(w)) \/ Signal
  BY <1>31 DEF WorkerWritesFacts, Signal, RecorderAlive, RecorderInv, SettledInv, Flags,
       CaptureKinds, Recording, Ending
<1>32. CASE UNCHANGED captureVars
  BY <1>32 DEF captureVars, RecorderInv, SettledInv, Flags, CaptureKinds, Recording, Ending
<1> QED BY <1>1, <1>2, <1>3, <1>4, <1>5, <1>6, <1>7, <1>8, <1>9, <1>10, <1>11, <1>12, <1>13,
           <1>14, <1>15, <1>16, <1>17, <1>18, <1>19, <1>20, <1>21, <1>22, <1>23, <1>24, <1>25,
           <1>26, <1>27, <1>28, <1>29, <1>30, <1>31, <1>32
          DEF CaptureNext, Driver, Recorder, Environment

\* A driver that throws nothing has what each of its steps is there for.
LEMMA ProgressNext ==
  ASSUME Flags, CaptureKinds, SettledInv, JobInv, RecorderInv, FaultInv, ProgressInv,
         [CaptureNext]_captureVars
  PROVE  ProgressInv'
<1> USE DEF driver, boxVars, procs, recorder, history
<1>1. CASE BoxDies
  BY <1>1, WorkerPlaces DEF BoxDies, RecorderAlive, ProgressInv, SettledInv, JobInv,
       RecorderInv, Flags, CaptureKinds, Alive, Recording, Opening, Preparing, Handover,
       Casing, Finishing, Ending
<1>2. ASSUME NEW w \in Workers, WorkerExits(w) PROVE ProgressInv'
  BY <1>2, WorkerPlaces DEF WorkerExits, ProgressInv, SettledInv, JobInv, RecorderInv, Flags,
       CaptureKinds, Alive, RecorderAlive, Recording, Opening, Preparing, Handover, Casing,
       Finishing, Ending, Workers
<1>3. CASE RecorderStarts
  BY <1>3, WorkerPlaces DEF RecorderStarts, RecorderKeeps, ProgressInv, SettledInv, JobInv,
       RecorderInv, Flags, CaptureKinds, Alive, RecorderAlive, Recording, Opening, Preparing,
       Handover, Casing, Finishing, Ending
<1>4. CASE RecorderReady
  BY <1>4, WorkerPlaces DEF RecorderReady, RecorderKeeps, ProgressInv, SettledInv, JobInv,
       RecorderInv, Flags, CaptureKinds, Alive, RecorderAlive, Recording, Opening, Preparing,
       Handover, Casing, Finishing, Ending
<1>5. CASE RecorderStops
  BY <1>5, WorkerPlaces DEF RecorderStops, RecorderLeaves, RecorderKeeps, Recording,
       ProgressInv, SettledInv, JobInv, RecorderInv, Flags, CaptureKinds, Alive,
       RecorderAlive, Opening, Preparing, Handover, Casing, Finishing, Ending
<1>6. CASE RecorderFails
  BY <1>6, WorkerPlaces DEF RecorderFails, RecorderLeaves, RecorderKeeps, Recording,
       ProgressInv, SettledInv, JobInv, RecorderInv, Flags, CaptureKinds, Alive,
       RecorderAlive, Opening, Preparing, Handover, Casing, Finishing, Ending
<1>7. CASE RecorderCloses
  BY <1>7, WorkerPlaces DEF RecorderCloses, RecorderKeeps, ProgressInv, SettledInv, JobInv,
       RecorderInv, Flags, CaptureKinds, Alive, RecorderAlive, Recording, Opening, Preparing,
       Handover, Casing, Finishing, Ending
<1>8. CASE RecorderReports
  BY <1>8, WorkerPlaces DEF RecorderReports, RecorderKeeps, ProgressInv, SettledInv, JobInv,
       RecorderInv, Flags, CaptureKinds, Alive, RecorderAlive, Recording, Opening, Preparing,
       Handover, Casing, Finishing, Ending
<1>9. CASE RecorderExits
  BY <1>9, WorkerPlaces DEF RecorderExits, RecorderKeeps, ProgressInv, SettledInv, JobInv,
       RecorderInv, Flags, CaptureKinds, Alive, RecorderAlive, Recording, Opening, Preparing,
       Handover, Casing, Finishing, Ending
<1>10. CASE RecorderDies
  BY <1>10, WorkerPlaces DEF RecorderDies, RecorderAlive, Recording, RecorderKeeps,
       ProgressInv, SettledInv, JobInv, RecorderInv, Flags, CaptureKinds, Alive, Opening,
       Preparing, Handover, Casing, Finishing, Ending
<1>11. CASE Create
  BY <1>11, WorkerPlaces DEF Create, DriverKeeps, Goto, Throws, ProgressInv, SettledInv,
       JobInv, RecorderInv, Flags, CaptureKinds, Alive, RecorderAlive, Recording, Opening,
       Preparing, Handover, Casing, Finishing, Ending
<1>12. CASE StartBox
  BY <1>12, WorkerPlaces DEF StartBox, DriverKeeps, Goto, Throws, ProgressInv, SettledInv,
       JobInv, RecorderInv, Flags, CaptureKinds, Alive, RecorderAlive, Recording, Opening,
       Preparing, Handover, Casing, Finishing, Ending
<1>13. CASE InspectBefore
  BY <1>13, WorkerPlaces DEF InspectBefore, DriverKeeps, Goto, Throws, ProgressInv,
       SettledInv, JobInv, RecorderInv, Flags, CaptureKinds, Alive, RecorderAlive, Recording,
       Opening, Preparing, Handover, Casing, Finishing, Ending
<1>14. ASSUME NEW w \in Workers, RunWorker(w) PROVE ProgressInv'
  BY <1>14, WorkerPlaces DEF RunWorker, Goto, Recording, ProgressInv, SettledInv, JobInv,
       RecorderInv, Flags, CaptureKinds, Alive, RecorderAlive, Opening, Preparing, Handover,
       Casing, Finishing, Ending, Workers
<1>15. ASSUME NEW w \in Workers, AwaitWorker(w) PROVE ProgressInv'
  BY <1>15, WorkerPlaces DEF AwaitWorker, DriverKeeps, Goto, ProgressInv, SettledInv, JobInv,
       RecorderInv, Flags, CaptureKinds, Alive, RecorderAlive, Recording, Opening, Preparing,
       Handover, Casing, Finishing, Ending, Workers
<1>16. ASSUME NEW w \in Workers, ProveWorker(w) PROVE ProgressInv'
  BY <1>16, WorkerPlaces DEF ProveWorker, DriverKeeps, Goto, Throws, ProgressInv, SettledInv,
       JobInv, RecorderInv, Flags, CaptureKinds, Alive, RecorderAlive, Recording, Opening,
       Preparing, Handover, Casing, Finishing, Ending, Workers
<1>17. CASE StartRecorder
  BY <1>17, WorkerPlaces DEF StartRecorder, Goto, ProgressInv, SettledInv, JobInv,
       RecorderInv, Flags, CaptureKinds, Alive, RecorderAlive, Recording, Opening, Preparing,
       Handover, Casing, Finishing, Ending
<1>18. CASE AwaitReady
  BY <1>18, WorkerPlaces DEF AwaitReady, DriverKeeps, Goto, Throws, ProgressInv, SettledInv,
       JobInv, RecorderInv, Flags, CaptureKinds, Alive, RecorderAlive, Recording, Opening,
       Preparing, Handover, Casing, Finishing, Ending
<1>19. CASE Recover
  BY <1>19, WorkerPlaces DEF Recover, DriverKeeps, Goto, Notes, ProgressInv, SettledInv,
       JobInv, RecorderInv, Flags, CaptureKinds, Alive, RecorderAlive, Recording, Opening,
       Preparing, Handover, Casing, Finishing, Ending
<1>20. CASE CreateStop
  BY <1>20, WorkerPlaces DEF CreateStop, DriverKeeps, Goto, Notes, ProgressInv, SettledInv,
       JobInv, RecorderInv, Flags, CaptureKinds, Alive, RecorderAlive, Recording, Opening,
       Preparing, Handover, Casing, Finishing, Ending
<1>21. CASE WriteStop
  BY <1>21, WorkerPlaces DEF WriteStop, DriverKeeps, Goto, ProgressInv, SettledInv, JobInv,
       RecorderInv, Flags, CaptureKinds, Alive, RecorderAlive, Recording, Opening, Preparing,
       Handover, Casing, Finishing, Ending
<1>22. CASE AwaitRecorder
  BY <1>22, WorkerPlaces DEF AwaitRecorder, DriverKeeps, Goto, Notes, ProgressInv, SettledInv,
       JobInv, RecorderInv, Flags, CaptureKinds, Alive, RecorderAlive, Recording, Opening,
       Preparing, Handover, Casing, Finishing, Ending
<1>23. CASE ProbeRecorder
  BY <1>23, WorkerPlaces DEF ProbeRecorder, DriverKeeps, Goto, Notes, RecorderAlive,
       ProgressInv, SettledInv, JobInv, RecorderInv, Flags, CaptureKinds, Alive, Recording,
       Opening, Preparing, Handover, Casing, Finishing, Ending
<1>24. CASE StopBox
  BY <1>24, WorkerPlaces DEF StopBox, DriverKeeps, Goto, Notes, Quiescent, ProgressInv,
       SettledInv, JobInv, RecorderInv, Flags, CaptureKinds, Alive, RecorderAlive, Recording,
       Opening, Preparing, Handover, Casing, Finishing, Ending
<1>25. CASE RemoveBox
  BY <1>25, WorkerPlaces DEF RemoveBox, DriverKeeps, Goto, Notes, ProgressInv, SettledInv,
       JobInv, RecorderInv, Flags, CaptureKinds, Alive, RecorderAlive, Recording, Opening,
       Preparing, Handover, Casing, Finishing, Ending
<1>26. CASE LeaveBox
  BY <1>26, WorkerPlaces DEF LeaveBox, DriverKeeps, Goto, Quiescent, ProgressInv, SettledInv,
       JobInv, RecorderInv, Flags, CaptureKinds, Alive, RecorderAlive, Recording, Opening,
       Preparing, Handover, Casing, Finishing, Ending
<1>27. CASE WriteEvents
  BY <1>27, WorkerPlaces DEF WriteEvents, DriverKeeps, Goto, Quiescent, ProgressInv,
       SettledInv, JobInv, RecorderInv, Flags, CaptureKinds, Alive, RecorderAlive, Recording,
       Opening, Preparing, Handover, Casing, Finishing, Ending
<1>28. CASE Checkpoint
  BY <1>28, WorkerPlaces DEF Checkpoint, DriverKeeps, Goto, ProgressInv, SettledInv, JobInv,
       RecorderInv, Flags, CaptureKinds, Alive, RecorderAlive, Recording, Opening, Preparing,
       Handover, Casing, Finishing, Ending
<1>29. CASE DriverKilled
  BY <1>29, WorkerPlaces DEF DriverKilled, DriverKeeps, Goto, ProgressInv, SettledInv, JobInv,
       RecorderInv, Flags, CaptureKinds, Alive, RecorderAlive, Recording, Opening, Preparing,
       Handover, Casing, Finishing, Ending
<1>30. CASE Finalizer
  BY <1>30, FinalizerLeaves DEF ProgressInv, SettledInv, JobInv, RecorderInv, Flags,
       CaptureKinds, Alive, RecorderAlive, Recording, Opening, Preparing, Handover, Casing,
       Finishing, Ending
<1>31. CASE (\E w \in Workers : WorkerWritesFacts(w)) \/ Signal
  BY <1>31 DEF WorkerWritesFacts, Signal, RecorderAlive, ProgressInv, SettledInv, JobInv,
       RecorderInv, Flags, CaptureKinds, Alive, Recording, Opening, Preparing, Handover,
       Casing, Finishing, Ending
<1>32. CASE UNCHANGED captureVars
  BY <1>32 DEF captureVars, ProgressInv, SettledInv, JobInv, RecorderInv, Flags, CaptureKinds,
       Alive, RecorderAlive, Recording, Opening, Preparing, Handover, Casing, Finishing,
       Ending
<1> QED BY <1>1, <1>2, <1>3, <1>4, <1>5, <1>6, <1>7, <1>8, <1>9, <1>10, <1>11, <1>12, <1>13,
           <1>14, <1>15, <1>16, <1>17, <1>18, <1>19, <1>20, <1>21, <1>22, <1>23, <1>24, <1>25,
           <1>26, <1>27, <1>28, <1>29, <1>30, <1>31, <1>32
          DEF CaptureNext, Driver, Recorder, Environment

\* Nothing is thrown without a fault, unless the request was not yet written.
LEMMA FaultNext ==
  ASSUME Flags, CaptureKinds, JobInv, RecorderInv, ProgressInv, FaultInv,
         [CaptureNext]_captureVars
  PROVE  FaultInv'
<1> USE DEF driver, boxVars, procs, recorder, history
<1>1. CASE BoxDies
  BY <1>1, WorkerPlaces DEF BoxDies, RecorderAlive, FaultInv, JobInv, RecorderInv,
       ProgressInv, Flags, CaptureKinds, Opening, Preparing, Handover, Casing, Finishing,
       Ending
<1>2. ASSUME NEW w \in Workers, WorkerExits(w) PROVE FaultInv'
  BY <1>2, WorkerPlaces DEF WorkerExits, FaultInv, JobInv, RecorderInv, ProgressInv, Flags,
       CaptureKinds, Opening, Preparing, Handover, Casing, Finishing, Ending, Workers
<1>3. CASE RecorderStarts
  BY <1>3, WorkerPlaces DEF RecorderStarts, RecorderKeeps, FaultInv, JobInv, RecorderInv,
       ProgressInv, Flags, CaptureKinds, Opening, Preparing, Handover, Casing, Finishing,
       Ending
<1>4. CASE RecorderStops
  BY <1>4, WorkerPlaces DEF RecorderStops, RecorderLeaves, RecorderKeeps, Recording, FaultInv,
       JobInv, RecorderInv, ProgressInv, Flags, CaptureKinds, Opening, Preparing, Handover,
       Casing, Finishing, Ending
<1>5. CASE RecorderFails
  BY <1>5, WorkerPlaces DEF RecorderFails, RecorderLeaves, RecorderKeeps, Recording, FaultInv,
       JobInv, RecorderInv, ProgressInv, Flags, CaptureKinds, Opening, Preparing, Handover,
       Casing, Finishing, Ending
<1>6. CASE RecorderCloses
  <2>1. why' = why /\ process' = process /\ step' = step /\ files' = files /\ failure' = failure
    BY <1>6 DEF RecorderCloses, RecorderKeeps
  <2>2. fault => fault'
    BY <1>6 DEF RecorderCloses
  <2>3. failed' => failed \/ fault'
    BY <1>6 DEF RecorderCloses
  <2> QED BY <2>1, <2>2, <2>3, WorkerPlaces DEF FaultInv
<1>7. CASE RecorderDies
  BY <1>7, WorkerPlaces DEF RecorderDies, RecorderAlive, Recording, RecorderKeeps, FaultInv,
       JobInv, RecorderInv, ProgressInv, Flags, CaptureKinds, Opening, Preparing, Handover,
       Casing, Finishing, Ending
<1>8. CASE Create
  BY <1>8, WorkerPlaces DEF Create, DriverKeeps, Goto, Throws, FaultInv, JobInv, RecorderInv,
       ProgressInv, Flags, CaptureKinds, Opening, Preparing, Handover, Casing, Finishing,
       Ending
<1>9. CASE StartBox
  BY <1>9, WorkerPlaces DEF StartBox, DriverKeeps, Goto, Throws, FaultInv, JobInv,
       RecorderInv, ProgressInv, Flags, CaptureKinds, Opening, Preparing, Handover, Casing,
       Finishing, Ending
<1>10. CASE InspectBefore
  BY <1>10, WorkerPlaces DEF InspectBefore, DriverKeeps, Goto, Throws, FaultInv, JobInv,
       RecorderInv, ProgressInv, Flags, CaptureKinds, Opening, Preparing, Handover, Casing,
       Finishing, Ending
<1>11. ASSUME NEW w \in Workers, RunWorker(w) PROVE FaultInv'
  BY <1>11, WorkerPlaces DEF RunWorker, Goto, Recording, FaultInv, JobInv, RecorderInv,
       ProgressInv, Flags, CaptureKinds, Opening, Preparing, Handover, Casing, Finishing,
       Ending, Workers
<1>12. ASSUME NEW w \in Workers, AwaitWorker(w) PROVE FaultInv'
  BY <1>12, WorkerPlaces DEF AwaitWorker, DriverKeeps, Goto, FaultInv, JobInv, RecorderInv,
       ProgressInv, Flags, CaptureKinds, Opening, Preparing, Handover, Casing, Finishing,
       Ending, Workers
<1>13. ASSUME NEW w \in Workers, ProveWorker(w) PROVE FaultInv'
  BY <1>13, WorkerPlaces DEF ProveWorker, DriverKeeps, Goto, Throws, FaultInv, JobInv,
       RecorderInv, ProgressInv, Flags, CaptureKinds, Opening, Preparing, Handover, Casing,
       Finishing, Ending, Workers
<1>14. CASE StartRecorder
  BY <1>14, WorkerPlaces DEF StartRecorder, Goto, FaultInv, JobInv, RecorderInv, ProgressInv,
       Flags, CaptureKinds, Opening, Preparing, Handover, Casing, Finishing, Ending
<1>15. CASE AwaitReady
  BY <1>15, WorkerPlaces DEF AwaitReady, DriverKeeps, Goto, Throws, FaultInv, JobInv,
       RecorderInv, ProgressInv, Flags, CaptureKinds, Opening, Preparing, Handover, Casing,
       Finishing, Ending
<1>16. CASE Recover
  BY <1>16, WorkerPlaces DEF Recover, DriverKeeps, Goto, Notes, FaultInv, JobInv, RecorderInv,
       ProgressInv, Flags, CaptureKinds, Opening, Preparing, Handover, Casing, Finishing,
       Ending
<1>17. CASE CreateStop
  BY <1>17, WorkerPlaces DEF CreateStop, DriverKeeps, Goto, Notes, FaultInv, JobInv,
       RecorderInv, ProgressInv, Flags, CaptureKinds, Opening, Preparing, Handover, Casing,
       Finishing, Ending
<1>18. CASE WriteStop
  BY <1>18, WorkerPlaces DEF WriteStop, DriverKeeps, Goto, FaultInv, JobInv, RecorderInv,
       ProgressInv, Flags, CaptureKinds, Opening, Preparing, Handover, Casing, Finishing,
       Ending
<1>19. CASE AwaitRecorder
  BY <1>19, WorkerPlaces DEF AwaitRecorder, DriverKeeps, Goto, Notes, FaultInv, JobInv,
       RecorderInv, ProgressInv, Flags, CaptureKinds, Opening, Preparing, Handover, Casing,
       Finishing, Ending
<1>20. CASE ProbeRecorder
  BY <1>20, WorkerPlaces DEF ProbeRecorder, DriverKeeps, Goto, Notes, RecorderAlive, FaultInv,
       JobInv, RecorderInv, ProgressInv, Flags, CaptureKinds, Opening, Preparing, Handover,
       Casing, Finishing, Ending
<1>21. CASE StopBox
  BY <1>21, WorkerPlaces DEF StopBox, DriverKeeps, Goto, Notes, Quiescent, FaultInv, JobInv,
       RecorderInv, ProgressInv, Flags, CaptureKinds, Opening, Preparing, Handover, Casing,
       Finishing, Ending
<1>22. CASE RemoveBox
  BY <1>22, WorkerPlaces DEF RemoveBox, DriverKeeps, Goto, Notes, FaultInv, JobInv,
       RecorderInv, ProgressInv, Flags, CaptureKinds, Opening, Preparing, Handover, Casing,
       Finishing, Ending
<1>23. CASE LeaveBox
  BY <1>23, WorkerPlaces DEF LeaveBox, DriverKeeps, Goto, Quiescent, FaultInv, JobInv,
       RecorderInv, ProgressInv, Flags, CaptureKinds, Opening, Preparing, Handover, Casing,
       Finishing, Ending
<1>24. CASE WriteEvents
  BY <1>24, WorkerPlaces DEF WriteEvents, DriverKeeps, Goto, Quiescent, FaultInv, JobInv,
       RecorderInv, ProgressInv, Flags, CaptureKinds, Opening, Preparing, Handover, Casing,
       Finishing, Ending
<1>25. CASE Checkpoint
  BY <1>25, WorkerPlaces DEF Checkpoint, DriverKeeps, Goto, FaultInv, JobInv, RecorderInv,
       ProgressInv, Flags, CaptureKinds, Opening, Preparing, Handover, Casing, Finishing,
       Ending
<1>26. CASE DriverKilled
  BY <1>26, WorkerPlaces DEF DriverKilled, DriverKeeps, Goto, FaultInv, JobInv, RecorderInv,
       ProgressInv, Flags, CaptureKinds, Opening, Preparing, Handover, Casing, Finishing,
       Ending
<1>27. CASE Finalizer
  BY <1>27, FinalizerLeaves DEF FaultInv, JobInv, RecorderInv, ProgressInv, Flags,
       CaptureKinds, Opening, Preparing, Handover, Casing, Finishing, Ending
<1>28. CASE (\E w \in Workers : WorkerWritesFacts(w)) \/ RecorderReady \/ RecorderReports
          \/ RecorderExits \/ Signal
  BY <1>28 DEF WorkerWritesFacts, RecorderReady, RecorderKeeps, RecorderReports,
       RecorderExits, Signal, RecorderAlive, FaultInv, JobInv, RecorderInv, ProgressInv,
       Flags, CaptureKinds, Opening, Preparing, Handover, Casing, Finishing, Ending
<1>29. CASE UNCHANGED captureVars
  BY <1>29 DEF captureVars, FaultInv, JobInv, RecorderInv, ProgressInv, Flags, CaptureKinds,
       Opening, Preparing, Handover, Casing, Finishing, Ending
<1> QED BY <1>1, <1>2, <1>3, <1>4, <1>5, <1>6, <1>7, <1>8, <1>9, <1>10, <1>11, <1>12, <1>13,
           <1>14, <1>15, <1>16, <1>17, <1>18, <1>19, <1>20, <1>21, <1>22, <1>23, <1>24, <1>25,
           <1>26, <1>27, <1>28, <1>29
          DEF CaptureNext, Driver, Recorder, Environment

\* Every end that leaves something behind has written what.
LEMMA LeftNext ==
  ASSUME Flags, CaptureKinds, LeftInv, [CaptureNext]_captureVars
  PROVE  LeftInv'
<1> USE DEF driver, boxVars, procs, recorder, history
<1>1. CASE BoxDies
  BY <1>1, WorkerPlaces DEF BoxDies, RecorderAlive, LeftInv, Quiescent, Flags, CaptureKinds,
       Ending
<1>2. CASE Create
  BY <1>2, WorkerPlaces DEF Create, DriverKeeps, Goto, Throws, LeftInv, Quiescent, Flags,
       CaptureKinds, Ending
<1>3. CASE StartBox
  BY <1>3, WorkerPlaces DEF StartBox, DriverKeeps, Goto, Throws, LeftInv, Quiescent, Flags,
       CaptureKinds, Ending
<1>4. CASE InspectBefore
  BY <1>4, WorkerPlaces DEF InspectBefore, DriverKeeps, Goto, Throws, LeftInv, Quiescent,
       Flags, CaptureKinds, Ending
<1>5. ASSUME NEW w \in Workers, RunWorker(w) PROVE LeftInv'
  BY <1>5, WorkerPlaces DEF RunWorker, Goto, Recording, LeftInv, Quiescent, Flags,
       CaptureKinds, Ending, Workers
<1>6. ASSUME NEW w \in Workers, AwaitWorker(w) PROVE LeftInv'
  BY <1>6, WorkerPlaces DEF AwaitWorker, DriverKeeps, Goto, LeftInv, Quiescent, Flags,
       CaptureKinds, Ending, Workers
<1>7. ASSUME NEW w \in Workers, ProveWorker(w) PROVE LeftInv'
  BY <1>7, WorkerPlaces DEF ProveWorker, DriverKeeps, Goto, Throws, LeftInv, Quiescent, Flags,
       CaptureKinds, Ending, Workers
<1>8. CASE StartRecorder
  BY <1>8, WorkerPlaces DEF StartRecorder, Goto, LeftInv, Quiescent, Flags, CaptureKinds,
       Ending
<1>9. CASE AwaitReady
  BY <1>9, WorkerPlaces DEF AwaitReady, DriverKeeps, Goto, Throws, LeftInv, Quiescent, Flags,
       CaptureKinds, Ending
<1>10. CASE Recover
  BY <1>10, WorkerPlaces DEF Recover, DriverKeeps, Goto, Notes, LeftInv, Quiescent, Flags,
       CaptureKinds, Ending
<1>11. CASE CreateStop
  BY <1>11, WorkerPlaces DEF CreateStop, DriverKeeps, Goto, Notes, LeftInv, Quiescent, Flags,
       CaptureKinds, Ending
<1>12. CASE WriteStop
  BY <1>12, WorkerPlaces DEF WriteStop, DriverKeeps, Goto, LeftInv, Quiescent, Flags,
       CaptureKinds, Ending
<1>13. CASE AwaitRecorder
  BY <1>13, WorkerPlaces DEF AwaitRecorder, DriverKeeps, Goto, Notes, LeftInv, Quiescent,
       Flags, CaptureKinds, Ending
<1>14. CASE ProbeRecorder
  BY <1>14, WorkerPlaces DEF ProbeRecorder, DriverKeeps, Goto, Notes, RecorderAlive, LeftInv,
       Quiescent, Flags, CaptureKinds, Ending
<1>15. CASE StopBox
  BY <1>15, WorkerPlaces DEF StopBox, DriverKeeps, Goto, Notes, Quiescent, LeftInv, Flags,
       CaptureKinds, Ending
<1>16. CASE RemoveBox
  BY <1>16, WorkerPlaces DEF RemoveBox, DriverKeeps, Goto, Notes, LeftInv, Quiescent, Flags,
       CaptureKinds, Ending
<1>17. CASE LeaveBox
  BY <1>17, WorkerPlaces DEF LeaveBox, DriverKeeps, Goto, Quiescent, LeftInv, Flags,
       CaptureKinds, Ending
<1>18. CASE WriteEvents
  BY <1>18, WorkerPlaces DEF WriteEvents, DriverKeeps, Goto, Quiescent, LeftInv, Flags,
       CaptureKinds, Ending
<1>19. CASE Checkpoint
  BY <1>19, WorkerPlaces DEF Checkpoint, DriverKeeps, Goto, LeftInv, Quiescent, Flags,
       CaptureKinds, Ending
<1>20. CASE DriverKilled
  BY <1>20, WorkerPlaces DEF DriverKilled, DriverKeeps, Goto, LeftInv, Quiescent, Flags,
       CaptureKinds, Ending
<1>21. CASE Finalizer
  BY <1>21, FinalizerLeaves DEF LeftInv, Quiescent, Flags, CaptureKinds, Ending
<1>22. CASE (\E w \in Workers : WorkerWritesFacts(w))
          \/ (\E w \in Workers : WorkerExits(w)) \/ RecorderStarts \/ RecorderReady
          \/ RecorderStops \/ RecorderFails \/ RecorderCloses \/ RecorderReports
          \/ RecorderExits \/ RecorderDies \/ Signal
  BY <1>22 DEF WorkerWritesFacts, WorkerExits, RecorderStarts, RecorderKeeps, RecorderReady,
       RecorderStops, RecorderLeaves, Recording, RecorderFails, RecorderCloses,
       RecorderReports, RecorderExits, RecorderDies, RecorderAlive, Signal, LeftInv,
       Quiescent, Flags, CaptureKinds, Ending
<1>23. CASE UNCHANGED captureVars
  BY <1>23 DEF captureVars, LeftInv, Quiescent, Flags, CaptureKinds, Ending
<1> QED BY <1>1, <1>2, <1>3, <1>4, <1>5, <1>6, <1>7, <1>8, <1>9, <1>10, <1>11, <1>12, <1>13,
           <1>14, <1>15, <1>16, <1>17, <1>18, <1>19, <1>20, <1>21, <1>22, <1>23
          DEF CaptureNext, Driver, Recorder, Environment

\* The checkpoint stays for the finalizer that has seen it.
LEMMA FinalizerNext ==
  ASSUME Flags, CaptureKinds, FinalizerInv, [CaptureNext]_captureVars
  PROVE  FinalizerInv'
<1> USE DEF driver, boxVars, procs, recorder, history
<1>1. CASE InspectBefore
  BY <1>1 DEF InspectBefore, DriverKeeps, Goto, Throws, FinalizerInv, CaptureKinds
<1>2. CASE Recover
  BY <1>2 DEF Recover, DriverKeeps, Goto, Notes, FinalizerInv, CaptureKinds
<1>3. CASE CreateStop
  BY <1>3 DEF CreateStop, DriverKeeps, Goto, Notes, FinalizerInv, CaptureKinds
<1>4. CASE AwaitRecorder
  BY <1>4 DEF AwaitRecorder, DriverKeeps, Goto, Notes, FinalizerInv, CaptureKinds
<1>5. CASE ProbeRecorder
  BY <1>5 DEF ProbeRecorder, DriverKeeps, Goto, Notes, RecorderAlive, FinalizerInv,
       CaptureKinds
<1>6. CASE StopBox
  BY <1>6 DEF StopBox, DriverKeeps, Goto, Notes, Quiescent, FinalizerInv, CaptureKinds
<1>7. CASE RemoveBox
  BY <1>7 DEF RemoveBox, DriverKeeps, Goto, Notes, FinalizerInv, CaptureKinds
<1>8. CASE WriteEvents
  BY <1>8 DEF WriteEvents, DriverKeeps, Goto, Quiescent, FinalizerInv, CaptureKinds
<1>9. CASE Checkpoint
  BY <1>9 DEF Checkpoint, DriverKeeps, Goto, FinalizerInv, CaptureKinds
<1>10. CASE Finalizer
  BY <1>10, FinalizerLeaves DEF FinalizerInv, CaptureKinds
<1>11. CASE BoxDies \/ (\E w \in Workers : WorkerWritesFacts(w))
          \/ (\E w \in Workers : WorkerExits(w)) \/ RecorderStarts \/ RecorderReady
          \/ RecorderStops \/ RecorderFails \/ RecorderCloses \/ RecorderReports
          \/ RecorderExits \/ RecorderDies \/ Signal \/ Create \/ StartBox
          \/ (\E w \in Workers : RunWorker(w)) \/ (\E w \in Workers : AwaitWorker(w))
          \/ (\E w \in Workers : ProveWorker(w)) \/ StartRecorder \/ AwaitReady
          \/ WriteStop \/ LeaveBox \/ DriverKilled
  BY <1>11 DEF BoxDies, RecorderAlive, WorkerWritesFacts, WorkerExits, RecorderStarts,
       RecorderKeeps, RecorderReady, RecorderStops, RecorderLeaves, Recording, RecorderFails,
       RecorderCloses, RecorderReports, RecorderExits, RecorderDies, Signal, Create,
       DriverKeeps, Goto, Throws, StartBox, RunWorker, AwaitWorker, ProveWorker,
       StartRecorder, AwaitReady, WriteStop, LeaveBox, Quiescent, DriverKilled, FinalizerInv,
       CaptureKinds
<1>12. CASE UNCHANGED captureVars
  BY <1>12 DEF captureVars, FinalizerInv, CaptureKinds
<1> QED BY <1>1, <1>2, <1>3, <1>4, <1>5, <1>6, <1>7, <1>8, <1>9, <1>10, <1>11, <1>12
          DEF CaptureNext, Driver, Recorder, Environment

\* All of it holds from the creation of the container on.
LEMMA CaptureInvariant == CaptureSpec => []CaptureInv
<1>1. CaptureInit => CaptureInv
  <2> SUFFICES ASSUME CaptureInit PROVE CaptureInv
    OBVIOUS
  <2> USE DEF CaptureInit
  <2>1. Flags
    BY DEF Flags
  <2>2. CaptureKinds
    BY Named DEF CaptureKinds, Workers
  <2>3. SettledInv
    BY DEF SettledInv, Alive, RecorderAlive, Preparing, Handover, Casing
  <2>4. JobInv /\ RecorderInv
    BY WorkerPlaces DEF JobInv, RecorderInv, Recording, Handover, Casing
  <2>5. ProgressInv
    BY DEF ProgressInv, Preparing, Handover, Casing, Finishing, Ending
  <2>6. FaultInv
    BY WorkerPlaces DEF FaultInv
  <2>7. LeftInv /\ FinalizerInv
    BY DEF LeftInv, FinalizerInv, Ending
  <2> QED BY <2>1, <2>2, <2>3, <2>4, <2>5, <2>6, <2>7 DEF CaptureInv
<1>2. CaptureInv /\ [CaptureNext]_captureVars => CaptureInv'
  BY FlagsNext, KindsNext, SettledNext, JobNext, RecorderNext, ProgressNext, FaultNext, LeftNext,
     FinalizerNext DEF CaptureInv
<1> QED BY <1>1, <1>2, PTL DEF CaptureSpec

\* Every variable of the capture stays in its range.
THEOREM CaptureTypeCorrect == CaptureSpec => []CaptureTypeOK
<1>1. CaptureInv => CaptureTypeOK
  BY KindsAre DEF CaptureInv
<1> QED BY <1>1, CaptureInvariant, PTL

\* What a checkpoint promises: the driver is at its end, has thrown nothing,
\* and everything has ended well.
LEMMA CheckpointWhole ==
  ASSUME CaptureInv, "checkpoint" \in files
  PROVE  /\ step = "end" /\ ~failure /\ box = "removed"
         /\ \A w \in Workers : process[w] = "ok"
         /\ rec = "exited" /\ bag = "closed" /\ ~failed
         /\ why = "stop" => spans
<1>1. step = "end" /\ ~failure
  BY DEF CaptureInv, LeftInv
<1> QED BY <1>1 DEF CaptureInv, ProgressInv, Ending

\* What is evaluated, whenever the finalizer is started, comes from a capture
\* that ended well.
THEOREM EvaluatedAlwaysWhole == CaptureSpec => []EvaluatedWhole
<1>1. CaptureInv => EvaluatedWhole
  <2> SUFFICES ASSUME CaptureInv, fin = "evaluated" PROVE EvaluatedWhole
    BY DEF EvaluatedWhole
  <2>1. "checkpoint" \in files
    BY DEF CaptureInv, FinalizerInv
  <2> QED BY <2>1, CheckpointWhole DEF EvaluatedWhole
<1> QED BY <1>1, CaptureInvariant, PTL

\* The files the driver leaves at its end say how the capture ended and what
\* was left behind.
THEOREM CheckpointAlwaysTrue == CaptureSpec => []CheckpointTrue
<1>1. CaptureInv => CheckpointTrue
  <2> SUFFICES ASSUME CaptureInv PROVE CheckpointTrue
    OBVIOUS
  <2>1. CaptureTypeOK
    BY KindsAre DEF CaptureInv
  <2>2. CleanCheckpointed
    BY DEF CaptureInv, FaultInv, CleanCheckpointed
  <2>3. LeftoverTold
    <3> SUFFICES ASSUME step = "end",
                        box \notin {"none", "removed"} \/ Alive # {} \/ RecorderAlive
                 PROVE  /\ \/ "quarantine" \in files \/ "acquisition-quarantine" \in files
                           \/ "cleanup-failure" \in files
                        /\ "checkpoint" \notin files
      BY Zenon DEF LeftoverTold
    <3>1. "checkpoint" \notin files
      BY CheckpointWhole DEF Alive, RecorderAlive
    <3>2. CASE ~Quiescent
      BY <3>1, <3>2 DEF CaptureInv, LeftInv
    <3>3. CASE Quiescent
      <4>1. Alive = {} /\ ~RecorderAlive
        BY <3>3 DEF CaptureInv, SettledInv, Quiescent, RecorderAlive
      <4> QED BY <3>1, <3>3, <4>1 DEF CaptureInv, LeftInv, Ending
    <3> QED BY <3>2, <3>3
  <2> QED BY <2>1, <2>2, <2>3 DEF CheckpointTrue
<1> QED BY <1>1, CaptureInvariant, PTL

\* The driver takes a running container away only when no worker and no
\* recorder is left in it, however their jobs ended.
THEOREM StoppedAlwaysQuiet == CaptureSpec => StoppedQuiet
<1>1. ASSUME CaptureInv, CaptureNext, box = "running", box' = "exited", step' # step
      PROVE  Alive = {} /\ ~RecorderAlive
  <2>1. StopBox
    <3>1. ~(BoxDies \/ Signal \/ \E w \in Workers : WorkerWritesFacts(w) \/ WorkerExits(w))
      BY <1>1 DEF BoxDies, Signal, WorkerWritesFacts, WorkerExits, driver
    <3>2. ~(RecorderDies \/ Recorder)
      BY <1>1 DEF RecorderDies, Recorder, RecorderStarts, RecorderReady, RecorderStops,
         RecorderFails, RecorderCloses, RecorderReports, RecorderExits, RecorderLeaves,
         RecorderKeeps, driver
    <3>3. ~Finalizer
      BY <1>1, FinalizerLeaves DEF CaptureInv, driver
    <3>4. ~\E w \in Workers : RunWorker(w) \/ AwaitWorker(w) \/ ProveWorker(w)
      BY <1>1 DEF RunWorker, AwaitWorker, ProveWorker, boxVars
    <3>5. ~(Create \/ StartBox \/ RemoveBox)
      BY <1>1 DEF Create, StartBox, RemoveBox, CaptureKinds
    <3>6. ~(InspectBefore \/ StartRecorder \/ AwaitReady \/ Recover \/ CreateStop \/ WriteStop)
      BY <1>1 DEF InspectBefore, StartRecorder, AwaitReady, Recover, CreateStop, WriteStop, boxVars
    <3>7. ~(AwaitRecorder \/ ProbeRecorder \/ LeaveBox \/ WriteEvents \/ Checkpoint \/ DriverKilled)
      BY <1>1 DEF AwaitRecorder, ProbeRecorder, LeaveBox, WriteEvents, Checkpoint, DriverKilled,
         boxVars
    <3> QED BY <1>1, <3>1, <3>2, <3>3, <3>4, <3>5, <3>6, <3>7
            DEF CaptureNext, Driver, Environment
  <2>2. Quiescent
    BY <2>1 DEF StopBox
  <2> QED BY <1>1, <2>2 DEF CaptureInv, SettledInv, Quiescent, RecorderAlive
<1>2. CaptureInv /\ [CaptureNext]_captureVars
        => [box = "running" /\ box' = "exited" /\ step' # step =>
              Alive = {} /\ ~RecorderAlive]_captureVars
  BY <1>1
<1> QED BY <1>2, CaptureInvariant, PTL DEF CaptureSpec, StoppedQuiet
==============================================================================
