---------------------------- MODULE NavWorkload ----------------------------
(***************************************************************************)
(* One worker of the Nav2 TurtleBot3 example (workload.py), the action     *)
(* server and topics it talks to, and the consumer evaluator that judges   *)
(* what the worker reported.                                               *)
(*                                                                         *)
(* The worker is single threaded: a callback runs only while the worker    *)
(* spins, so a message or a reply may have waited arbitrarily long before  *)
(* it is "observed".  Times are ticks of the monotonic clock, 0 stands for *)
(* an absent time.  A message is known by its stamp, which also says where *)
(* the robot was when it was published.                                    *)
(***************************************************************************)
EXTENDS Integers, FiniteSetsExt

CONSTANTS Cases,          \* the modes a worker may be started in
          Streams,        \* odom, clock and each moving TF edge
          MinSeen,        \* messages of each stream that readiness asks for
          ReadyBudget, ObserveBudget, ActionBudget, CallBudget,
          TriggerBudget, ServiceBudget, MaxAge,   \* the worker's time limits
          Horizon         \* bound: the last tick of the clock

Kinds == Streams \union {"amcl_pose"}
Replies == {"goal", "cancel", "result", "service"}
Terminal == {"succeeded", "canceled", "aborted"}

\* what the command line must satisfy before anything is started
ASSUME ParametersAdmitted ==
  /\ Cases \subseteq {"prepare", "success", "cancel", "timeout", "server-failure"}
  /\ "odom" \in Streams /\ "amcl_pose" \notin Streams
  /\ {MinSeen, ReadyBudget, ObserveBudget, ActionBudget, CallBudget, TriggerBudget,
      ServiceBudget, MaxAge, Horizon} \subseteq Nat \ {0}
  /\ TriggerBudget < ActionBudget

VARIABLES
  \* the worker
  mode, pc, spinning, now, deadline, until, seen, futures, report,
  \* the Nav2 side
  server, goal, robot, ack, asked, replies,
  \* the evaluator
  verdict

worker == <<mode, pc, spinning, deadline, until, seen, futures, report>>
nav2 == <<server, goal, robot, ack, asked, replies>>
vars == <<worker, nav2, now, verdict>>

Later(d) == Min({now + d, Horizon})
Earlier(a, b) == Min({a, b})

Unseen == [n |-> 0, at |-> 0, stamp |-> 0]
EmptyReport ==
  [status |-> "error", expected |-> FALSE, started |-> 0, accepted |-> 0,
   trigger |-> 0, ack |-> FALSE, present |-> TRUE, result |-> 0,
   initial |-> [k \in Kinds |-> Unseen], prior |-> 0, requested |-> 0,
   responded |-> 0, finished |-> 0]

Init ==
  /\ mode \in Cases
  /\ pc = "start" /\ spinning = FALSE /\ now = 1
  /\ deadline = 0 /\ until = 0
  /\ seen = [k \in Kinds |-> Unseen]
  /\ futures = {} /\ report = EmptyReport
  /\ server = "down" /\ goal = "none" /\ robot = 0 /\ ack = FALSE
  /\ asked = {} /\ replies = {}
  /\ verdict = "none"

Ended == pc \in {"done", "refused"}

(***************************************************************************)
(* Time, the topics, the robot and the NavigateToPose action server.       *)
(***************************************************************************)
Tick == /\ pc \notin {"start", "start-up"} /\ ~Ended /\ now < Horizon
        /\ now' = now + 1
        /\ UNCHANGED <<worker, nav2, verdict>>

\* the robot stood at the goal when the message of this stamp was published
AtGoal(stamp) == robot # 0 /\ stamp >= robot

ServerStarts ==
  /\ server = "down" /\ goal = "none" /\ server' = "up"
  /\ UNCHANGED <<worker, now, verdict, goal, robot, ack, asked, replies>>

\* the robot stands at the goal from the next tick on
RobotArrives ==
  /\ goal \in {"executing", "canceling"} /\ robot = 0 /\ robot' = now + 1
  /\ UNCHANGED <<worker, now, verdict, server, goal, ack, asked, replies>>

AnswerGoal ==
  /\ server = "up" /\ goal = "sent"
  /\ goal' \in {"executing", "rejected"}
  /\ replies' = replies \union {"goal"}
  /\ UNCHANGED <<worker, now, verdict, server, robot, ack, asked>>

\* a goal being canceled may still succeed or be aborted
FinishGoal ==
  /\ server = "up" /\ goal \in {"executing", "canceling"}
  /\ goal' \in Terminal \ (IF goal = "executing" THEN {"canceled"} ELSE {})
  /\ replies' = replies \union {"result"}
  /\ UNCHANGED <<worker, now, verdict, server, robot, ack, asked>>

\* the server takes the cancel, or names no goal because this one has ended
AnswerCancel ==
  /\ server = "up" /\ "cancel" \in asked
  /\ asked' = asked \ {"cancel"}
  /\ replies' = replies \union {"cancel"}
  /\ \/ goal = "executing" /\ goal' = "canceling" /\ ack' = TRUE
     \/ goal' = goal /\ ack' = FALSE
  /\ UNCHANGED <<worker, now, verdict, server, robot>>

AnswerService ==
  /\ "service" \in asked
  /\ asked' = asked \ {"service"}
  /\ replies' = replies \union {"service"}
  /\ UNCHANGED <<worker, now, verdict, server, goal, robot, ack>>

\* lifecycleShutdown takes the server away; the abort of a running goal may
\* or may not have been sent before
ServerStops ==
  /\ pc = "shutdown" /\ server = "up" /\ server' = "down"
  /\ \/ goal \in {"executing", "canceling"} /\ goal' = "aborted"
        /\ replies' = replies \union {"result"}
     \/ UNCHANGED <<goal, replies>>
  /\ UNCHANGED <<worker, now, verdict, robot, ack, asked>>

(***************************************************************************)
(* spin_once: one ready callback, or none within its tenth of a second.    *)
(* The loop around the action result looks at its trigger after each spin. *)
(***************************************************************************)
Returns == /\ spinning /\ spinning' = FALSE
           /\ pc' = IF pc = "act" THEN "acted" ELSE pc
           /\ UNCHANGED <<mode, now, deadline, until, report, verdict>>

\* the history of a topic keeps its order, and any of its samples may have
\* been dropped: what comes next was published at any time since the last
ReceiveMessage(k) ==
  /\ Returns /\ (pc = "observe" \/ mode = "success")
  /\ \E stamp \in Max({1, seen[k].stamp}) .. now :
       seen' = [seen EXCEPT ![k] = [n |-> Earlier(@.n + 1, MinSeen), at |-> now,
                                    stamp |-> stamp]]
  /\ UNCHANGED <<futures, nav2>>

ReceiveReply(r) ==
  /\ Returns /\ r \in replies
  /\ r = "result" => report.accepted # 0      \* asked for once accepted
  /\ futures' = futures \union {r} /\ replies' = replies \ {r}
  /\ UNCHANGED <<seen, server, goal, robot, ack, asked>>

\* nothing, or feedback or a message that nobody looks at in this case
SpinIdle == Returns /\ UNCHANGED <<seen, futures, nav2>>

(***************************************************************************)
(* The worker's loops.  A loop that has a limit of its own raises when it  *)
(* goes around after the limit; the loop on the result and the loop on the *)
(* arrival end instead.                                                    *)
(***************************************************************************)
Arrived ==
  /\ \A k \in Kinds : seen[k].at >= report.result
  /\ seen["amcl_pose"].stamp > report.prior
  /\ seen["amcl_pose"].at >= report.requested

Awaits ==
  CASE pc = "observe" -> \E k \in Kinds : seen[k].n <
                            (IF k = "amcl_pose" THEN 1 ELSE MinSeen)
    [] pc = "send" -> "goal" \notin futures
    [] pc = "act" -> "result" \notin futures /\ now < deadline
    [] pc = "cancel" -> "cancel" \notin futures
    [] pc = "call" -> "service" \notin futures
    [] pc = "arrive" -> ~Arrived /\ now < until
    [] OTHER -> FALSE

Looping == {"observe", "send", "act", "cancel", "call", "arrive"}
Limited == {"observe", "send", "cancel", "call"}

\* mutant: finite_future never looks at its deadline
LoopGoesOnForEver ==
  /\ pc \in Looping /\ ~spinning /\ Awaits
  /\ spinning' = TRUE
  /\ UNCHANGED <<mode, pc, deadline, until, seen, futures, report, nav2, now, verdict>>

LoopGoesOn ==
  /\ pc \in Looping /\ ~spinning /\ Awaits
  /\ pc \in Limited => now < until
  /\ spinning' = TRUE
  /\ UNCHANGED <<mode, pc, deadline, until, seen, futures, report, nav2, now, verdict>>

\* the step after the loop at p
Leaves(p) == pc = p /\ ~spinning /\ ~Awaits
\* finite_future also refuses an answer that came after its deadline
Settles(p) == Leaves(p) /\ now < until

Quiet == UNCHANGED <<mode, spinning, seen, futures, nav2, now, verdict>>
Goes(p) == pc' = p /\ Quiet

\* the handler and the finally clause: the report keeps its status "error"
Raise == /\ pc' = "done" /\ spinning' = FALSE
         /\ UNCHANGED <<mode, deadline, until, seen, futures, report, nav2, now, verdict>>

\* an exception of a call, a refused publisher offer or the byte limit of the
\* journal can meet every step of the try block
Fails == pc \notin {"start", "decided", "done", "refused"} /\ Raise

\* a readiness deadline, a finite_future that is not settled in time, or only
\* after it, and a rejected goal
TimesOut ==
  /\ ~spinning
  /\ \/ pc \in Limited /\ Awaits /\ now >= until
     \/ pc \in Limited \ {"observe"} /\ ~Awaits /\ now >= until
     \/ pc = "observe" /\ ~Awaits /\ now >= deadline
     \/ pc = "graph" /\ now >= deadline
     \/ pc = "server" /\ server # "up" /\ now >= deadline
     \/ pc = "send" /\ ~Awaits /\ goal = "rejected"
  /\ Raise

\* a consumer whose parameters differ from the declared scenario, or that
\* cannot read the facts of its process, ends before ROS is started
Admit ==
  /\ pc = "start" /\ (Goes("refused") \/ Goes("start-up"))
  /\ UNCHANGED <<deadline, until, report>>

\* the upstream start-up method has no deadline of its own
NavigatorActive ==
  /\ pc = "start-up" /\ Goes("graph")
  /\ deadline' = Later(ReadyBudget) /\ UNCHANGED <<until, report>>

GraphReady ==
  /\ pc = "graph" /\ now < deadline /\ Goes("server")
  /\ UNCHANGED <<deadline, until, report>>

ServerFound ==
  /\ pc = "server" /\ server = "up" /\ Goes("observe")
  /\ until' = Later(ObserveBudget) /\ UNCHANGED <<deadline, report>>

\* the worker that only prepares ends with a readiness report
Ready ==
  /\ Leaves("observe") /\ now < deadline
  /\ \/ /\ mode = "prepare" /\ Goes("done")
        /\ report' = [report EXCEPT !.status = "ready"]
     \/ /\ mode # "prepare" /\ Goes("goal")
        /\ report' = [report EXCEPT !.initial = seen, !.started = now]
  /\ UNCHANGED <<deadline, until>>

SendGoal ==
  /\ pc = "goal" /\ pc' = "send" /\ goal' = "sent"
  /\ deadline' = Later(ActionBudget)
  /\ until' = Earlier(Later(ActionBudget), Later(CallBudget))
  /\ UNCHANGED <<mode, spinning, seen, futures, report, now, verdict,
                 server, robot, ack, asked, replies>>

GoalAnswered ==
  /\ Settles("send") /\ goal # "rejected" /\ Goes("act")
  /\ report' = [report EXCEPT !.accepted = now]
  /\ UNCHANGED <<deadline, until>>

Asks(r) ==
  /\ asked' = asked \union {r}
  /\ UNCHANGED <<mode, spinning, seen, futures, now, verdict,
                 server, goal, robot, ack, replies>>

Due == /\ mode \in {"cancel", "timeout", "server-failure"} /\ report.trigger = 0
       /\ now >= report.accepted + TriggerBudget

NotDue == /\ pc = "acted" /\ ~Due /\ Goes("act")
          /\ UNCHANGED <<deadline, until, report>>

Trigger ==
  /\ pc = "acted" /\ Due
  /\ report' = [report EXCEPT !.trigger = now]
  /\ \/ /\ mode \in {"cancel", "timeout"}
        /\ pc' = "cancel" /\ Asks("cancel")
        /\ until' = Earlier(deadline, Later(CallBudget))
     \/ /\ mode = "server-failure" /\ Goes("shutdown") /\ UNCHANGED until
  /\ UNCHANGED deadline

CancelAnswered ==
  /\ Settles("cancel") /\ Goes("act")
  /\ report' = [report EXCEPT !.ack = ack]
  /\ UNCHANGED <<deadline, until>>

\* lifecycleShutdown spins on its own
ShutdownSpins ==
  /\ pc = "shutdown" /\ ~spinning /\ spinning' = TRUE
  /\ UNCHANGED <<mode, pc, deadline, until, seen, futures, report, nav2, now, verdict>>

\* a server that is gone ends the loop at once
ShutdownReturns ==
  /\ pc = "shutdown" /\ ~spinning
  /\ Goes(IF server = "up" THEN "act" ELSE "over")
  /\ report' = [report EXCEPT !.present = (server = "up")]
  /\ UNCHANGED <<deadline, until>>

LoopOver == (Leaves("act") \/ pc = "over")

\* the result is stored as it was received, then judged
TakeResult ==
  /\ LoopOver /\ "result" \in futures
  /\ Goes(IF mode = "success" THEN "service" ELSE "decide")
  /\ report' = [report EXCEPT !.result = now]
  /\ until' = Earlier(deadline, Later(ServiceBudget))
  /\ UNCHANGED deadline

\* AMCL's service is there; the pose known now is not yet the arrival
AskNomotion ==
  /\ pc = "service" /\ pc' = "call"
  /\ report' = [report EXCEPT !.prior = seen["amcl_pose"].stamp, !.requested = now]
  /\ Asks("service") /\ UNCHANGED <<deadline, until>>

NomotionAnswered ==
  /\ Settles("call") /\ Goes("arrive")
  /\ report' = [report EXCEPT !.responded = now]
  /\ until' = Earlier(deadline, Later(MaxAge)) /\ UNCHANGED deadline

ArrivalSeen ==
  /\ Leaves("arrive") /\ Goes("decide") /\ UNCHANGED <<deadline, until, report>>

FreshAt(t) == \A k \in Kinds : /\ seen[k].at >= report.result
                               /\ t - seen[k].at \in 0 .. MaxAge
Moved(k) == /\ seen[k].stamp > report.initial[k].stamp
            /\ AtGoal(seen[k].stamp) /\ ~AtGoal(report.initial[k].stamp)

Matched ==
  CASE mode = "success" ->
         /\ goal = "succeeded" /\ FreshAt(now) /\ Arrived
         /\ Moved("amcl_pose") /\ Moved("odom")
    [] mode \in {"cancel", "timeout"} ->
         report.trigger # 0 /\ goal = "canceled" /\ report.ack
    [] OTHER -> report.trigger # 0 /\ ~report.present

\* late arrival observations and a late result leave the report incomplete
Decide ==
  /\ pc = "decide" /\ Goes("decided")
  /\ LET late == (mode = "success" /\ now >= until) \/ report.result >= deadline
     IN report' = [report EXCEPT !.status = IF late THEN "incomplete" ELSE "complete",
                                 !.expected = ~late /\ Matched]
  /\ UNCHANGED <<deadline, until>>

NoResult ==
  /\ LoopOver /\ "result" \notin futures /\ Goes("decided")
  /\ LET gone == mode = "server-failure" /\ ~report.present /\ now < deadline
     IN report' = [report EXCEPT
                     !.status = IF gone THEN "server-unavailable" ELSE "incomplete",
                     !.expected = gone]
  /\ UNCHANGED <<deadline, until>>

WriteReport ==
  /\ pc = "decided" /\ Goes("done")
  /\ report' = [report EXCEPT !.finished = now]
  /\ UNCHANGED <<deadline, until>>

(***************************************************************************)
(* The evaluator, offline, from the report and the stored result.          *)
(***************************************************************************)
\* mutant: SUCCEEDED is believed without the displacement
EvaluatorMatchedUnmoved ==
  /\ CASE mode = "success" ->
            /\ report.responded # 0 /\ report.result <= report.requested
            /\ report.requested <= report.responded /\ report.responded <= report.finished
            /\ seen["amcl_pose"].at >= report.requested
            /\ seen["amcl_pose"].stamp > report.prior
            /\ report.finished - report.started < ActionBudget
            /\ FreshAt(report.finished) /\ goal = "succeeded"
       [] mode \in {"cancel", "timeout"} -> goal = "canceled" /\ report.ack
       [] OTHER -> ~report.present
  /\ report.result <= report.finished
  /\ report.result - report.started < ActionBudget

EvaluatorMatched ==
  /\ CASE mode = "success" ->
            /\ report.responded # 0 /\ report.result <= report.requested
            /\ report.requested <= report.responded /\ report.responded <= report.finished
            /\ seen["amcl_pose"].at >= report.requested
            /\ seen["amcl_pose"].stamp > report.prior
            /\ report.finished - report.started < ActionBudget
            /\ report.finished - report.responded < MaxAge
            /\ FreshAt(report.finished)
            /\ Moved("odom") /\ Moved("amcl_pose") /\ goal = "succeeded"
       [] mode \in {"cancel", "timeout"} ->
            /\ goal = "canceled" /\ report.trigger # 0 /\ report.ack
            /\ mode = "timeout" =>
                 report.trigger - report.accepted >= TriggerBudget
       [] OTHER -> ~report.present
  /\ report.result <= report.finished
  /\ report.result - report.started < ActionBudget

Evaluate ==
  /\ pc = "done" /\ verdict = "none" /\ mode # "prepare"
  /\ verdict' =
       IF report.result = 0 THEN "raised"
       ELSE IF \E k \in Streams : seen[k].n < MinSeen THEN "error"
       ELSE IF report.status \notin {"complete", "server-unavailable"} THEN "error"
       ELSE IF EvaluatorMatched THEN "passed" ELSE "failed"
  /\ UNCHANGED <<worker, nav2, now>>

Loops == LoopGoesOn \/ SpinIdle \/ \E k \in Kinds : ReceiveMessage(k)
Worker ==
  \/ Loops \/ \E r \in Replies : ReceiveReply(r)
  \/ Admit \/ NavigatorActive \/ GraphReady \/ ServerFound \/ Ready \/ SendGoal \/ GoalAnswered
  \/ NotDue \/ Trigger \/ CancelAnswered \/ ShutdownSpins \/ ShutdownReturns
  \/ TakeResult \/ AskNomotion \/ NomotionAnswered \/ ArrivalSeen \/ Decide
  \/ NoResult \/ WriteReport \/ TimesOut
Nav2 ==
  \/ ServerStarts \/ RobotArrives \/ AnswerGoal
  \/ FinishGoal \/ AnswerCancel \/ AnswerService \/ ServerStops

\* what Nav2 does after the worker has ended is nobody's business here
Next == Worker \/ Fails \/ (Nav2 /\ ~Ended) \/ Tick \/ Evaluate

\* the process is scheduled and time goes on; nothing is asked of Nav2
Spec == Init /\ [][Next]_vars /\ WF_vars(Worker) /\ WF_vars(Tick)

(***************************************************************************)
(* Properties.                                                             *)
(***************************************************************************)
Time == 0 .. Horizon
Seen == [n : 0 .. MinSeen, at : Time, stamp : Time]
Report == [status : {"error", "ready", "complete", "incomplete", "server-unavailable"},
           expected : BOOLEAN, started : Time, accepted : Time, trigger : Time,
           ack : BOOLEAN, present : BOOLEAN, result : Time,
           initial : [Kinds -> Seen], prior : Time, requested : Time,
           responded : Time, finished : Time]

\* Every variable stays in its range.
TypeOK ==
  /\ mode \in Cases /\ spinning \in BOOLEAN /\ now \in Time
  /\ pc \in Looping \union {"start", "refused", "start-up", "graph", "server", "goal", "acted",
       "shutdown", "over", "service", "decide", "decided", "done"}
  /\ deadline \in Time /\ until \in Time
  /\ seen \in [Kinds -> Seen]
  /\ futures \subseteq Replies /\ replies \subseteq Replies
  /\ asked \subseteq {"cancel", "service"}
  /\ report \in Report
  /\ server \in {"up", "down"} /\ robot \in 0 .. Horizon + 1 /\ ack \in BOOLEAN
  /\ goal \in Terminal \union {"none", "sent", "executing", "canceling", "rejected"}
  /\ verdict \in {"none", "raised", "error", "failed", "passed"}

\* What must have happened: the robot is at the goal and the pose and odometry
\* that say so are younger than the goal; or the goal was canceled at the
\* worker's request, for the timeout not before its time; or the server is
\* gone.
Happened ==
  CASE mode = "success" ->
         /\ AtGoal(now) /\ goal = "succeeded"
         /\ \A k \in {"odom", "amcl_pose"} : seen[k].stamp >= report.started
    [] mode \in {"cancel", "timeout"} ->
         /\ goal = "canceled" /\ ack
         /\ report.trigger >= report.accepted + TriggerBudget
    [] OTHER -> server = "down" /\ goal \in Terminal

\* What the evaluator passes is what happened, however long messages and
\* replies were queued.
PassedTrue == verdict = "passed" => Happened

\* The budget or the freshness ran out between two readings of the clock.
Late ==
  \/ report.result - report.started >= ActionBudget
  \/ mode = "success" /\ \/ report.finished - report.started >= ActionBudget
                         \/ report.finished - report.responded >= MaxAge
                         \/ ~FreshAt(report.finished)

\* The evaluator never passes what the worker did not claim.  What the worker
\* claims (its exit status) the evaluator refuses in two cases only: the
\* server vanished without a result, whose stored bytes the evaluator needs;
\* or the worker was late by the evaluator's reckoning.
VerdictsAgree ==
  /\ verdict = "passed" => report.expected
  /\ report.expected /\ verdict \in {"raised", "error", "failed"} =>
       \/ report.status = "server-unavailable" /\ verdict = "raised"
       \/ report.status = "complete" /\ verdict = "failed" /\ Late

\* The evaluator's verdict agrees with what happened and with what the worker
\* claims; nothing leaves its kind.
VerdictTrue ==
  /\ TypeOK
  /\ PassedTrue
  /\ VerdictsAgree

\* Whatever Nav2 does not answer, a worker that got past the upstream start-up
\* writes its report; only the upstream shutdown call may keep it.
WorkerEnds == pc = "graph" ~> (pc \in {"done", "shutdown"})
=============================================================================
