------------------------------ MODULE TaskGoal ------------------------------
(***************************************************************************)
(* The goal of the open task (ui/mod.rs, model.rs): the app-server         *)
(* (external) keeps it, the window keeps a copy and, on disk, the reason   *)
(* it last stopped.  The copy is fed by answers and notifications in one   *)
(* order, changed by the window itself when a turn fails, and read again   *)
(* after an outage.  A GoalRead is taken to be answered.                   *)
(***************************************************************************)
EXTENDS Integers, Sequences

CONSTANTS
    Stops,      \* the statuses of a stopped goal to try, of Stopped
    MaxAsks,    \* bound on what the user and other clients change
    MaxTurns,
    MaxOutages  \* bound on lost connections and restarts

VARIABLES
    serverGoal, \* external: the status of the goal, None when there is none
    turn,       \* external: whether the task has a turn under way
    stream,     \* external: answers and notifications on their way
    asked,      \* the request in flight: [kind, status], <<>> for none
    connected,
    goal,       \* thread_goals
    reason,     \* goal_stop_reasons: why it stopped
    busy,       \* thread_is_running
    asks, turns, outages

server == <<serverGoal, turn>>
window == <<goal, reason, busy>>
bounds == <<asks, turns, outages>>
vars == <<server, stream, asked, connected, window, bounds>>

None == "none"
Stopped == {"paused", "blocked", "usageLimited", "budgetLimited"}
Statuses == {"active", "complete"} \union Stops

Init ==
    /\ serverGoal \in {None, "active"} /\ turn = FALSE /\ stream = <<>>
    /\ asked = [kind |-> "open", status |-> None] /\ connected = TRUE
    /\ goal = None /\ reason = None /\ busy = FALSE
    /\ asks = 0 /\ turns = 0 /\ outages = 0

---------------------------------------------------------------------------
(* The user: the dialog, the buttons, each hidden when it does not apply.  *)

\* What the selector says; its buttons go with it.
render_goal_selector ==
    IF goal = "active" /\ reason # None THEN "interrupted" ELSE goal

Ask(kind, status) ==
    /\ connected /\ asked = <<>> /\ asks < MaxAsks
    /\ asked' = [kind |-> kind, status |-> status]
    /\ asks' = asks + 1
    /\ UNCHANGED <<server, stream, connected, window, turns, outages>>

goal_dialog == \E s \in Statuses \union {None} : Ask("goal", s)
confirm_clear_goal == render_goal_selector # None /\ Ask("goal", None)
set_goal_status ==
    \/ render_goal_selector = "active" /\ Ask("status", "paused")
    \/ render_goal_selector \in Stopped \union {"interrupted"} /\ Ask("status", "active")
    \/ render_goal_selector \notin {None, "complete"} /\ Ask("status", "complete")

---------------------------------------------------------------------------
(* The server (external).                                                  *)

Changed(s) == IF s = None THEN [kind |-> "cleared"] ELSE [kind |-> "updated", status |-> s]
Answer(s) == [kind |-> "answer", status |-> s]

\* The change is told to every client, before or after the answer.
TakeGoal ==
    \E s \in {asked.status} \union (IF asked.status = "active" THEN Stops ELSE {}) :
      /\ serverGoal' = s
      /\ \/ stream' = stream \o <<Answer(s), Changed(s)>>
         \/ stream' = stream \o <<Changed(s), Answer(s)>>

Take ==
    /\ asked # <<>> /\ ~\E i \in 1..Len(stream) : stream[i].kind \in {"answer", "error"}
    /\ \/ asked.kind \in {"open", "read"} /\ stream' = Append(stream, Answer(IF asked.kind = "open" THEN turn ELSE serverGoal)) /\ UNCHANGED serverGoal
       \/ asked.kind = "status" /\ serverGoal = None /\ stream' = Append(stream, [kind |-> "error"]) /\ UNCHANGED serverGoal
       \/ asked.kind = "goal" /\ TakeGoal
       \/ asked.kind = "status" /\ serverGoal # None /\ TakeGoal
    /\ UNCHANGED <<turn, asked, connected, window, bounds>>

Tell(events) == stream' = IF connected THEN stream \o events ELSE stream

\* Another client sets, stops or clears the goal, or the server limits it.
ChangeElsewhere ==
    \E s \in (Statuses \union {None}) \ {serverGoal} :
      /\ asks < MaxAsks /\ asks' = asks + 1
      /\ serverGoal' = s /\ Tell(<<Changed(s)>>)
      /\ UNCHANGED <<turn, asked, connected, window, turns, outages>>

StartTurn ==
    /\ ~turn /\ turns < MaxTurns /\ turns' = turns + 1
    /\ turn' = TRUE /\ Tell(<<[kind |-> "started"]>>)
    /\ UNCHANGED <<serverGoal, asked, connected, window, asks, outages>>

\* A turn that fails may stop the goal at the server too.
EndTurn ==
    \E failed \in BOOLEAN, s \in {serverGoal} \union Stops :
      /\ turn /\ turn' = FALSE
      /\ s = serverGoal \/ (failed /\ serverGoal = "active")
      /\ serverGoal' = s
      /\ Tell(<<[kind |-> "completed", failed |-> failed]>> \o (IF s = serverGoal THEN <<>> ELSE <<Changed(s)>>))
      /\ UNCHANGED <<asked, connected, window, bounds>>

---------------------------------------------------------------------------
(* The window.                                                             *)

goal_status_reason(s) == IF s = "paused" THEN "manual" ELSE "limit"

\* thread/goal/updated
OnUpdated(s) ==
    /\ goal' = s
    /\ reason' = IF s \notin Stopped THEN None ELSE IF reason = None THEN goal_status_reason(s) ELSE reason
    /\ UNCHANGED <<busy, asked>>

OnCleared == goal' = None /\ reason' = None /\ UNCHANGED <<busy, asked>>

OnStarted ==
    /\ busy' = TRUE
    /\ reason' = IF goal = "active" THEN None ELSE reason
    /\ UNCHANGED <<goal, asked>>

turn_goal_stop_reason == [statuses |-> Stops \ {"paused"}, reason |-> "failed"]

\* A failed turn stops the window's copy.
OnCompleted(failed) ==
    /\ busy' = FALSE
    /\ IF failed /\ goal = "active"
       THEN goal' \in turn_goal_stop_reason.statuses /\ reason' = turn_goal_stop_reason.reason
       ELSE UNCHANGED <<goal, reason>>
    /\ UNCHANGED asked

\* A plausible mistake: the outage is over, the copy is good.
OnOpenedOnly(isBusy) == busy' = isBusy /\ asked' = <<>> /\ UNCHANGED <<goal, reason>>

\* OpenThread: the task is resumed, then its goal is read.
OnOpened(isBusy) ==
    /\ busy' = isBusy
    /\ asked' = [kind |-> "read", status |-> None]
    /\ UNCHANGED <<goal, reason>>

OnAnswer(s) ==
    \/ asked.kind = "open" /\ OnOpened(s)
    \/ /\ asked.kind = "read"
       /\ goal' = s /\ asked' = <<>> /\ UNCHANGED <<reason, busy>>
    \/ /\ asked.kind = "goal"
       /\ goal' = s /\ reason' = IF s = None THEN None ELSE reason
       /\ asked' = <<>> /\ UNCHANGED busy
    \/ /\ asked.kind = "status"
       /\ goal' = s
       /\ reason' = IF asked.status = "paused" THEN "manual" ELSE None
       /\ asked' = <<>> /\ UNCHANGED busy

Receive ==
    /\ connected /\ stream # <<>>
    /\ LET e == Head(stream) IN
         \/ e.kind = "updated" /\ OnUpdated(e.status)
         \/ e.kind = "cleared" /\ OnCleared
         \/ e.kind = "started" /\ OnStarted
         \/ e.kind = "completed" /\ OnCompleted(e.failed)
         \/ e.kind = "answer" /\ OnAnswer(e.status)
         \/ e.kind = "error" /\ asked' = <<>> /\ UNCHANGED window
    /\ stream' = Tail(stream)
    /\ UNCHANGED <<server, connected, bounds>>

\* The turn of a direct app-server dies with it; a daemon's goes on.
Outage ==
    /\ connected /\ outages < MaxOutages /\ outages' = outages + 1
    /\ connected' = FALSE /\ stream' = <<>> /\ asked' = <<>>
    /\ turn' \in {turn, FALSE}
    /\ UNCHANGED <<serverGoal, asks, turns>>

Disconnect ==
    /\ Outage
    /\ reason' = IF goal = "active" /\ busy THEN "lost" ELSE reason
    /\ UNCHANGED <<goal, busy>>

\* Only the reason is on disk.
Restart == Outage /\ goal' = None /\ busy' = FALSE /\ UNCHANGED reason

Reconnect ==
    /\ ~connected /\ connected' = TRUE
    /\ asked' = [kind |-> "open", status |-> None]
    /\ UNCHANGED <<server, stream, window, bounds>>

Next ==
    \/ goal_dialog \/ confirm_clear_goal \/ set_goal_status
    \/ Take \/ ChangeElsewhere \/ StartTurn \/ EndTurn
    \/ Receive \/ Disconnect \/ Restart \/ Reconnect

Spec == Init /\ [][Next]_vars

---------------------------------------------------------------------------
(* Properties.                                                             *)

Settled == connected /\ stream = <<>> /\ asked = <<>>

\* Once everything is answered, the goal selector agrees with the server: a
\* goal shown as going on is active there, one shown as complete is complete,
\* and one shown as stopped is stopped there so, or was active when a turn of
\* it failed (render_goal_selector, observe_goal_lifecycle).
GoalTrue ==
    Settled =>
      \/ render_goal_selector = serverGoal
      \/ serverGoal = "active" /\ render_goal_selector = "interrupted"
      \/ serverGoal = "active" /\ goal \in Stopped /\ reason # None
=============================================================================
