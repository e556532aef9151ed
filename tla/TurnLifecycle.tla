---------------------------- MODULE TurnLifecycle ----------------------------
(***************************************************************************)
(* What the window takes for running (model.rs and ui/mod.rs): the turn of *)
(* the open task, which the composer steers and Stop interrupts, and each  *)
(* task's marks in the sidebar: its status, its turns' statuses, its       *)
(* progress.  The app-server (external) answers and notifies in one order, *)
(* about the tasks that were opened; another client starts turns too.      *)
(* Unsubscribing and lost connections are ClientSession's.                 *)
(***************************************************************************)
EXTENDS Integers, Sequences

CONSTANTS
    Tasks,
    NoTask,
    MaxTurns,  \* bound on the turns of all tasks
    MaxMoves   \* bound on the user's messages and switches

VARIABLES
    serverTurn,  \* external: the turn each task runs, 0 for none
    lastTurn,    \* external: turn ids given out
    stream,      \* external: answers and notifications on their way
    asked,       \* the SendTurn or SteerTurn in flight: [task, steer], <<>> for none
    resumed,     \* the tasks opened so far
    active,      \* active_thread_id
    activeTurn,  \* active_turn_id, 0 for none
    busy,        \* tasks whose status is not idle
    progress,    \* turn_progress
    turns,       \* each task's loaded turns that have not ended
    moves

vars == <<serverTurn, lastTurn, stream, asked, resumed, active, activeTurn, busy, progress, turns, moves>>

Handled == -1  \* the answer is on its way

Init ==
    /\ serverTurn = [t \in Tasks |-> 0] /\ lastTurn = 0 /\ stream = <<>> /\ asked = <<>> /\ resumed = {}
    /\ active = NoTask /\ activeTurn = 0
    /\ busy = {} /\ progress = {} /\ turns = [t \in Tasks |-> {}] /\ moves = 0

---------------------------------------------------------------------------
(* The server (external).                                                  *)

ClientSame == UNCHANGED <<resumed, active, activeTurn, busy, progress, turns, moves>>

Notify(t, events) == stream' = IF t \in resumed THEN stream \o events ELSE stream

Starting(t) == <<[kind |-> "started", task |-> t, turn |-> lastTurn + 1]>>

StartTurn(t) ==
    /\ serverTurn[t] = 0 /\ lastTurn < MaxTurns
    /\ lastTurn' = lastTurn + 1
    /\ serverTurn' = [serverTurn EXCEPT ![t] = lastTurn + 1]

StartElsewhere ==
    \E t \in Tasks :
      /\ StartTurn(t)
      /\ Notify(t, Starting(t))
      /\ ClientSame /\ UNCHANGED asked

Plan ==
    \E t \in Tasks :
      /\ serverTurn[t] # 0 /\ Len(stream) < 3
      /\ Notify(t, <<[kind |-> "plan", task |-> t, turn |-> serverTurn[t]]>>)
      /\ ClientSame /\ UNCHANGED <<serverTurn, lastTurn, asked>>

EndTurn ==
    \E t \in Tasks :
      /\ serverTurn[t] # 0
      /\ serverTurn' = [serverTurn EXCEPT ![t] = 0]
      /\ Notify(t, <<[kind |-> "completed", task |-> t, turn |-> serverTurn[t]],
                      [kind |-> "idle", task |-> t]>>)
      /\ ClientSame /\ UNCHANGED <<lastTurn, asked>>

\* A message starts a turn or joins the one that runs; a steer must name it.
HandleAsk ==
    /\ asked # <<>> /\ asked[1].steer # Handled
    /\ LET ask == asked[1]
           t   == ask.task
       IN  \/ /\ ask.steer = 0 /\ StartTurn(t)
              /\ stream' = stream \o <<[kind |-> "sent", task |-> t, turn |-> lastTurn + 1]>>
                                  \o Starting(t)
           \/ /\ serverTurn[t] # 0 /\ ask.steer \in {0, serverTurn[t]}
              /\ stream' = Append(stream, [kind |-> "sent", task |-> t, turn |-> serverTurn[t]])
              /\ UNCHANGED <<serverTurn, lastTurn>>
           \/ /\ ask.steer \notin {0, serverTurn[t]}
              /\ stream' = Append(stream, [kind |-> "refused", task |-> t])
              /\ UNCHANGED <<serverTurn, lastTurn>>
    /\ asked' = <<[asked[1] EXCEPT !.steer = Handled]>>
    /\ ClientSame

---------------------------------------------------------------------------
(* The window.                                                             *)

Same == UNCHANGED <<serverTurn, lastTurn>>

\* Another turn of the open task is running.
NewerRuns(t, turn) == active = t /\ turn # 0 /\ activeTurn \notin {0, turn}

\* complete_turn_lifecycle, `turn' 0 when the server did not name it; then
\* upsert_turn stores the turn it did name.
Complete(t, turn) ==
    IF NewerRuns(t, turn)
    THEN /\ turns' = [turns EXCEPT ![t] = @ \ {turn}]
         /\ UNCHANGED <<activeTurn, busy, progress>>
    ELSE LET terminal == IF turn # 0 THEN turn ELSE IF active = t THEN activeTurn ELSE 0 IN
         /\ activeTurn' = IF active = t THEN 0 ELSE activeTurn
         /\ busy' = busy \ {t} /\ progress' = progress \ {t}
         /\ turns' = [turns EXCEPT ![t] = IF terminal = 0 THEN {} ELSE @ \ {terminal}]

\* A plausible mistake: an idle status is only stored.
StoreIdle(t) == busy' = busy \ {t} /\ UNCHANGED <<activeTurn, progress, turns>>

\* thread/status/changed to idle
BecomeIdle(t) == Complete(t, 0)

\* clear_stale_turn
ClearStale(t) ==
    /\ activeTurn' = IF active = t THEN 0 ELSE activeTurn
    /\ busy' = busy \ {t} /\ progress' = progress \ {t} /\ turns' = [turns EXCEPT ![t] = {}]

\* One answer or notification.  `turn/started' takes the turn for the open
\* task's, whichever task it names.
Receive ==
    /\ stream # <<>> /\ stream' = Tail(stream)
    /\ LET event == Head(stream)
           t     == event.task
       IN  \/ /\ event.kind = "started"
              /\ activeTurn' = event.turn /\ busy' = busy \cup {t}
              /\ progress' = progress \cup {t}
              /\ turns' = [turns EXCEPT ![t] = @ \cup {event.turn}]
              /\ UNCHANGED asked
           \/ /\ event.kind = "plan" /\ progress' = progress \cup {t}
              /\ UNCHANGED <<activeTurn, busy, turns, asked>>
           \/ event.kind = "completed" /\ Complete(t, event.turn) /\ UNCHANGED asked
           \/ event.kind = "idle" /\ BecomeIdle(t) /\ UNCHANGED asked
           \/ /\ event.kind = "sent" /\ asked' = <<>>
              /\ activeTurn' = IF active = t THEN event.turn ELSE activeTurn
              /\ busy' = busy \cup {t}
              /\ UNCHANGED <<progress, turns>>
           \/ /\ event.kind = "refused" /\ ClearStale(t)
              /\ asked' = <<[task |-> t, steer |-> 0]>>
    /\ UNCHANGED <<resumed, active, moves>> /\ Same

\* send_composer: a task with a running turn is steered, and shows the message
\* in that turn at once.
SendMessage ==
    /\ active # NoTask /\ asked = <<>> /\ moves < MaxMoves /\ moves' = moves + 1
    /\ asked' = <<[task |-> active, steer |-> activeTurn]>>
    /\ turns' = IF activeTurn = 0 THEN turns ELSE [turns EXCEPT ![active] = @ \cup {activeTurn}]
    /\ UNCHANGED <<stream, resumed, active, activeTurn, busy, progress>> /\ Same

\* activate_thread
Activate ==
    \E t \in Tasks \ {active} :
      /\ moves < MaxMoves /\ moves' = moves + 1
      /\ active' = t /\ activeTurn' = 0 /\ resumed' = resumed \cup {t}
      /\ turns' = [u \in Tasks |-> IF u = t THEN turns[u] ELSE {}]
      /\ UNCHANGED <<stream, asked, busy, progress>> /\ Same

Next ==
    \/ StartElsewhere \/ Plan \/ EndTurn \/ HandleAsk
    \/ Receive \/ SendMessage \/ Activate

Spec == Init /\ [][Next]_vars

---------------------------------------------------------------------------
(* Properties.                                                             *)

\* Once everything sent has arrived, a task that runs nothing shows nothing
\* running in the sidebar, whatever turns of other tasks came between.
IdleLooksIdle ==
    stream = <<>> /\ asked = <<>> =>
      \A t \in Tasks : serverTurn[t] = 0 =>
        t \notin busy \cup progress /\ turns[t] = {}

\* "Terminal app-server events now clear every local running marker"
\* (metainfo.xml:190): once every turn has ended and everything has arrived,
\* the window takes no turn for running.
EveryMarkCleared ==
    stream = <<>> /\ asked = <<>> /\ (\A t \in Tasks : serverTurn[t] = 0) => activeTurn = 0
===============================================================================
