----------------------------- MODULE BuddyTurns -----------------------------
(***************************************************************************)
(* Turns answered by a Buddy model (Qwen, Gemini, ...) instead of the      *)
(* app-server: start_buddy_turn, update_buddy_progress, finish_buddy_turn  *)
(* and restore_buddy_history of ui/mod.rs, beside what else rewrites the   *)
(* same state: opening another task, refreshing the task list, the         *)
(* snapshots of the rollout monitor.  Such a turn lives in the window and  *)
(* in the stored state only; no server can send it again.                  *)
(***************************************************************************)
EXTENDS Integers, Sequences, FiniteSets

CONSTANTS
    Tasks, NoTask,
    Troubles,   \* subset of {"snapshot", "second message"}: a snapshot of the
                \* rollout monitor, or another message, while a Buddy works
    MaxTurns    \* bound on the turns ever started

VARIABLES
    active,     \* active_thread_id
    shown,      \* the Buddy turns in threads[t].turns, a status for each
    listed,     \* the tasks in AppState::threads
    external,   \* external_running_threads
    progress,   \* turn_progress[t].turn_id, 0 for none
    stored,     \* StoredState::buddy_turns
    host,       \* delegates at work or waiting for a host slot
    events,     \* what they reported and the window has not handled
    started     \* turns started so far

vars == <<active, shown, listed, external, progress, stored, host, events, started>>

Turns  == 1..MaxTurns
Status == {"inProgress", "completed", "failed"}

\* Turns are kept as a partial function from ids to statuses.
NoTurns == [n \in {} |-> "inProgress"]
Put(turns, n, status) == [m \in DOMAIN turns \cup {n} |-> IF m = n THEN status ELSE turns[m]]
Merge(turns, saved) ==
    [m \in DOMAIN turns \cup DOMAIN saved |-> IF m \in DOMAIN turns THEN turns[m] ELSE saved[m]]

At(t) == {j \in host : j.task = t} \cup {e \in {events[i] : i \in DOMAIN events} : e.task = t}

Init ==
    /\ active = NoTask /\ listed = Tasks
    /\ shown = [t \in Tasks |-> NoTurns] /\ stored = [t \in Tasks |-> NoTurns]
    /\ external = {} /\ progress = [t \in Tasks |-> 0]
    /\ host = {} /\ events = <<>> /\ started = 0

---------------------------------------------------------------------------
\* start_buddy_turn: shown, marked running, and written to disk before the
\* delegate is asked.  Nothing stops a second message to the same task.
StartBuddyTurn ==
    /\ active \in listed /\ started < MaxTurns
    /\ "second message" \in Troubles \/ At(active) = {}
    /\ LET n == started + 1
       IN  /\ shown' = [shown EXCEPT ![active] = Put(@, n, "inProgress")]
           /\ stored' = [stored EXCEPT ![active] = Put(@, n, "inProgress")]
           /\ external' = external \cup {active}
           /\ progress' = [progress EXCEPT ![active] = n]
           /\ host' = host \cup {[task |-> active, turn |-> n]}
           /\ started' = n
    /\ UNCHANGED <<active, listed, events>>

\* The delegate reports progress, an answer or a failure.
Report ==
    \E j \in host, kind \in {"progress", "completed", "failed"} :
      /\ Len(events) < 2
      /\ events' = Append(events, [task |-> j.task, turn |-> j.turn, kind |-> kind])
      /\ host' = IF kind = "progress" THEN host ELSE host \ {j}
      /\ UNCHANGED <<active, shown, listed, external, progress, stored, started>>

Received(kinds) == events # <<>> /\ Head(events).kind \in kinds

\* update_buddy_progress: only for the turn the task shows as working.
UpdateBuddyProgress ==
    /\ Received({"progress"})
    /\ LET e == Head(events)
       IN  stored' = IF e.task \in external /\ progress[e.task] = e.turn
                        /\ e.task \in listed /\ e.turn \in DOMAIN shown[e.task]
                     THEN [stored EXCEPT ![e.task] = Put(@, e.turn, shown[e.task][e.turn])]
                     ELSE stored
    /\ events' = Tail(events)
    /\ UNCHANGED <<active, shown, listed, external, progress, host, started>>

\* finish_buddy_turn: the answer goes into the turn the window shows, and
\* from there to disk; a turn it does not show gets none.
FinishBuddyTurn ==
    /\ Received({"completed", "failed"})
    /\ LET e     == Head(events)
           found == e.task \in listed /\ e.turn \in DOMAIN shown[e.task]
       IN  /\ external' = external \ {e.task}
           /\ progress' = [progress EXCEPT ![e.task] = 0]
           /\ shown' = IF found THEN [shown EXCEPT ![e.task][e.turn] = e.kind] ELSE shown
           /\ stored' = IF found THEN [stored EXCEPT ![e.task] = Put(@, e.turn, e.kind)]
                        ELSE stored
    /\ events' = Tail(events)
    /\ UNCHANGED <<active, listed, host, started>>

---------------------------------------------------------------------------
\* A plausible mistake: every other transcript is dropped, running or not.
ActivateThreadOnly(t) == [u \in Tasks |-> IF u = t THEN shown[u] ELSE NoTurns]

\* activate_thread: only one transcript is kept in memory, and those of the
\* tasks marked as running.
ActivateThread(t) ==
    [u \in Tasks |-> IF u = t \/ u \in external THEN shown[u] ELSE NoTurns]

\* open_timeline_thread: and the opened task's saved turns are put back.
OpenTask ==
    \E t \in listed \ {active} :
      /\ active' = t
      /\ shown' = [ActivateThread(t) EXCEPT ![t] = Merge(@, stored[t])]
      /\ UNCHANGED <<listed, external, progress, stored, host, events, started>>

NewTask ==
    /\ active # NoTask
    /\ active' = NoTask
    /\ UNCHANGED <<shown, listed, external, progress, stored, host, events, started>>

\* The answer to thread/list: set_threads replaces every task, keeping the
\* turns of the open one, then restore_all_buddy_history puts back the tasks
\* and turns saved on disk.
SetThreads ==
    \E S \in SUBSET Tasks :
      LET kept == [t \in Tasks |-> IF t = active THEN shown[t] ELSE NoTurns]
      IN  /\ shown' = [t \in Tasks |-> Merge(kept[t], stored[t])]
          /\ listed' = S \cup (IF active \in listed THEN {active} ELSE {})
                         \cup {t \in Tasks : stored[t] # NoTurns}
          /\ shown # shown' \/ listed # listed'
          /\ UNCHANGED <<active, external, progress, stored, host, events, started>>

\* poll_rollout_activity: the newest snapshot replaces the set.  A Buddy turn
\* writes no rollout; the other tasks' turns come and go.
PollRolloutActivity ==
    \E S \in SUBSET Tasks :
      /\ "snapshot" \in Troubles \/ (host = {} /\ events = <<>>)
      /\ S # external /\ external' = S
      /\ UNCHANGED <<active, shown, listed, progress, stored, host, events, started>>

---------------------------------------------------------------------------
Next ==
    \/ StartBuddyTurn \/ Report \/ UpdateBuddyProgress \/ FinishBuddyTurn
    \/ OpenTask \/ NewTask \/ SetThreads \/ PollRolloutActivity

Spec == Init /\ [][Next]_vars

---------------------------------------------------------------------------
(* Properties.                                                             *)

\* "An in-flight Buddy turn exists only in Native until its provider
\* finishes.  Keep that turn alive" (model.rs:469): a turn saved as in
\* progress still has a delegate at work, or its answer is on the way.
NoAnswerLost ==
    \A t \in Tasks : \A n \in DOMAIN stored[t] :
      stored[t][n] = "inProgress" => \E j \in At(t) : j.turn = n
===========================================================================
