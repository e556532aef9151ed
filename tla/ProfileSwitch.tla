--------------------------- MODULE ProfileSwitch ---------------------------
(***************************************************************************)
(* Account profiles (backend.rs AccountHub, ui/mod.rs, persistence.rs):    *)
(* each profile has an app-server (external) with tasks of its own; the    *)
(* window is attached to one of them and keeps an index of every profile's *)
(* tasks, whose foreign rows lead back to their owner.  A dialog is modal, *)
(* so nothing is clicked between its question and its answer.              *)
(***************************************************************************)
EXTENDS Integers, FiniteSets

CONSTANTS
    Profiles,   \* the primary one and the ones that may be added
    Primary,
    Tasks,
    None,
    MaxMoves    \* bound on what the user does, restarts and lost connections

VARIABLES
    born,       \* external: the profile whose app-server created each task
    kept,       \* external: the tasks not deleted or archived since
    hub,        \* the profile of the AppServerHub in AccountHub.active
    managed,    \* uses_managed_transport
    ready,      \* connection is Ready
    \* StoredState
    profiles,   \* account_profiles
    active,     \* active_account_id
    owner,      \* shared_task_history: the owner of each indexed task
    \* the window
    rows,       \* threads
    open,       \* active_thread_id
    known,      \* the tasks the window takes for running
    selecting,  \* thread_select_toggle
    selected,   \* selected_thread_ids
    deferred,   \* deferred_shared_thread_open
    pending,    \* requests in flight: <<kind, task>>
    moves

server == <<born, kept>>
link == <<hub, managed, ready>>
stored == <<profiles, active, owner>>
state == <<rows, open, known, pending>>
view == <<selecting, selected, deferred>>
vars == <<server, link, stored, state, view, moves>>

Move == moves < MaxMoves /\ moves' = moves + 1

Bulk == {"bulkArchive", "bulkDelete"}

---------------------------------------------------------------------------
Init ==
    /\ born = [t \in Tasks |-> None] /\ kept = {}
    /\ hub = Primary /\ managed = FALSE /\ ready = FALSE
    /\ profiles = {Primary} /\ active = Primary
    /\ owner = [t \in Tasks |-> None]
    /\ rows = {} /\ open = None /\ known = {} /\ pending = {}
    /\ selecting = FALSE /\ selected = {} /\ deferred = None /\ moves = 0

\* task_owner is none, or the active profile.
MayBeOurs(t) == owner[t] \in {None, active}

FinishFirst == ~managed /\ \E t \in rows : MayBeOurs(t) /\ t \in known

---------------------------------------------------------------------------
(* Switching.                                                              *)

FreshState ==
    /\ rows' = {} /\ open' = None /\ known' = {} /\ pending' = {}

AttachTo(p) ==
    /\ hub' = p /\ managed' = FALSE /\ ready' = FALSE

Activate(p, then) ==
    /\ AttachTo(p)
    /\ active' = p
    /\ FreshState
    /\ selected' = {} /\ deferred' = then
    /\ UNCHANGED <<server, owner, selecting>>

SwitchProfile ==
    \E p \in profiles \ {active} :
      /\ Move /\ ~FinishFirst
      /\ Activate(p, deferred)
      /\ UNCHANGED profiles

AddProfile ==
    /\ Move
    /\ Cardinality(profiles) < 2
    /\ \E p \in Profiles \ profiles :
         /\ profiles' = profiles \union {p}
         /\ \/ FinishFirst /\ UNCHANGED <<server, link, active, owner, state, view>>
            \/ ~FinishFirst /\ Activate(p, deferred)

\* The window dies and comes back; what it had stored stays.
Restart ==
    /\ Move
    /\ AttachTo(active)
    /\ FreshState
    /\ selecting' = FALSE /\ selected' = {} /\ deferred' = None
    /\ UNCHANGED <<server, stored>>

---------------------------------------------------------------------------
(* The connection.                                                         *)

Ready ==
    /\ ~ready /\ ready' = TRUE
    /\ managed' \in BOOLEAN
    /\ pending' = pending
         \union {<<"list", None>>}
         \union (IF open # None THEN {<<"open", open>>} ELSE {})
    /\ UNCHANGED <<server, hub, stored, rows, open, known, selecting, selected, deferred, moves>>

Disconnect ==
    /\ Move
    /\ ready /\ ready' = FALSE
    /\ pending' = {}
    /\ UNCHANGED <<born, kept, hub, managed, stored, rows, open, known, view>>

---------------------------------------------------------------------------
(* The list of tasks.                                                      *)

There == {t \in kept : born[t] = hub}
record_shared_tasks(ts) == owner' = [t \in Tasks |-> IF t \in ts THEN active ELSE owner[t]]
shared_tasks_except == {t \in Tasks : owner[t] \notin {None, active}}

\* The task on the screen outlives a list without it.
set_threads(ts) == ts \union ({open} \intersect rows)

\* What a click on a row does, and what the buttons over the list allow.
RowOpens == ~selecting
update_bulk_task_controls == ready /\ ~\E r \in pending : r[1] \in Bulk
selected_existing_task_ids == {t \in selected : t \in rows /\ MayBeOurs(t)}

---------------------------------------------------------------------------
(* The user.                                                               *)

Ask(kind, t) == pending' = pending \union {<<kind, t>>}

NewTask ==
    /\ Move /\ Ask("start", None)
    /\ open' = None
    /\ UNCHANGED <<server, link, stored, rows, known, view>>

\* A message, a fork, or a change of the task on the screen.
ActOnOpen ==
    \E kind \in {"send", "fork", "archive", "delete"} :
      /\ Move /\ open # None /\ ready
      /\ Ask(kind, open)
      /\ UNCHANGED <<server, link, stored, rows, open, known, view>>

OpenHere(t) ==
    /\ open' = t /\ Ask("open", t)
    /\ UNCHANGED <<server, link, stored, rows, known, view>>

OpenRow(t) ==
    \/ /\ ~MayBeOurs(t) /\ ~FinishFirst
       /\ owner[t] \in profiles
       /\ Activate(owner[t], t)
       /\ UNCHANGED profiles
    \/ /\ ~MayBeOurs(t) /\ (FinishFirst \/ owner[t] \notin profiles)
       /\ deferred' = None
       /\ UNCHANGED <<server, link, stored, state, selecting, selected>>
    \/ MayBeOurs(t) /\ OpenHere(t)

OpenTimelineThread == \E t \in rows : Move /\ RowOpens /\ OpenRow(t)

SelectionMode ==
    /\ Move
    /\ update_bulk_task_controls
    /\ selecting' = ~selecting
    /\ selected' = IF selecting THEN {} ELSE selected
    /\ UNCHANGED <<server, link, stored, state, deferred>>

ToggleTask ==
    \E t \in rows :
      /\ Move /\ selecting /\ MayBeOurs(t)
      /\ selected' = IF t \in selected THEN selected \ {t} ELSE selected \union {t}
      /\ UNCHANGED <<server, link, stored, state, selecting, deferred>>

ToggleAll ==
    LET ours == {t \in rows : MayBeOurs(t)} IN
    /\ Move
    /\ selecting /\ ours # {} /\ update_bulk_task_controls
    /\ selected' = IF ours \subseteq selected THEN selected \ ours ELSE selected \union ours
    /\ UNCHANGED <<server, link, stored, state, selecting, deferred>>

start_bulk_task_mutation(kind, chosen) ==
    /\ chosen # {} /\ ready
    /\ pending' = pending \union {<<kind, t>> : t \in chosen}
    /\ selecting' = FALSE /\ selected' = {}
    /\ UNCHANGED <<server, link, stored, rows, open, known, deferred>>

BulkMutation ==
    /\ Move /\ update_bulk_task_controls /\ selected # {}
    /\ \E kind \in Bulk : start_bulk_task_mutation(kind, selected_existing_task_ids)

---------------------------------------------------------------------------
(* Answers.                                                                *)

Answered(r) == ready /\ r \in pending

\* The task whose opening asked for the switch.
open_deferred_shared_thread(ts, now) ==
    LET asked == deferred # None /\ (deferred \in ts \/ owner[deferred] = active) /\ deferred \in now
    IN IF asked THEN {deferred} ELSE {}

\* thread/list: merge_threads adds the foreign rows.
ListAnswered ==
    \E ts \in SUBSET There :
      LET r == <<"list", None>>
          now == set_threads(ts) \union (shared_tasks_except \ ts)
          jump == open_deferred_shared_thread(ts, now)
      IN
      /\ Answered(r)
      /\ record_shared_tasks(ts)
      /\ rows' = now
      /\ deferred' = None
      /\ open' \in IF jump = {} THEN {open} ELSE jump
      /\ pending' = (pending \ {r}) \union {<<"open", t>> : t \in jump}
      /\ UNCHANGED <<server, link, profiles, active, known, selecting, selected, moves>>

Search ==
    /\ Move /\ ready /\ Ask("search", None)
    /\ UNCHANGED <<server, link, stored, rows, open, known, view>>

SearchAnswered ==
    \E ts \in SUBSET There :
      LET r == <<"search", None>> IN
      /\ Answered(r) /\ pending' = pending \ {r}
      /\ record_shared_tasks(ts)
      /\ rows' = rows \union ts \union shared_tasks_except
      /\ UNCHANGED <<server, link, profiles, active, open, known, view, moves>>

\* StartThread and ForkThread: the new task is recorded and opened.
TaskMade ==
    \E t \in Tasks, r \in pending :
      /\ ready /\ r[1] \in {"start", "fork"} /\ born[t] = None
      /\ r[1] = "fork" => r[2] \in There
      /\ born' = [born EXCEPT ![t] = hub] /\ kept' = kept \union {t}
      /\ record_shared_tasks({t})
      /\ rows' = rows \union {t} /\ open' = t
      /\ pending' = (pending \ {r}) \union (IF r[1] = "start" THEN {<<"send", t>>} ELSE {})
      /\ UNCHANGED <<link, profiles, active, known, view, moves>>

OpenAnswered ==
    \E r \in pending :
      /\ ready /\ r[1] = "open" /\ r[2] \in There
      /\ record_shared_tasks({r[2]})
      /\ rows' = rows \union {r[2]}
      /\ pending' = pending \ {r}
      /\ UNCHANGED <<server, link, profiles, active, open, known, view, moves>>

\* The answer to turn/start, and turn/started.
SendAnswered ==
    \E r \in pending :
      /\ ready /\ r[1] = "send" /\ r[2] \in There
      /\ known' = known \union {r[2]}
      /\ pending' = pending \ {r}
      /\ UNCHANGED <<born, kept, link, stored, rows, open, view, moves>>

\* thread/archived or thread/deleted, then the answer; the last of a bulk
\* and every single change ask for the list.
GoneAnswered ==
    \E r \in pending :
      LET rest == pending \ {r} IN
      /\ ready /\ r[1] \in Bulk \union {"archive", "delete"} /\ r[2] \in There
      /\ kept' = kept \ {r[2]}
      /\ rows' = rows \ {r[2]} /\ known' = known \ {r[2]}
      /\ open' = IF open = r[2] THEN None ELSE open
      /\ pending' = rest \union (IF r[1] \in Bulk /\ \E q \in rest : q[1] \in Bulk THEN {} ELSE {<<"list", None>>})
      /\ UNCHANGED <<born, link, stored, view, moves>>

\* Any request may fail: the window forgets it.
Failed ==
    \E r \in pending :
      /\ ready /\ pending' = pending \ {r}
      /\ UNCHANGED <<server, link, stored, rows, open, known, view, moves>>

---------------------------------------------------------------------------
(* Notifications of the app-server the window is attached to.              *)

\* thread/started: another client made a task; the index does not learn it.
ThreadStarted ==
    \E t \in Tasks :
      /\ ready /\ managed /\ born[t] = None
      /\ born' = [born EXCEPT ![t] = hub] /\ kept' = kept \union {t}
      /\ rows' = rows \union {t}
      /\ UNCHANGED <<link, stored, open, known, pending, view, moves>>

TurnCompleted ==
    \E t \in known :
      /\ ready /\ born[t] = hub
      /\ known' = known \ {t}
      /\ UNCHANGED <<born, kept, link, stored, rows, open, pending, view, moves>>

Next ==
    \/ SwitchProfile \/ AddProfile \/ Restart \/ Ready \/ Disconnect
    \/ NewTask \/ ActOnOpen \/ OpenTimelineThread \/ Search
    \/ SelectionMode \/ ToggleTask \/ ToggleAll \/ BulkMutation
    \/ ListAnswered \/ SearchAnswered \/ TaskMade
    \/ OpenAnswered \/ SendAnswered \/ GoneAnswered \/ Failed
    \/ ThreadStarted \/ TurnCompleted

Spec == Init /\ [][Next]_vars

---------------------------------------------------------------------------
(* Properties.                                                             *)

\* Nothing of one account reaches another: every request about a task goes to
\* the app-server that has the task, the task on the screen and the selected
\* ones are of the attached profile, and the index names each task's true
\* owner (activate_account_profile, open_timeline_thread,
\* selected_existing_task_ids, record_shared_tasks).
Isolated ==
    /\ \A r \in pending : r[2] # None => born[r[2]] = hub
    /\ \A t \in (selected \union {open}) \ {None} : born[t] = hub
    /\ \A t \in Tasks : owner[t] \in {None, born[t]}
=============================================================================
