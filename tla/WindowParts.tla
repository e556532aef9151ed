---------------------------- MODULE WindowParts ----------------------------
(***************************************************************************)
(* Parts of the window: the requests the server makes of the user, the     *)
(* Remote status of the managed daemon, the tasks of each profile, the     *)
(* goal of the open task, the turns of Buddy models and a scheduled task.  *)
(* They share no state, and stand here beside each other so that MCDesk    *)
(* can check them and WindowParts_proofs prove about them.                 *)
(***************************************************************************)
EXTENDS Integers, Sequences

CONSTANTS
    Methods, Matters, MaxAsked,                 \* approvals
    Environments, NoEnv, MaxIds, MaxSilence,    \* requests of the hub
    Tasks, NoTask,
    Profiles, First, MaxSwitches,               \* profiles
    Stops, MaxAsks, MaxTurns,                   \* goals
    MaxBuddyTurns,
    Schedules, MaxRuns, MaxEdits,               \* a scheduled task
    MaxLosses   \* bound on connections lost and outages

ASSUME PartsAssumption ==
    /\ First \in Profiles /\ NoTask \notin Tasks \cup Profiles
    /\ Stops \subseteq {"paused", "blocked", "usageLimited", "budgetLimited"}

VARIABLES
    server, asked, net, approvals, apprDialog, answers, losses,
    up, pending, nextId, wire, frames, silent, daemon, owed, managedLosses,
    born, kept, hub, managed, ready, profiles, profileActive, owner,
    profileRows, profileOpen, known, selecting, selected, deferred,
    profilePending, profileMoves,
    serverGoal, goalTurn, goalStream, goalAsked, goalConnected, goal,
    reason, goalBusy, asks, goalTurns, outages,
    active, shown, listed, external, progress, stored, host, events,
    started,
    item, saved, systemd, claim, runs, history, overlapped, misread, edits

Appr == INSTANCE Approvals WITH
    dialog <- apprDialog

Managed == INSTANCE ManagedRequests WITH
    losses <- managedLosses

Profile == INSTANCE ProfileSwitch WITH
    Primary <- First, None <- NoTask, MaxMoves <- MaxSwitches,
    active <- profileActive, rows <- profileRows, open <- profileOpen,
    pending <- profilePending, moves <- profileMoves

Goal == INSTANCE TaskGoal WITH
    MaxOutages <- MaxLosses, turn <- goalTurn, stream <- goalStream,
    asked <- goalAsked, connected <- goalConnected, busy <- goalBusy,
    turns <- goalTurns

\* Without the two troubles that lose an answer (BuddyTurns_lost.cfg).
Buddy == INSTANCE BuddyTurns WITH
    Troubles <- {}, MaxTurns <- MaxBuddyTurns

Automation == INSTANCE Automations

---------------------------------------------------------------------------
(* Properties.                                                             *)

\* What the server waits on can still be answered by the user.
NoRequestStranded == Appr!NoRequestStranded

\* A remote status the window waits for is being asked for.
NoRefreshLost == Managed!NoRefreshLost

\* Nothing of one account reaches another.
Isolated == Profile!Isolated

\* Once all is answered, the goal selector agrees with the server.
GoalTrue == Goal!GoalTrue

\* A Buddy turn saved as in progress still has a delegate at work.
NoAnswerLost == Buddy!NoAnswerLost

\* systemd runs the schedule that the page last reported done, unless a
\* disable failed unseen.
TimerRunsStored == Automation!TimerRunsStored

\* A run that ended is recorded as ended, unless runs overlapped or the
\* history could not be read.
EndedRunsRecorded == Automation!EndedRunsRecorded
===========================================================================
