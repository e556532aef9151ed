------------------------------ MODULE MCDesk ------------------------------
(***************************************************************************)
(* The components that keep state of their own and share none with each    *)
(* other, checked in one run: the first state chooses which of them moves, *)
(* the others stay as they start.  Bounds are here and in Desk.cfg.  The   *)
(* reset of the window is a module extended, the others are instances: of  *)
(* their modules, in WindowParts, ServerParts and here, or of those with   *)
(* their proofs, which Desk_proofs cites.                                  *)
(***************************************************************************)
EXTENDS ResetWindow, WindowParts, ServerParts

CONSTANTS
    Parts,          \* the components to check
    Healths, Samples, Cooldown,                 \* the Remote host
    MaxHubs, MaxQueue, MaxTasks, MaxEvents, MaxHostMoves,
    Repairers, Batch, MaxGap, MaxRecords        \* the history

ASSUME DeskAssumption == Cooldown \in Nat /\ Batch \in Nat

VARIABLES
    part,
    ctl, hubs, tasks, remoteDaemon, turn, since, remoteMoves,
    rollout, cursor, rows, status, schema, marker, plan, crashes

Remote == INSTANCE RemoteHost_proofs WITH
    MaxMoves <- MaxHostMoves, daemon <- remoteDaemon, moves <- remoteMoves

History == INSTANCE HistoryRepair_proofs WITH
    MaxCrashes <- MaxLosses

MonitorState ==
    <<content, open, files, attempts, projected, activated, lastSnapshot, ui>>
BuddyState ==
    <<active, shown, listed, external, progress, stored, host, events,
    started>>
AutomationState ==
    <<item, saved, systemd, claim, runs, history, overlapped, misread, edits>>
TurnState ==
    <<serverTurn, lastTurn, stream, turnAsked, resumed, turnActive,
    activeTurn, busy, turnProgress, turns, turnMoves>>
RemoteState ==
    <<ctl, hubs, tasks, remoteDaemon, turn, since, remoteMoves>>
ContextState ==
    <<contextServer, contextStream, contextWire, mode, contextWindow,
    measure, metrics, receipt, job, versions, made, bounds>>
LedgerState ==
    <<ledgerServer, own, ledgerStream, ledgerAsked, wired, routing, settings,
    usage, obs, timers, records, macro, sent, seen, ledgerBounds>>
HistoryState ==
    <<rollout, cursor, rows, status, schema, marker, plan, crashes>>
ApprState ==
    <<server, asked, net, approvals, apprDialog, answers, losses>>
ManagedState ==
    <<up, pending, nextId, wire, frames, silent, daemon, owed, managedLosses>>
ProfileState ==
    <<born, kept, hub, managed, ready, profiles, profileActive, owner,
    profileRows, profileOpen, known, selecting, selected, deferred,
    profilePending, profileMoves>>
GoalState ==
    <<serverGoal, goalTurn, goalStream, goalAsked, goalConnected, goal,
    reason, goalBusy, asks, goalTurns, outages>>
PageState ==
    <<plugin, app, pageSent, pageAnswers, pageConnected, opened,
    installedOnly, catalog, appShown, loading, loaded, cut, pageAsks,
    pageOutages>>

DeskInit ==
    /\ part \in Parts
    /\ Init
    /\ Monitor!Init
    /\ Buddy!Init
    /\ Appr!Init
    /\ Managed!Init
    /\ Automation!Init
    /\ Turn!Init
    /\ Remote!Init
    /\ Context!Init
    /\ Ledger!Init
    /\ History!Init
    /\ Profile!Init
    /\ Goal!Init
    /\ Page!Init
    /\ part # "Context" => mode = "auto"
    /\ part # "Remote" => remoteDaemon = [p \in Profiles |-> Remote!Off]
    /\ part # "Goal" => serverGoal = "none"
    /\ part # "Page" => plugin = "available" /\ app = "on"
    /\ part # "Window" => ~guard.armed /\ account = "p1"

\* The components that do not move stay.
Rest ==
    /\ UNCHANGED part
    /\ part # "Window" => UNCHANGED vars
    /\ part # "Monitor" => UNCHANGED MonitorState
    /\ part # "Buddy" => UNCHANGED BuddyState
    /\ part # "Appr" => UNCHANGED ApprState
    /\ part # "Managed" => UNCHANGED ManagedState
    /\ part # "Automation" => UNCHANGED AutomationState
    /\ part # "Turn" => UNCHANGED TurnState
    /\ part # "Remote" => UNCHANGED RemoteState
    /\ part # "Context" => UNCHANGED ContextState
    /\ part # "Ledger" => UNCHANGED LedgerState
    /\ part # "History" => UNCHANGED HistoryState
    /\ part # "Profile" => UNCHANGED ProfileState
    /\ part # "Goal" => UNCHANGED GoalState
    /\ part # "Page" => UNCHANGED PageState

DeskNext ==
    /\ Rest
    /\ \/ part = "Window" /\ Next
       \/ part = "Monitor" /\ Monitor!Next
       \/ part = "Buddy" /\ Buddy!Next
       \/ part = "Appr" /\ Appr!Next
       \/ part = "Managed" /\ Managed!Next
       \/ part = "Automation" /\ Automation!Next
       \/ part = "Turn" /\ Turn!Next
       \/ part = "Remote" /\ Remote!Next
       \/ part = "Context" /\ Context!Next
       \/ part = "Ledger" /\ Ledger!Next
       \/ part = "History" /\ History!Next
       \/ part = "Profile" /\ Profile!Next
       \/ part = "Goal" /\ Goal!Next
       \/ part = "Page" /\ Page!Next

State ==
    <<part, vars, MonitorState, BuddyState, ApprState, ManagedState,
    AutomationState, TurnState, RemoteState, ContextState, LedgerState,
    HistoryState, ProfileState, GoalState, PageState>>

DeskSpec == DeskInit /\ [][DeskNext]_State

---------------------------------------------------------------------------
(* Properties.                                                             *)

\* A recovery of the Remote host keeps the answer it waits for.
RecoveryKeepsItsAnswer == Remote!RecoveryKeepsItsAnswer

\* A host last seen healthy has no recovery queued.
HealthyHostSpared == Remote!HealthyHostSpared

\* No automatic restart or reconnect is on its way to kill a known turn.
KnownTurnsSpared == Remote!KnownTurnsSpared

\* Automatic restarts of one host are a cooldown apart.
RestartsSpaced == Remote!RestartsSpaced

\* The history database holds what lies before its cursor, and no more.
ProjectionFaithful == History!ProjectionFaithful

===========================================================================
