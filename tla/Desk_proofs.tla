----------------------------- MODULE Desk_proofs -----------------------------
(***************************************************************************)
(* The components of MCDesk share no variable, so that what is proved of a *)
(* component alone holds when they stand beside each other: the whole      *)
(* starts where the component starts, and each of its steps is one of the  *)
(* component or leaves it alone.                                           *)
(***************************************************************************)
EXTENDS MCDesk, WindowParts_proofs, ServerParts_proofs, TLAPS

\* The repairs of the history projection, beside the other components, leave
\* in the database what lies before its cursor (history.rs:254).
THEOREM HistoryBeside == DeskSpec => []ProjectionFaithful
<1>1. DeskInit => History!Init BY DEF DeskInit
<1>2. ASSUME [DeskNext]_State PROVE [History!Next]_History!vars
  <2>1. UNCHANGED State => UNCHANGED HistoryState BY DEF State
  <2>2. History!vars = HistoryState /\ History!vars' = HistoryState'
    BY DEF History!vars, HistoryState
  <2> QED BY <1>2, <2>1, <2>2 DEF DeskNext, Rest
<1>3. DeskSpec => History!Spec BY <1>1, <1>2, PTL DEF DeskSpec, History!Spec
<1>4. History!Spec => []History!ProjectionFaithful BY DeskAssumption, History!FaithHolds
<1> QED BY <1>3, <1>4, PTL DEF ProjectionFaithful

---------------------------------------------------------------------------
(* The Remote host.                                                        *)

LEMMA RemoteAlone == DeskSpec => Remote!Spec
<1>1. DeskInit => Remote!Init BY DEF DeskInit
<1>2. ASSUME [DeskNext]_State PROVE [Remote!Next]_Remote!vars
  <2>1. UNCHANGED State => UNCHANGED RemoteState BY DEF State
  <2>2. Remote!vars = RemoteState /\ Remote!vars' = RemoteState'
    BY DEF Remote!vars, RemoteState
  <2> QED BY <1>2, <2>1, <2>2 DEF DeskNext, Rest
<1> QED BY <1>1, <1>2, PTL DEF DeskSpec, Remote!Spec

LEMMA RemoteConstants == Remote!RemoteAssumption
BY DeskAssumption, PartsAssumption DEF Remote!RemoteAssumption

\* Beside the other components, too, a recovery in progress loses the answer
\* that clears it only when a switch of the profile drops the hub that owes it
\* (switch_profile, backend.rs:273).
THEOREM AnswersBeside == DeskSpec => RecoveryKeepsItsAnswer
<1>1. Remote!Spec => Remote!RecoveryKeepsItsAnswer BY RemoteConstants, Remote!AnswersCome
<1> QED BY <1>1, RemoteAlone, PTL DEF RecoveryKeepsItsAnswer

\* A host last seen healthy has no recovery queued (observe_remote_health,
\* ui/mod.rs:5998).
THEOREM HealthyBeside == DeskSpec => []HealthyHostSpared
<1>1. Remote!Spec => []Remote!HealthyHostSpared BY RemoteConstants, Remote!HealthySpared
<1> QED BY <1>1, RemoteAlone, PTL DEF HealthyHostSpared

\* No automatic restart and no reconnect is on its way to a turn known of
\* since before it was asked for (maybe_handoff_to_managed_transport,
\* ui/mod.rs:6042).
THEOREM TurnsBeside == DeskSpec => []KnownTurnsSpared
<1>1. Remote!Spec => []Remote!KnownTurnsSpared BY RemoteConstants, Remote!TurnsSpared
<1> QED BY <1>1, RemoteAlone, PTL DEF KnownTurnsSpared

\* Automatic restarts of one host are a cooldown apart
\* (REMOTE_RECOVERY_COOLDOWN, ui/mod.rs:94).
THEOREM CooldownBeside == DeskSpec => RestartsSpaced
<1>1. Remote!Spec => Remote!RestartsSpaced BY RemoteConstants, Remote!CooldownKept
<1> QED BY <1>1, RemoteAlone, PTL DEF RestartsSpaced

---------------------------------------------------------------------------
(* The parts of the window.                                                *)

\* A request the server waits on can still be answered (resolve_approval,
\* ui/mod.rs:10908).
THEOREM RequestsBeside == DeskSpec => []NoRequestStranded
<1>1. DeskInit => Appr!Init BY DEF DeskInit
<1>2. ASSUME [DeskNext]_State PROVE [Appr!Next]_Appr!vars
  <2>1. UNCHANGED State => UNCHANGED ApprState BY DEF State
  <2>2. UNCHANGED ApprState => UNCHANGED Appr!vars BY DEF Appr!vars, ApprState
  <2> QED BY <1>2, <2>1, <2>2 DEF DeskNext, Rest
<1> QED BY <1>1, <1>2, RequestsAnswerable, PTL DEF DeskSpec, Appr!Spec

\* A status the window waits for is being asked for
\* (expire_managed_remote_requests, backend.rs:870).
THEOREM RefreshesBeside == DeskSpec => []NoRefreshLost
<1>1. DeskInit => Managed!Init BY DEF DeskInit
<1>2. ASSUME [DeskNext]_State PROVE [Managed!Next]_Managed!vars
  <2>1. UNCHANGED State => UNCHANGED ManagedState BY DEF State
  <2>2. UNCHANGED ManagedState => UNCHANGED Managed!vars BY DEF Managed!vars, ManagedState
  <2> QED BY <1>2, <2>1, <2>2 DEF DeskNext, Rest
<1> QED BY <1>1, <1>2, RefreshesAsked, PTL DEF DeskSpec, Managed!Spec

\* Nothing of one account reaches another (activate_account_profile,
\* ui/mod.rs:6115).
THEOREM AccountsBeside == DeskSpec => []Isolated
<1>1. DeskInit => Profile!Init BY DEF DeskInit
<1>2. ASSUME [DeskNext]_State PROVE [Profile!Next]_Profile!vars
  <2>1. UNCHANGED State => UNCHANGED ProfileState BY DEF State
  <2>2. UNCHANGED ProfileState => UNCHANGED Profile!vars BY DEF Profile!vars, ProfileState, Profile!server, Profile!state,
    Profile!link, Profile!stored, Profile!view
  <2> QED BY <1>2, <2>1, <2>2 DEF DeskNext, Rest
<1> QED BY <1>1, <1>2, AccountsApart, PTL DEF DeskSpec, Profile!Spec

\* Once everything is answered the goal selector agrees with the server
\* (render_goal_selector, observe_goal_lifecycle).
THEOREM GoalsBeside == DeskSpec => []GoalTrue
<1>1. DeskInit => Goal!Init BY DEF DeskInit
<1>2. ASSUME [DeskNext]_State PROVE [Goal!Next]_Goal!vars
  <2>1. UNCHANGED State => UNCHANGED GoalState BY DEF State
  <2>2. UNCHANGED GoalState => UNCHANGED Goal!vars BY DEF Goal!vars, GoalState, Goal!server, Goal!window, Goal!bounds
  <2> QED BY <1>2, <2>1, <2>2 DEF DeskNext, Rest
<1> QED BY <1>1, <1>2, GoalsAgree, PTL DEF DeskSpec, Goal!Spec

LEMMA BuddyAlone == DeskSpec => Buddy!Spec
<1>1. DeskInit => Buddy!Init BY DEF DeskInit
<1>2. ASSUME [DeskNext]_State PROVE [Buddy!Next]_Buddy!vars
  <2>1. UNCHANGED State => UNCHANGED BuddyState BY DEF State
  <2>2. UNCHANGED BuddyState => UNCHANGED Buddy!vars BY DEF Buddy!vars, BuddyState
  <2> QED BY <1>2, <2>1, <2>2 DEF DeskNext, Rest
<1> QED BY <1>1, <1>2, PTL DEF DeskSpec, Buddy!Spec

\* The answer of a Buddy that was not disturbed reaches the disk
\* (finish_buddy_turn, ui/mod.rs:8005).
THEOREM BuddiesBeside == DeskSpec => []NoAnswerLost
BY BuddyAlone, AnswersKept, PTL

LEMMA AutomationAlone == DeskSpec => Automation!Spec
<1>1. DeskInit => Automation!Init BY DEF DeskInit
<1>2. ASSUME [DeskNext]_State PROVE [Automation!Next]_Automation!vars
  <2>1. UNCHANGED State => UNCHANGED AutomationState BY DEF State
  <2>2. UNCHANGED AutomationState => UNCHANGED Automation!vars
    BY DEF Automation!vars, AutomationState
  <2> QED BY <1>2, <2>1, <2>2 DEF DeskNext, Rest
<1> QED BY <1>1, <1>2, PTL DEF DeskSpec, Automation!Spec

\* systemd runs the schedule that the page last reported done
\* (install_systemd_units, automation.rs:164).
THEOREM TimersBeside == DeskSpec => []TimerRunsStored
BY AutomationAlone, TimersStored, PTL

\* A run that ended is recorded as ended, unless runs overlapped
\* (update_history, automation.rs:317).
THEOREM RunsBeside == DeskSpec => []EndedRunsRecorded
BY AutomationAlone, RunsRecorded, PTL

\* The one-time reset spends one credit of an account at most, beside the
\* other components (maybe_consume_one_time_reset).
THEOREM ResetBeside == DeskSpec => KeepsPromise
<1>1. DeskInit => Init BY DEF DeskInit
<1>2. ASSUME [DeskNext]_State PROVE [Next]_vars
  <2>1. UNCHANGED State => UNCHANGED vars BY DEF State
  <2> QED BY <1>2, <2>1 DEF DeskNext, Rest
<1> QED BY <1>1, <1>2, PromiseKept, PTL DEF DeskSpec, Spec

---------------------------------------------------------------------------
(* The parts that follow the app-server.                                   *)

LEMMA TurnAlone == DeskSpec => Turn!Spec
<1>1. DeskInit => Turn!Init BY DEF DeskInit
<1>2. ASSUME [DeskNext]_State PROVE [Turn!Next]_Turn!vars
  <2>1. UNCHANGED State => UNCHANGED TurnState BY DEF State
  <2>2. UNCHANGED TurnState => UNCHANGED Turn!vars BY DEF Turn!vars, TurnState
  <2> QED BY <1>2, <2>1, <2>2 DEF DeskNext, Rest
<1> QED BY <1>1, <1>2, PTL DEF DeskSpec, Turn!Spec

\* A task that runs nothing shows nothing running (BecomeIdle, Complete,
\* ClearStale).
THEOREM IdleBeside == DeskSpec => []IdleLooksIdle
BY TurnAlone, IdleTasks, PTL

LEMMA ContextAlone == DeskSpec => Context!Spec
<1>1. DeskInit => Context!Init BY DEF DeskInit
<1>2. ASSUME [DeskNext]_State PROVE [Context!Next]_Context!vars
  <2>1. UNCHANGED State => UNCHANGED ContextState BY DEF State
  <2>2. UNCHANGED ContextState => UNCHANGED Context!vars BY DEF Context!vars, ContextState
  <2> QED BY <1>2, <2>1, <2>2 DEF DeskNext, Rest
<1> QED BY <1>1, <1>2, PTL DEF DeskSpec, Context!Spec

\* A context generation gets one automatic checkpoint (compaction_decision).
THEOREM CheckpointsBeside == DeskSpec => []OneCheckpointEach
BY ContextAlone, OneCheckpoint, PTL

\* A hash in a checkpoint is that of the file it identifies
\* (fingerprint_evidence).
THEOREM EvidenceBeside == DeskSpec => []EvidenceTrue
BY ContextAlone, HashesTrue, PTL

LEMMA LedgerAlone == DeskSpec => Ledger!Spec
<1>1. DeskInit => Ledger!Init BY DEF DeskInit
<1>2. ASSUME [DeskNext]_State PROVE [Ledger!Next]_Ledger!vars
  <2>1. UNCHANGED State => UNCHANGED LedgerState BY DEF State
  <2>2. UNCHANGED LedgerState => UNCHANGED Ledger!vars BY DEF Ledger!vars, LedgerState
  <2> QED BY <1>2, <2>1, <2>2 DEF DeskNext, Rest
<1> QED BY <1>1, <1>2, PTL DEF DeskSpec, Ledger!Spec

\* A turn whose end the window saw has its receipt, or waits for it, and its
\* sample (observe_token_savings, observe_macro_experiment).
THEOREM EndsBeside == DeskSpec => []EndsAccounted
BY LedgerAlone, EndsReceipted, PTL

\* A turn's record names its route and counts nothing of another turn
\* (store_token_savings_receipt).
THEOREM LedgerBeside == DeskSpec => []LedgerTrue
BY LedgerAlone, LedgerKept, PTL

LEMMA PageAlone == DeskSpec => Page!Spec
<1>1. DeskInit => Page!Init BY DEF DeskInit
<1>2. ASSUME [DeskNext]_State PROVE [Page!Next]_Page!vars
  <2>1. UNCHANGED State => UNCHANGED PageState BY DEF State
  <2>2. UNCHANGED PageState => UNCHANGED Page!vars BY DEF Page!vars, PageState, Page!server, Page!page, Page!shown,
         Page!flags, Page!bounds
  <2> QED BY <1>2, <2>1, <2>2 DEF DeskNext, Rest
<1> QED BY <1>1, <1>2, PTL DEF DeskSpec, Page!Spec

\* Once everything is answered the extensions page tells the truth
\* (refresh_extensions).
THEOREM PageBeside == DeskSpec => []PageTrue
BY PageAlone, ExtensionsTrue, PTL

LEMMA MonitorAlone == DeskSpec => Monitor!Spec
<1>1. DeskInit => Monitor!Init BY DEF DeskInit
<1>2. ASSUME [DeskNext]_State PROVE [Monitor!Next]_Monitor!vars
  <2>1. UNCHANGED State => UNCHANGED MonitorState BY DEF State
  <2>2. UNCHANGED MonitorState => UNCHANGED Monitor!vars BY DEF Monitor!vars, MonitorState
  <2> QED BY <1>2, <2>1, <2>2 DEF DeskNext, Rest
<1> QED BY <1>1, <1>2, PTL DEF DeskSpec, Monitor!Spec

\* A task is taken to be running exactly when the last marker read says so
\* (read_appended, activity.rs:288).
THEOREM MarkersBeside == DeskSpec => []MarkersFollowed
BY MonitorAlone, MarkersRead, PTL

\* Beside the other components, too, once the window has read every event it
\* marks a task running as the monitor found it, but for a task of which the
\* window heard itself since (scan_paths, activity.rs:220).
THEOREM SnapshotsBeside == DeskSpec => []WindowFollows
BY MonitorAlone, SnapshotsShown, PTL
=============================================================================
