----------------------------- MODULE RemoteHost -----------------------------
(***************************************************************************)
(* The Remote host of each account profile and those who start, stop and   *)
(* restart it through the hub of the profile that is shown (ui/mod.rs,     *)
(* backend.rs, host.rs).  A command waits in the hub's queue until a       *)
(* transport is connected, is then a task of its own, and answers with an  *)
(* event the controller takes later.  When another profile is shown the    *)
(* hub of the last is dropped with its receiver: what it did is still done,*)
(* and its events reach nobody.                                            *)
(*                                                                         *)
(* Left out: the watchdogs of the profiles, pairing and revoking, the      *)
(* reasons shown, requests to the app-server other than turns              *)
(* (ClientSession).                                                        *)
(***************************************************************************)
EXTENDS Naturals, Sequences, FiniteSets

CONSTANTS
    Profiles,       \* the account profiles
    First,          \* the one shown first
    Healths,        \* what may become of a running daemon
    Samples,        \* REMOTE_RECOVERY_SAMPLES
    Cooldown,       \* REMOTE_RECOVERY_COOLDOWN, in ticks
    MaxHubs,        \* bound: profiles shown one after the other
    MaxQueue,       \* bound: commands waiting in a hub
    MaxEvents,      \* bound: events waiting in a hub
    MaxTasks,       \* bound: spawned tasks at once
    MaxMoves        \* bound: what users and daemons do of themselves

VARIABLES
    ctl,            \* the controller
    hubs,           \* the hubs so far, one per profile shown; the last is active
    tasks,          \* what transports have spawned
    daemon,         \* the systemd service of each profile and its process
    turn,           \* the turn of each profile: where it is, the hub it was sent by,
                    \* whether the controller has known of it since before any
                    \* recovery under way
    since,          \* ticks since a host's last automatic restart (history)
    moves           \* how many moves were made (bound)

vars == <<ctl, hubs, tasks, daemon, turn, since, moves>>

active == Len(hubs)
hub    == hubs[active]

Off    == [service |-> FALSE, health |-> "off"]
Hub(p) == [profile |-> p, conn |-> "down", managed |-> FALSE, queue |-> <<>>, events |-> <<>>]
NoTurn == [at |-> "none", hub |-> 0, known |-> FALSE]

\* A direct app-server is a child of its hub, and its turns are that hub's.
Direct(p, i) == turn[p].at = "direct" /\ turn[p].hub = i

Init ==
    /\ ctl = [expected |-> FALSE, pending |-> FALSE, inProgress |-> FALSE, samples |-> 0,
              cool |-> 0, remote |-> "unknown", busy |-> FALSE, handoff |-> FALSE]
    /\ hubs = <<Hub(First)>>
    /\ tasks = {}
    /\ daemon \in {[p \in Profiles |-> IF p = First THEN d ELSE Off] : d \in {Off} \cup
                      [service : {TRUE}, health : {"connected", "connecting"}]}
    /\ turn = [p \in Profiles |-> NoTurn]
    /\ since = [p \in Profiles |-> Cooldown]
    /\ moves = 0

---------------------------------------------------------------------------
(* The service and its daemon.                                             *)

\* A daemon that goes away takes its connections, the requests on them and
\* its turn with it.
Cut(hs, p) ==
    [i \in DOMAIN hs |-> IF hs[i].profile = p /\ hs[i].conn = "managed"
                         THEN [hs[i] EXCEPT !.conn = "down"] ELSE hs[i]]
Unanswered(is) == tasks \ {t \in tasks : t.hub \in is /\ t.kind = "refresh" /\ t.shared}
OnDaemon(p) == {i \in DOMAIN hubs : hubs[i].profile = p /\ hubs[i].conn = "managed"}
LoseTurn(p) == [turn EXCEPT ![p] = IF @.at = "managed" THEN NoTurn ELSE @]

\* The relay, the memory, a hang, a crash; systemd brings the process back.
DaemonChanges(p) ==
    /\ daemon[p].service
    /\ \E h \in Healths \ {daemon[p].health} :
         /\ daemon' = [daemon EXCEPT ![p].health = h]
         /\ IF h = "off"
            THEN hubs' = Cut(hubs, p) /\ turn' = LoseTurn(p) /\ tasks' = Unanswered(OnDaemon(p))
            ELSE UNCHANGED <<hubs, turn, tasks>>
    /\ UNCHANGED <<ctl, since>>

\* systemctl start, which leaves a running daemon alone.
Start(p) ==
    /\ daemon' = [daemon EXCEPT ![p] = IF @.service THEN @
                                       ELSE [service |-> TRUE, health |-> "connecting"]]
    /\ UNCHANGED <<turn, since>>

\* systemctl restart, which starts a stopped service.
Restart(p) ==
    /\ daemon' = [daemon EXCEPT ![p] = [service |-> TRUE, health |-> "connecting"]]
    /\ turn' = LoseTurn(p)

Stop(p) ==
    /\ daemon' = [daemon EXCEPT ![p] = Off]
    /\ turn' = LoseTurn(p)
    /\ UNCHANGED since

---------------------------------------------------------------------------
(* The hub: supervise and its transports.                                  *)

Room(hs) == Len(hs[Len(hs)].queue) < MaxQueue
Queue(hs, c) == [hs EXCEPT ![Len(hs)].queue = Append(@, c)]

\* A hub no longer shown has no receiver: its events are dropped (emit).
Emit(hs, i, e) == IF i = Len(hs) THEN [hs EXCEPT ![i].events = Append(@, e)] ELSE hs

Command(k) == [kind |-> k, auto |-> FALSE]

\* The top of supervise's loop, where uses_managed_transport is set; a daemon
\* that hangs accepts no connection and the hub goes on trying.
Connect(i) ==
    LET managed == daemon[hubs[i].profile].health # "off"
        hung    == daemon[hubs[i].profile].health = "hung"
        next    == [hubs EXCEPT ![i].managed = managed]
    IN  /\ hubs[i].conn = "down"
        /\ Len(hubs[i].events) < MaxEvents
        /\ hubs' = IF hung THEN next
                   ELSE Emit([next EXCEPT ![i].conn = IF managed THEN "managed" ELSE "direct"],
                             i, [kind |-> "ready", value |-> "none"])
        /\ hubs' # hubs
        /\ UNCHANGED <<ctl, tasks, daemon, turn, since>>

\* managed_connection_is_stale: no frame for MANAGED_STALE_TIMEOUT.
GoStale(i) ==
    /\ hubs[i].conn = "managed" /\ daemon[hubs[i].profile].health = "hung"
    /\ hubs' = [hubs EXCEPT ![i].conn = "down"]
    /\ tasks' = Unanswered({i})
    /\ UNCHANGED <<ctl, daemon, turn, since>>

\* A connected transport takes the next command.  A refresh while another is
\* under way is dropped by the managed transport, which asks on its own
\* connection; the direct one spawns a task for each.
Take(i) ==
    /\ hubs[i].conn \in {"direct", "managed"} /\ hubs[i].queue # <<>>
    /\ LET c    == Head(hubs[i].queue)
           p    == hubs[i].profile
           rest == [hubs EXCEPT ![i].queue = Tail(@)]
           task == [hub |-> i, kind |-> c.kind, auto |-> c.auto, result |-> "none",
                    shared |-> hubs[i].conn = "managed"]
           same == task.kind = "refresh" /\ task.shared
                   /\ \E t \in tasks : t.hub = i /\ t.kind = "refresh" /\ t.shared
       IN  \/ /\ c.kind \in {"enable", "disable", "refresh", "restart"}
              /\ same \/ Cardinality(tasks) < MaxTasks
              /\ tasks' = IF same THEN tasks ELSE tasks \cup {task}
              /\ hubs' = rest /\ UNCHANGED turn
           \/ /\ c.kind = "turn"
              /\ turn' = [turn EXCEPT ![p].at = hubs[i].conn]
              /\ hubs' = rest /\ UNCHANGED tasks
           \/ /\ c.kind \in {"reconnect", "shutdown"}
              /\ hubs' = [rest EXCEPT ![i].conn = IF c.kind = "shutdown" THEN "closed" ELSE "down"]
              /\ turn' = IF Direct(p, i) THEN [turn EXCEPT ![p] = NoTurn] ELSE turn
              /\ tasks' = Unanswered({i})
    /\ UNCHANGED <<ctl, daemon, since>>

Status(p) == CASE daemon[p].health = "hung" -> "error"
               [] daemon[p].health = "off"  -> "disabled"
               [] OTHER -> daemon[p].health

Answered(hs, t, r) == Emit(hs, t.hub, [kind |-> t.kind, value |-> r])
Free(t) == Len(hubs[t.hub].events) < MaxEvents

\* query_managed_remote reads the status, and its event follows.
Read(t) ==
    /\ t.kind = "refresh" /\ t.result = "none"
    /\ tasks' = (tasks \ {t}) \cup {[t EXCEPT !.result = Status(hubs[t.hub].profile)]}
    /\ UNCHANGED <<ctl, hubs, daemon, turn, since>>

Refreshed(t) ==
    /\ t.kind = "refresh" /\ t.result # "none" /\ Free(t)
    /\ hubs' = Answered(hubs, t, t.result)
    /\ tasks' = tasks \ {t}
    /\ UNCHANGED <<ctl, daemon, turn, since>>

\* run_remote_service_action start and stop, and remote_restart.
Act(t) ==
    LET p == hubs[t.hub].profile
    IN  /\ Free(t)
        /\ \/ /\ t.kind = "enable" /\ Start(p)
              /\ hubs' = Answered(hubs, t, "ok") /\ tasks' = tasks \ {t}
           \/ /\ t.kind = "disable" /\ Stop(p)
              /\ hubs' = Answered(Cut(hubs, p), t, "ok") /\ tasks' = Unanswered(OnDaemon(p)) \ {t}
           \/ /\ t.kind = "restart" /\ Restart(p)
              /\ hubs' = Answered(Cut(hubs, p), t, "ok") /\ tasks' = Unanswered(OnDaemon(p)) \ {t}
              /\ since' = IF t.auto THEN [since EXCEPT ![p] = 0] ELSE since
        /\ UNCHANGED ctl

\* systemctl fails, or times out.
ActFails(t) ==
    /\ t.kind # "refresh" /\ Free(t)
    /\ hubs' = Answered(hubs, t, "error") /\ tasks' = tasks \ {t}
    /\ since' = IF t.auto THEN [since EXCEPT ![hubs[t.hub].profile] = 0] ELSE since
    /\ UNCHANGED <<ctl, daemon, turn>>

\* turn/completed.
Complete(i) ==
    LET p == hubs[i].profile
    IN  /\ \/ hubs[i].conn = "direct" /\ Direct(p, i)
           \/ hubs[i].conn = "managed" /\ turn[p].at = "managed"
        /\ Len(hubs[i].events) < MaxEvents
        /\ turn' = [turn EXCEPT ![p] = NoTurn]
        /\ hubs' = Emit(hubs, i, [kind |-> "completed", value |-> "none"])
        /\ UNCHANGED <<ctl, tasks, daemon, since>>

---------------------------------------------------------------------------
(* The controller.  Each handler computes the controller and what it adds   *)
(* to the active hub's queue.                                               *)

\* Mutant of MayRecover: running tasks are not looked at.
RecoverAnyway(c) == c.pending /\ ~c.inProgress /\ c.cool = 0

\* The guards of maybe_recover_remote_host.
MayRecover(c) == c.pending /\ ~c.inProgress /\ c.cool = 0 /\ ~c.busy

Recovered(c) ==
    IF MayRecover(c) THEN [c EXCEPT !.inProgress = TRUE, !.pending = FALSE] ELSE c
Recovery(c) ==
    IF MayRecover(c) THEN <<[kind |-> "restart", auto |-> TRUE]>> ELSE <<>>

\* maybe_handoff_to_managed_transport.
HandedOff(c) == [c EXCEPT !.handoff = ~hub.managed /\ c.busy]
Handoff(c)   == IF hub.managed \/ c.busy THEN <<>> ELSE <<Command("reconnect")>>

\* remote_recovery_reason.
Unhealthy(c, status) ==
    status # "connected" /\ (status = "disabled" => c.expected)

\* Mutant of Observed: a healthy answer leaves a queued recovery alone.
ObservedStays(c, bad) ==
    IF bad THEN [c EXCEPT !.samples = IF @ < Samples THEN @ + 1 ELSE @,
                          !.pending = @ \/ c.samples + 1 >= Samples]
    ELSE [c EXCEPT !.samples = 0]

\* observe_remote_health up to its call of maybe_recover_remote_host; samples
\* beyond the threshold are all the same.
Observed(c, bad) ==
    IF bad THEN [c EXCEPT !.samples = IF @ < Samples THEN @ + 1 ELSE @,
                          !.pending = @ \/ c.samples + 1 >= Samples]
    ELSE [c EXCEPT !.samples = 0, !.pending = FALSE]

\* RemoteResult and RemoteError of a refresh: whether the host is healthy is
\* decided with the expectation from before the result.
OnStatus(c, s) ==
    LET up  == s \in {"connected", "connecting", "overloaded"}
        bad == Unhealthy(c, s)
        c1  == [c EXCEPT !.expected = @ \/ up, !.remote = s]
        c2  == Observed(IF up /\ ~hub.managed THEN HandedOff(c1) ELSE c1, bad)
        ask == bad /\ c2.samples = Samples
    IN  [ctl   |-> IF ask THEN Recovered(c2) ELSE c2,
         queue |-> (IF up /\ ~hub.managed THEN Handoff(c1) ELSE <<>>)
                   \o (IF ask THEN Recovery(c2) ELSE <<>>)]

\* Mutant of OnRestarted: a failed restart starts no cooldown.
OnRestartedHot(c, r) ==
    [ctl |-> [c EXCEPT !.inProgress = FALSE, !.pending = FALSE,
                       !.samples = IF r = "ok" THEN 0 ELSE @,
                       !.cool = IF r = "ok" THEN Cooldown ELSE @],
     queue |-> IF r = "ok" THEN <<Command("reconnect"), Command("refresh")>> ELSE <<>>]

\* Mutant of OnRestarted: only a success ends the recovery.
OnRestartedStuck(c, r) ==
    [ctl |-> IF r = "ok" THEN [c EXCEPT !.inProgress = FALSE, !.pending = FALSE,
                                        !.samples = 0, !.cool = Cooldown]
             ELSE [c EXCEPT !.cool = Cooldown],
     queue |-> IF r = "ok" THEN <<Command("reconnect"), Command("refresh")>> ELSE <<>>]

\* HostResult and HostError of RemoteRestart.
OnRestarted(c, r) ==
    [ctl |-> [c EXCEPT !.inProgress = FALSE, !.pending = FALSE,
                       !.samples = IF r = "ok" THEN 0 ELSE @, !.cool = Cooldown],
     queue |-> IF r = "ok" THEN <<Command("reconnect"), Command("refresh")>> ELSE <<>>]

\* RemoteResult and RemoteError of Enable and Disable.
OnSwitched(c, kind, r) ==
    IF r = "error" THEN [ctl |-> [c EXCEPT !.remote = "error"], queue |-> <<>>]
    ELSE IF kind = "enable"
    THEN LET c1 == [c EXCEPT !.expected = TRUE, !.remote = "connecting"]
         IN  [ctl |-> HandedOff(c1), queue |-> Handoff(c1)]
    ELSE [ctl |-> [c EXCEPT !.expected = FALSE, !.handoff = FALSE, !.remote = "disabled"],
          queue |-> <<>>]

\* turn/completed: what was put off until no task is busy.  It is the
\* completion of an earlier turn if there is one now.
OnCompleted(c) ==
    LET c1 == [c EXCEPT !.busy = @ /\ turn[hub.profile].at # "none"]
        c2 == Recovered(c1)
    IN  [ctl |-> IF c.handoff THEN HandedOff(c2) ELSE c2,
         queue |-> Recovery(c1) \o (IF c.handoff THEN Handoff(c2) ELSE <<>>)]

\* Ready: the tasks are read again, so the controller knows what runs.
OnReady(c) ==
    [ctl |-> [c EXCEPT !.handoff = @ /\ ~hub.managed,
                       !.busy = turn[hub.profile].at = "managed" \/ Direct(hub.profile, active)],
     queue |-> <<Command("refresh")>>]

Handle ==
    /\ hub.events # <<>>
    /\ LET e == Head(hub.events)
           r == CASE e.kind = "ready"     -> OnReady(ctl)
                  [] e.kind = "completed" -> OnCompleted(ctl)
                  [] e.kind = "refresh"   -> OnStatus(ctl, e.value)
                  [] e.kind = "restart"   -> OnRestarted(ctl, e.value)
                  [] OTHER                -> OnSwitched(ctl, e.kind, e.value)
       IN  /\ Len(hub.queue) + Len(r.queue) <= MaxQueue
           /\ ctl' = r.ctl
           /\ hubs' = [hubs EXCEPT ![active].events = Tail(@), ![active].queue = @ \o r.queue]
           /\ turn' = IF e.kind = "ready" THEN [turn EXCEPT ![hub.profile].known = FALSE] ELSE turn
    /\ UNCHANGED <<tasks, daemon, since>>

Ask(k) == Len(hub.queue) < MaxQueue /\ hubs' = Queue(hubs, Command(k))

\* The Enable, Disable and Restart buttons, each sensitive as rendered.
ClickEnable ==
    /\ ctl.remote \notin {"connected", "overloaded"} /\ Ask("enable")
    /\ ctl' = [ctl EXCEPT !.expected = TRUE, !.remote = "connecting"]
    /\ UNCHANGED <<tasks, daemon, turn, since>>

ClickDisable ==
    /\ ctl.remote # "disabled" /\ Ask("disable")
    /\ UNCHANGED <<ctl, tasks, daemon, turn, since>>

ClickRestart ==
    /\ ~ctl.inProgress /\ Ask("restart")
    /\ ctl' = [ctl EXCEPT !.inProgress = TRUE]
    /\ turn' = [turn EXCEPT ![hub.profile].known = FALSE]
    /\ UNCHANGED <<tasks, daemon, since>>

\* The 30-second timer, or the user.
Refresh == Ask("refresh") /\ UNCHANGED <<ctl, tasks, daemon, turn, since>>

SendTurn ==
    /\ ~ctl.busy /\ turn[hub.profile].at = "none" /\ Ask("turn")
    /\ ctl' = [ctl EXCEPT !.busy = TRUE]
    /\ turn' = [turn EXCEPT ![hub.profile] = [at |-> "queued", hub |-> active, known |-> ~ctl.inProgress]]
    /\ UNCHANGED <<tasks, daemon, since>>

\* activate_account_profile: the old hub is shut down once its queue is done;
\* its receiver goes with it, and the events in it.
SwitchProfile(p) ==
    /\ p # hub.profile /\ active < MaxHubs
    /\ ctl.busy => hub.managed
    /\ hubs' = Append([Queue(hubs, Command("shutdown")) EXCEPT ![active].events = <<>>], Hub(p))
    /\ ctl' = [ctl EXCEPT !.expected = FALSE, !.handoff = FALSE, !.remote = "unknown", !.busy = FALSE]
    /\ UNCHANGED <<tasks, daemon, turn, since>>

---------------------------------------------------------------------------
(* Time.                                                                   *)

Tick ==
    /\ ctl' = [ctl EXCEPT !.cool = IF @ > 0 THEN @ - 1 ELSE 0]
    /\ since' = [p \in Profiles |-> IF since[p] < Cooldown THEN since[p] + 1 ELSE Cooldown]
    /\ <<ctl, since>>' # <<ctl, since>>
    /\ UNCHANGED <<hubs, tasks, daemon, turn>>

---------------------------------------------------------------------------
\* The bounded moves, and the steps that follow from them.
Moves(A, n) == A /\ moves + n <= MaxMoves /\ moves' = moves + n
Steps(A) == A /\ UNCHANGED moves

HubStep == \E i \in DOMAIN hubs : Connect(i) \/ GoStale(i) \/ Take(i) \/ Complete(i)
Spawned == \E t \in tasks : Read(t) \/ Refreshed(t) \/ Act(t)
User    == \/ Refresh \/ ClickEnable \/ ClickDisable \/ ClickRestart \/ SendTurn
           \/ \E p \in Profiles : DaemonChanges(p)
           \/ \E t \in tasks : ActFails(t)

Next ==
    \/ Steps(HubStep) \/ Steps(Spawned) \/ Steps(Handle)
    \/ Steps(Tick) \/ Moves(User, 1)
    \/ \E p \in Profiles : Moves(SwitchProfile(p), 2)
Spec == Init /\ [][Next]_vars

---------------------------------------------------------------------------
(* Properties.                                                             *)

Statuses == {"connected", "connecting", "errored", "overloaded", "disabled", "error"}
Queued(i, k) == \E n \in DOMAIN hubs[i].queue : hubs[i].queue[n].kind = k

\* A restart the hub was asked for, until its answer has been read.
Answering(i) ==
    \/ Queued(i, "restart")
    \/ \E t \in tasks : t.hub = i /\ t.kind = "restart"
    \/ \E n \in DOMAIN hubs[i].events : hubs[i].events[n].kind = "restart"

\* "Automatic recovery is restarting the host now..." (ui/mod.rs:14294): while
\* the page says so a hub has the restart before it, or its answer is unread.
\* Not so once another profile was shown meanwhile.
RecoveryHasAnAnswer ==
    ctl.inProgress /\ ~ctl.pending => \E i \in DOMAIN hubs : Answering(i)

\* A recovery that begins has its answer to come from the hub that is shown,
\* and keeps it through lost connections, daemons that go away and other
\* answers, until it ends or another profile is shown.
RecoveryKeepsItsAnswer ==
    [][/\ active' = active /\ ctl'.inProgress
       /\ ctl.inProgress => Answering(active)
       => Answering(active)']_vars

\* "with a five-minute recovery cooldown" (metainfo:268): two automatic
\* restarts of one host are at least that far apart, the failed ones too.
RestartsSpaced ==
    [][\A t \in tasks \ tasks' : t.auto => since[hubs[t.hub].profile] = Cooldown]_vars

\* A host last seen healthy has no recovery queued, until the user shows
\* another profile: the counts are not kept per profile.
HealthyHostSpared ==
    active = 1 /\ ctl.pending => ctl.remote # "connected"

\* "when every task is idle" (metainfo:267): no restart the controller asked
\* for by itself, and no reconnect, is on its way to kill a turn it has known
\* of since before it asked.  Turns sent while the restart is on its way, and
\* those a lost connection hides for a moment, are killed.
KnownTurnsSpared ==
    /\ \A i \in DOMAIN hubs :
         turn[hubs[i].profile].known =>
           /\ \A t \in tasks : t.hub = i => ~t.auto
           /\ \A n \in DOMAIN hubs[i].queue : ~hubs[i].queue[n].auto
    /\ \A p \in Profiles :
         turn[p].known /\ turn[p].at = "direct" => ~Queued(turn[p].hub, "reconnect")
=============================================================================
