----------------------------- MODULE TurnLedger -----------------------------
(***************************************************************************)
(* What the window writes down about each turn of a task: the route it was *)
(* sent on, the tokens it took, the savings its Buddy helpers reported and *)
(* one sample of the macro experiment (ui/mod.rs, routing.rs, qwen.rs).    *)
(* Its sources are the answer to turn/start and the notifications of the   *)
(* app-server, which may lack a turn's usage, bring it after the turn's    *)
(* end, or be lost with the connection.  The task stays open.              *)
(***************************************************************************)
EXTENDS Integers, Sequences

CONSTANTS
    Models,     \* models of Codex
    First,      \* the one the task starts with
    MaxTurns, MaxCalls, MaxPicks, MaxLosses, MaxStream  \* bounds

Qwen == "qwen"

VARIABLES
    server,    \* external: [turn |-> 0 for none, last, took, reported, settings]
    own,       \* external: the tokens each turn took
    stream,    \* answers and notifications on their way to the window
    asked,     \* turn/start in flight: [state |-> "none", "sent" or "taken", route]
    wired,
    routing,   \* task_routing: [qwen, allow]
    settings,  \* task_runtime_settings of the task
    usage,     \* thread_token_usage, None if unknown
    obs,       \* token_savings_observations of the task
    timers,    \* turns whose 750 ms wait is under way
    records,   \* turn_routes: by turn, with its receipt
    macro,     \* macro_pending_samples: a turn or None; and the samples, by turn
    sent,      \* the route each turn was sent on
    seen,      \* the answers and the ends the window has handled
    bounds

vars == <<server, own, stream, asked, wired, routing, settings, usage, obs, timers, records, macro, sent, seen, bounds>>

None == -1
Turns == 1..MaxTurns

NoRoute == [model |-> "none", automatic |-> FALSE, qwen |-> FALSE]
NotAsked == [state |-> "none", route |-> NoRoute]
NoReceipt == [tokens |-> None, events |-> {None}]
NoRecord == [route |-> NoRoute, receipt |-> NoReceipt]
NoObs == [turn |-> None, before |-> None, latest |-> None, seen |-> FALSE, completed |-> FALSE, events |-> {}]

Init ==
    /\ server = [turn |-> 0, last |-> 0, took |-> 0, reported |-> 0, settings |-> First]
    /\ own = [t \in Turns |-> 0] /\ stream = <<>> /\ asked = NotAsked /\ wired = TRUE
    /\ routing = [qwen |-> FALSE, allow |-> TRUE] /\ settings = First /\ usage = None
    /\ obs = NoObs /\ timers = {}
    /\ records = [t \in Turns |-> NoRecord] /\ macro = [pending |-> None, samples |-> [t \in Turns |-> 0]]
    /\ sent = [t \in Turns |-> NoRoute] /\ seen = [answers |-> {}, ends |-> {}]
    /\ bounds = [picks |-> 0, losses |-> 0]

---------------------------------------------------------------------------
(* The routes.                                                             *)

manual_route(m) == [model |-> m, automatic |-> FALSE, qwen |-> FALSE]

qwen_assist_route == [model |-> Qwen, automatic |-> TRUE, qwen |-> TRUE]

enforce_subagent_policy(route, allow) ==
    IF allow THEN route ELSE [route EXCEPT !.automatic = FALSE, !.qwen = FALSE]

start_turn_route ==
    enforce_subagent_policy(IF routing.allow /\ routing.qwen THEN qwen_assist_route ELSE manual_route(settings),
                            routing.allow)

---------------------------------------------------------------------------
(* The app-server (external).                                              *)

WindowSame == UNCHANGED <<wired, routing, settings, usage, obs, timers, records, macro, seen, bounds>>

Notify(events) ==
    /\ Len(stream) < MaxStream
    /\ stream' = IF wired THEN stream \o events ELSE stream

\* A turn starts when what the one before took has been reported.
Begin(route) ==
    LET t == server.last + 1 IN
      /\ server.turn = 0 /\ server.last < MaxTurns /\ server.reported = server.took
      /\ server' = [turn |-> t, last |-> t, took |-> server.took, reported |-> server.reported,
                    settings |-> server.settings]
      /\ sent' = [sent EXCEPT ![t] = route]

TakeSend ==
    /\ wired /\ asked.state = "sent"
    /\ Begin(asked.route)
    /\ LET answer == [kind |-> "answer", turn |-> server.last + 1, route |-> asked.route]
           start == [kind |-> "started", turn |-> server.last + 1] IN
         \/ Notify(<<answer, start>>)
         \/ Notify(<<start, answer>>)
    /\ asked' = [asked EXCEPT !.state = "taken"]
    /\ UNCHANGED own /\ WindowSame

StartElsewhere ==
    /\ Begin(manual_route(server.settings))
    /\ Notify(<<[kind |-> "started", turn |-> server.last + 1]>>)
    /\ UNCHANGED <<own, asked>> /\ WindowSame

Call ==
    /\ server.turn > 0 /\ own[server.turn] < MaxCalls
    /\ own' = [own EXCEPT ![server.turn] = @ + 1]
    /\ server' = [server EXCEPT !.took = @ + 1]
    /\ UNCHANGED <<stream, asked, sent>> /\ WindowSame

Report ==
    /\ server.reported < server.took
    /\ server' = [server EXCEPT !.reported = server.took]
    /\ Notify(<<[kind |-> "usage", total |-> server.took]>>)
    /\ UNCHANGED <<own, asked, sent>> /\ WindowSame

\* A Buddy helper's work: at most one event a turn, named by the turn.
Help ==
    /\ server.turn > 0 /\ sent[server.turn].qwen
    /\ ~\E i \in DOMAIN stream : stream[i] = [kind |-> "item", turn |-> server.turn]
    /\ Notify(<<[kind |-> "item", turn |-> server.turn]>>)
    /\ UNCHANGED <<server, own, asked, sent>> /\ WindowSame

\* The end may name the tokens and the items of the turn.
EndTurn ==
    /\ server.turn > 0
    /\ \E direct \in BOOLEAN, items \in {{}, {server.turn}} :
         /\ items # {} => sent[server.turn].qwen
         /\ Notify(<<[kind |-> "completed", turn |-> server.turn, items |-> items,
                      tokens |-> IF direct THEN own[server.turn] ELSE None]>>)
    /\ server' = [server EXCEPT !.turn = 0]
    /\ UNCHANGED <<own, asked, sent>> /\ WindowSame

ChangeSettings ==
    /\ bounds.picks < MaxPicks
    /\ \E m \in Models \ {server.settings} :
         /\ server' = [server EXCEPT !.settings = m]
         /\ Notify(<<[kind |-> "settings", model |-> m]>>)
    /\ bounds' = [bounds EXCEPT !.picks = @ + 1]
    /\ UNCHANGED <<own, asked, wired, routing, settings, usage, obs, timers, records, macro, sent, seen>>

DeleteTask ==
    /\ server.turn = 0
    /\ server' = [server EXCEPT !.turn = None]
    /\ Notify(<<[kind |-> "deleted"]>>)
    /\ UNCHANGED <<own, asked, sent>> /\ WindowSame

---------------------------------------------------------------------------
(* The user.                                                               *)

ServerSame == UNCHANGED <<server, own, sent>>

start_turn ==
    /\ wired /\ asked.state = "none"
    /\ asked' = [state |-> "sent", route |-> start_turn_route]
    /\ ServerSame /\ UNCHANGED stream /\ WindowSame

Pick(change) ==
    /\ bounds.picks < MaxPicks
    /\ change
    /\ bounds' = [bounds EXCEPT !.picks = @ + 1]
    /\ UNCHANGED <<own, asked, wired, usage, obs, timers, records, macro, sent, seen>>

set_active_task_subagents_enabled ==
    Pick(/\ routing' = [routing EXCEPT !.allow = ~@]
         /\ UNCHANGED <<server, stream, settings>>)

\* The local helper is a mode of the task, under its orchestrating model.  The
\* request for the server to take the settings is answered with a notification.
update_task_settings_from_controls ==
    \E m \in Models \cup {Qwen} :
      LET model == IF m = Qwen THEN First ELSE m IN
        Pick(/\ routing' = [routing EXCEPT !.qwen = (m = Qwen)]
             /\ settings' = model
             /\ server' = IF wired THEN [server EXCEPT !.settings = model] ELSE server
             /\ Notify(<<[kind |-> "settings", model |-> model]>>))

---------------------------------------------------------------------------
(* What the window keeps.                                                  *)

\* A plausible slip, for the checks: what a turn started with is kept.
KnownKept(recs, t, route) ==
    IF recs[t].route # NoRoute THEN recs ELSE [recs EXCEPT ![t] = [route |-> route, receipt |-> NoReceipt]]

record_turn(recs, t, route) == [recs EXCEPT ![t] = [route |-> route, receipt |-> NoReceipt]]

Keep(o, recs, m) == obs' = o /\ records' = recs /\ macro' = m

cumulative_turn_delta(o) ==
    IF o.latest = None \/ o.before = None \/ o.latest < o.before THEN None ELSE o.latest - o.before

\* store_token_savings_receipt: the records, and the observation it leaves.
Receipted(o, recs, t, tokens) ==
    LET events == IF o.turn = t THEN o.events ELSE {}
        route == enforce_subagent_policy(
                     IF recs[t].route # NoRoute THEN recs[t].route ELSE manual_route(settings), routing.allow)
    IN  [recs EXCEPT ![t] = [route |-> route, receipt |-> [tokens |-> tokens, events |-> events]]]

Left(o, t) == IF o.turn = t THEN NoObs ELSE o

Sampled(m, t) == [m EXCEPT !.samples[t] = @ + 1]

Flushed(m) == IF m.pending = None THEN m ELSE [Sampled(m, m.pending) EXCEPT !.pending = None]

OnAnswer(e) ==
    /\ Keep(obs, record_turn(records, e.turn, e.route), macro)
    /\ asked' = NotAsked
    /\ seen' = [seen EXCEPT !.answers = @ \cup {e.turn}]
    /\ UNCHANGED <<settings, usage, timers>>

\* A plausible slip, for the checks: the next turn's start drops the last one's.
StaleDropped(o, recs) == recs

\* An observation left completed had no usage: its turn gets a receipt without.
StaleReceipted(o, recs) == IF o.completed THEN Receipted(o, recs, o.turn, None) ELSE recs

OnStarted(e) ==
    LET known == IF records[e.turn].route # NoRoute THEN records
                 ELSE record_turn(records, e.turn, manual_route(settings))
    IN  /\ Keep([turn |-> e.turn, before |-> usage, latest |-> usage, seen |-> FALSE, completed |-> FALSE, events |-> {}],
                StaleReceipted(obs, known), Flushed(macro))
        /\ UNCHANGED <<asked, settings, usage, timers, seen>>

OnItem(e) ==
    /\ Keep(IF obs = NoObs THEN obs ELSE [obs EXCEPT !.events = @ \cup {e.turn}], records, macro)
    /\ UNCHANGED <<asked, settings, usage, timers, seen>>

OnUsage(e) ==
    LET heard == [turn |-> obs.turn, before |-> obs.before, latest |-> e.total, seen |-> TRUE,
                  completed |-> obs.completed, events |-> obs.events]
        o == IF obs = NoObs THEN obs ELSE heard
        done == o.completed
    IN  /\ usage' = e.total
        /\ Keep(IF done THEN Left(o, o.turn) ELSE o,
                IF done THEN Receipted(o, records, o.turn, cumulative_turn_delta(o)) ELSE records,
                Flushed(macro))
        /\ UNCHANGED <<asked, settings, timers, seen>>

OnCompleted(e) ==
    LET o == [turn |-> e.turn, before |-> obs.before, latest |-> obs.latest, seen |-> obs.seen,
              completed |-> TRUE, events |-> obs.events \cup e.items]
        ready == e.tokens # None \/ o.seen
        tokens == IF e.tokens # None THEN e.tokens ELSE cumulative_turn_delta(o)
    IN  /\ Keep(IF ready THEN Left(o, e.turn) ELSE o,
                IF ready THEN Receipted(o, records, e.turn, tokens) ELSE records,
                IF e.tokens # None THEN Sampled(macro, e.turn) ELSE [macro EXCEPT !.pending = e.turn])
        /\ timers' = IF ready THEN timers ELSE timers \cup {e.turn}
        /\ seen' = [seen EXCEPT !.ends = @ \cup {e.turn}]
        /\ UNCHANGED <<asked, settings, usage>>

OnSettings(e) ==
    /\ settings' = e.model
    /\ UNCHANGED <<asked, usage, obs, timers, records, macro, seen>>

OnDeleted ==
    /\ Keep(NoObs, [t \in Turns |-> NoRecord], [macro EXCEPT !.pending = None])
    /\ seen' = [answers |-> {}, ends |-> {}]
    /\ UNCHANGED <<asked, settings, usage, timers>>

Receive ==
    /\ stream # <<>>
    /\ stream' = Tail(stream)
    /\ LET e == Head(stream) IN
         \/ e.kind = "answer" /\ OnAnswer(e)
         \/ e.kind = "started" /\ OnStarted(e)
         \/ e.kind = "item" /\ OnItem(e)
         \/ e.kind = "usage" /\ OnUsage(e)
         \/ e.kind = "completed" /\ OnCompleted(e)
         \/ e.kind = "settings" /\ OnSettings(e)
         \/ e.kind = "deleted" /\ OnDeleted
    /\ ServerSame /\ UNCHANGED <<wired, routing, bounds>>

\* The 750 ms a receipt waits for the usage of its turn.
Wait ==
    \E t \in timers :
      /\ timers' = timers \ {t}
      /\ IF obs.completed /\ obs.turn = t
         THEN Keep(NoObs, Receipted(obs, records, t, None), macro)
         ELSE Keep(obs, records, macro)
      /\ ServerSame /\ UNCHANGED <<stream, asked, wired, routing, settings, usage, seen, bounds>>

\* A lost connection takes the stream and the answer along.  The next comes
\* after a second at the least, when no wait of 750 ms is left.
Disconnect ==
    /\ wired /\ bounds.losses < MaxLosses
    /\ bounds' = [bounds EXCEPT !.losses = @ + 1]
    /\ wired' = FALSE /\ stream' = <<>> /\ asked' = NotAsked
    /\ ServerSame /\ UNCHANGED <<routing, settings, usage, obs, timers, records, macro, seen>>

Connect ==
    /\ ~wired /\ timers = {}
    /\ wired' = TRUE
    /\ ServerSame /\ UNCHANGED <<stream, asked, routing, settings, usage, obs, timers, records, macro, seen, bounds>>

Next ==
    \/ TakeSend \/ StartElsewhere \/ Call \/ Report \/ Help \/ EndTurn \/ ChangeSettings \/ DeleteTask
    \/ start_turn \/ set_active_task_subagents_enabled \/ update_task_settings_from_controls
    \/ Receive \/ Wait \/ Disconnect \/ Connect

Spec == Init /\ [][Next]_vars

---------------------------------------------------------------------------
(* Properties.                                                             *)

\* Every turn whose end the window saw has its receipt, or the wait for its
\* usage is under way; it is sampled at most once, and exactly once when no
\* connection was lost (observe_token_savings, observe_macro_experiment).
EndsAccounted ==
    \A t \in seen.ends :
      LET samples == macro.samples[t] + (IF macro.pending = t THEN 1 ELSE 0) IN
        /\ records[t].receipt # NoReceipt \/ (t \in timers /\ obs.turn = t /\ obs.completed)
        /\ samples <= 1
        /\ bounds.losses = 0 => samples = 1

\* A turn's record names the route the turn was sent on, less its helper once
\* the user forbids them; while no connection is lost, its receipt counts no
\* tokens and no helper of another turn (store_token_savings_receipt).
LedgerTrue ==
    /\ \A t \in seen.answers :
         records[t].route \in {sent[t], enforce_subagent_policy(sent[t], FALSE)}
    /\ bounds.losses = 0 =>
         \A t \in Turns :
           LET receipt == records[t].receipt IN
             receipt = NoReceipt \/ (receipt.tokens <= own[t] /\ receipt.events \subseteq {t})

=============================================================================
