--------------------------- MODULE ClientSession ---------------------------
(***************************************************************************)
(* One desktop session: the GTK controller (ui/mod.rs), the AppServerHub   *)
(* that supervises its transport (backend.rs) and the Codex app-server     *)
(* behind it (external).                                                   *)
(*                                                                         *)
(* Controller and hub share nothing but two FIFO channels, `cmds` down and *)
(* `evq` up, so the controller always acts on a picture of the connection  *)
(* that may be one or more connections old.  The module keeps every guard, *)
(* early return and request of the task-session handlers: opening,         *)
(* resuming, starting, forking, sending, releasing tasks, and moving to    *)
(* the managed transport.                                                  *)
(*                                                                         *)
(* Left out: transcripts, settings, and account, goal and catalogue reads, *)
(* none of which touch this state; sends to a task already running (they   *)
(* are steers); overflow of the channels.                                  *)
(***************************************************************************)
EXTENDS Naturals, Sequences, FiniteSets

CONSTANTS
    Threads,            \* every task that can ever exist
    Existing,           \* the tasks that exist when the client starts
    NoThread,           \* active_thread_id = None
    Prompts,            \* messages the user types, each once
    Stamps,             \* fresh numbers for JSON-RPC ids
    Modes,              \* transports the machine offers
    Troubles,           \* what the environment does besides losing connections
    MaxLosses,          \* bound on lost connections and failed handshakes
    MaxReconnects,      \* bound on commanded reconnects
    MaxQueued,          \* bound on each channel
    Slack               \* stamps the user's steps leave to the handlers

ASSUME ThreadAssumption == Existing \subseteq Threads /\ NoThread \notin Threads
ASSUME ModeAssumption == Modes \subseteq {"direct", "managed"} /\ Modes # {}
ASSUME TroubleAssumption ==
    Troubles \subseteq {"refusals", "oversized frames", "other clients", "host restarts"}
ASSUME StampAssumption == Stamps # {}
ASSUME BoundAssumption == {MaxLosses, MaxReconnects, MaxQueued, Slack} \subseteq Nat

VARIABLES
    ui,         \* the controller's AppState, as far as it matters here
    cmds,       \* the hub's command channel: what each handler issued
    evq,        \* the hub's event channel
    phase,      \* the supervisor: "idle" between transports, "init", "up"
    mode,       \* the transport it uses or tried last
    wire,       \* requests written to this connection and not answered
    subs,       \* tasks the server streams to this connection
    existing,   \* tasks the server knows
    turns,      \* tasks with a turn running on the server
    delivered,  \* how many turns each prompt has started
    losses, reconnects  \* so far

hubVars    == <<phase, mode, losses>>
serverVars == <<wire, subs, existing, turns, delivered>>
vars       == <<ui, cmds, evq, hubVars, serverVars, reconnects>>

\* A request is told from every other in flight by its stamp: one handler
\* issues at most one request of a kind about a thread.
Kinds   == {"open", "resume", "start", "fork", "send", "unsub"}
Request == [n : Stamps, kind : Kinds, thread : Threads \cup {NoThread}, text : SUBSET Prompts]
Batch   == [op : {"send"}, reqs : SUBSET Request] \cup [op : {"reconnect"}]
Event   ==
    [kind : {"connecting", "ready", "disconnected", "oversized"}]
      \cup [kind : {"ok", "error", "malformed"}, req : Request, thread : Threads \cup {NoThread}]
      \cup [kind : {"started", "completed"}, thread : Threads]
Controller ==
    [conn : {"Connecting", "Ready", "Disconnected"}, active : Threads \cup {NoThread},
     resumed : SUBSET Threads, pending : SUBSET Request, running : SUBSET Threads,
     composer : SUBSET Prompts, typed : SUBSET Prompts, handoff : BOOLEAN,
     listed : BOOLEAN]

ReconnectCommand == [op |-> "reconnect"]
Answer(k, r, t)  == [kind |-> k, req |-> r, thread |-> t]
AnswerKinds      == {"ok", "error", "malformed"}

Queued   == UNION {cmds[i].reqs : i \in {j \in DOMAIN cmds : cmds[j].op = "send"}}
Written  == {wire[i] : i \in DOMAIN wire}
Answered == {evq[i].req : i \in {j \in DOMAIN evq : evq[j].kind \in AnswerKinds}}
Fresh    == Stamps \ {r.n : r \in ui.pending \cup Queued \cup Written \cup Answered}

Init ==
    /\ ui = [conn |-> "Connecting", active |-> NoThread, resumed |-> {}, pending |-> {},
             running |-> {}, composer |-> {}, typed |-> {}, handoff |-> FALSE,
             listed |-> FALSE]
    /\ cmds = <<>> /\ evq = <<>>
    /\ phase = "idle" /\ mode = "direct"
    /\ wire = <<>> /\ subs = {} /\ existing = Existing /\ turns = {}
    /\ delivered = [p \in Prompts |-> 0]
    /\ losses = 0 /\ reconnects = 0

---------------------------------------------------------------------------
(* The controller's helpers, on a pair s of a controller state s.u and the *)
(* commands s.o the handler has issued so far.                             *)

\* Controller::request for each <<kind, thread, text>> of Q, in no
\* particular order: hub.request, then pending.insert.
Ask(s, Q) ==
    LET n    == CHOOSE i \in Stamps : i \in Fresh \/ Fresh = {}
        reqs == {[n |-> n, kind |-> q[1], thread |-> q[2], text |-> q[3]] : q \in Q}
    IN  IF Q = {} THEN s
        ELSE [u |-> [s.u EXCEPT !.pending = @ \cup reqs],
              o |-> Append(s.o, [op |-> "send", reqs |-> reqs])]

\* open_thread_live; a task already resumed only has its summary read.
OpenLive(s, t) ==
    Ask(s, {q \in {<<"open", t, {}>>} :
              /\ t \notin s.u.resumed
              /\ \A r \in s.u.pending : ~(r.kind = "open" /\ r.thread = t)})

\* pending_targets_thread, idle_resumed_thread_ids, unsubscribe_idle_threads.
Targets(r, t) == r.thread = t /\ r.kind \in {"open", "unsub", "resume", "send"}
IdleResumed(u) == {t \in u.resumed : /\ t # u.active /\ t \notin u.running
                                     /\ \A r \in u.pending : ~Targets(r, t)}
UnsubscribeIdle(s) ==
    Ask(s, {<<"unsub", t, {}>> : t \in {x \in IdleResumed(s.u) : s.u.conn = "Ready"}})

StartTurn(s, t, text) == Ask(s, {<<"send", t, text>>})

\* Mutant of Busy: a message under way does not count.
BusyIgnoringSends(u) == u.running # {} \/ \E r \in u.pending : r.kind = "open"

\* remote_transition_is_busy and maybe_handoff_to_managed_transport.
Busy(u) == \/ u.running # {}
           \/ \E r \in u.pending : r.kind \in {"open", "resume", "start", "send"}
Handoff(s) ==
    IF mode = "managed" THEN [s EXCEPT !.u.handoff = FALSE]
    ELSE IF Busy(s.u) THEN [s EXCEPT !.u.handoff = TRUE]
    ELSE [u |-> [s.u EXCEPT !.handoff = FALSE], o |-> Append(s.o, ReconnectCommand)]

Here(u) == [u |-> u, o |-> <<>>]
Asks(o) == \E i \in DOMAIN o : o[i].op = "send"
Reconnects(o) == Cardinality({i \in DOMAIN o : o[i] = ReconnectCommand})

\* A handler that ends in s has made s.u its state and queued s.o.
Ends(s) ==
    /\ Asks(s.o) => Fresh # {}
    /\ reconnects + Reconnects(s.o) <= MaxReconnects
    /\ ui' = s.u
    /\ cmds' = cmds \o s.o
    /\ reconnects' = reconnects + Reconnects(s.o)
    /\ UNCHANGED <<hubVars, serverVars>>

---------------------------------------------------------------------------
(* What the user and the machine's Remote host do to the controller.       *)

\* The bounds leave the handlers of what is under way room to finish.
UserStep(s) ==
    /\ Asks(s.o) => Cardinality(Fresh) > Slack /\ Len(cmds) < MaxQueued
    /\ Ends(s)
    /\ UNCHANGED evq

Type(p) ==
    /\ p \notin ui.typed
    /\ UserStep(Here([ui EXCEPT !.composer = @ \cup {p}, !.typed = @ \cup {p}]))

\* open_timeline_thread, once the first Ready has had the tasks listed.
OpenTask(t) ==
    /\ ui.listed /\ t \in existing
    /\ UserStep(OpenLive(UnsubscribeIdle(Here([ui EXCEPT !.active = t])), t))

NewTask ==
    UserStep(UnsubscribeIdle(Here([ui EXCEPT !.active = NoThread, !.composer = {}])))

\* send_composer, for a task with no turn to steer.
SendComposer ==
    /\ ui.conn = "Ready" /\ ui.composer # {} /\ ui.active \notin ui.running
    /\ \A r \in ui.pending : r.kind \notin {"start", "resume", "send", "unsub"}
    /\ LET s == Here([ui EXCEPT !.composer = {}])
           t == ui.active
       IN  UserStep(CASE t = NoThread     -> Ask(s, {<<"start", NoThread, ui.composer>>})
                      [] t \in ui.resumed -> StartTurn(s, t, ui.composer)
                      [] OTHER            -> Ask(s, {<<"resume", t, ui.composer>>}))

ForkThread ==
    /\ ui.active # NoThread
    /\ UserStep(Ask(Here(ui), {<<"fork", ui.active, {}>>}))

\* handle_remote_result: Remote is on, and the session may still be direct.
RemoteActive == UserStep(Handoff(Here(ui)))

\* A restart of the Remote host reconnects, whatever is running.
RemoteRestarted ==
    /\ "host restarts" \in Troubles
    /\ UserStep([u |-> ui, o |-> <<ReconnectCommand>>])

---------------------------------------------------------------------------
(* handle_backend_event, one event each.                                   *)

Receive(kind) == evq # <<>> /\ Head(evq).kind = kind /\ evq' = Tail(evq)

OnConnecting ==
    /\ Receive("connecting")
    /\ Ends(Here([ui EXCEPT !.conn = "Connecting"]))

OnReady ==
    /\ Receive("ready")
    /\ LET s == Here([ui EXCEPT !.conn = "Ready", !.listed = TRUE,
                                !.handoff = @ /\ mode # "managed"])
       IN  Ends(IF ui.active = NoThread THEN s ELSE OpenLive(s, ui.active))

\* Mutants of OnDisconnected: resumed_threads, then pending, survives it; the
\* messages under way go back to the composer.
Disconnect(u) == Receive("disconnected") /\ Ends(Here([u EXCEPT !.conn = "Disconnected"]))
OnDisconnectedStillResumed == Disconnect([ui EXCEPT !.pending = {}])
OnDisconnectedStillPending == Disconnect([ui EXCEPT !.resumed = {}])
OnDisconnectedRestoring ==
    Disconnect([ui EXCEPT !.pending = {}, !.resumed = {},
                          !.composer = @ \cup UNION {r.text : r \in ui.pending}])

OnDisconnected ==
    /\ Receive("disconnected")
    /\ Ends(Here([ui EXCEPT !.conn = "Disconnected", !.pending = {}, !.resumed = {}]))

\* Forgets history pages only, none of the requests of this module.
OnOversized == Receive("oversized") /\ Ends(Here(ui))

OnStarted ==
    /\ Receive("started")
    /\ Ends(Here([ui EXCEPT !.running = @ \cup {Head(evq).thread}]))

OnCompleted ==
    /\ Receive("completed")
    /\ LET t  == Head(evq).thread
           s0 == Here([ui EXCEPT !.running = @ \ {t}])
           s1 == IF ui.handoff THEN Handoff(s0) ELSE s0
       IN  Ends(IF ui.active = t THEN s1 ELSE UnsubscribeIdle(s1))

\* handle_response: the pending entry goes first; an answer nobody waits for
\* is dropped.
Answering(kinds, answer) ==
    /\ evq # <<>> /\ Head(evq).kind \in AnswerKinds
    /\ Head(evq).kind = answer
    /\ Head(evq).req \in ui.pending /\ Head(evq).req.kind \in kinds
    /\ evq' = Tail(evq)

Settle(r) == [ui EXCEPT !.pending = @ \ {r}]

OnUnknown ==
    /\ evq # <<>> /\ Head(evq).kind \in AnswerKinds
    /\ Head(evq).req \notin ui.pending
    /\ evq' = Tail(evq)
    /\ Ends(Here(ui))

OnOpened ==
    /\ Answering({"open"}, "ok")
    /\ LET r == Head(evq).req
           s == Here([Settle(r) EXCEPT !.resumed = @ \cup {r.thread}])
       IN  Ends(IF ui.active = r.thread THEN s ELSE UnsubscribeIdle(s))

OnResumed ==
    /\ Answering({"resume"}, "ok")
    /\ LET r == Head(evq).req
       IN  Ends(StartTurn(Here([Settle(r) EXCEPT !.resumed = @ \cup {r.thread}]),
                          r.thread, r.text))

\* Mutant of OnTaskStarted: the task of the request, not of its answer.
OnTaskStartedAsAsked ==
    /\ Answering({"start"}, "ok")
    /\ LET r == Head(evq).req
       IN  Ends(StartTurn(Here([Settle(r) EXCEPT !.resumed = @ \cup {r.thread}]), r.thread, r.text))

OnTaskStarted ==
    /\ Answering({"start"}, "ok")
    /\ LET r == Head(evq).req
           t == Head(evq).thread
           s == Here([Settle(r) EXCEPT !.active = t, !.resumed = @ \cup {t}])
       IN  Ends(StartTurn(UnsubscribeIdle(s), t, r.text))

OnForked ==
    /\ Answering({"fork"}, "ok")
    /\ LET t == Head(evq).thread
       IN  Ends(Here([Settle(Head(evq).req) EXCEPT !.active = t, !.resumed = @ \cup {t}]))

OnSent ==
    /\ Answering({"send"}, "ok")
    /\ LET r == Head(evq).req
       IN  Ends(Here([Settle(r) EXCEPT !.running = @ \cup {r.thread}]))

\* Mutant of OnUnsubscribed: a task opened again meanwhile is not resumed.
OnUnsubscribedForgetful ==
    /\ Answering({"unsub"}, "ok")
    /\ Ends(Here([Settle(Head(evq).req) EXCEPT !.resumed = @ \ {Head(evq).req.thread}]))

\* An unsubscribe that arrives while its task was opened again resumes it.
OnUnsubscribed ==
    /\ Answering({"unsub"}, "ok") \/ Answering({"unsub"}, "error")
    /\ LET r == Head(evq).req
           s == Here([Settle(r) EXCEPT !.resumed = @ \ {r.thread}])
       IN  Ends(IF ui.active = r.thread THEN OpenLive(s, r.thread) ELSE s)

\* A refused message goes back to the composer.
OnRestored ==
    /\ Answering({"resume", "start", "send"}, "error") \/ Answering({"resume"}, "malformed")
    /\ LET r == Head(evq).req
       IN  Ends(Here([Settle(r) EXCEPT !.composer = @ \cup r.text]))

OnGivenUp ==
    /\ Answering({"open", "fork"}, "error") \/ Answering({"open", "fork", "start"}, "malformed")
    /\ Ends(Here(Settle(Head(evq).req)))

---------------------------------------------------------------------------
(* The hub: supervise, run_direct_transport, run_managed_transport.        *)

Emits(es) == Len(evq \o es) <= MaxQueued /\ evq' = evq \o es

\* Only a daemon it was already using has turns running.
Connect ==
    /\ phase = "idle"
    /\ mode' \in Modes
    /\ phase' = "init"
    /\ turns' = IF mode' = mode THEN turns ELSE {}
    /\ Emits(<<[kind |-> "connecting"]>>)
    /\ UNCHANGED <<ui, cmds, losses, wire, subs, existing, delivered, reconnects>>

InitOk ==
    /\ phase = "init"
    /\ phase' = "up"
    /\ Emits(<<[kind |-> "ready"]>>)
    /\ UNCHANGED <<ui, cmds, mode, losses, serverVars, reconnects>>

\* What a lost connection takes with it.  A managed daemon lives on and may
\* still execute the messages it had read; a direct app-server is a child.
Hangup ==
    /\ phase' = "idle"
    /\ wire' = <<>> /\ subs' = {}
    /\ IF mode = "managed"
       THEN \E S \in SUBSET {r \in Written : r.kind = "send"} :
              /\ turns' = turns \cup {r.thread : r \in S}
              /\ delivered' = [p \in Prompts |->
                   delivered[p] + Cardinality({r \in S : p \in r.text})]
       ELSE turns' = {} /\ UNCHANGED delivered
    /\ UNCHANGED <<ui, mode, existing, reconnects>>

Lost ==
    /\ phase \in {"init", "up"} /\ losses < MaxLosses
    /\ losses' = losses + 1
    /\ Hangup
    /\ Emits(<<[kind |-> "disconnected"]>>)
    /\ UNCHANGED cmds

\* The next command of the channel is r, or a reconnect.  The commands of one
\* batch are about different tasks.  A managed handshake reads no command; a
\* direct one reads and drops requests.
Dequeue(r) ==
    /\ cmds # <<>> /\ Head(cmds).op = "send" /\ r \in Head(cmds).reqs
    /\ cmds' = IF Head(cmds).reqs = {r} THEN Tail(cmds)
               ELSE [cmds EXCEPT ![1].reqs = @ \ {r}]

WriteRequest ==
    /\ phase = "up"
    /\ \E r \in Queued : Dequeue(r) /\ wire' = Append(wire, r)
    /\ UNCHANGED <<ui, evq, hubVars, subs, existing, turns, delivered, reconnects>>

DropRequest ==
    /\ phase = "init" /\ mode = "direct"
    /\ \E r \in Queued : Dequeue(r)
    /\ UNCHANGED <<ui, evq, hubVars, serverVars, reconnects>>

\* ConnectionExit::Reconnect: the supervisor loops without Disconnected.
Reconnect ==
    /\ phase = "up" \/ (phase = "init" /\ mode = "direct")
    /\ cmds # <<>> /\ Head(cmds) = ReconnectCommand
    /\ cmds' = Tail(cmds)
    /\ Hangup
    /\ UNCHANGED <<evq, losses>>

---------------------------------------------------------------------------
(* The app-server: external.  Requests about one task run in order.        *)

\* r leaves the wire; its effect on the subscriptions and turns is E.
Serve(r, answer, E) ==
    /\ phase = "up"
    /\ \E i \in DOMAIN wire :
         /\ wire[i] = r
         /\ \A j \in 1..(i - 1) : wire[j].thread # r.thread
         /\ wire' = SubSeq(wire, 1, i - 1) \o SubSeq(wire, i + 1, Len(wire))
    /\ Emits(answer)
    /\ E
    /\ UNCHANGED <<ui, cmds, hubVars, reconnects>>

Subscribed(t) ==
    /\ existing' = existing \cup {t} /\ subs' = subs \cup {t}
    /\ UNCHANGED <<turns, delivered>>

ServeTask ==
    \E r \in Written, t \in Threads :
      /\ \/ r.kind \in {"open", "resume"} /\ t = r.thread
         \/ r.kind \in {"start", "fork"} /\ t \notin existing
      /\ \/ Serve(r, <<Answer("ok", r, t)>>, Subscribed(t))
         \/ /\ "oversized frames" \in Troubles /\ mode = "managed"
            /\ Serve(r, <<[kind |-> "oversized"]>>, Subscribed(t))

ServeSend ==
    \E r \in Written :
      /\ r.kind = "send"
      /\ Serve(r, <<Answer("ok", r, r.thread)>>
                    \o (IF r.thread \in subs THEN <<[kind |-> "started", thread |-> r.thread]>>
                        ELSE <<>>),
               /\ turns' = turns \cup {r.thread}
               /\ delivered' = [p \in Prompts |-> delivered[p] + IF p \in r.text THEN 1 ELSE 0]
               /\ UNCHANGED <<subs, existing>>)

ServeUnsubscribe ==
    \E r \in Written :
      /\ r.kind = "unsub"
      /\ Serve(r, <<Answer("ok", r, r.thread)>>,
               subs' = subs \ {r.thread} /\ UNCHANGED <<existing, turns, delivered>>)

\* A refused request, or an answer without a usable task, changes nothing.
\* The bound on tasks shows as a refusal to make another.
Refuse ==
    \E r \in Written, answer \in {"error", "malformed"} :
      /\ \/ "refusals" \in Troubles
         \/ r.kind \in {"start", "fork"} /\ existing = Threads /\ answer = "error"
      /\ answer = "malformed" => r.kind \in {"open", "resume", "start", "fork"}
      /\ Serve(r, <<Answer(answer, r, r.thread)>>,
               UNCHANGED <<subs, existing, turns, delivered>>)

\* Another client of the daemon starts a turn; any turn ends.
Notify(kind, t) ==
    /\ IF t \in subs THEN Emits(<<[kind |-> kind, thread |-> t]>>) ELSE UNCHANGED evq
    /\ UNCHANGED <<ui, cmds, hubVars, wire, subs, existing, delivered, reconnects>>

RemoteTurn ==
    \E t \in existing \ turns :
      /\ "other clients" \in Troubles /\ mode = "managed"
      /\ turns' = turns \cup {t}
      /\ Notify("started", t)

EndTurn ==
    \E t \in turns : turns' = turns \ {t} /\ Notify("completed", t)

---------------------------------------------------------------------------
User ==
    \/ \E p \in Prompts : Type(p)
    \/ \E t \in Threads : OpenTask(t)
    \/ NewTask \/ SendComposer \/ ForkThread \/ RemoteActive \/ RemoteRestarted

Handle ==
    \/ OnConnecting \/ OnReady \/ OnDisconnected \/ OnOversized \/ OnStarted \/ OnCompleted
    \/ OnUnknown \/ OnOpened \/ OnResumed \/ OnTaskStarted \/ OnForked \/ OnSent
    \/ OnUnsubscribed \/ OnRestored \/ OnGivenUp

Hub    == Connect \/ InitOk \/ Lost \/ WriteRequest \/ DropRequest \/ Reconnect
Server == ServeTask \/ ServeSend \/ ServeUnsubscribe \/ Refuse \/ RemoteTurn \/ EndTurn

Next == User \/ Handle \/ Hub \/ Server

Spec == Init /\ [][Next]_vars

\* poll_backend runs on a timer; the supervisor retries for ever, and the
\* bound on lost connections lets the last one stand; the server answers.
Fairness ==
    /\ WF_vars(Handle)
    /\ WF_vars(Connect) /\ SF_vars(InitOk)
    /\ WF_vars(WriteRequest) /\ WF_vars(DropRequest) /\ WF_vars(Reconnect)
    /\ WF_vars(ServeTask) /\ WF_vars(Refuse) /\ WF_vars(ServeSend) /\ WF_vars(ServeUnsubscribe)
    /\ WF_vars(EndTurn)

FairSpec == Spec /\ Fairness

---------------------------------------------------------------------------
(* Properties.                                                             *)

\* Every variable has its type; a handler never produces a record the next
\* one cannot read.
TypeOK ==
    /\ ui \in Controller
    /\ cmds \in Seq(Batch)
    /\ evq \in Seq(Event)
    /\ phase \in {"idle", "init", "up"} /\ mode \in {"direct", "managed"}
    /\ wire \in Seq(Request)
    /\ subs \in SUBSET Threads /\ existing \in SUBSET Threads /\ turns \in SUBSET Threads
    /\ delivered \in [Prompts -> Nat]
    /\ losses \in Nat /\ reconnects \in Nat

Undrained(kind) == \E i \in DOMAIN evq : evq[i].kind = kind

\* resumed_threads ("threads resumed or started on the current app-server
\* connection", model.rs:268): once the controller has seen everything the
\* hub said, every task in it is one the server streams to THIS connection,
\* or is about to learn that it was released.
ResumedIsLive ==
    phase = "up" /\ ui.conn = "Ready" /\ ~Undrained("ready") /\ ~Undrained("disconnected") =>
      \A t \in ui.resumed \ subs :
        \E r \in Answered : r.kind = "unsub" /\ r.thread = t

\* "Responses from the dead transport cannot arrive.  Retaining these entries
\* permanently blocks sends" (ui/mod.rs:3362): every pending request can
\* still be answered, or a disconnection that clears it is on its way.
NoOrphanedPending ==
    Undrained("disconnected") \/ ui.pending \subseteq Queued \cup Written \cup Answered

\* Whatever is lost, refused or resent, a message starts at most one turn.
AtMostOnce == \A p \in Prompts : delivered[p] <= 1

\* The handoff to the managed transport "is queued until all active turns are
\* idle" (ui/mod.rs:14284): the controller never decides to drop a direct
\* app-server that runs a turn or is about to be sent one.
HandoffInterruptsNoTurn ==
    [][(RemoteActive \/ OnCompleted) /\ reconnects' > reconnects =>
         turns = {} /\ \A r \in Queued \cup Written : r.kind # "send"]_vars

\* The task on the screen ends up resumed on the connection that lasts,
\* whatever was lost or being released when it was opened.
OpenTaskResumed ==
    \A t \in Threads : ui.active = t ~> ui.active # t \/ t \in ui.resumed
===========================================================================
