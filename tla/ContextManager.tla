--------------------------- MODULE ContextManager ---------------------------
(***************************************************************************)
(* Lean Context for one task: the private checkpoints a host worker writes *)
(* before Codex compacts the task's context, the compactions the window    *)
(* hears of, and what it measures of them (context.rs, and                 *)
(* queue_context_checkpoint ... observe_context_usage of ui/mod.rs).  Each *)
(* completed compaction starts a new context generation.  The app-server   *)
(* compacts by itself in a turn, or when asked to.                         *)
(*                                                                         *)
(* Left out: approvals, which block as a running turn does; a profile      *)
(* switch; the deletion of the task; the text of a checkpoint.             *)
(***************************************************************************)
EXTENDS Integers, Sequences

CONSTANTS
    Modes,       \* the policy: subset of {"auto", "prompt", "observe"}
    Contents,    \* of the file a checkpoint records
    First,       \* its content at the start
    MaxItems,    \* bound on the compactions
    MaxReports,  \* bound on the usage reports outside compactions
    MaxWrites,   \* bound on the writes of the file
    MaxClicks,   \* bound on "Compact" and on the prompts approved
    MaxLosses    \* bound on lost connections and restarts

VARIABLES
    server,      \* external: turn runs, item being compacted (0 none), items so far
    stream,      \* notifications on their way
    wire,        \* thread/compact/start is on its way
    mode,
    window,      \* ready, busy, usage, inflight, asked, prompted
    measure,     \* context_compaction_measurements of the task
    metrics,     \* ContextThreadMetrics: gen, cp, id
    receipt,     \* the stored receipt: generation and evidence
    job,         \* the checkpoint a host worker makes
    versions,    \* external: the file, one content for each identity it had
    made,        \* automatic checkpoints stored for each generation (history)
    bounds       \* reports, clicks, losses

vars == <<server, stream, wire, mode, window, measure, metrics, receipt, job, versions, made, bounds>>

None == -1
NoMeasure  == [item |-> 0, gen |-> None, before |-> "unknown", completed |-> FALSE, checkpointed |-> FALSE]
NoEvidence == [file |-> 0, hash |-> "none"]
NoReceipt  == [gen |-> None, evidence |-> NoEvidence]
NoJob      == [at |-> "none"]

Init ==
    /\ server = [turn |-> FALSE, item |-> 0, items |-> 0] /\ stream = <<>> /\ wire = FALSE
    /\ mode \in Modes
    /\ window = [ready |-> TRUE, busy |-> FALSE, usage |-> "unknown", inflight |-> FALSE,
                 asked |-> FALSE, prompted |-> FALSE]
    /\ measure = NoMeasure
    /\ metrics = [gen |-> 0, cp |-> None, id |-> 0] /\ receipt = NoReceipt
    /\ job = NoJob /\ versions = <<First>>
    /\ made = [g \in 0..MaxItems |-> 0]
    /\ bounds = [reports |-> 0, clicks |-> 0, losses |-> 0]

Ident == Len(versions)

---------------------------------------------------------------------------
(* The server and whoever edits the file (external).                       *)

Client == <<mode, window, measure, metrics, receipt, job, made>>

Notify(events) == stream' = IF window.ready THEN stream \o events ELSE stream

Turn ==
    /\ server.item = 0 /\ Len(stream) < 2
    /\ server' = [server EXCEPT !.turn = ~@]
    /\ Notify(<<[kind |-> IF server.turn THEN "ended" ELSE "begun"]>>)
    /\ UNCHANGED Client /\ UNCHANGED <<wire, versions, bounds>>

Report ==
    /\ server.turn /\ bounds.reports < MaxReports
    /\ bounds' = [bounds EXCEPT !.reports = @ + 1]
    /\ \E u \in {"low", "high"} : Notify(<<[kind |-> "usage", usage |-> u]>>)
    /\ UNCHANGED Client /\ UNCHANGED <<server, wire, versions>>

StartCompaction ==
    /\ server.turn \/ wire
    /\ server.item = 0 /\ server.items < MaxItems
    /\ server' = [turn |-> TRUE, item |-> server.items + 1, items |-> server.items + 1]
    /\ wire' = (server.turn /\ wire)
    /\ Notify((IF server.turn THEN <<>> ELSE <<[kind |-> "accepted"], [kind |-> "begun"]>>)
              \o <<[kind |-> "started", item |-> server.items + 1]>>)
    /\ UNCHANGED Client /\ UNCHANGED <<versions, bounds>>

RefuseCompaction ==
    /\ wire /\ (server.turn \/ server.items = MaxItems)
    /\ wire' = FALSE /\ Notify(<<[kind |-> "accepted"]>>)
    /\ UNCHANGED Client /\ UNCHANGED <<server, versions, bounds>>

EndCompaction ==
    /\ server.item # 0
    /\ server' = [server EXCEPT !.item = 0]
    /\ \E u \in {"low", "high"} :
         Notify(<<[kind |-> "completed", item |-> server.item], [kind |-> "usage", usage |-> u]>>)
    /\ UNCHANGED Client /\ UNCHANGED <<wire, versions, bounds>>

\* A write changes the identity of the file: its inode or its change time.
WriteFile ==
    /\ Ident <= MaxWrites
    /\ \E c \in Contents : versions' = Append(versions, c)
    /\ UNCHANGED Client /\ UNCHANGED <<server, stream, wire, bounds>>

---------------------------------------------------------------------------
(* The host worker: create_checkpoint, fingerprint_evidence.               *)

Outside == <<server, wire, mode, versions>>

Worker == UNCHANGED Outside /\ UNCHANGED <<stream, window, measure, metrics, receipt, made, bounds>>

\* The identity first; the hash recorded for the same identity is used again.
Identify ==
    /\ job.at = "asked"
    /\ job' = IF job.prev.file = Ident /\ job.prev.hash # "none"
              THEN [job EXCEPT !.at = "done", !.evidence = job.prev]
              ELSE [job EXCEPT !.at = "identified", !.evidence.file = Ident]
    /\ Worker

ReadFile ==
    /\ job.at = "identified"
    /\ job' = [job EXCEPT !.at = "read", !.evidence.hash = versions[Ident]]
    /\ Worker

\* A plausible mistake: the file is not looked at again.
TrustHash(evidence) == evidence

\* The hash counts only if the file is still the one that was identified.
Stable(evidence) == IF evidence.file = Ident THEN evidence ELSE [evidence EXCEPT !.hash = "none"]

Verify ==
    /\ job.at = "read"
    /\ job' = [job EXCEPT !.at = "done", !.evidence = Stable(@)]
    /\ Worker

---------------------------------------------------------------------------
(* The window.                                                             *)

\* A plausible mistake: a checkpoint of this generation does not count.
NeverCurrent == FALSE

CheckpointCurrent == metrics.cp = metrics.gen

\* queue_context_checkpoint, for the window w.
Queue(w, compactAfter, automatic) ==
    IF w.inflight \/ (compactAfter /\ (~w.ready \/ w.busy))
    THEN window' = w /\ UNCHANGED job
    ELSE /\ window' = [w EXCEPT !.inflight = TRUE]
         /\ job' = [at |-> "asked", gen |-> metrics.gen, after |-> compactAfter,
                    auto |-> automatic, prev |-> receipt.evidence, evidence |-> NoEvidence]

\* maybe_manage_context with compaction_decision
Due(w) ==
    /\ w.usage = "high" /\ w.ready /\ ~w.busy
    /\ ~(w.inflight \/ w.asked \/ measure # NoMeasure \/ CheckpointCurrent)

Manage(w) ==
    IF Due(w) /\ mode = "auto" THEN Queue(w, FALSE, TRUE)
    ELSE /\ window' = [w EXCEPT !.prompted = @ \/ (Due(w) /\ mode = "prompt")]
         /\ UNCHANGED job

OnUsage(event) ==
    LET w == [window EXCEPT !.usage = event.usage]
    IN  IF measure.completed
        THEN measure' = NoMeasure /\ window' = w /\ UNCHANGED <<job, metrics, receipt>>
        ELSE UNCHANGED <<measure, metrics, receipt>> /\ Manage(w)

OnStarted(event) ==
    /\ UNCHANGED <<metrics, receipt>>
    /\ IF metrics.id = event.item THEN UNCHANGED <<measure, window, job>>
       ELSE /\ measure' = IF measure.item = event.item THEN measure
                          ELSE [item |-> event.item, gen |-> metrics.gen, before |-> window.usage,
                                completed |-> FALSE, checkpointed |-> CheckpointCurrent]
            /\ IF mode = "auto" /\ ~CheckpointCurrent THEN Queue(window, FALSE, TRUE)
               ELSE UNCHANGED <<window, job>>

\* A measurement left by a compaction whose end was missed is taken over.
OnCompacted(event) ==
    /\ UNCHANGED <<job, receipt>>
    /\ IF metrics.id = event.item THEN UNCHANGED <<metrics, measure, window>>
       ELSE /\ metrics' = [metrics EXCEPT !.gen = @ + 1, !.id = event.item]
            /\ measure' = IF measure = NoMeasure
                          THEN [item |-> event.item, gen |-> metrics.gen, before |-> "unknown",
                                completed |-> TRUE, checkpointed |-> CheckpointCurrent]
                          ELSE [measure EXCEPT !.completed = TRUE,
                                               !.checkpointed = @ \/ CheckpointCurrent]
            /\ window' = [window EXCEPT !.prompted = FALSE]

Receive ==
    /\ stream # <<>> /\ stream' = Tail(stream)
    /\ LET event == Head(stream) IN
       \/ event.kind = "usage" /\ OnUsage(event)
       \/ event.kind = "started" /\ OnStarted(event)
       \/ event.kind = "completed" /\ OnCompacted(event)
       \/ /\ event.kind = "begun" /\ window' = [window EXCEPT !.busy = TRUE]
          /\ UNCHANGED <<measure, metrics, receipt, job>>
       \/ /\ event.kind = "ended" /\ UNCHANGED <<measure, metrics, receipt>>
          /\ Manage([window EXCEPT !.busy = FALSE])
       \/ /\ event.kind = "accepted" /\ window' = [window EXCEPT !.asked = FALSE]
          /\ UNCHANGED <<measure, metrics, receipt, job>>
    /\ UNCHANGED Outside /\ UNCHANGED <<made, bounds>>

\* "Compact" on the page, or "Create checkpoint" in the prompt.
Click ==
    /\ bounds.clicks < MaxClicks /\ bounds' = [bounds EXCEPT !.clicks = @ + 1]
    /\ UNCHANGED <<measure, metrics, receipt>>
    /\ Queue(window, TRUE, FALSE) \/ (window.prompted /\ Queue(window, FALSE, FALSE))
    /\ UNCHANGED Outside /\ UNCHANGED <<stream, made>>

\* HostResult of ContextCheckpoint, then begin_context_compaction.
OnCheckpoint ==
    /\ job.at = "done" /\ job' = NoJob
    /\ receipt' = [gen |-> job.gen, evidence |-> job.evidence]
    /\ metrics' = [metrics EXCEPT !.cp = job.gen]
    /\ measure' = IF measure.gen = job.gen THEN [measure EXCEPT !.checkpointed = TRUE] ELSE measure
    /\ made' = IF job.auto THEN [made EXCEPT ![job.gen] = @ + 1] ELSE made
    /\ LET begin == job.after /\ window.ready /\ ~window.busy /\ ~window.asked
       IN  /\ wire' = (wire \/ begin)
           /\ window' = [window EXCEPT !.inflight = FALSE, !.asked = @ \/ begin]
    /\ UNCHANGED <<server, stream, mode, versions, bounds>>

\* HostError: no space, no permission, an unreadable answer.
OnCheckpointError ==
    /\ job # NoJob /\ job' = NoJob
    /\ window' = [window EXCEPT !.inflight = FALSE]
    /\ UNCHANGED Outside /\ UNCHANGED <<stream, measure, metrics, receipt, made, bounds>>

Lose == bounds.losses < MaxLosses /\ bounds' = [bounds EXCEPT !.losses = @ + 1]

\* Disconnected; the marks of running turns and the measurements stay.
Disconnect ==
    /\ window.ready /\ Lose
    /\ window' = [window EXCEPT !.ready = FALSE, !.asked = FALSE]
    /\ stream' = <<>> /\ wire' = FALSE
    /\ UNCHANGED <<server, mode, measure, metrics, receipt, job, versions, made>>

\* Ready: the open task is resumed and its status read again.
Connect ==
    /\ ~window.ready
    /\ window' = [window EXCEPT !.ready = TRUE, !.busy = server.turn]
    /\ UNCHANGED Outside /\ UNCHANGED <<stream, measure, metrics, receipt, job, made, bounds>>

\* The application ends and starts again: only the stored state is left.
Restart ==
    /\ Lose
    /\ window' = [ready |-> FALSE, busy |-> FALSE, usage |-> "unknown", inflight |-> FALSE,
                  asked |-> FALSE, prompted |-> FALSE]
    /\ measure' = NoMeasure /\ job' = NoJob /\ stream' = <<>> /\ wire' = FALSE
    /\ UNCHANGED <<server, mode, metrics, receipt, versions, made>>

Next ==
    \/ Turn \/ Report \/ StartCompaction \/ RefuseCompaction \/ EndCompaction \/ WriteFile
    \/ Identify \/ ReadFile \/ Verify
    \/ Receive \/ Click \/ OnCheckpoint \/ OnCheckpointError \/ Disconnect \/ Connect \/ Restart

Spec == Init /\ [][Next]_vars

---------------------------------------------------------------------------
(* Properties.                                                             *)

\* A generation gets one automatic checkpoint, whatever usage reports,
\* compactions, clicks, lost connections and restarts come together.
OneCheckpointEach == \A g \in DOMAIN made : made[g] <= 1

\* A hash that a checkpoint records, or takes over from an earlier one, is
\* that of the file it identifies, though the file was written meanwhile.
EvidenceTrue ==
    receipt.evidence.hash # "none" => receipt.evidence.hash = versions[receipt.evidence.file]

\* What is measured as the effect of a compaction began with that compaction.
MeasuresItsOwn == measure.completed => measure.item = metrics.id
=============================================================================
