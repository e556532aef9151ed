---------------------------- MODULE ServerParts ----------------------------
(***************************************************************************)
(* Parts of the program that follow the app-server: what the window takes  *)
(* for running, the context of a task, the ledger of its turns, the        *)
(* extensions page, the monitor of the rollout files.  They share no       *)
(* state, and stand here beside each other so that MCDesk can check them   *)
(* and ServerParts_proofs prove about them.                                *)
(***************************************************************************)
EXTENDS Integers, Sequences

CONSTANTS
    Threads, NoThread, MaxRunning, MaxVisits,           \* what runs
    Modes, Contents, FirstContent,                      \* the context
    MaxItems, MaxReports, MaxWrites, MaxClicks,
    Models, FirstModel,                                 \* the ledger
    MaxLedgerTurns, MaxCalls, MaxPicks, MaxStream,
    MaxChanges,                                         \* the extensions page
    Rollouts, Chunk, Overlap, MaxBytes,                 \* the monitor
    MaxDrops    \* bound on connections lost and outages

\* A bound.
ASSUME LedgerBound == MaxLedgerTurns \in Nat

\* "none" stands for a turn without a model.
ASSUME ModelAssumption == "none" \notin Models \cup {FirstModel}

\* A marker cut in two is within the overlap, and the overlap in a chunk
\* (MARKER_OVERLAP_BYTES, READ_CHUNK_BYTES).
ASSUME ChunkAssumption == Chunk \in Nat /\ Overlap \in 1..Chunk

VARIABLES
    serverTurn, lastTurn, stream, turnAsked, resumed, turnActive,
    activeTurn, busy, turnProgress, turns, turnMoves,
    contextServer, contextStream, contextWire, mode, contextWindow,
    measure, metrics, receipt, job, versions, made, bounds,
    ledgerServer, own, ledgerStream, ledgerAsked, wired, routing, settings,
    usage, obs, timers, records, macro, sent, seen, ledgerBounds,
    plugin, app, pageSent, pageAnswers, pageConnected, opened,
    installedOnly, catalog, appShown, loading, loaded, cut, pageAsks,
    pageOutages,
    content, open, files, attempts, projected, activated, lastSnapshot, ui

Turn == INSTANCE TurnLifecycle WITH
    Tasks <- Threads, NoTask <- NoThread, MaxTurns <- MaxRunning,
    MaxMoves <- MaxVisits, asked <- turnAsked, active <- turnActive,
    progress <- turnProgress, moves <- turnMoves

Context == INSTANCE ContextManager WITH
    First <- FirstContent, MaxLosses <- MaxDrops, server <- contextServer,
    stream <- contextStream, wire <- contextWire, window <- contextWindow

Ledger == INSTANCE TurnLedger WITH
    First <- FirstModel, MaxTurns <- MaxLedgerTurns, MaxLosses <- MaxDrops,
    server <- ledgerServer, stream <- ledgerStream, asked <- ledgerAsked,
    bounds <- ledgerBounds

Page == INSTANCE Extensions WITH
    MaxAsks <- MaxChanges, MaxOutages <- MaxDrops, sent <- pageSent,
    answers <- pageAnswers, connected <- pageConnected, asks <- pageAsks,
    outages <- pageOutages

Monitor == INSTANCE RolloutMonitor WITH last <- lastSnapshot

---------------------------------------------------------------------------
(* Properties.                                                             *)

\* A task that runs nothing shows nothing running.
IdleLooksIdle == Turn!IdleLooksIdle

\* A context generation gets one automatic checkpoint.
OneCheckpointEach == Context!OneCheckpointEach

\* A hash in a checkpoint is that of the file it identifies.
EvidenceTrue == Context!EvidenceTrue

\* A turn whose end the window saw has its receipt and its sample.
EndsAccounted == Ledger!EndsAccounted

\* What the ledger says of a turn is so.
LedgerTrue == Ledger!LedgerTrue

\* Once all is answered, the extensions page tells the truth.
PageTrue == Page!PageTrue

\* A task is taken to be running exactly when the last marker read says
\* so, however its lines were cut.
MarkersFollowed == Monitor!MarkersFollowed

\* The window shows what the last scan found, but for what ended since.
WindowFollows == Monitor!WindowFollows
===========================================================================
