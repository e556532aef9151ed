--------------------------- MODULE RolloutMonitor ---------------------------
(***************************************************************************)
(* The thread that watches the rollout files a local app-server holds open *)
(* (activity.rs): once a second it reads what was appended, in chunks that *)
(* overlap so that a marker cut in two is still seen, keeps the latest     *)
(* lifecycle marker of every file, reports a change of the set of running  *)
(* tasks, and has the history projection repaired where a file grew.       *)
(* The server writes whole lines, but a read may see half of one.          *)
(***************************************************************************)
EXTENDS Integers, Sequences, SequencesExt

CONSTANTS
    Rollouts,   \* the rollout files, one per task
    Chunk,      \* READ_CHUNK_BYTES
    Overlap,    \* MARKER_OVERLAP_BYTES, at least the longest marker less one
    MaxBytes    \* bound on the bytes ever written to a file

VARIABLES
    content,    \* the bytes of each rollout
    open,       \* the rollouts an app-server holds open
    files,      \* RolloutActivityMonitor::files
    attempts,   \* ProjectionMaintenance::attempts
    projected,  \* external: how far each history projection reaches
    activated,  \* the rollouts whose projection was repaired once
    last,       \* the snapshot sent last
    ui          \* the snapshots not polled, the tasks the window shows, and a
                \* history: those that ended since it polled

vars == <<content, open, files, attempts, projected, activated, last, ui>>

\* A marker is two bytes long here; any other text is one byte.
Started  == <<"s", "S">>
Complete == <<"c", "C">>
Bytes    == {"s", "S", "c", "C", "x"}

NoSnapshot == [sent |-> FALSE, running |-> {}]

---------------------------------------------------------------------------
(* Reading markers.                                                        *)

Ends(bytes, marker) ==
    {i \in 2..Len(bytes) : SubSeq(bytes, i - 1, i) = marker}

\* latest_marker: which marker of a piece of text comes last, if any.
LatestMarker(bytes) ==
    LET s == Ends(bytes, Started)
        c == Ends(bytes, Complete)
    IN  IF s = {} /\ c = {} THEN "none"
        ELSE IF \E i \in s : \A j \in c : i > j THEN "running" ELSE "idle"

Least(a, b) == IF a < b THEN a ELSE b

TailBytes(bytes) == SubSeq(bytes, Len(bytes) - Least(Len(bytes), Overlap) + 1, Len(bytes))

\* The chunks latest_marker_in_file reads, the last first, each followed by
\* the first bytes of the chunk after it.
Window(bytes, k) ==
    LET end   == Len(bytes) - (k - 1) * Chunk
        first == IF end > Chunk THEN end - Chunk + 1 ELSE 1
    IN  SubSeq(bytes, first, end + (IF k = 1 THEN 0 ELSE Overlap))

LatestInFile(bytes) ==
    LET n   == (Len(bytes) + Chunk - 1) \div Chunk
        hit == {k \in 1..n : LatestMarker(Window(bytes, k)) # "none"}
    IN  IF hit = {} THEN "none"
        ELSE LatestMarker(Window(bytes, CHOOSE k \in hit : \A j \in hit : k <= j))

Load(bytes) ==
    [offset |-> Len(bytes), running |-> LatestInFile(bytes) = "running",
     overlap |-> TailBytes(bytes)]

\* A plausible mistake: the overlap dropped between reads.
ReadAppendedCut(state, bytes) ==
    LET fresh == SubSeq(bytes, state.offset + 1, Len(bytes))
        found == LatestMarker(fresh)
    IN  [offset  |-> Len(bytes), overlap |-> <<>>,
         running |-> IF found = "none" THEN state.running ELSE found = "running"]

\* The overlap once the bytes up to a position are read.
OverlapAt(state, bytes, upto) ==
    TailBytes(state.overlap \o SubSeq(bytes, state.offset + 1, upto))

\* What one round of the loop of read_appended looks at: the next chunk, behind
\* the last bytes of what was read before it.
Combined(state, bytes, k) ==
    LET from == state.offset + (k - 1) * Chunk
    IN  OverlapAt(state, bytes, from) \o SubSeq(bytes, from + 1, Least(from + Chunk, Len(bytes)))

\* read_appended, to the end of the file: the last round that finds a marker
\* decides.
ReadAppended(state, bytes) ==
    LET n   == (Len(bytes) - state.offset + Chunk - 1) \div Chunk
        hit == {k \in 1..n : LatestMarker(Combined(state, bytes, k)) # "none"}
    IN  [offset  |-> Len(bytes), overlap |-> OverlapAt(state, bytes, Len(bytes)),
         running |-> IF hit = {} THEN state.running
                     ELSE LatestMarker(Combined(state, bytes, CHOOSE k \in hit : \A j \in hit : j <= k))
                          = "running"]

UpdatePath(known, bytes) ==
    IF known.offset = -1 \/ Len(bytes) < known.offset THEN Load(bytes)
    ELSE IF Len(bytes) > known.offset THEN ReadAppended(known, bytes)
    ELSE known

Unknown == [offset |-> -1, running |-> FALSE, overlap |-> <<>>]

---------------------------------------------------------------------------
(* The background repair of the history projections.                       *)

NoAttempt == [size |-> -1, pending |-> FALSE, failed |-> FALSE]

\* A failed repair is due again five seconds later: here, at any later scan.
ShouldRetry(attempt, size) ==
    attempt.pending \/ attempt.size # size \/ attempt.failed

\* Where the lines end that a projection lacks.
Ahead(p) == {k \in (projected[p] + 1)..Len(content[p]) : content[p][k] \notin {"s", "c"}}

\* What repair_changed may find of one file (repair_projection): the repair
\* fails; it projects all there is, or a batch and has more, or another moved
\* the cursor while it read; or there is nothing to do, or nothing proven where
\* none was repaired before.  Only a batch with more leaves it pending.
Outcomes(p) ==
    {r \in [attempt : [size : {Len(content[p])}, pending : BOOLEAN, failed : BOOLEAN],
            at : {projected[p]} \cup Ahead(p), activated : BOOLEAN] :
       /\ p \in activated => r.activated
       /\ \/ r.attempt.failed /\ ~r.attempt.pending /\ r.at = projected[p]
          \/ /\ ~r.attempt.failed /\ r.activated /\ r.at \in Ahead(p)
             /\ r.attempt.pending => r.at < Len(content[p])
          \/ /\ ~r.attempt.failed /\ ~r.attempt.pending /\ r.at = projected[p]
             /\ IF p \in activated THEN Ahead(p) = {} ELSE ~r.activated}

\* The files tried in this pass; a failed one may still be waiting.
Tried ==
    {p \in open : ShouldRetry(attempts[p], Len(content[p]))}

Waiting == {p \in Tried : attempts[p].failed /\ attempts[p].size = Len(content[p])}

RepairChanged ==
    \E skipped \in SUBSET Waiting :
      \E result \in [Tried \ skipped -> UNION {Outcomes(p) : p \in Tried}] :
        /\ \A p \in Tried \ skipped : result[p] \in Outcomes(p)
        /\ attempts' = [p \in Rollouts |->
                          IF p \notin open THEN NoAttempt
                          ELSE IF p \in DOMAIN result THEN result[p].attempt ELSE attempts[p]]
        /\ projected' = [p \in Rollouts |->
                           IF p \in DOMAIN result THEN result[p].at ELSE projected[p]]
        /\ activated' = activated \cup {p \in DOMAIN result : result[p].activated}

---------------------------------------------------------------------------
Init ==
    /\ content = [p \in Rollouts |-> <<>>] /\ open = {}
    /\ files = [p \in Rollouts |-> Unknown]
    /\ attempts = [p \in Rollouts |-> NoAttempt]
    /\ projected = [p \in Rollouts |-> 0]
    /\ activated = {}
    /\ last = NoSnapshot /\ ui = [queue |-> <<>>, running |-> {}, ended |-> {}]

\* The server appends a byte of a line: the second half of a marker follows
\* its first.  A rewritten file is seen before it is as long as it was.
Write ==
    \E p \in Rollouts, b \in Bytes :
      /\ Len(content[p]) < MaxBytes /\ files[p].offset <= Len(content[p])
      /\ LET half == content[p] # <<>> /\ Last(content[p]) \in {"s", "c"}
         IN  IF half THEN b = (IF Last(content[p]) = "s" THEN "S" ELSE "C")
             ELSE b \notin {"S", "C"}
      /\ content' = [content EXCEPT ![p] = Append(@, b)]
      /\ UNCHANGED <<open, files, attempts, projected, activated, last, ui>>

\* A rollback rewrites the file shorter; the projection is the server's.
Truncate ==
    \E p \in Rollouts :
      /\ files[p].offset = Len(content[p]) /\ Len(content[p]) > 1
      /\ content' = [content EXCEPT ![p] = <<"x">>]
      /\ projected' = [projected EXCEPT ![p] = 0]
      /\ UNCHANGED <<open, files, attempts, activated, last, ui>>

OpenOrClose ==
    /\ open' \in SUBSET Rollouts /\ open' # open
    /\ UNCHANGED <<content, files, attempts, projected, activated, last, ui>>

\* One pass of the thread: the repair, then scan_paths.
Scan ==
    LET read    == [p \in Rollouts |->
                      IF p \in open THEN UpdatePath(files[p], content[p]) ELSE Unknown]
        running == {p \in open : read[p].running}
        news    == [sent |-> TRUE, running |-> running]
    IN  /\ Len(ui.queue) < 2
        /\ RepairChanged
        /\ files' = read
        /\ last' = news
        /\ ui' = IF last = news THEN ui ELSE [ui EXCEPT !.queue = Append(@, running)]
        /\ UNCHANGED <<content, open>>

\* A plausible mistake: the oldest snapshot counts.
PollOldest ==
    /\ ui.queue # <<>>
    /\ ui' = [queue |-> <<>>, running |-> Head(ui.queue), ended |-> {}]
    /\ UNCHANGED <<content, open, files, attempts, projected, activated, last>>

\* poll_rollout_activity: only the newest snapshot counts.
Poll ==
    /\ ui.queue # <<>>
    /\ ui' = [queue |-> <<>>, running |-> Last(ui.queue), ended |-> {}]
    /\ UNCHANGED <<content, open, files, attempts, projected, activated, last>>

\* The server's own word that a turn ended, before or after the monitor's.
Completed ==
    \E p \in Rollouts :
      /\ Ends(content[p], Complete) # {}
      /\ ui' = [ui EXCEPT !.running = @ \ {p}, !.ended = @ \cup {p}]
      /\ UNCHANGED <<content, open, files, attempts, projected, activated, last>>

\* Codex projects on, or the window repairs a batch as it loads the task.
ProjectElsewhere ==
    \E p \in Rollouts :
      \E k \in Ahead(p) :
        /\ projected' = [projected EXCEPT ![p] = k]
        /\ activated' \in {activated, activated \cup {p}}
        /\ UNCHANGED <<content, open, files, attempts, last, ui>>

Next == Write \/ Truncate \/ OpenOrClose \/ Scan \/ Poll \/ Completed \/ ProjectElsewhere

Spec == Init /\ [][Next]_vars

---------------------------------------------------------------------------
(* Properties.                                                             *)

\* However its lines were cut by the reads and by the chunks, a task is
\* taken to be running exactly when the last marker read says so.
MarkersFollowed ==
    \A p \in Rollouts : files[p].offset \in 0..Len(content[p]) =>
      files[p].running = (LatestMarker(SubSeq(content[p], 1, files[p].offset)) = "running")

\* A window that polled all that was sent shows the tasks the last scan found
\* running, but for those whose end it heard of since: only changes are sent,
\* only the newest snapshot counts, and one taken before the end of a turn may
\* be polled after it (scan_paths, poll_rollout_activity).
WindowFollows ==
    ui.queue = <<>> /\ last.sent => ui.running = last.running \ ui.ended

\* history.rs:18: "An unread rollout gap may be arbitrarily large; maintenance
\* advances it one batch at a time."  So the projection of a rollout that was
\* repaired before and is behind is due for another repair.
MaintenanceAdvances ==
    \A p \in open \cap activated :
      Ahead(p) # {} => ShouldRetry(attempts[p], Len(content[p]))
===========================================================================
