---------------------------- MODULE HistoryRepair ----------------------------
(***************************************************************************)
(* The repair of Codex's history projection (history.rs): a database keeps *)
(* the turns and items of a task as far as a cursor into its rollout, a    *)
(* byte offset and an ordinal.  The two can part at records that project   *)
(* to nothing, and Codex then stops; a repair reads the rest, proves that  *)
(* only such records lie between, and projects a batch in one transaction. *)
(* The rollout monitor and the loading of a rollout both repair, beside a  *)
(* Codex that goes on (external).  A record takes two bytes.               *)
(***************************************************************************)
EXTENDS Integers, Sequences, FiniteSets, FiniteSetsExt

CONSTANTS
    Repairers,
    Batch,      \* bytes of the rollout in one transaction
    MaxGap,     \* MAX_NEUTRAL_CURSOR_GAP_RECORDS
    MaxRecords, MaxCrashes  \* bounds

VARIABLES
    rollout,  \* the complete lines: [kind, ord], of kind turn, item, odd (an
              \* item that a repair skips) or neutral
    cursor,   \* thread_history_projection_state: [offset, next]
    rows,     \* thread_turns and thread_items: the records they come from
    status,   \* the record that the turn's status comes from, 0 for none
    schema,   \* the schema of the database
    marker,   \* the repair marker: its schema, 0 for none
    plan,     \* what each repairer is about to do
    crashes

vars == <<rollout, cursor, rows, status, schema, marker, plan, crashes>>

NoPlan == [at |-> [offset |-> 0, next |-> 0], records |-> {}, end |-> 0, marked |-> FALSE]

Init ==
    /\ rollout = <<>> /\ cursor = [offset |-> 0, next |-> 0] /\ rows = {} /\ status = 0
    /\ schema = 1 /\ marker = 0 /\ plan = [r \in Repairers |-> NoPlan] /\ crashes = 0

Start(i) == 2 * (i - 1)
End(i) == 2 * i

is_projection_neutral(i) == rollout[i].kind = "neutral"

---------------------------------------------------------------------------
(* Codex (external).                                                       *)

RepairSame == UNCHANGED <<marker, plan, crashes>>

\* A neutral record may share the ordinal of its neighbour.
AppendRecord ==
    /\ Len(rollout) < MaxRecords
    /\ LET n == Len(rollout) IN
         \E kind \in {"turn", "item", "odd", "neutral"}, ord \in 0..n :
           /\ IF n = 0 THEN ord = 0
              ELSE \/ ord = rollout[n].ord + 1
                   \/ ord = rollout[n].ord /\ (kind = "neutral" \/ is_projection_neutral(n))
           /\ rollout' = Append(rollout, [kind |-> kind, ord |-> ord])
    /\ UNCHANGED <<cursor, rows, status, schema>> /\ RepairSame

\* project_record: an item whose type a repair does not know, or which is too
\* large, is counted and skipped, and the cursor passes it.
Changes(records) == {i \in records : rollout[i].kind \in {"turn", "item"}}

\* The changes of these records upserted, in order.  What Codex makes of an item
\* that a repair would skip is left out.
Project(records) ==
    LET changes == Changes(records)
        turns == {i \in changes : rollout[i].kind = "turn"}
    IN  /\ rows' = rows \cup changes
        /\ status' = IF turns = {} THEN status ELSE Max(turns)

\* Its own projection goes on while the cursor's ordinal is the record's; a
\* neutral one may move one half of the cursor and not the other.
Advance ==
    \E i \in DOMAIN rollout :
      /\ Start(i) = cursor.offset /\ rollout[i].ord = cursor.next
      /\ Project({i})
      /\ \E offset \in Start(i)..End(i), next \in {cursor.next, cursor.next + 1} :
           /\ ~is_projection_neutral(i) => offset = End(i) /\ next = cursor.next + 1
           /\ next = cursor.next => offset = End(i)
           /\ cursor' = [offset |-> offset, next |-> next]
      /\ UNCHANGED <<rollout, schema>> /\ RepairSame

Upgrade ==
    /\ schema = 1 /\ schema' = 2
    /\ UNCHANGED <<rollout, cursor, rows, status>> /\ RepairSame

---------------------------------------------------------------------------
(* A repair.                                                               *)

\* The lines read: those that end behind the cursor, as far as a batch goes.
ReadLines == {i \in DOMAIN rollout : End(i) > cursor.offset /\ End(i) <= cursor.offset + Batch}

redundant_neutral(i) == is_projection_neutral(i) /\ rollout[i].ord + 1 = cursor.next

Redundant == {i \in ReadLines : \A j \in ReadLines : j <= i => redundant_neutral(j)}

Records == ReadLines \ Redundant

\* The lines looked back at that the cursor's ordinal has not passed.
SkippedPrefix ==
    {i \in DOMAIN rollout : /\ End(i) <= cursor.offset /\ 2 * MaxGap >= cursor.offset - Start(i)
                            /\ rollout[i].ord >= cursor.next}

skipped_neutral_gap ==
    LET gap == rollout[Min(Records)].ord - cursor.next IN
      /\ gap \in 1..MaxGap /\ Cardinality(SkippedPrefix) = gap
      /\ End(Max(SkippedPrefix)) = cursor.offset
      /\ \A i \in SkippedPrefix :
           /\ is_projection_neutral(i)
           /\ rollout[i].ord = cursor.next + i - Min(SkippedPrefix)

validate_contiguous_ordinals ==
    \A i \in Records : i + 1 \in Records =>
      \/ rollout[i + 1].ord = rollout[i].ord + 1
      \/ rollout[i + 1].ord = rollout[i].ord /\ (is_projection_neutral(i) \/ is_projection_neutral(i + 1))

CursorOnALine == \A i \in ReadLines : Start(i) < cursor.offset => i \in Redundant

Proven ==
    /\ marker # 0 \/ skipped_neutral_gap \/ Redundant # {}
    /\ rollout[Min(Records)].ord = cursor.next \/ skipped_neutral_gap
    /\ validate_contiguous_ordinals

SchemaKnown == marker \in {0, schema}

\* The state and the rollout are read outside any transaction.
ReadSuffix(r) ==
    /\ plan[r] = NoPlan
    /\ SchemaKnown
    /\ Records # {} /\ CursorOnALine /\ Proven
    /\ plan' = [plan EXCEPT ![r] = [at |-> cursor, records |-> Records, end |-> End(Max(Records)),
                                    marked |-> marker # 0]]
    /\ UNCHANGED <<rollout, cursor, rows, status, schema, marker, crashes>>

\* The first repair of a task backs the database up and leaves a marker.
WriteMarker(r) ==
    /\ plan[r] # NoPlan /\ ~plan[r].marked
    /\ marker' = schema
    /\ plan' = [plan EXCEPT ![r].marked = TRUE]
    /\ UNCHANGED <<rollout, cursor, rows, status, schema, crashes>>

\* A plausible mistake: the transaction trusts what was read before it.
TrustRead(at) == TRUE

Unmoved(at) == at = cursor

Commit(r) ==
    /\ plan[r].marked
    /\ IF Unmoved(plan[r].at)
       THEN /\ Project(plan[r].records)
            /\ cursor' = [offset |-> plan[r].end, next |-> rollout[Max(plan[r].records)].ord + 1]
       ELSE UNCHANGED <<cursor, rows, status>>
    /\ plan' = [plan EXCEPT ![r] = NoPlan]
    /\ UNCHANGED <<rollout, schema, marker, crashes>>

Crash(r) ==
    /\ plan[r] # NoPlan /\ crashes < MaxCrashes
    /\ crashes' = crashes + 1
    /\ plan' = [plan EXCEPT ![r] = NoPlan]
    /\ UNCHANGED <<rollout, cursor, rows, status, schema, marker>>

Next ==
    \/ AppendRecord \/ Advance \/ Upgrade
    \/ \E r \in Repairers : ReadSuffix(r) \/ WriteMarker(r) \/ Commit(r) \/ Crash(r)

Spec == Init /\ [][Next]_vars

---------------------------------------------------------------------------
(* Properties.                                                             *)

\* The database holds the turns and items before its cursor that a repair can
\* project, all of them and no more, and the turn's status is the last one
\* before it: the cursor passes none of them by, whoever moves it, and no
\* repair that comes late brings an older state back (history.rs).
ProjectionFaithful ==
    LET before == Changes({i \in DOMAIN rollout : End(i) <= cursor.offset})
        turns == {i \in before : rollout[i].kind = "turn"}
    IN  rows = before /\ status = (IF turns = {} THEN 0 ELSE Max(turns))

=============================================================================
