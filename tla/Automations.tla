----------------------------- MODULE Automations -----------------------------
(***************************************************************************)
(* One scheduled task (automation.rs and its page in ui/mod.rs): the item  *)
(* in automations.json, the systemd timer written for it, and the          *)
(* processes that run it, each started by the timer or by "Run now", which *)
(* keep a history in one file.  Every process reads, changes and replaces  *)
(* that file on its own (update_history).                                  *)
(***************************************************************************)
EXTENDS Integers, Sequences, FiniteSets

CONSTANTS
    Schedules,  \* OnCalendar expressions that validate_schedule lets pass
    MaxRuns,    \* bound on the processes ever started
    MaxEdits    \* bound on the operations of the page

NoSchedule == "none"

VARIABLES
    item,       \* the item in the window's memory
    saved,      \* the item in automations.json
    systemd,    \* its timer file, and the active timer (external)
    claim,      \* what the page last reported done: the schedule to run
    runs,       \* the run processes: [pc, copy], copy the history as loaded
    history,    \* automation-history.json: a status for each recorded run
    overlapped, \* two processes have been alive at once
    misread,    \* a process could not read the history
    edits

vars == <<item, saved, systemd, claim, runs, history, overlapped, misread, edits>>

Item == [stored : BOOLEAN, enabled : BOOLEAN, schedule : Schedules \cup {NoSchedule}]

NoRecords == [n \in {} |-> "running"]

Runs  == 1..MaxRuns
Alive == {n \in DOMAIN runs : runs[n].pc \notin {"ended", "gone"}}

Init ==
    /\ item = [stored |-> FALSE, enabled |-> FALSE, schedule |-> NoSchedule] /\ saved = item
    /\ systemd = [file |-> NoSchedule, timer |-> NoSchedule, unseen |-> FALSE]
    /\ claim = NoSchedule
    /\ runs = <<>> /\ history = NoRecords /\ overlapped = FALSE /\ misread = FALSE
    /\ edits = 0

---------------------------------------------------------------------------
(* The page.  An operation saves the store, then acts on the host: files   *)
(* are written or removed, systemctl is called once or more.  The first of *)
(* these to fail ends the operation, but for the disable of a removal,     *)
(* whose failure nobody sees (history: `unseen').  The service file, which *)
(* is written and removed just before the timer's, is left out.            *)

\* How an operation ends: what it leaves behind, and what it reports.
Failed(s)         == [to |-> s, report |-> "failed"]
Done(s, schedule) == [to |-> s, report |-> schedule]

\* install_systemd_units: validate_schedule, the files, a reload, and enable
\* --now, each of which may fail.  After the reload an active timer runs what
\* its file says now.
Installs(s, schedule, enabled) ==
    LET written == [s EXCEPT !.file = schedule]
        loaded  == [written EXCEPT !.timer = IF @ = NoSchedule THEN @ ELSE schedule]
        started == [loaded EXCEPT !.timer = schedule]
    IN  {Failed(s), Failed(written)} \cup
        IF enabled THEN {Failed(loaded), Done(started, schedule)} ELSE {Done(loaded, NoSchedule)}

\* A plausible mistake: the timer is not disabled.
RemovalsRunning(s) ==
    {Done([s EXCEPT !.file = NoSchedule, !.unseen = FALSE], NoSchedule)}

\* remove_systemd_units: disable --now, whatever comes of it, the files, a
\* reload.  What systemd makes of an active timer without its file is its own.
Removals(s) ==
    LET disabled == [file |-> s.file, timer |-> NoSchedule, unseen |-> FALSE]
        kept     == [s EXCEPT !.unseen = s.timer # NoSchedule]
        removed(d) == [d EXCEPT !.file = NoSchedule]
    IN  UNION {{Failed(d), Failed(removed(d)), Done(removed(d), NoSchedule),
                Done([removed(d) EXCEPT !.timer = NoSchedule], NoSchedule)} : d \in {disabled, kept}}

\* The page still shows the card of an item whose deletion was not reported
\* done, and its edit dialog puts that item back.
Card == item.stored \/ claim = "failed"

\* An operation of the page makes i the item; the save may fail.
Edit(i, outcomes) ==
    /\ edits < MaxEdits /\ edits' = edits + 1
    /\ item' = i
    /\ \/ claim' = "failed" /\ UNCHANGED <<saved, systemd>>
       \/ saved' = i /\ \E o \in outcomes : systemd' = o.to /\ claim' = o.report
    /\ UNCHANGED <<runs, history, overlapped, misread>>

\* Once: another item has other units.
CreateItem ==
    \E schedule \in Schedules, enabled \in BOOLEAN :
      /\ edits = 0
      /\ Edit([stored |-> TRUE, enabled |-> enabled, schedule |-> schedule],
              Installs(systemd, schedule, enabled))

Toggle ==
    /\ item.stored
    /\ Edit([item EXCEPT !.enabled = ~@],
            IF item.enabled THEN Removals(systemd) ELSE Installs(systemd, item.schedule, TRUE))

\* The old units are removed first; whether that worked is ignored.
EditItem ==
    \E schedule \in Schedules, enabled \in BOOLEAN :
      /\ Card
      /\ Edit([stored |-> TRUE, enabled |-> enabled, schedule |-> schedule],
              UNION {Installs(r.to, schedule, enabled) : r \in Removals(systemd)})

DeleteItem ==
    /\ Card
    /\ Edit([stored |-> FALSE, enabled |-> FALSE, schedule |-> item.schedule], Removals(systemd))

---------------------------------------------------------------------------
(* The processes.                                                          *)

Unit == <<item, saved, systemd, claim, edits>>

\* The timer starts one, or "Run now" on the card of the page.
StartRun ==
    \E trigger \in {"schedule", "manual"} :
      /\ Len(runs) < MaxRuns
      /\ IF trigger = "schedule" THEN systemd.timer # NoSchedule ELSE Card
      /\ runs' = Append(runs, [pc |-> trigger, copy |-> NoRecords])
      /\ overlapped' = (overlapped \/ Alive # {})
      /\ UNCHANGED Unit /\ UNCHANGED <<history, misread>>

\* run_automation_with_trigger reads the store: it refuses an item that is
\* gone, and a scheduled run of a disabled one; the file may be unreadable,
\* and the folder of the item gone.
LoadItem ==
    \E n \in DOMAIN runs, refused \in BOOLEAN :
      /\ runs[n].pc \in {"schedule", "manual"}
      /\ runs' = [runs EXCEPT ![n].pc =
                    IF ~refused /\ saved.stored /\ (@ = "manual" \/ saved.enabled)
                    THEN "starting" ELSE "gone"]
      /\ UNCHANGED Unit /\ UNCHANGED <<history, overlapped, misread>>

\* update_history, first half: the file as it is now, or an empty history if
\* it cannot be read.
LoadHistory ==
    \E n \in DOMAIN runs, copy \in {history, NoRecords} :
      /\ runs[n].pc \in {"starting", "done"}
      /\ runs' = [runs EXCEPT ![n] = [pc |-> IF @.pc = "starting" THEN "recording" ELSE "ending",
                                      copy |-> copy]]
      /\ misread' = (misread \/ copy # history)
      /\ UNCHANGED Unit /\ UNCHANGED <<history, overlapped>>

Upsert(records, n, status) ==
    [m \in DOMAIN records \cup {n} |-> IF m = n THEN status ELSE records[m]]

\* A plausible mistake: the end of a run leaves its status as it was.
StatusOf(pc) == "running"

\* The status a run is recorded with before and after Codex ran.
Recorded(pc) == IF pc = "recording" THEN "running" ELSE "ended"

\* Second half: the whole file is replaced by the copy with this run in it.
SaveHistory ==
    \E n \in DOMAIN runs :
      /\ runs[n].pc \in {"recording", "ending"}
      /\ history' = Upsert(runs[n].copy, n, Recorded(runs[n].pc))
      /\ runs' = [runs EXCEPT ![n] = [pc |-> IF @.pc = "recording" THEN "running" ELSE "ended",
                                      copy |-> NoRecords]]
      /\ UNCHANGED Unit /\ UNCHANGED <<overlapped, misread>>

\* Codex ends, well or not; or the process is killed, or cannot write.
EndRun ==
    \E n \in DOMAIN runs :
      /\ runs[n].pc = "running"
      /\ runs' = [runs EXCEPT ![n].pc = "done"]
      /\ UNCHANGED Unit /\ UNCHANGED <<history, overlapped, misread>>

LoseRun ==
    \E n \in Alive :
      /\ runs' = [runs EXCEPT ![n] = [pc |-> "gone", copy |-> NoRecords]]
      /\ UNCHANGED Unit /\ UNCHANGED <<history, overlapped, misread>>

---------------------------------------------------------------------------
Next ==
    \/ CreateItem \/ Toggle \/ EditItem \/ DeleteItem
    \/ StartRun \/ LoadItem \/ LoadHistory \/ SaveHistory \/ EndRun \/ LoseRun

Spec == Init /\ [][Next]_vars

---------------------------------------------------------------------------
(* Properties.                                                             *)

\* When the page reports that an enabled item is saved, systemd runs the
\* schedule it has now, whatever failed in that operation and in those before;
\* when it reports a disabled or deleted one, no timer runs unless its disable
\* failed unseen.
TimerRunsStored ==
    claim # "failed" =>
      systemd.timer = claim \/ (claim = NoSchedule /\ systemd.unseen)

\* "Saving replaces its user-level systemd timer atomically." (ui/mod.rs:15067):
\* once an edit is reported saved, systemd runs the schedule of the item, and
\* none if it is disabled.
SavingReplaces ==
    [][EditItem /\ claim' # "failed" => systemd'.timer = claim']_vars

\* Without overlapping processes a run that reached its end is recorded as
\* ended, and no later process brings back the record "running now"; its record
\* is gone only if a process could not read the history.
EndedRunsRecorded ==
    ~overlapped =>
      \A n \in DOMAIN runs :
        runs[n].pc = "ended" => IF n \in DOMAIN history THEN history[n] = "ended" ELSE misread
===========================================================================
