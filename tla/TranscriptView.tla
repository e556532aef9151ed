--------------------------- MODULE TranscriptView ---------------------------
(***************************************************************************)
(* The transcript on the screen (ui/mod.rs): rows of widgets that follow   *)
(* the open task, redrawn only when its revision, the task or the          *)
(* preference changed, and then row by row: a row whose fingerprint is     *)
(* that of its widget is kept, a message that streams is written into the  *)
(* widget it has.  Of the task one turn is modelled; module Transcript     *)
(* says how its messages come together.                                    *)
(***************************************************************************)
EXTENDS Integers, Sequences, FiniteSets, SequencesExt

CONSTANTS
    Tasks,
    None,
    MaxText,   \* bound on the length of a message
    MaxChanges \* bound on what happens

VARIABLES
    \* the open task, as the window has it
    open,      \* active_thread_id
    items,     \* the items of its turn: [id, text]
    streaming, \* streaming_text of the agent's message
    routed,    \* the turn has a route in task_routing
    progress,  \* turn_progress has the task
    revision,  \* transcript_revision
    reasoning, \* preferences.show_reasoning
    page,      \* the page on the screen
    scheduled, \* transcript_render_scheduled
    \* what is drawn
    last,      \* last_transcript_revision, _thread and _reasoning
    rows,      \* transcript_rows: [key, print, streams]
    box,       \* the widgets: [key, text]
    pill,      \* the task's progress is shown
    cut,       \* a lost connection cut the agent's message short
    changes

task == <<open, items, streaming, routed, progress, revision>>
drawn == <<last, rows, box, pill>>
vars == <<task, reasoning, page, scheduled, drawn, cut, changes>>

Ids == {"pending", "agent", "reasoning", "image", "image2"}
\* The order in which the server lists what it has.
ServerOrder == <<"reasoning", "image", "image2", "agent">>
Images == {"image", "image2"}

Find(rs, key) == SelectInSeq(rs, LAMBDA r : r.key = key)
Without(rs, key) == SelectSeq(rs, LAMBDA r : r.key # key)
Has(id) == \E n \in 1..Len(items) : items[n].id = id
Text(id) == items[SelectInSeq(items, LAMBDA m : m.id = id)].text

Welcome == <<[key |-> "welcome", text |-> 1]>>
Now == [revision |-> revision, thread |-> open, reasoning |-> reasoning]
Forgotten == -1

\* As drawn once, or once a task was opened.
Init ==
    /\ open \in {None} \union Tasks /\ items = <<>> /\ streaming = 0 /\ routed = FALSE /\ progress = FALSE
    /\ revision = 0 /\ reasoning \in BOOLEAN /\ page = "chat" /\ scheduled = FALSE
    /\ last = Now /\ rows = <<>> /\ box = (IF open = None THEN Welcome ELSE <<>>) /\ pill = FALSE
    /\ cut = FALSE /\ changes = 0

---------------------------------------------------------------------------
(* The rows there should be.                                               *)

\* A message shows what has streamed of it, if anything; its print says no more.
streamed(m) == IF m.id = "agent" THEN streaming ELSE 0
shown(m) == IF streamed(m) > 0 THEN streamed(m) ELSE m.text
transcript_item_fingerprint(m) == <<m.id, shown(m)>>

Row(m) ==
    [key |-> m.id, print |-> transcript_item_fingerprint(m), text |-> shown(m), streams |-> streamed(m) > 0]

RouteRow == [key |-> "route", print |-> <<"route", 1>>, text |-> 1, streams |-> FALSE]

\* Images in a row are one row, named after the first of them.
WithImage(rs, m, previous) ==
    IF previous \in Images
    THEN [rs EXCEPT ![Len(rs)].text = @ + m.text, ![Len(rs)].print = Append(@, m.text)]
    ELSE Append(rs, Row(m))

transcript_row_specs ==
    LET specs[n \in 0..Len(items)] ==
          IF n = 0 THEN IF routed THEN <<RouteRow>> ELSE <<>>
          ELSE LET m == items[n] IN
               CASE m.id = "reasoning" /\ ~reasoning -> specs[n - 1]
                 [] m.id \in Images -> WithImage(specs[n - 1], m, IF n = 1 THEN None ELSE items[n - 1].id)
                 [] OTHER -> Append(specs[n - 1], Row(m))
    IN specs[Len(items)]

\* append_item_to: what has no text gets no card.
append_item_to(spec) == IF spec.text = 0 THEN <<>> ELSE <<[key |-> spec.key, text |-> spec.text]>>

---------------------------------------------------------------------------
(* Drawing them.                                                           *)

InsertAfter(b, key, widget) ==
    IF key = None THEN <<widget>> \o b
    ELSE InsertAt(b, Find(b, key) + 1, widget)

\* A plausible mistake: a widget that need not change stays where it is.
KeepRow(b, previous, widget) == b

\* reorder_child_after
MoveRow(b, previous, widget) == InsertAfter(Without(b, widget.key), previous, widget)

build_transcript_row(r, spec) ==
    LET bare == Without(r.box, spec.key)
        built == append_item_to(spec)
    IN IF built = <<>>
       THEN [r EXCEPT !.box = bare]
       ELSE [r EXCEPT !.box = InsertAfter(bare, r.previous, built[1]),
                      !.previous = spec.key,
                      !.rendered = Append(@, [key |-> spec.key, print |-> spec.print, streams |-> spec.streams])]

\* r: the widgets, the old rows, the new ones, and the last of them.
DrawRow(r, spec) ==
    LET n == Find(r.existing, spec.key)
        old == r.existing[n]
        widget == r.box[Find(r.box, spec.key)]
        next == [r EXCEPT !.existing = Without(@, spec.key)]
        kept == [key |-> spec.key, print |-> spec.print, streams |-> old.streams]
    IN CASE n > 0 /\ old.print = spec.print ->
              [next EXCEPT !.box = MoveRow(@, r.previous, widget), !.previous = spec.key,
                           !.rendered = Append(@, kept)]
         [] n > 0 /\ old.print # spec.print /\ old.streams /\ spec.streams ->
              [next EXCEPT !.box[Find(r.box, spec.key)].text = spec.text, !.previous = spec.key,
                           !.rendered = Append(@, kept)]
         [] OTHER -> build_transcript_row(next, spec)

reconcile_transcript_rows(specs, b, existing) ==
    LET after[n \in 0..Len(specs)] ==
          IF n = 0 THEN [box |-> b, existing |-> existing, rendered |-> <<>>, previous |-> None]
          ELSE DrawRow(after[n - 1], specs[n])
        r == after[Len(specs)]
    IN [rows |-> r.rendered,
        box |-> SelectSeq(r.box, LAMBDA w : Find(r.existing, w.key) = 0)]

\* was: what the last drawing was of, unless that has been forgotten.
render_transcript(was) ==
    IF was = Now' THEN UNCHANGED drawn
    ELSE /\ last' = Now'
         /\ IF open' = None
            THEN rows' = <<>> /\ box' = Welcome /\ pill' = FALSE
            ELSE LET same == last.thread = open'
                     r == reconcile_transcript_rows(transcript_row_specs',
                            IF same THEN box ELSE <<>>, IF same THEN rows ELSE <<>>)
                 IN rows' = r.rows /\ box' = r.box /\ pill' = progress'

invalidate_transcript == [last EXCEPT !.revision = Forgotten]

schedule_transcript_render == scheduled' = TRUE

\* After an event: soon when the chat is shown; other pages draw none of it.
RenderEvent ==
    /\ IF page = "chat" THEN schedule_transcript_render ELSE UNCHANGED scheduled
    /\ UNCHANGED <<drawn, page, reasoning>>

Tick ==
    /\ scheduled /\ scheduled' = FALSE
    /\ UNCHANGED <<task, reasoning, page, cut, changes>>
    /\ IF page = "chat" THEN render_transcript(last) ELSE UNCHANGED drawn

---------------------------------------------------------------------------
(* What changes the open task.                                             *)

Change == changes < MaxChanges /\ changes' = changes + 1
mark_transcript_changed == revision' = revision + 1

\* turn/started
Started ==
    /\ Change /\ open # None /\ progress' = TRUE
    /\ mark_transcript_changed /\ RenderEvent
    /\ UNCHANGED <<open, items, streaming, routed, cut>>

Put(m) == IF Has(m.id) THEN [items EXCEPT ![SelectInSeq(items, LAMBDA x : x.id = m.id)] = m] ELSE Append(items, m)

\* item/started and item/completed; the message of a steer takes the place
\* of its pending copy.
ItemStarted ==
    \E id \in Ids \ {"pending"} :
      /\ Change /\ open # None /\ ~Has(id)
      /\ items' = Put([id |-> id, text |-> IF id \in {"agent", "reasoning"} THEN 0 ELSE 1])
      /\ mark_transcript_changed /\ RenderEvent
      /\ UNCHANGED <<open, streaming, routed, progress, cut>>

\* item/agentMessage/delta
Delta ==
    /\ Change /\ open # None /\ Has("agent") /\ Text("agent") = 0 /\ streaming < MaxText
    /\ streaming' = streaming + 1
    /\ mark_transcript_changed /\ RenderEvent
    /\ UNCHANGED <<open, items, routed, progress, cut>>

\* A completed message without a text keeps what has streamed of it.
preserve_streamed_agent_text(text) == IF text = 0 THEN streaming ELSE text

ItemCompleted ==
    \E id \in {"agent", "reasoning"}, text \in {0, MaxText} :
      /\ Change /\ open # None /\ Has(id) /\ Text(id) < MaxText
      /\ id # "agent" => text = MaxText
      /\ items' = Put([id |-> id, text |-> IF id = "agent" THEN preserve_streamed_agent_text(text) ELSE text])
      /\ streaming' = IF id = "agent" THEN 0 ELSE streaming
      /\ mark_transcript_changed /\ RenderEvent
      /\ UNCHANGED <<open, routed, progress, cut>>

\* A full turn replaces the items; a pending copy goes to the end.
merge_thread_turn_details ==
    \E ids \in SUBSET (Ids \ {"pending"}) :
      /\ Change /\ open # None
      /\ {m.id : m \in ToSet(items)} \ {"pending"} \subseteq ids
      /\ items' = [n \in 1..Cardinality(ids) |->
                     LET id == SelectSeq(ServerOrder, LAMBDA i : i \in ids)[n]
                     IN [id |-> id,
                         text |-> IF Has(id) /\ ~(id = "agent" /\ cut) THEN Text(id) ELSE MaxText]]
                  \o SelectSeq(items, LAMBDA m : m.id = "pending")
      /\ mark_transcript_changed /\ RenderEvent
      /\ UNCHANGED <<open, streaming, routed, progress, cut>>

push_pending_steer ==
    /\ Change /\ open # None /\ page = "chat" /\ ~Has("pending")
    /\ items' = Append(items, [id |-> "pending", text |-> 1])
    /\ mark_transcript_changed /\ schedule_transcript_render
    /\ UNCHANGED <<open, streaming, routed, progress, reasoning, page, drawn, cut>>

remove_pending_steer ==
    /\ Change /\ Has("pending")
    /\ items' = SelectSeq(items, LAMBDA m : m.id # "pending")
    /\ mark_transcript_changed /\ schedule_transcript_render
    /\ UNCHANGED <<open, streaming, routed, progress, reasoning, page, drawn, cut>>

record_turn_route ==
    /\ Change /\ open # None /\ ~routed /\ routed' = TRUE
    /\ mark_transcript_changed /\ schedule_transcript_render
    /\ UNCHANGED <<open, items, streaming, progress, reasoning, page, drawn, cut>>

\* turn/completed; a status of idle ends the turn too, and marks nothing.
Completed ==
    /\ Change /\ open # None /\ progress' = FALSE
    /\ \/ mark_transcript_changed
       \/ UNCHANGED revision
    /\ RenderEvent
    /\ UNCHANGED <<open, items, streaming, routed, cut>>

\* What was streaming is not forgotten; the rest of it is never heard.
Disconnect ==
    /\ Change /\ open # None
    /\ cut' = (cut \/ (Has("agent") /\ Text("agent") = 0))
    /\ RenderEvent
    /\ UNCHANGED task

---------------------------------------------------------------------------
(* The user.                                                               *)

activate_thread(t) ==
    IF t = open THEN UNCHANGED task /\ UNCHANGED cut
    ELSE /\ open' = t /\ items' = <<>> /\ streaming' = 0
         /\ routed' \in BOOLEAN /\ progress' \in BOOLEAN
         /\ cut' = FALSE
         /\ mark_transcript_changed

OpenTask ==
    \E t \in Tasks :
      /\ Change /\ activate_thread(t)
      /\ page' = "chat"
      /\ UNCHANGED <<reasoning, scheduled>>
      /\ render_transcript(last)

NewTask ==
    /\ Change
    /\ open' = None /\ mark_transcript_changed
    /\ items' = <<>> /\ streaming' = 0 /\ routed' = FALSE /\ progress' = FALSE /\ cut' = FALSE
    /\ page' = "chat"
    /\ UNCHANGED <<reasoning, scheduled>>
    /\ render_transcript(invalidate_transcript)

toggle_thread_pin ==
    /\ Change /\ open # None
    /\ UNCHANGED <<task, reasoning, page, scheduled, cut>>
    /\ render_transcript(invalidate_transcript)

\* Another account: all of the task's state is new, its revision too.
SwitchProfile ==
    /\ Change
    /\ open' = None /\ items' = <<>> /\ streaming' = 0 /\ routed' = FALSE /\ progress' = FALSE
    /\ revision' = 0 /\ cut' = FALSE
    /\ UNCHANGED <<reasoning, page, scheduled>>
    /\ render_transcript(invalidate_transcript)

save_preferences ==
    /\ Change /\ page = "other" /\ reasoning' = ~reasoning
    /\ UNCHANGED <<task, page, scheduled, drawn, cut>>

ShowPage ==
    /\ Change /\ page' = (IF page = "chat" THEN "other" ELSE "chat")
    /\ UNCHANGED <<task, reasoning, scheduled, cut>>
    /\ IF page' = "chat" THEN render_transcript(last) ELSE UNCHANGED drawn

Next ==
    \/ Tick \/ Started \/ ItemStarted \/ Delta \/ ItemCompleted \/ merge_thread_turn_details
    \/ push_pending_steer \/ remove_pending_steer \/ record_turn_route \/ Completed \/ Disconnect
    \/ OpenTask \/ NewTask \/ toggle_thread_pin \/ SwitchProfile \/ save_preferences \/ ShowPage

Spec == Init /\ [][Next]_vars

---------------------------------------------------------------------------
(* Properties.                                                             *)

\* What a window opened now would show of the task.
Fresh ==
    IF open = None THEN Welcome
    ELSE LET specs == transcript_row_specs
             cards == SelectSeq(specs, LAMBDA spec : append_item_to(spec) # <<>>)
         IN [n \in 1..Len(cards) |-> append_item_to(cards[n])[1]]

\* Drawing row by row gives what drawing everything would: when no drawing is
\* due, the chat page shows the rows of the open task, in order and up to
\* date, and a message that is complete is shown whole unless a lost
\* connection cut it short (render_transcript, reconcile_transcript_rows).
Drawn ==
    (page = "chat" /\ ~scheduled) =>
      /\ box = Fresh
      /\ (open # None /\ Has("agent") /\ Text("agent") > 0 /\ ~cut) =>
           \E n \in 1..Len(box) : box[n] = [key |-> "agent", text |-> Text("agent")]
=============================================================================
