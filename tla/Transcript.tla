------------------------------ MODULE Transcript ------------------------------
(***************************************************************************)
(* What the open task shows (model.rs and its callers in ui/mod.rs): its   *)
(* turns, built from live notifications, from pages of `thread/turns/list',*)
(* from one turn's full activity, from optimistic copies of steered        *)
(* messages, and from the rollout file itself, read by a host worker       *)
(* whenever its fingerprint changed.  A page holds summaries; the rollout  *)
(* holds every message.                                                    *)
(*                                                                         *)
(* The app-server is external: it answers requests in order, on the stream *)
(* that carries its notifications.  Another client may start turns too.    *)
(***************************************************************************)
EXTENDS Integers, Sequences, SequencesExt

CONSTANTS
    MaxTurns,     \* bound on the turns of the task
    MaxMessages,  \* bound on the messages of the task
    MaxVisits,    \* bound on the user's switches away, and on the lost connections
    MaxClicks     \* bound on "Load older" and "Load activity"

VARIABLES
    \* the server
    rollout,     \* the messages of each turn, in the order they were recorded
    last,        \* the newest turn
    running,     \* it has not ended
    asks,        \* requests it has yet to handle
    subscribed,  \* it notifies this client about the task
    stream,      \* notifications and answers on their way
    \* the client
    ready,       \* ConnectionState::Ready
    open,        \* the task is active_thread_id
    turns,       \* threads[task].turns
    activeTurn,  \* active_turn_id, 0 for none
    cursor,      \* transcript_cursors: the turn older pages begin before, 0 for none
    loading,     \* the task is in transcript_detail_loading
    job,         \* LoadRolloutChat, and the rollout as it read it
    fingerprint, \* local_history_fingerprints: the rollout's size when last loaded
    resumed,     \* the newest page came with the answer to `thread/resume'
    \* bounds
    messages, visits, clicks

server == <<rollout, last, running, asks, subscribed>>
vars == <<rollout, last, running, asks, subscribed, stream, ready, open, turns, activeTurn,
          cursor, loading, job, fingerprint, resumed, messages, visits, clicks>>

NoJob    == [at |-> "none", log |-> <<>>]
AskedJob == [at |-> "asked", log |-> <<>>]

Ids == 1..MaxTurns
Size(log) == FoldFunction(LAMBDA s, n : n + Len(s), 0, log)

Kinds == {"open", "page", "older", "details", "send", "steer"}

Init ==
    /\ rollout = [t \in Ids |-> <<>>] /\ last = 0 /\ running = FALSE
    /\ asks = <<>> /\ subscribed = TRUE /\ stream = <<>>
    /\ ready = TRUE /\ open = TRUE /\ turns = <<>> /\ activeTurn = 0
    /\ cursor = 0 /\ loading = FALSE /\ job = NoJob
    /\ fingerprint = 0 /\ resumed = FALSE
    /\ messages = 0 /\ visits = 0 /\ clicks = 0

---------------------------------------------------------------------------
(* The items of a turn: [msg, pending], pending the optimistic copy of a   *)
(* steered message.                                                        *)

Item(m) == [msg |-> m, pending |-> FALSE]
Says(items, m) == \E i \in DOMAIN items : items[i].msg = m

\* A plausible mistake: the optimistic copy stays.
KeepPending(items, m) == items

\* remove_matching_pending_user_item
RemovePending(items, m) == SelectSeq(items, LAMBDA item : ~(item.pending /\ item.msg = m))

\* upsert_item, and one item of merge_progressive_turn: by id, at the end.
UpsertItem(items, m) ==
    LET rest == RemovePending(items, m)
    IN  IF Item(m) \in ToSet(rest) THEN rest ELSE Append(rest, Item(m))

MergeItems(items, incoming) == FoldLeft(UpsertItem, items, incoming)

\* The first place after `anchor' that shows m, 0 for none.
Match(items, anchor, m) ==
    SelectInSubSeq(items, anchor + 1, Len(items), LAMBDA item : item.msg = m)

\* Where a recovered message nothing matches goes: before the first of the
\* later ones that is shown.
PlaceFor(items, anchor, later) ==
    LET known == SelectSeq(later, LAMBDA m : Match(items, anchor, m) # 0)
    IN  IF known = <<>> THEN Len(items) + 1 ELSE Match(items, anchor, known[1])

\* merge_local_recovery_items: by content, in the order of the rollout.
MergeRecovered(items, incoming) ==
    LET Step(acc, n) ==
          LET rest == RemovePending(acc.items, incoming[n])
              at   == Match(rest, acc.anchor, incoming[n])
              to   == PlaceFor(rest, acc.anchor, SubSeq(incoming, n + 1, Len(incoming)))
          IN  IF at # 0 THEN [items |-> rest, anchor |-> at]
              ELSE [items |-> InsertAt(rest, to, Item(incoming[n])), anchor |-> to]
    IN  FoldLeft(Step, [items |-> items, anchor |-> 0], [n \in DOMAIN incoming |-> n]).items

---------------------------------------------------------------------------
(* The turns: [id, view, items].                                           *)

Has(ts, t) == \E i \in DOMAIN ts : ts[i].id = t
At(ts, t)  == CHOOSE i \in DOMAIN ts : ts[i].id = t
InOrder(ts) == SortSeq(ts, LAMBDA a, b : a.id < b.id)

\* A page's turn: merged into the turn shown, if that is more than a summary.
Detailed(ts, turn) ==
    IF Has(ts, turn.id) /\ ts[At(ts, turn.id)].view # "summary"
    THEN [ts[At(ts, turn.id)] EXCEPT !.items = MergeItems(@, [i \in DOMAIN turn.items |-> turn.items[i].msg])]
    ELSE turn

\* set_thread_turns: a newest page sorts the turns, an older one goes first.
SetThreadTurns(ts, page, prepend) ==
    LET incoming == [i \in DOMAIN page |-> Detailed(ts, page[i])]
        rest     == SelectSeq(ts, LAMBDA turn : ~Has(page, turn.id))
    IN  IF prepend THEN incoming \o rest ELSE InOrder(incoming \o rest)

\* merge_local_chat_turns: every turn of the rollout.
MergeLocalChat(ts, log) ==
    LET Step(acc, t) ==
          IF log[t] = <<>> THEN acc
          ELSE IF Has(acc, t)
          THEN [acc EXCEPT ![At(acc, t)] = [@ EXCEPT !.view = "localRecovery",
                                                     !.items = MergeRecovered(@, log[t])]]
          ELSE Append(acc, [id |-> t, view |-> "localRecovery",
                            items |-> [i \in DOMAIN log[t] |-> Item(log[t][i])]])
    IN  InOrder(FoldLeft(Step, ts, [t \in Ids |-> t]))

\* merge_thread_turn_details: the full turn, and the optimistic copies it
\* does not have yet.
MergeDetails(ts, turn) ==
    LET kept == SelectSeq(ts[At(ts, turn.id)].items, LAMBDA item : item.pending /\ ~Says(turn.items, item.msg))
    IN  IF Has(ts, turn.id)
        THEN [ts EXCEPT ![At(ts, turn.id)] = [turn EXCEPT !.items = @ \o kept]]
        ELSE InOrder(Append(ts, turn))

\* upsert_item finds its turn or drops the item.
UpsertInto(ts, t, m) ==
    IF Has(ts, t) THEN [ts EXCEPT ![At(ts, t)].items = UpsertItem(@, m)] ELSE ts

---------------------------------------------------------------------------
(* The server (external).                                                  *)

ClientSame == UNCHANGED <<ready, open, turns, activeTurn, cursor, loading, job,
                          fingerprint, resumed, visits, clicks>>

Notify(events) == stream' = IF subscribed THEN stream \o events ELSE stream

Record(t, m) ==
    /\ rollout' = [rollout EXCEPT ![t] = Append(@, m)]
    /\ last' = t /\ running' = TRUE

NewMessage == messages + 1
Said == messages < MaxMessages /\ messages' = NewMessage

Started(t, m) == <<[kind |-> "started", turn |-> t], [kind |-> "item", turn |-> t, msg |-> m]>>

\* Another client starts a turn.
StartElsewhere ==
    /\ ~running /\ last < MaxTurns /\ Said
    /\ Record(last + 1, NewMessage) /\ Notify(Started(last + 1, NewMessage))
    /\ ClientSame /\ UNCHANGED <<asks, subscribed>>

\* The agent says something.
Answer ==
    /\ running /\ Said
    /\ Record(last, NewMessage)
    /\ Notify(<<[kind |-> "item", turn |-> last, msg |-> NewMessage]>>)
    /\ ClientSame /\ UNCHANGED <<asks, subscribed>>

EndTurn ==
    /\ running /\ running' = FALSE
    /\ Notify(<<[kind |-> "completed", turn |-> last]>>)
    /\ ClientSame /\ UNCHANGED <<rollout, last, asks, subscribed, messages>>

\* A summary turn: its first and its last message.
Summary(t) ==
    [id |-> t, view |-> "summary",
     items |-> IF Len(rollout[t]) < 2 THEN [i \in DOMAIN rollout[t] |-> Item(rollout[t][i])]
               ELSE <<Item(rollout[t][1]), Item(Last(rollout[t]))>>]

Full(t) == [id |-> t, view |-> "full", items |-> [i \in DOMAIN rollout[t] |-> Item(rollout[t][i])]]

\* A page is one turn here: the newest before `below'.
Page(below) == IF below <= 1 THEN <<>> ELSE <<Summary(below - 1)>>

Reply(kind, page, below) ==
    [kind |-> kind, page |-> page, cursor |-> IF below <= 2 THEN 0 ELSE below - 1]

HandleAsk ==
    /\ asks # <<>>
    /\ LET ask == Head(asks) IN
       /\ asks' = Tail(asks)
       /\ subscribed' = (subscribed \/ ask.kind = "open")
       /\ \/ /\ ask.kind \in {"open", "page"}
             /\ stream' = Append(stream, Reply(ask.kind, Page(last + 1), last + 1))
             /\ UNCHANGED <<rollout, last, running>>
          \/ /\ ask.kind = "older"
             /\ stream' = Append(stream, Reply("older", Page(ask.below), ask.below))
             /\ UNCHANGED <<rollout, last, running>>
          \/ /\ ask.kind = "details"
             /\ stream' = Append(stream, [kind |-> "details",
                                          page |-> IF last = 0 THEN <<>> ELSE <<Full(last)>>])
             /\ UNCHANGED <<rollout, last, running>>
          \* A message to a running turn is added to it, however it was sent.
          \/ /\ ask.kind \in {"send", "steer"} /\ running
             /\ Record(last, ask.msg)
             /\ stream' = stream \o <<[kind |-> "item", turn |-> last, msg |-> ask.msg],
                                      [kind |-> ask.kind, turn |-> last, msg |-> ask.msg]>>
          \/ /\ ask.kind = "send" /\ ~running /\ last < MaxTurns
             /\ Record(last + 1, ask.msg)
             /\ stream' = Append(stream \o Started(last + 1, ask.msg),
                                 [kind |-> "send", turn |-> last + 1, msg |-> ask.msg])
          \/ /\ \/ ask.kind = "send" /\ ~running /\ last = MaxTurns
                \/ ask.kind = "steer" /\ ~running
             /\ stream' = Append(stream, [kind |-> "refused", of |-> ask.kind, msg |-> ask.msg])
             /\ UNCHANGED <<rollout, last, running>>
    /\ ClientSame /\ UNCHANGED messages

---------------------------------------------------------------------------
(* The client.  `pending' holds what the server has not answered or whose  *)
(* answer is on its way; both end with the connection.                     *)

Answered(event) == IF event.kind = "refused" THEN event.of ELSE event.kind
Pending(toDo, onTheWay) ==
    {toDo[i].kind : i \in DOMAIN toDo}
      \cup {Answered(onTheWay[i]) : i \in {j \in DOMAIN onTheWay :
                                            Answered(onTheWay[j]) \in Kinds}}
pending == Pending(asks, stream)

Ask(kind) == [kind |-> kind]

\* request_thread_summary: unless such a page is on its way.
PageAsk == IF "page" \in pending THEN <<>> ELSE <<Ask("page")>>

\* request_turn_activity: unless the flag says it is on its way.
DetailsAsk == IF loading THEN <<>> ELSE <<Ask("details")>>

Send(requests, answered) ==
    /\ asks' = asks \o requests
    /\ loading' = IF "details" \in {requests[i].kind : i \in DOMAIN requests} THEN TRUE
                  ELSE loading /\ "details" \notin answered

Fixed == UNCHANGED <<rollout, last, running, subscribed>>
Bounds == UNCHANGED <<messages, visits, clicks>>

\* refresh_active_local_chat_history, in the state the caller leaves: no
\* history request is pending, no job runs, and the rollout is not the one
\* last loaded.
Due(print) ==
    /\ job = NoJob /\ Size(rollout) # 0
    /\ Pending(asks', stream') \cap {"open", "page", "older", "details"} = {}
    /\ ~(turns' # <<>> /\ print = Size(rollout))

Refresh(print) ==
    /\ fingerprint' = print
    /\ job' = IF open /\ Due(print) THEN AskedJob ELSE job

NoRefresh == UNCHANGED <<job, fingerprint, resumed>>

\* A newest page, then perhaps the newest turn's activity.
ApplyPage(event, hydrate) ==
    /\ turns' = SetThreadTurns(turns, event.page, FALSE)
    /\ cursor' = event.cursor
    /\ Send(IF hydrate THEN DetailsAsk ELSE <<>>, {event.kind})

\* A plausible mistake: the fingerprint is kept.
KeptAfterPage == fingerprint

\* After a newest page the rollout is read again, changed or not.
AfterPage == 0

Receive ==
    /\ stream # <<>> /\ stream' = Tail(stream)
    /\ LET event == Head(stream) IN
       \* upsert_turn; the turn is taken for the open task's
       \/ /\ event.kind = "started"
          /\ activeTurn' = event.turn
          /\ turns' = IF Has(turns, event.turn) THEN turns
                      ELSE Append(turns, [id |-> event.turn, view |-> "", items |-> <<>>])
          /\ UNCHANGED <<asks, cursor, loading>> /\ NoRefresh
       \/ /\ event.kind = "item"
          /\ turns' = UpsertInto(turns, event.turn, event.msg)
          /\ UNCHANGED <<asks, cursor, loading, activeTurn>> /\ NoRefresh
       \* complete_turn_lifecycle, upsert_turn and, for the open task, a re-read
       \/ /\ event.kind = "completed"
          /\ activeTurn' = IF open /\ activeTurn \in {0, event.turn} THEN 0 ELSE activeTurn
          /\ turns' = IF Has(turns, event.turn) THEN turns
                      ELSE Append(turns, [id |-> event.turn, view |-> "", items |-> <<>>])
          /\ Send(IF open THEN PageAsk ELSE <<>>, {})
          /\ UNCHANGED cursor /\ NoRefresh
       \* The answer to thread/resume carries a page, applied open or not.
       \/ /\ event.kind = "open"
          /\ \E hydrate \in BOOLEAN : ApplyPage(event, hydrate /\ open /\ event.page # <<>>)
          /\ resumed' = TRUE
          /\ Refresh(fingerprint)
          /\ UNCHANGED activeTurn
       \/ /\ event.kind = "page" /\ open
          /\ \E hydrate \in BOOLEAN : ApplyPage(event, hydrate /\ event.page # <<>>)
          /\ resumed' = FALSE
          /\ Refresh(AfterPage)
          /\ UNCHANGED activeTurn
       \/ /\ event.kind = "older" /\ open
          /\ turns' = SetThreadTurns(turns, event.page, TRUE)
          /\ cursor' = event.cursor
          /\ Send(<<>>, {"older"})
          /\ UNCHANGED activeTurn /\ NoRefresh
       \/ /\ event.kind = "details" /\ open
          /\ turns' = IF event.page = <<>> THEN turns ELSE MergeDetails(turns, event.page[1])
          /\ Send(<<>>, {"details"})
          /\ UNCHANGED <<activeTurn, cursor>> /\ NoRefresh
       \/ /\ event.kind \in {"page", "older", "details"} /\ ~open
          /\ Send(<<>>, {event.kind})
          /\ UNCHANGED <<turns, activeTurn, cursor>> /\ NoRefresh
       \/ /\ event.kind = "send"
          /\ activeTurn' = IF open THEN event.turn ELSE activeTurn
          /\ Send(<<>>, {"send"})
          /\ UNCHANGED <<turns, cursor>> /\ NoRefresh
       \/ /\ event.kind = "steer"
          /\ activeTurn' = IF open THEN event.turn ELSE activeTurn
          /\ Send(<<>>, {"steer"})
          /\ UNCHANGED <<turns, cursor>> /\ NoRefresh
       \* remove_pending_steer, clear_stale_turn, and start_turn instead
       \/ /\ event.kind = "refused" /\ event.of = "steer"
          /\ turns' = [i \in DOMAIN turns |->
                         [turns[i] EXCEPT !.items = RemovePending(@, event.msg)]]
          /\ activeTurn' = IF open THEN 0 ELSE activeTurn
          /\ Send(<<[kind |-> "send", msg |-> event.msg]>>, {"steer"})
          /\ UNCHANGED cursor /\ NoRefresh
       \/ /\ event.kind = "refused" /\ event.of = "send"
          /\ Send(<<>>, {"send"})
          /\ UNCHANGED <<turns, activeTurn, cursor>> /\ NoRefresh
    /\ UNCHANGED <<ready, open>> /\ Fixed /\ Bounds

\* send_composer with a turn to steer: the message is shown at once.
Steer ==
    /\ ready /\ open /\ activeTurn # 0 /\ pending \cap {"send", "steer"} = {} /\ Said
    /\ turns' = LET shown == IF Has(turns, activeTurn) THEN turns
                             ELSE Append(turns, [id |-> activeTurn, view |-> "full", items |-> <<>>])
                IN  [shown EXCEPT ![At(shown, activeTurn)].items =
                       Append(@, [msg |-> NewMessage, pending |-> TRUE])]
    /\ Send(<<[kind |-> "steer", msg |-> NewMessage]>>, {})
    /\ UNCHANGED <<stream, ready, open, activeTurn, cursor, visits, clicks>> /\ Fixed /\ NoRefresh

SendTurn ==
    /\ ready /\ open /\ activeTurn = 0 /\ pending \cap {"open", "send", "steer"} = {} /\ Said
    /\ subscribed
    /\ Send(<<[kind |-> "send", msg |-> NewMessage]>>, {})
    /\ UNCHANGED <<stream, ready, open, turns, activeTurn, cursor, visits, clicks>> /\ Fixed /\ NoRefresh

\* load_older_turns and load_previous_turn_activity
LoadOlder ==
    /\ ready /\ open /\ cursor # 0 /\ "older" \notin pending
    /\ clicks < MaxClicks /\ clicks' = clicks + 1
    /\ Send(<<[kind |-> "older", below |-> cursor]>>, {})
    /\ UNCHANGED <<stream, ready, open, turns, activeTurn, cursor, messages, visits>> /\ Fixed /\ NoRefresh

LoadActivity ==
    /\ ready /\ open /\ turns # <<>> /\ ~loading
    /\ clicks < MaxClicks /\ clicks' = clicks + 1
    /\ Send(DetailsAsk, {})
    /\ UNCHANGED <<stream, ready, open, turns, activeTurn, cursor, messages, visits>> /\ Fixed /\ NoRefresh

\* activate_thread for another task: this one keeps no turns.
Leave ==
    /\ open /\ visits < MaxVisits /\ visits' = visits + 1
    /\ open' = FALSE /\ turns' = <<>> /\ activeTurn' = 0 /\ loading' = FALSE
    /\ UNCHANGED <<asks, stream, ready, cursor, messages, clicks>> /\ Fixed /\ NoRefresh

\* unsubscribe_idle_threads, once the client saw the turn end.
Unsubscribe ==
    /\ ~open /\ subscribed /\ ~running /\ ready /\ pending = {} /\ stream = <<>>
    /\ subscribed' = FALSE
    /\ UNCHANGED <<rollout, last, running, asks, stream, messages>> /\ ClientSame

\* activate_thread for this task, then open_thread_live.
Return ==
    /\ ~open /\ open' = TRUE /\ activeTurn' = 0
    /\ Send(IF ~ready \/ "open" \in pending THEN <<>>
            ELSE IF subscribed THEN PageAsk ELSE <<Ask("open")>>, {})
    /\ UNCHANGED <<stream, ready, turns, cursor>> /\ Fixed /\ Bounds /\ NoRefresh

\* The timer of the window.
Tick ==
    /\ open /\ UNCHANGED <<turns, asks, stream>> /\ Due(fingerprint) /\ job' = AskedJob
    /\ UNCHANGED <<ready, open, activeTurn, cursor, loading, fingerprint, resumed>>
    /\ Fixed /\ Bounds

\* load_rollout_chat, on a host worker.
ReadRollout ==
    /\ job = AskedJob /\ job' = [at |-> "read", log |-> rollout]
    /\ UNCHANGED <<stream, ready, open, turns, activeTurn, cursor, loading, fingerprint, resumed>>
    /\ UNCHANGED server /\ Bounds

\* Its result (a rollout it cannot read is left out), merged if the task is open.
Recover ==
    /\ job.at = "read" /\ job' = NoJob
    /\ fingerprint' = Size(job.log)
    /\ turns' = IF open THEN MergeLocalChat(turns, job.log) ELSE turns
    /\ UNCHANGED <<stream, ready, open, activeTurn, cursor, loading, resumed>>
    /\ UNCHANGED server /\ Bounds

\* Disconnected: `pending' and the subscriptions are gone, the flags are not.
Disconnect ==
    /\ ready /\ visits < MaxVisits /\ visits' = visits + 1
    /\ ready' = FALSE /\ subscribed' = FALSE
    /\ asks' = <<>> /\ stream' = <<>>
    /\ UNCHANGED <<rollout, last, running, open, turns, activeTurn, cursor, loading, messages, clicks>>
    /\ NoRefresh

Connect ==
    /\ ~ready /\ ready' = TRUE
    /\ Send(IF open THEN <<Ask("open")>> ELSE <<>>, {})
    /\ UNCHANGED <<stream, open, turns, activeTurn, cursor>> /\ Fixed /\ Bounds /\ NoRefresh

---------------------------------------------------------------------------
Next ==
    \/ StartElsewhere \/ Answer \/ EndTurn \/ HandleAsk
    \/ Receive \/ Steer \/ SendTurn \/ LoadOlder \/ LoadActivity
    \/ Leave \/ Unsubscribe \/ Return \/ Tick \/ ReadRollout \/ Recover
    \/ Disconnect \/ Connect

Spec == Init /\ [][Next]_vars

---------------------------------------------------------------------------
(* Properties.                                                             *)

\* Nothing is on its way and no refresh is due.
Settled ==
    /\ ready /\ open /\ asks = <<>> /\ stream = <<>> /\ pending = {}
    /\ job = NoJob /\ Size(rollout) # 0 /\ turns # <<>> /\ fingerprint = Size(rollout)

Shown(t) == IF Has(turns, t) THEN turns[At(turns, t)].items ELSE <<>>

\* Once everything has settled, every message of the rollout is shown in its
\* turn, whichever of notifications, pages, activity and recovery brought it
\* and whatever was lost, unless a resumed task brought its own page.
Complete == \A t \in 1..last : \A m \in ToSet(rollout[t]) : Item(m) \in ToSet(Shown(t))
ShowsTheRollout == Settled /\ ~resumed => Complete

\* ... and no optimistic copy stands beside a recorded message.
NoTwin ==
    Settled => \A t \in 1..last : \A item \in ToSet(Shown(t)) :
      item.pending => item.msg \notin ToSet(rollout[t])

\* "Re-merge the read-only source after every newest page so a stale response
\* cannot erase recovered chat": also when the page came with a reopened task.
ReopenedShowsTheRollout == Settled => Complete

\* "local_rollout_chat_deduplicates_projected_messages_with_different_ids":
\* recovery shows no message twice.
NothingTwice ==
    \A i \in DOMAIN turns : \A j, k \in DOMAIN turns[i].items :
      turns[i].items[j].msg = turns[i].items[k].msg => j = k

\* "Responses from the dead transport cannot arrive": what waits for one ends
\* with the transport.
LoadingEnds == loading => "details" \in pending
===============================================================================
