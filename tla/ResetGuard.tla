---------------------------- MODULE ResetGuard ----------------------------
(***************************************************************************)
(* The headless watcher behind `codex-native --watch-one-time-reset`       *)
(* (ui/mod.rs, run_one_time_reset_watch): a user authorizes ONE weekly-    *)
(* limit reset credit under an idempotency key; the watcher polls the rate *)
(* limits and spends the credit when little of the week is left.  The only *)
(* memory it has across crashes is one guard file.                         *)
(*                                                                         *)
(* Any number of watchers (Procs) may be started, crash and be started     *)
(* again; each owns a transport (the AppServerHub it spawns) that goes up  *)
(* and down and hands it events in order.  The credit service is external. *)
(***************************************************************************)
EXTENDS Naturals, Sequences

CONSTANTS
    Procs,      \* watcher processes sharing the guard file
    Keys,       \* authorization keys a user may pass on the command line
    NoKey,      \* guard.idempotency_key = None: no guard file yet
    Ids,        \* JSON-RPC ids; one is reused only when nothing carries it
    NoId,       \* rate_request / consume_request = None
    Credits,    \* reset credits the account owns at the start
    MaxEvents   \* bound on a watcher's undrained events

ASSUME KeyAssumption == NoKey \notin Keys
ASSUME IdAssumption == NoId \notin Ids
ASSUME CreditAssumption == Credits \in Nat
ASSUME EventBoundAssumption == MaxEvents \in Nat

VARIABLES
    disk,       \* one-time-reset-guard.json
    pc,         \* where each watcher is in its code
    guard,      \* the watcher's in-memory OneTimeResetGuard
    ready,      \* `ready`: the watcher saw Ready and no Disconnected since
    rateReq,    \* `rate_request`
    consumeReq, \* `consume_request`
    link,       \* the transport under the watcher's hub
    evq,        \* events the hub emitted and the watcher has not drained
    wire,       \* requests handed to the hub and not answered
    orphans,    \* keys of consume requests whose answer nobody will read
    redeemed,   \* keys under which the service spent a credit
    credits,    \* credits left
    weekly      \* the weekly window as the service reports it

procVars == <<pc, guard, ready, rateReq, consumeReq>>
netVars  == <<link, evq, wire, orphans>>
svcVars  == <<redeemed, credits, weekly>>
vars     == <<disk, procVars, netVars, svcVars>>

Weekly   == {"above", "below", "unknown"}
Outcomes == {"reset", "nothingToReset", "noCredit", "alreadyRedeemed", "failed"}
Guard    == [armed : BOOLEAN, key : Keys \cup {NoKey},
             outcome : {"none", "armed", "pending"} \cup Outcomes]
NoGuard  == [armed |-> FALSE, key |-> NoKey, outcome |-> "none"]
Request  == [id : Ids, kind : {"rate", "consume"}, key : Keys]
Event    == [kind : {"Ready", "Disconnected", "Response"}, id : Ids \cup {NoId},
             val : Weekly \cup Outcomes \cup {"error", "none"}]
Running  == {"watching", "deciding", "sending", "completing"}

ReadyEvent        == [kind |-> "Ready", id |-> NoId, val |-> "none"]
DisconnectedEvent == [kind |-> "Disconnected", id |-> NoId, val |-> "none"]
Answer(i, v)      == [kind |-> "Response", id |-> i, val |-> v]

FreeIds(p) == Ids \ ({r.id : r \in wire[p]} \cup {evq[p][n].id : n \in DOMAIN evq[p]})
ConsumeKeys(R) == {r.key : r \in {q \in R : q.kind = "consume"}}

Init ==
    /\ disk = NoGuard
    /\ pc = [p \in Procs |-> "off"]
    /\ guard = [p \in Procs |-> NoGuard]
    /\ ready = [p \in Procs |-> FALSE]
    /\ rateReq = [p \in Procs |-> NoId]
    /\ consumeReq = [p \in Procs |-> NoId]
    /\ link = [p \in Procs |-> "down"]
    /\ evq = [p \in Procs |-> <<>>]
    /\ wire = [p \in Procs |-> {}]
    /\ orphans = {}
    /\ redeemed = {}
    /\ credits = Credits
    /\ weekly = "above"

---------------------------------------------------------------------------
(* Starting, dying.                                                        *)

\* Mutants of Start: any key, or a guard already used up, may be armed again.
StartWith(p, k, allowed) ==
    /\ pc[p] = "off" /\ allowed
    /\ guard' = [guard EXCEPT ![p] =
         [armed |-> TRUE, key |-> k,
          outcome |-> IF disk.outcome = "pending" THEN "pending" ELSE "armed"]]
    /\ pc' = [pc EXCEPT ![p] = "arming"]
    /\ UNCHANGED <<disk, ready, rateReq, consumeReq, netVars, svcVars>>
StartAnyKey(p, k) == StartWith(p, k, disk.key = k => disk.armed)
StartUsedGuard(p, k) == StartWith(p, k, disk.key \in {NoKey, k})

\* The command line names key k and the file is read.  Another key in the
\* file, or a disarmed guard, ends the command with nothing changed.
Start(p, k) ==
    /\ pc[p] = "off"
    /\ disk.key \in {NoKey, k}
    /\ disk.key = k => disk.armed
    /\ guard' = [guard EXCEPT ![p] =
         [armed |-> TRUE, key |-> k,
          outcome |-> IF disk.outcome = "pending" THEN "pending" ELSE "armed"]]
    /\ pc' = [pc EXCEPT ![p] = "arming"]
    /\ UNCHANGED <<disk, ready, rateReq, consumeReq, netVars, svcVars>>

\* write_json_atomic renames a complete file over the old one; then the hub
\* is spawned and the loop starts with nothing outstanding.
Arm(p) ==
    /\ pc[p] = "arming"
    /\ disk' = guard[p]
    /\ pc' = [pc EXCEPT ![p] = "watching"]
    /\ UNCHANGED <<guard, ready, rateReq, consumeReq, netVars, svcVars>>

\* The process is gone: its hub dies with it, but requests it already wrote
\* may still reach the service.
Exit(p) ==
    /\ pc' = [pc EXCEPT ![p] = "off"]
    /\ guard' = [guard EXCEPT ![p] = NoGuard]
    /\ ready' = [ready EXCEPT ![p] = FALSE]
    /\ rateReq' = [rateReq EXCEPT ![p] = NoId]
    /\ consumeReq' = [consumeReq EXCEPT ![p] = NoId]
    /\ link' = [link EXCEPT ![p] = "down"]
    /\ evq' = [evq EXCEPT ![p] = <<>>]
    /\ wire' = [wire EXCEPT ![p] = {}]
    /\ orphans' = orphans \cup ConsumeKeys(wire[p])

\* A crash, a kill, or a `?` on a failed file write: all leave the old file.
Crash(p) ==
    /\ pc[p] # "off"
    /\ Exit(p)
    /\ UNCHANGED <<disk, svcVars>>

---------------------------------------------------------------------------
(* The transport and the service: external to the watcher.                 *)

LinkUp(p) ==
    /\ pc[p] \in Running /\ link[p] = "down" /\ Len(evq[p]) < MaxEvents
    /\ link' = [link EXCEPT ![p] = "up"]
    /\ evq' = [evq EXCEPT ![p] = Append(@, ReadyEvent)]
    /\ UNCHANGED <<disk, procVars, wire, orphans, svcVars>>

\* Requests still in the command channel survive the outage and are written
\* to the next connection; the others lose their answer, not their effect.
LinkDown(p) ==
    /\ pc[p] \in Running /\ link[p] = "up" /\ Len(evq[p]) < MaxEvents
    /\ link' = [link EXCEPT ![p] = "down"]
    /\ evq' = [evq EXCEPT ![p] = Append(@, DisconnectedEvent)]
    /\ \E queued \in SUBSET wire[p] :
         /\ wire' = [wire EXCEPT ![p] = queued]
         /\ orphans' = orphans \cup ConsumeKeys(wire[p] \ queued)
    /\ UNCHANGED <<disk, procVars, svcVars>>

\* account/rateLimitResetCredit/consume under key k is answered o.
Redeem(k, o) ==
    \/ /\ o = "reset" /\ k \notin redeemed /\ credits > 0
       /\ redeemed' = redeemed \cup {k}
       /\ credits' = credits - 1
       /\ weekly' = "above"
    \/ /\ \/ o = "alreadyRedeemed" /\ k \in redeemed
          \/ o = "noCredit" /\ k \notin redeemed /\ credits = 0
          \/ o = "nothingToReset" /\ k \notin redeemed /\ credits > 0
          \/ o = "failed"
       /\ UNCHANGED svcVars

Reply(p, r, v) ==
    /\ link[p] = "up" /\ r \in wire[p] /\ Len(evq[p]) < MaxEvents
    /\ wire' = [wire EXCEPT ![p] = @ \ {r}]
    /\ evq' = [evq EXCEPT ![p] = Append(@, Answer(r.id, v))]
    /\ UNCHANGED <<disk, procVars, link, orphans>>

ServeRate(p) ==
    \E r \in wire[p] :
      /\ r.kind = "rate" /\ Reply(p, r, weekly)
      /\ UNCHANGED svcVars

ServeRateError(p) ==
    \E r \in wire[p] :
      /\ r.kind = "rate" /\ Reply(p, r, "error")
      /\ UNCHANGED svcVars

ServeConsume(p) ==
    \E r \in wire[p], o \in Outcomes :
      /\ r.kind = "consume" /\ Reply(p, r, o)
      /\ Redeem(r.key, o)

\* A consume request whose sender lost its connection is executed after all.
ServeOrphan ==
    \E k \in orphans, o \in Outcomes :
      /\ Redeem(k, o)
      /\ orphans' = orphans \ {k}
      /\ UNCHANGED <<disk, procVars, link, evq, wire>>

UseAllowance ==
    /\ weekly' \in Weekly \ {weekly}
    /\ UNCHANGED <<disk, procVars, netVars, redeemed, credits>>

---------------------------------------------------------------------------
(* The watch loop: one drained event, or one poll, per step.               *)

Drain(p, e) ==
    /\ pc[p] = "watching" /\ evq[p] # <<>> /\ Head(evq[p]) = e
    /\ evq' = [evq EXCEPT ![p] = Tail(@)]
    /\ UNCHANGED <<disk, link, wire, orphans, svcVars>>

OnReady(p) ==
    /\ Drain(p, ReadyEvent)
    /\ ready' = [ready EXCEPT ![p] = TRUE]
    /\ UNCHANGED <<pc, guard, rateReq, consumeReq>>

\* Mutant of OnDisconnected: the requests are still awaited.
OnDisconnectedAwaiting(p) ==
    /\ Drain(p, DisconnectedEvent)
    /\ ready' = [ready EXCEPT ![p] = FALSE]
    /\ UNCHANGED <<pc, guard, rateReq, consumeReq>>

OnDisconnected(p) ==
    /\ Drain(p, DisconnectedEvent)
    /\ ready' = [ready EXCEPT ![p] = FALSE]
    /\ rateReq' = [rateReq EXCEPT ![p] = NoId]
    /\ consumeReq' = [consumeReq EXCEPT ![p] = NoId]
    /\ UNCHANGED <<pc, guard>>

\* one_time_reset_decision: a pending attempt is repeated whatever is left
\* of the week; otherwise the weekly window must be known and low.
Consumes(g, w) == g.armed /\ (g.outcome = "pending" \/ w = "below")

\* Mutant of OnRate: the request goes out before the file is written.
OnRateUnsaved(p) ==
    /\ rateReq[p] # NoId
    /\ \E w \in Weekly :
         /\ Drain(p, Answer(rateReq[p], w))
         /\ Consumes(guard[p], w)
    /\ guard' = [guard EXCEPT ![p].outcome = "pending"]
    /\ pc' = [pc EXCEPT ![p] = "sending"]
    /\ rateReq' = [rateReq EXCEPT ![p] = NoId]
    /\ UNCHANGED <<ready, consumeReq>>

\* The answer to the outstanding rate-limit read.
OnRate(p) ==
    /\ rateReq[p] # NoId
    /\ \E w \in Weekly \cup {"error"} :
         /\ Drain(p, Answer(rateReq[p], w))
         /\ IF w # "error" /\ Consumes(guard[p], w)
            THEN /\ guard' = [guard EXCEPT ![p].outcome = "pending"]
                 /\ pc' = [pc EXCEPT ![p] = "deciding"]
            ELSE UNCHANGED <<pc, guard>>
    /\ rateReq' = [rateReq EXCEPT ![p] = NoId]
    /\ UNCHANGED <<ready, consumeReq>>

\* The pending attempt is on disk before the request exists.
PersistPending(p) ==
    /\ pc[p] = "deciding"
    /\ disk' = guard[p]
    /\ pc' = [pc EXCEPT ![p] = "sending"]
    /\ UNCHANGED <<guard, ready, rateReq, consumeReq, netVars, svcVars>>

Send(p, kind) ==
    \E i \in FreeIds(p) :
      /\ wire' = [wire EXCEPT ![p] = @ \cup {[id |-> i, kind |-> kind, key |-> guard[p].key]}]
      /\ IF kind = "rate"
         THEN rateReq' = [rateReq EXCEPT ![p] = i] /\ UNCHANGED consumeReq
         ELSE consumeReq' = [consumeReq EXCEPT ![p] = i] /\ UNCHANGED rateReq

SendConsume(p) ==
    /\ pc[p] = "sending"
    /\ Send(p, "consume")
    /\ pc' = [pc EXCEPT ![p] = "watching"]
    /\ UNCHANGED <<disk, guard, ready, link, evq, orphans, svcVars>>

\* Mutants of OnConsume: every answer is taken for a reset; the outcome is
\* stored as it came.
OnConsumeAs(p, recorded) ==
    /\ consumeReq[p] # NoId
    /\ \E o \in Outcomes :
         /\ Drain(p, Answer(consumeReq[p], o))
         /\ guard' = [guard EXCEPT ![p].armed = FALSE, ![p].outcome = recorded]
    /\ pc' = [pc EXCEPT ![p] = "completing"]
    /\ UNCHANGED <<ready, rateReq, consumeReq>>
OnConsumeOptimistic(p) == OnConsumeAs(p, "reset")
OnConsumeRaw(p) == OnConsumeAs(p, "outcome")

\* The answer to the outstanding consume request disarms the guard, an RPC
\* error included.
OnConsume(p) ==
    /\ consumeReq[p] # NoId
    /\ \E o \in Outcomes :
         /\ Drain(p, Answer(consumeReq[p], o))
         /\ guard' = [guard EXCEPT ![p].armed = FALSE, ![p].outcome = o]
    /\ pc' = [pc EXCEPT ![p] = "completing"]
    /\ UNCHANGED <<ready, rateReq, consumeReq>>

Complete(p) ==
    /\ pc[p] = "completing"
    /\ disk' = guard[p]
    /\ Exit(p)
    /\ UNCHANGED svcVars

\* An answer to a request forgotten at a disconnect.
OnStale(p) ==
    /\ \E n \in DOMAIN evq[p] :
         /\ n = 1 /\ evq[p][n].kind = "Response"
         /\ evq[p][n].id \notin {rateReq[p], consumeReq[p]}
         /\ Drain(p, evq[p][n])
    /\ UNCHANGED procVars

Poll(p) ==
    /\ pc[p] = "watching" /\ ready[p]
    /\ rateReq[p] = NoId /\ consumeReq[p] = NoId
    /\ Send(p, "rate")
    /\ UNCHANGED <<disk, pc, guard, ready, link, evq, orphans, svcVars>>

---------------------------------------------------------------------------
Watch(p) ==
    \/ Arm(p) \/ OnReady(p) \/ OnDisconnected(p) \/ OnRate(p) \/ PersistPending(p)
    \/ SendConsume(p) \/ OnConsume(p) \/ Complete(p) \/ OnStale(p) \/ Poll(p)

Environment(p) ==
    \/ Crash(p) \/ LinkUp(p) \/ LinkDown(p)
    \/ ServeRate(p) \/ ServeRateError(p) \/ ServeConsume(p)

Next ==
    \/ \E p \in Procs : Watch(p) \/ Environment(p)
    \/ \E p \in Procs, k \in Keys : Start(p, k)
    \/ ServeOrphan
    \/ UseAllowance

Spec == Init /\ [][Next]_vars

\* The loop keeps running while its process does; a lost transport is
\* reconnected by the hub's supervisor; the service answers, and does not
\* fail every rate-limit read for ever.
Fairness ==
    \A p \in Procs :
      /\ WF_vars(Watch(p))
      /\ WF_vars(LinkUp(p))
      /\ WF_vars(ServeConsume(p))
      /\ SF_vars(ServeRate(p))

FairSpec == Spec /\ Fairness

---------------------------------------------------------------------------
(* Properties.                                                             *)

\* Every variable has its type; in particular the file always holds a guard
\* with one of the documented outcomes, and credits never go negative.
TypeOK ==
    /\ disk \in Guard
    /\ pc \in [Procs -> Running \cup {"off", "arming"}]
    /\ guard \in [Procs -> Guard]
    /\ ready \in [Procs -> BOOLEAN]
    /\ rateReq \in [Procs -> Ids \cup {NoId}]
    /\ consumeReq \in [Procs -> Ids \cup {NoId}]
    /\ link \in [Procs -> {"up", "down"}]
    /\ evq \in [Procs -> Seq(Event)]
    /\ wire \in [Procs -> SUBSET Request]
    /\ orphans \in SUBSET Keys
    /\ redeemed \in SUBSET Keys
    /\ credits \in Nat
    /\ weekly \in Weekly

\* One-shot (persistence.rs:447): over every crash, restart, lost answer and
\* new authorization key, one guard file spends at most one credit.
AtMostOneCredit == \A j, k \in redeemed : j = k

Requested(k) ==
    \/ \E p \in Procs : k \in ConsumeKeys(wire[p])
    \/ k \in orphans
    \/ k \in redeemed

\* A consume request exists, in flight, orphaned or executed, only under the
\* key the guard file already holds with an attempt recorded in it: whatever
\* happens next, a restarted watcher repeats the same operation.
AttemptOnDiskFirst ==
    \A k \in Keys :
      Requested(k) => disk.key = k /\ disk.outcome \notin {"none", "armed"}

\* A guard file that records a used credit tells the truth.
RecordedResetHappened ==
    disk.outcome \in {"reset", "alreadyRedeemed"} => disk.key \in redeemed

\* A completed guard is final: no later step rewrites the file, and none
\* issues another consume request.
CompletedIsFinal ==
    [][disk.key # NoKey /\ ~disk.armed =>
         /\ disk' = disk
         /\ \A p \in Procs : ConsumeKeys(wire'[p]) \subseteq ConsumeKeys(wire[p])]_vars

Unfinished(p) ==
    /\ pc[p] # "off" /\ link[p] = "up" /\ disk.armed
    /\ guard[p].outcome = "pending" \/ weekly = "below"

\* A watcher that stays alive on a transport that stays up does not sit for
\* ever on an attempt whose answer was lost, or on a week that is low.
AttemptFinishes == \A p \in Procs : []<>~Unfinished(p)
===========================================================================
