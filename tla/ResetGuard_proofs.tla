------------------------- MODULE ResetGuard_proofs -------------------------
(***************************************************************************)
(* Proofs about ResetGuard for every set of keys, every number of credits  *)
(* and every number of crashes, restarts and lost answers.                 *)
(*                                                                         *)
(* Type correctness needs no hypothesis.  The rest is about ONE watcher at *)
(* a time on the guard file (SoleWatcher): the code takes no lock, and the *)
(* run ResetGuard_twokeys shows what two of them do.                       *)
(***************************************************************************)
EXTENDS ResetGuard, TLAPS

SoleWatcher == \A p, q \in Procs : p = q

USE KeyAssumption, IdAssumption, CreditAssumption, EventBoundAssumption

\* The consume keys of a set of requests are keys.
LEMMA ConsumeKeysType ==
    ASSUME NEW R \in SUBSET Request
    PROVE  ConsumeKeys(R) \in SUBSET Keys
BY DEF ConsumeKeys, Request

\* What is outstanding after a request is answered or forgotten asks for no
\* new key.
LEMMA ConsumeKeysMonotone ==
    ASSUME NEW R, NEW S \in SUBSET R
    PROVE  ConsumeKeys(S) \subseteq ConsumeKeys(R)
BY DEF ConsumeKeys

\* Recording an attempt or its outcome leaves a guard a guard, under its key.
LEMMA GuardUpdates ==
    ASSUME NEW g \in Guard
    PROVE  /\ [g EXCEPT !.outcome = "pending"] \in Guard
           /\ [g EXCEPT !.outcome = "pending"].key = g.key
           /\ \A o \in Outcomes :
                /\ [g EXCEPT !.armed = FALSE, !.outcome = o] \in Guard
                /\ [g EXCEPT !.armed = FALSE, !.outcome = o].key = g.key
BY DEF Guard

LEMMA EventTypes ==
    /\ ReadyEvent \in Event
    /\ DisconnectedEvent \in Event
    /\ \A i \in Ids, v \in Weekly \cup Outcomes \cup {"error"} : Answer(i, v) \in Event
BY DEF ReadyEvent, DisconnectedEvent, Answer, Event

\* A live watcher works under a key from its command line.
KeyKnown == \A p \in Procs : pc[p] # "off" => guard[p].key \in Keys

\* One step keeps every variable's type, action by action.
LEMMA TypeStep == TypeOK /\ KeyKnown /\ [Next]_vars => (TypeOK /\ KeyKnown)'
<1> SUFFICES ASSUME TypeOK, KeyKnown, [Next]_vars PROVE TypeOK' /\ KeyKnown'
  OBVIOUS
<1> USE DEF TypeOK, KeyKnown
<1>1. ASSUME NEW p \in Procs, Exit(p), disk' \in Guard, UNCHANGED svcVars
      PROVE  TypeOK' /\ KeyKnown'
  <2>1. orphans' \in SUBSET Keys
    BY <1>1, ConsumeKeysType DEF Exit
  <2>2. evq' \in [Procs -> Seq(Event)]
    BY <1>1 DEF Exit
  <2>3. QED
    BY <1>1, <2>1, <2>2 DEF Exit, svcVars, Guard, NoGuard, Running
<1>2. ASSUME NEW p \in Procs, NEW e, Drain(p, e)
      PROVE  /\ evq' \in [Procs -> Seq(Event)] /\ e \in Event
             /\ UNCHANGED <<disk, link, wire, orphans, svcVars>>
             /\ pc[p] = "watching"
  BY <1>2 DEF Drain
<1>3. ASSUME NEW k \in Keys, NEW o \in Outcomes, Redeem(k, o)
      PROVE  redeemed' \in SUBSET Keys /\ credits' \in Nat /\ weekly' \in Weekly
  BY <1>3 DEF Redeem, svcVars, Weekly
<1>4. ASSUME NEW p \in Procs, NEW kind \in {"rate", "consume"}, Send(p, kind),
             guard[p].key \in Keys
      PROVE  /\ wire' \in [Procs -> SUBSET Request]
             /\ rateReq' \in [Procs -> Ids \cup {NoId}]
             /\ consumeReq' \in [Procs -> Ids \cup {NoId}]
  <2>1. PICK i \in Ids :
          /\ wire' = [wire EXCEPT ![p] = @ \cup {[id |-> i, kind |-> kind, key |-> guard[p].key]}]
          /\ \/ rateReq' = [rateReq EXCEPT ![p] = i] /\ UNCHANGED consumeReq
             \/ consumeReq' = [consumeReq EXCEPT ![p] = i] /\ UNCHANGED rateReq
    BY <1>4 DEF Send, FreeIds
  <2>2. [id |-> i, kind |-> kind, key |-> guard[p].key] \in Request
    BY <1>4 DEF Request
  <2>3. wire' \in [Procs -> SUBSET Request]
    BY <2>1, <2>2
  <2>4. rateReq' \in [Procs -> Ids \cup {NoId}]
    BY <2>1
  <2>5. consumeReq' \in [Procs -> Ids \cup {NoId}]
    BY <2>1
  <2>6. QED
    BY <2>3, <2>4, <2>5
<1>5. ASSUME NEW p \in Procs, NEW r, NEW v \in Weekly \cup Outcomes \cup {"error"},
             Reply(p, r, v)
      PROVE  /\ wire' \in [Procs -> SUBSET Request] /\ evq' \in [Procs -> Seq(Event)]
             /\ UNCHANGED <<disk, procVars, link, orphans>>
  <2>1. r.id \in Ids
    BY <1>5 DEF Reply, Request
  <2>2. Answer(r.id, v) \in Event
    BY <2>1, EventTypes
  <2>3. QED
    BY <1>5, <2>2 DEF Reply
<1>6. CASE UNCHANGED vars
  BY <1>6 DEF vars, procVars, netVars, svcVars
<1>7. ASSUME NEW p \in Procs, Watch(p) PROVE TypeOK' /\ KeyKnown'
  <2>1. CASE Arm(p)
    BY <2>1 DEF Arm, netVars, svcVars, Running
  <2>2. CASE OnReady(p)
    BY <2>2, <1>2 DEF OnReady, svcVars
  <2>3. CASE OnDisconnected(p)
    BY <2>3, <1>2 DEF OnDisconnected, svcVars
  <2>4. CASE OnRate(p)
    <3>1. PICK w \in Weekly \cup {"error"} :
            /\ Drain(p, Answer(rateReq[p], w))
            /\ \/ /\ guard' = [guard EXCEPT ![p].outcome = "pending"]
                  /\ pc' = [pc EXCEPT ![p] = "deciding"]
               \/ UNCHANGED <<pc, guard>>
      BY <2>4 DEF OnRate
    <3>2. guard' \in [Procs -> Guard] /\ \A q \in Procs : guard'[q].key = guard[q].key
      <4>1. guard[p] \in Guard
        OBVIOUS
      <4>2. CASE UNCHANGED <<pc, guard>>
        BY <4>2
      <4>3. CASE guard' = [guard EXCEPT ![p].outcome = "pending"]
        <5> DEFINE g == [guard[p] EXCEPT !.outcome = "pending"]
        <5>1. g \in Guard /\ g.key = guard[p].key
          BY <4>1, GuardUpdates
        <5>2. guard' = [guard EXCEPT ![p] = g]
          BY <4>3
        <5> HIDE DEF g
        <5>3. QED
          BY <5>1, <5>2
      <4>4. QED
        BY <3>1, <4>2, <4>3
    <3>3. QED
      BY <2>4, <3>1, <3>2, <1>2 DEF OnRate, svcVars, Running
  <2>5. CASE PersistPending(p)
    BY <2>5 DEF PersistPending, netVars, svcVars, Running
  <2>6. CASE SendConsume(p)
    BY <2>6, <1>4 DEF SendConsume, svcVars, Running
  <2>7. CASE OnConsume(p)
    <3>1. PICK o \in Outcomes :
            /\ Drain(p, Answer(consumeReq[p], o))
            /\ guard' = [guard EXCEPT ![p].armed = FALSE, ![p].outcome = o]
      BY <2>7 DEF OnConsume
    <3>2. guard' \in [Procs -> Guard] /\ \A q \in Procs : guard'[q].key = guard[q].key
      <4> DEFINE g == [guard[p] EXCEPT !.armed = FALSE, !.outcome = o]
      <4>1. guard[p] \in Guard
        OBVIOUS
      <4>2. g \in Guard /\ g.key = guard[p].key
        BY <4>1, GuardUpdates
      <4>3. guard' = [guard EXCEPT ![p] = g]
        BY <3>1
      <4> HIDE DEF g
      <4>4. QED
        BY <4>2, <4>3
    <3>3. QED
      BY <2>7, <3>1, <3>2, <1>2 DEF OnConsume, svcVars, Running
  <2>8. CASE Complete(p)
    BY <2>8, <1>1 DEF Complete
  <2>9. CASE OnStale(p)
    BY <2>9, <1>2 DEF OnStale, procVars, svcVars
  <2>10. CASE Poll(p)
    BY <2>10, <1>4 DEF Poll, svcVars
  <2>11. QED
    BY <1>7, <2>1, <2>2, <2>3, <2>4, <2>5, <2>6, <2>7, <2>8, <2>9, <2>10 DEF Watch
<1>8. ASSUME NEW p \in Procs, Environment(p) PROVE TypeOK' /\ KeyKnown'
  <2>1. CASE Crash(p)
    BY <2>1, <1>1 DEF Crash
  <2>2. CASE LinkUp(p)
    BY <2>2, EventTypes DEF LinkUp, procVars, svcVars
  <2>3. CASE LinkDown(p)
    <3>1. PICK queued \in SUBSET wire[p] :
            /\ wire' = [wire EXCEPT ![p] = queued]
            /\ orphans' = orphans \cup ConsumeKeys(wire[p] \ queued)
      BY <2>3 DEF LinkDown
    <3>2. ConsumeKeys(wire[p] \ queued) \in SUBSET Keys
      BY ConsumeKeysType
    <3>3. evq' \in [Procs -> Seq(Event)]
      BY <2>3, EventTypes DEF LinkDown
    <3>4. wire' \in [Procs -> SUBSET Request] /\ orphans' \in SUBSET Keys
      BY <3>1, <3>2
    <3>5. QED
      BY <2>3, <3>3, <3>4 DEF LinkDown, procVars, svcVars
  <2>4. CASE ServeRate(p) \/ ServeRateError(p)
    BY <2>4, <1>5 DEF ServeRate, ServeRateError, procVars, svcVars
  <2>5. CASE ServeConsume(p)
    <3>1. PICK r \in wire[p], o \in Outcomes : Reply(p, r, o) /\ Redeem(r.key, o)
      BY <2>5 DEF ServeConsume
    <3>2. r.key \in Keys
      BY DEF Request
    <3>3. QED
      BY <3>1, <3>2, <1>3, <1>5 DEF procVars
  <2>6. QED
    BY <1>8, <2>1, <2>2, <2>3, <2>4, <2>5 DEF Environment
<1>9. ASSUME NEW p \in Procs, NEW k \in Keys, Start(p, k) PROVE TypeOK' /\ KeyKnown'
  BY <1>9 DEF Start, netVars, svcVars, Guard, Running
<1>10. CASE ServeOrphan
  <2>1. PICK k \in orphans, o \in Outcomes :
          /\ Redeem(k, o) /\ orphans' = orphans \ {k}
          /\ UNCHANGED <<disk, procVars, link, evq, wire>>
    BY <1>10 DEF ServeOrphan
  <2>2. QED
    BY <2>1, <1>3 DEF procVars
<1>11. CASE UseAllowance
  BY <1>11 DEF UseAllowance, procVars, netVars
<1>12. QED
  BY <1>6, <1>7, <1>8, <1>9, <1>10, <1>11 DEF Next

\* Every variable keeps its type: no step of a watcher, of its transport or
\* of the service leaves the states the code declares.
THEOREM TypeCorrect == Spec => []TypeOK
<1>1. Init => TypeOK /\ KeyKnown
  BY DEF Init, TypeOK, KeyKnown, Guard, NoGuard, Running, Weekly
<1>2. QED
  BY <1>1, TypeStep, PTL DEF Spec

---------------------------------------------------------------------------
\* The inductive invariant.  AtMostOneCredit says nothing of how the one key
\* comes to be the only one, so it is strengthened with what the guard file
\* can hold, how it relates to the live watcher's copy at each program
\* point, and what the undrained answers may claim.
FileShape ==
    /\ disk.key = NoKey => disk = NoGuard
    /\ disk.key # NoKey => disk.outcome # "none"
    /\ disk.armed <=> disk.outcome \in {"armed", "pending"}

CopyAgrees(p) ==
    /\ pc[p] \in {"off", "arming"} => wire[p] = {} /\ consumeReq[p] = NoId
    /\ pc[p] = "arming" =>
         /\ disk.key \in {NoKey, guard[p].key}
         /\ disk.key # NoKey => disk.armed
         /\ guard[p].armed
         /\ guard[p].outcome = IF disk.outcome = "pending" THEN "pending" ELSE "armed"
    /\ pc[p] \in {"watching", "sending"} => guard[p] = disk /\ disk.armed
    /\ pc[p] = "deciding" =>
         /\ disk.armed /\ guard[p].armed
         /\ guard[p].key = disk.key /\ guard[p].outcome = "pending"
    /\ pc[p] \in {"sending", "completing"} \/ consumeReq[p] # NoId => disk.outcome = "pending"
    /\ pc[p] = "completing" =>
         /\ ~guard[p].armed /\ guard[p].key = disk.key /\ guard[p].outcome \in Outcomes
         /\ guard[p].outcome \in {"reset", "alreadyRedeemed"} => disk.key \in redeemed

AnswersTruthful(p) ==
    \A n \in 1..Len(evq[p]) :
      evq[p][n].val \in {"reset", "alreadyRedeemed"} => disk.key \in redeemed

IInv ==
    /\ TypeOK /\ KeyKnown
    /\ FileShape
    /\ \A p \in Procs : CopyAgrees(p) /\ AnswersTruthful(p)
    /\ AttemptOnDiskFirst
    /\ RecordedResetHappened

\* What the service does for a key keeps the invariant when the key is the
\* one on file: it can only make the file's claims truer.
LEMMA RedeemStep ==
    ASSUME NEW k \in Keys, NEW o \in Outcomes, Redeem(k, o)
    PROVE  /\ redeemed \subseteq redeemed' /\ redeemed' \subseteq redeemed \cup {k}
           /\ o \in {"reset", "alreadyRedeemed"} => k \in redeemed'
BY DEF Redeem, svcVars

LEMMA InitIInv == Init => IInv
<1> SUFFICES ASSUME Init PROVE IInv
  OBVIOUS
<1>1. TypeOK /\ KeyKnown
  BY DEF Init, TypeOK, KeyKnown, Guard, NoGuard, Running, Weekly
<1>2. FileShape /\ RecordedResetHappened
  BY DEF Init, FileShape, RecordedResetHappened, NoGuard
<1>3. \A p \in Procs : CopyAgrees(p) /\ AnswersTruthful(p)
  <2> SUFFICES ASSUME NEW p \in Procs PROVE CopyAgrees(p) /\ AnswersTruthful(p)
    OBVIOUS
  <2>1. /\ pc[p] = "off" /\ wire[p] = {} /\ consumeReq[p] = NoId /\ evq[p] = <<>>
    BY DEF Init
  <2>2. CopyAgrees(p)
    BY <2>1 DEF CopyAgrees
  <2>3. AnswersTruthful(p)
    BY <2>1 DEF AnswersTruthful
  <2>4. QED
    BY <2>2, <2>3
<1>4. AttemptOnDiskFirst
  <2>1. ConsumeKeys({}) = {}
    BY DEF ConsumeKeys
  <2>2. \A k : ~Requested(k)
    BY <2>1 DEF Init, Requested
  <2>3. QED
    BY <2>2 DEF AttemptOnDiskFirst
<1>5. QED
  BY <1>1, <1>2, <1>3, <1>4 DEF IInv

\* A step that leaves the file and the set of redeemed keys alone, asks for no new key
\* and brings no new answer disturbs only the watcher's copy.
LEMMA QuietStep ==
    ASSUME IInv, TypeOK', KeyKnown', UNCHANGED <<disk, redeemed>>,
           \A p \in Procs : CopyAgrees(p)',
           \A p \in Procs : ConsumeKeys(wire'[p]) \subseteq ConsumeKeys(wire[p]),
           \A k \in orphans' : Requested(k),
           \A p \in Procs : AnswersTruthful(p)'
    PROVE  IInv'
<1>1. FileShape' /\ RecordedResetHappened'
  BY DEF IInv, FileShape, RecordedResetHappened
<1>2. AttemptOnDiskFirst'
  BY DEF IInv, AttemptOnDiskFirst, Requested
<1>3. QED
  BY <1>1, <1>2 DEF IInv

\* Draining takes a truthful answer and leaves truthful ones.
LEMMA DrainStep ==
    ASSUME TypeOK, NEW p \in Procs, AnswersTruthful(p), NEW e, Drain(p, e)
    PROVE  /\ AnswersTruthful(p)'
           /\ e.val \in {"reset", "alreadyRedeemed"} => disk.key \in redeemed
<1>1. evq[p] \in Seq(Event) /\ evq[p] # <<>> /\ e = evq[p][1]
  BY DEF Drain, TypeOK
<1>2. evq'[p] = Tail(evq[p]) /\ disk' = disk /\ redeemed' = redeemed
  BY DEF Drain, TypeOK, svcVars
<1>3. \A n \in 1..Len(evq'[p]) : n + 1 \in 1..Len(evq[p]) /\ evq'[p][n] = evq[p][n + 1]
  BY <1>1, <1>2
<1>4. 1 \in 1..Len(evq[p])
  BY <1>1
<1>5. QED
  BY <1>1, <1>2, <1>3, <1>4 DEF AnswersTruthful

\* Queueing a truthful event keeps the queue truthful.
LEMMA AppendStep ==
    ASSUME TypeOK, NEW p \in Procs, AnswersTruthful(p), NEW e \in Event,
           evq' = [evq EXCEPT ![p] = Append(@, e)],
           disk' = disk, redeemed \subseteq redeemed',
           e.val \in {"reset", "alreadyRedeemed"} => disk.key \in redeemed'
    PROVE  AnswersTruthful(p)'
<1>1. evq[p] \in Seq(Event) /\ evq'[p] = Append(evq[p], e)
  BY DEF TypeOK
<1>2. \A n \in 1..Len(evq'[p]) :
        \/ n \in 1..Len(evq[p]) /\ evq'[p][n] = evq[p][n]
        \/ evq'[p][n] = e
  BY <1>1
<1>3. QED
  BY <1>1, <1>2 DEF AnswersTruthful

\* Every step keeps the invariant when one watcher at a time owns the file.
LEMMA StepIInv == ASSUME SoleWatcher PROVE IInv /\ [Next]_vars => IInv'
<1> SUFFICES ASSUME IInv, [Next]_vars PROVE IInv'
  OBVIOUS
<1>0. TypeOK /\ KeyKnown /\ TypeOK' /\ KeyKnown'
  BY TypeStep DEF IInv
<1>1. CASE UNCHANGED vars
  <2>1. \A p \in Procs : CopyAgrees(p)' /\ AnswersTruthful(p)'
    BY <1>1 DEF IInv, CopyAgrees, AnswersTruthful, vars, procVars, netVars, svcVars
  <2>2. QED
    BY <1>0, <1>1, <2>1, QuietStep DEF vars, procVars, netVars, svcVars, Requested
<1>2. ASSUME NEW p \in Procs, NEW k \in Keys, Start(p, k) PROVE IInv'
  <2>1. CopyAgrees(p)'
    BY <1>0, <1>2 DEF IInv, Start, CopyAgrees, FileShape, TypeOK, Guard, Running, NoGuard, netVars, svcVars
  <2>2. AnswersTruthful(p)'
    BY <1>2 DEF IInv, Start, AnswersTruthful, netVars, svcVars
  <2>3. QED
    BY <1>0, <1>2, <2>1, <2>2, QuietStep DEF SoleWatcher, Start, netVars, svcVars, Requested
<1>3. ASSUME NEW p \in Procs, Environment(p) PROVE IInv'
  <2>1. CASE Crash(p)
    <3>1. CopyAgrees(p)'
      BY <1>0, <2>1 DEF Crash, Exit, CopyAgrees, TypeOK, Running
    <3>2. evq'[p] = <<>>
      BY <1>0, <2>1 DEF Crash, Exit, TypeOK
    <3>3. AnswersTruthful(p)'
      BY <3>2 DEF AnswersTruthful
    <3>4. wire'[p] = {} /\ ConsumeKeys({}) = {}
      BY <1>0, <2>1 DEF Crash, Exit, TypeOK, ConsumeKeys
    <3>5. QED
      BY <1>0, <2>1, <3>1, <3>3, <3>4, QuietStep DEF SoleWatcher, Crash, Exit, svcVars, Requested
  <2>2. CASE LinkUp(p)
    <3>1. CopyAgrees(p)' /\ ReadyEvent.val = "none"
      BY <1>0, <2>2 DEF IInv, LinkUp, CopyAgrees, procVars, svcVars, ReadyEvent
    <3>2. AnswersTruthful(p)'
      BY <1>0, <2>2, <3>1, AppendStep, EventTypes DEF IInv, LinkUp, svcVars
    <3>3. QED
      BY <1>0, <2>2, <3>1, <3>2, QuietStep DEF SoleWatcher, LinkUp, svcVars, Requested
  <2>3. CASE LinkDown(p)
    <3>1. PICK queued \in SUBSET wire[p] :
            /\ wire' = [wire EXCEPT ![p] = queued]
            /\ orphans' = orphans \cup ConsumeKeys(wire[p] \ queued)
      BY <2>3 DEF LinkDown
    <3>2. CopyAgrees(p)' /\ DisconnectedEvent.val = "none"
      BY <1>0, <2>3, <3>1 DEF IInv, LinkDown, CopyAgrees, TypeOK, procVars, svcVars,
                            DisconnectedEvent, Running
    <3>3. AnswersTruthful(p)'
      BY <1>0, <2>3, <3>2, AppendStep, EventTypes DEF IInv, LinkDown, svcVars
    <3>4. wire'[p] \in SUBSET wire[p]
      BY <1>0, <3>1 DEF TypeOK
    <3>5. \A k \in orphans' : Requested(k)
      BY <3>1, ConsumeKeysMonotone DEF Requested
    <3>6. QED
      BY <1>0, <2>3, <3>2, <3>3, <3>4, <3>5, ConsumeKeysMonotone, QuietStep
         DEF SoleWatcher, LinkDown, svcVars
  <2>4. CASE ServeRate(p) \/ ServeRateError(p)
    <3>1. PICK r \in wire[p], v \in Weekly \cup {"error"} :
            Reply(p, r, v) /\ UNCHANGED svcVars
      BY <1>0, <2>4 DEF ServeRate, ServeRateError, TypeOK
    <3>2. Answer(r.id, v) \in Event /\ Answer(r.id, v).val = v
      BY <1>0, EventTypes DEF TypeOK, Request, Answer
    <3>3. CopyAgrees(p)' /\ wire'[p] \in SUBSET wire[p]
      BY <1>0, <3>1 DEF IInv, Reply, CopyAgrees, TypeOK, procVars, svcVars
    <3>4. AnswersTruthful(p)'
      BY <1>0, <3>1, <3>2, AppendStep DEF IInv, Reply, svcVars, Weekly
    <3>5. QED
      BY <1>0, <3>1, <3>3, <3>4, ConsumeKeysMonotone, QuietStep
         DEF SoleWatcher, Reply, svcVars, Requested
  <2>5. CASE ServeConsume(p)
    <3>1. PICK r \in wire[p], o \in Outcomes :
            r.kind = "consume" /\ Reply(p, r, o) /\ Redeem(r.key, o)
      BY <2>5 DEF ServeConsume
    <3>2. r.key \in Keys /\ r.key = disk.key /\ disk.outcome \notin {"none", "armed"}
      <4>1. r.key \in ConsumeKeys(wire[p])
        BY <3>1 DEF ConsumeKeys
      <4>2. QED
        BY <1>0, <4>1 DEF IInv, AttemptOnDiskFirst, Requested, TypeOK, Request
    <3>3. /\ redeemed \subseteq redeemed' /\ redeemed' \subseteq redeemed \cup {disk.key}
          /\ o \in {"reset", "alreadyRedeemed"} => disk.key \in redeemed'
      BY <3>1, <3>2, RedeemStep
    <3>4. Answer(r.id, o) \in Event /\ Answer(r.id, o).val = o
      BY <1>0, EventTypes DEF TypeOK, Request, Answer
    <3>5. CopyAgrees(p)' /\ wire'[p] \in SUBSET wire[p]
      BY <1>0, <3>1, <3>3 DEF IInv, Reply, CopyAgrees, TypeOK, procVars
    <3>6. AnswersTruthful(p)'
      BY <1>0, <3>1, <3>3, <3>4, AppendStep DEF IInv, Reply
    <3>7. FileShape' /\ RecordedResetHappened'
      BY <3>1, <3>3 DEF IInv, Reply, FileShape, RecordedResetHappened
    <3>8. AttemptOnDiskFirst'
      BY <3>1, <3>2, <3>3, <3>5, ConsumeKeysMonotone
         DEF IInv, Reply, SoleWatcher, AttemptOnDiskFirst, Requested
    <3>9. QED
      BY <1>0, <3>5, <3>6, <3>7, <3>8 DEF IInv, SoleWatcher
  <2>6. QED
    BY <1>3, <2>1, <2>2, <2>3, <2>4, <2>5 DEF Environment
<1>4. ASSUME NEW p \in Procs, Watch(p) PROVE IInv'
  <2>0. /\ CopyAgrees(p) /\ AnswersTruthful(p) /\ FileShape
        /\ AttemptOnDiskFirst /\ RecordedResetHappened
    BY DEF IInv
  <2>1. CASE Arm(p)
    <3>1. disk.key \in {NoKey, guard[p].key} /\ guard[p].key \in Keys /\ disk' = guard[p]
      BY <1>0, <2>0, <2>1 DEF Arm, CopyAgrees, KeyKnown
    <3>2. wire[p] = {} /\ consumeReq[p] = NoId /\ guard[p].armed
          /\ guard[p].outcome = IF disk.outcome = "pending" THEN "pending" ELSE "armed"
      BY <2>0, <2>1 DEF Arm, CopyAgrees
    <3>3. \A k \in Keys : Requested(k) => disk.outcome = "pending" /\ k = guard[p].key
      <4>1. \A k \in Keys : Requested(k) => disk.key = k /\ disk.outcome \notin {"none", "armed"}
        BY <2>0 DEF AttemptOnDiskFirst
      <4>2. disk.key \in Keys => disk.armed /\ disk.outcome \in {"armed", "pending"}
        BY <2>0, <2>1 DEF Arm, CopyAgrees, FileShape
      <4>3. QED
        BY <3>1, <4>1, <4>2
    <3>4. \A k : Requested(k)' <=> Requested(k)
      BY <2>1 DEF Arm, Requested, netVars, svcVars
    <3>5. AttemptOnDiskFirst'
      BY <3>1, <3>2, <3>3, <3>4 DEF AttemptOnDiskFirst
    <3>6. FileShape' /\ RecordedResetHappened'
      BY <3>1, <3>2 DEF FileShape, RecordedResetHappened
    <3>7. CopyAgrees(p)'
      BY <1>0, <2>1, <3>1, <3>2 DEF Arm, CopyAgrees, TypeOK, netVars, svcVars
    <3>8. AnswersTruthful(p)'
      BY <1>0, <2>0, <2>1, <3>1 DEF Arm, AnswersTruthful, TypeOK, netVars, svcVars
    <3>9. QED
      BY <1>0, <3>5, <3>6, <3>7, <3>8 DEF IInv, SoleWatcher
  <2>2. CASE OnReady(p)
    <3>1. CopyAgrees(p)'
      BY <2>0, <2>2 DEF OnReady, Drain, CopyAgrees, svcVars
    <3>2. QED
      BY <1>0, <2>0, <2>2, <3>1, DrainStep, QuietStep DEF SoleWatcher, OnReady, Drain, svcVars, Requested
  <2>3. CASE OnDisconnected(p)
    <3>1. CopyAgrees(p)'
      BY <1>0, <2>0, <2>3 DEF OnDisconnected, Drain, CopyAgrees, TypeOK, svcVars
    <3>2. QED
      BY <1>0, <2>0, <2>3, <3>1, DrainStep, QuietStep
         DEF SoleWatcher, OnDisconnected, Drain, svcVars, Requested
  <2>4. CASE OnRate(p)
    <3>1. PICK w \in Weekly \cup {"error"} :
            /\ Drain(p, Answer(rateReq[p], w))
            /\ \/ /\ guard' = [guard EXCEPT ![p].outcome = "pending"]
                  /\ pc' = [pc EXCEPT ![p] = "deciding"]
               \/ UNCHANGED <<pc, guard>>
      BY <2>4 DEF OnRate
    <3>2. /\ pc[p] = "watching" /\ UNCHANGED <<disk, wire, orphans, redeemed, consumeReq>>
          /\ guard[p] = disk /\ disk.armed
      BY <2>0, <2>4, <3>1 DEF OnRate, Drain, CopyAgrees, svcVars
    <3>3. CopyAgrees(p)'
      <4>1. CASE UNCHANGED <<pc, guard>>
        BY <2>0, <3>2, <4>1 DEF CopyAgrees
      <4>2. CASE guard' = [guard EXCEPT ![p].outcome = "pending"] /\ pc' = [pc EXCEPT ![p] = "deciding"]
        <5>1. guard'[p] = [disk EXCEPT !.outcome = "pending"] /\ pc'[p] = "deciding"
          BY <1>0, <3>2, <4>2 DEF TypeOK
        <5>2. guard'[p].armed /\ guard'[p].key = disk.key /\ guard'[p].outcome = "pending"
          BY <1>0, <3>2, <5>1 DEF TypeOK, Guard
        <5>3. QED
          BY <2>0, <3>2, <5>1, <5>2 DEF CopyAgrees
      <4>3. QED
        BY <3>1, <4>1, <4>2
    <3>4. AnswersTruthful(p)'
      BY <1>0, <2>0, <3>1, DrainStep
    <3>5. QED
      BY <1>0, <3>2, <3>3, <3>4, QuietStep DEF SoleWatcher, Requested
  <2>5. CASE PersistPending(p)
    <3>1. /\ disk' = guard[p] /\ guard[p].key = disk.key /\ guard[p].armed
          /\ guard[p].outcome = "pending" /\ guard[p].key \in Keys
      BY <1>0, <2>0, <2>5 DEF PersistPending, CopyAgrees, KeyKnown
    <3>2. FileShape' /\ RecordedResetHappened'
      BY <3>1 DEF FileShape, RecordedResetHappened
    <3>3. AttemptOnDiskFirst'
      BY <2>0, <2>5, <3>1 DEF PersistPending, AttemptOnDiskFirst, Requested, netVars, svcVars
    <3>4. CopyAgrees(p)' /\ AnswersTruthful(p)'
      BY <1>0, <2>0, <2>5, <3>1
         DEF PersistPending, CopyAgrees, AnswersTruthful, TypeOK, netVars, svcVars
    <3>5. QED
      BY <1>0, <3>2, <3>3, <3>4 DEF IInv, SoleWatcher
  <2>6. CASE SendConsume(p)
    <3>1. /\ guard[p] = disk /\ disk.armed /\ disk.outcome = "pending" /\ disk.key \in Keys
      BY <1>0, <2>0, <2>6 DEF SendConsume, CopyAgrees, KeyKnown
    <3>2. PICK i \in Ids :
            wire' = [wire EXCEPT ![p] = @ \cup {[id |-> i, kind |-> "consume", key |-> disk.key]}]
      BY <2>6, <3>1 DEF SendConsume, Send, FreeIds
    <3>3. ConsumeKeys(wire'[p]) \subseteq ConsumeKeys(wire[p]) \cup {disk.key}
      BY <1>0, <3>2 DEF ConsumeKeys, TypeOK
    <3>4. AttemptOnDiskFirst'
      BY <2>0, <2>6, <3>1, <3>3
         DEF SendConsume, AttemptOnDiskFirst, Requested, SoleWatcher, svcVars
    <3>5. CopyAgrees(p)' /\ AnswersTruthful(p)'
      BY <1>0, <2>0, <2>6, <3>1
         DEF SendConsume, CopyAgrees, AnswersTruthful, TypeOK, svcVars
    <3>6. QED
      BY <1>0, <2>0, <2>6, <3>4, <3>5
         DEF IInv, SoleWatcher, SendConsume, FileShape, RecordedResetHappened, svcVars
  <2>7. CASE OnConsume(p)
    <3>1. PICK o \in Outcomes :
            /\ Drain(p, Answer(consumeReq[p], o))
            /\ guard' = [guard EXCEPT ![p].armed = FALSE, ![p].outcome = o]
      BY <2>7 DEF OnConsume
    <3>2. /\ pc[p] = "watching" /\ UNCHANGED <<disk, wire, orphans, redeemed, consumeReq>>
          /\ guard[p] = disk /\ disk.outcome = "pending"
      BY <2>0, <2>7, <3>1 DEF OnConsume, Drain, CopyAgrees, svcVars
    <3>3. o \in {"reset", "alreadyRedeemed"} => disk.key \in redeemed
      BY <1>0, <2>0, <3>1, DrainStep DEF Answer
    <3>4. guard'[p] = [disk EXCEPT !.armed = FALSE, !.outcome = o] /\ pc'[p] = "completing"
      BY <1>0, <2>7, <3>1, <3>2 DEF OnConsume, TypeOK
    <3>5. ~guard'[p].armed /\ guard'[p].key = disk.key /\ guard'[p].outcome = o
      BY <1>0, <3>4 DEF TypeOK, Guard
    <3>6. CopyAgrees(p)'
      BY <2>0, <3>1, <3>2, <3>3, <3>4, <3>5 DEF CopyAgrees
    <3>7. AnswersTruthful(p)'
      BY <1>0, <2>0, <3>1, DrainStep
    <3>8. QED
      BY <1>0, <3>2, <3>6, <3>7, QuietStep DEF SoleWatcher, Requested
  <2>8. CASE Complete(p)
    <3>1. /\ disk' = guard[p] /\ guard[p].key = disk.key /\ ~guard[p].armed
          /\ guard[p].outcome \in Outcomes /\ guard[p].key \in Keys
          /\ guard[p].outcome \in {"reset", "alreadyRedeemed"} => disk.key \in redeemed
      BY <1>0, <2>0, <2>8 DEF Complete, CopyAgrees, KeyKnown, Running
    <3>2. FileShape' /\ RecordedResetHappened'
      BY <2>8, <3>1 DEF Complete, FileShape, RecordedResetHappened, Outcomes, svcVars
    <3>3. evq'[p] = <<>> /\ wire'[p] = {} /\ ConsumeKeys({}) = {}
      BY <1>0, <2>8 DEF Complete, Exit, TypeOK, ConsumeKeys
    <3>4. CopyAgrees(p)' /\ AnswersTruthful(p)'
      BY <1>0, <2>8, <3>3 DEF Complete, Exit, CopyAgrees, AnswersTruthful, TypeOK, Running
    <3>5. AttemptOnDiskFirst'
      BY <2>0, <2>8, <3>1, <3>3
         DEF Complete, Exit, AttemptOnDiskFirst, Requested, SoleWatcher, Outcomes, svcVars
    <3>6. QED
      BY <1>0, <3>2, <3>4, <3>5 DEF IInv, SoleWatcher
  <2>9. CASE OnStale(p)
    <3>1. PICK n \in DOMAIN evq[p] : Drain(p, evq[p][n])
      BY <2>9 DEF OnStale
    <3>2. CopyAgrees(p)'
      BY <2>0, <2>9, <3>1 DEF OnStale, Drain, CopyAgrees, procVars, svcVars
    <3>3. AnswersTruthful(p)'
      BY <1>0, <2>0, <3>1, DrainStep
    <3>4. QED
      BY <1>0, <3>1, <3>2, <3>3, QuietStep DEF SoleWatcher, Drain, svcVars, Requested
  <2>10. CASE Poll(p)
    <3>1. PICK i \in Ids :
            /\ wire' = [wire EXCEPT ![p] = @ \cup {[id |-> i, kind |-> "rate", key |-> guard[p].key]}]
            /\ UNCHANGED consumeReq
      BY <2>10 DEF Poll, Send, FreeIds
    <3>2. ConsumeKeys(wire'[p]) \subseteq ConsumeKeys(wire[p])
      BY <1>0, <3>1 DEF ConsumeKeys, TypeOK
    <3>3. CopyAgrees(p)' /\ AnswersTruthful(p)'
      BY <1>0, <2>0, <2>10, <3>1 DEF Poll, CopyAgrees, AnswersTruthful, TypeOK, svcVars
    <3>4. QED
      BY <1>0, <2>10, <3>2, <3>3, QuietStep DEF SoleWatcher, Poll, svcVars, Requested
  <2>11. QED
    BY <1>4, <2>1, <2>2, <2>3, <2>4, <2>5, <2>6, <2>7, <2>8, <2>9, <2>10 DEF Watch
<1>5. CASE ServeOrphan
  <2>1. PICK k \in orphans, o \in Outcomes :
          /\ Redeem(k, o) /\ orphans' = orphans \ {k}
          /\ UNCHANGED <<disk, procVars, link, evq, wire>>
    BY <1>5 DEF ServeOrphan
  <2>2. k \in Keys /\ k = disk.key /\ redeemed \subseteq redeemed' /\ redeemed' \subseteq redeemed \cup {k}
    BY <1>0, <2>1, RedeemStep DEF IInv, TypeOK, AttemptOnDiskFirst, Requested
  <2>3. \A p \in Procs : CopyAgrees(p)' /\ AnswersTruthful(p)'
    BY <2>1, <2>2 DEF IInv, CopyAgrees, AnswersTruthful, procVars
  <2>4. FileShape' /\ RecordedResetHappened' /\ AttemptOnDiskFirst'
    BY <2>1, <2>2 DEF IInv, FileShape, RecordedResetHappened, AttemptOnDiskFirst, Requested
  <2>5. QED
    BY <1>0, <2>3, <2>4 DEF IInv
<1>6. CASE UseAllowance
  <2>1. \A p \in Procs : CopyAgrees(p)' /\ AnswersTruthful(p)'
    BY <1>6 DEF IInv, CopyAgrees, AnswersTruthful, UseAllowance, procVars, netVars
  <2>2. QED
    BY <1>0, <1>6, <2>1, QuietStep DEF UseAllowance, netVars, Requested
<1>7. QED
  BY <1>1, <1>2, <1>3, <1>4, <1>5, <1>6 DEF Next

\* One-shot: whatever crashes, restarts, lost answers and authorization keys
\* a run meets, the service spends at most one credit for the guard file.
THEOREM OneCredit == ASSUME SoleWatcher PROVE Spec => []AtMostOneCredit
<1>1. IInv => AtMostOneCredit
  BY DEF IInv, AttemptOnDiskFirst, Requested, AtMostOneCredit, TypeOK
<1>2. QED
  BY <1>1, InitIInv, StepIInv, PTL DEF Spec

\* Persist before request: every consume request that exists anywhere repeats
\* the operation the guard file records.
THEOREM AttemptPersisted == ASSUME SoleWatcher PROVE Spec => []AttemptOnDiskFirst
<1>1. IInv => AttemptOnDiskFirst
  BY DEF IInv
<1>2. QED
  BY <1>1, InitIInv, StepIInv, PTL DEF Spec

\* A recorded reset happened.
THEOREM RecordTruthful == ASSUME SoleWatcher PROVE Spec => []RecordedResetHappened
<1>1. IInv => RecordedResetHappened
  BY DEF IInv
<1>2. QED
  BY <1>1, InitIInv, StepIInv, PTL DEF Spec

\* A completed guard is final: its file is never rewritten and no further
\* consume request is issued, by any later start of the command.
THEOREM CompletionFinal == ASSUME SoleWatcher PROVE Spec => CompletedIsFinal
<1> DEFINE Final == disk.key # NoKey /\ ~disk.armed =>
                      /\ disk' = disk
                      /\ \A p \in Procs : ConsumeKeys(wire'[p]) \subseteq ConsumeKeys(wire[p])
<1>1. IInv /\ [Next]_vars => [Final]_vars
  <2> SUFFICES ASSUME IInv, Next, disk.key # NoKey, ~disk.armed
               PROVE  /\ disk' = disk
                      /\ \A p \in Procs : ConsumeKeys(wire'[p]) \subseteq ConsumeKeys(wire[p])
    OBVIOUS
  <2>1. TypeOK
    BY DEF IInv
  <2>2. \A p \in Procs : pc[p] = "off"
    BY <2>1 DEF IInv, FileShape, CopyAgrees, TypeOK, Running
  <2>3. ASSUME NEW p \in Procs, NEW k \in Keys, Start(p, k) PROVE wire' = wire /\ disk' = disk
    BY <2>3 DEF Start, netVars
  <2>4. ASSUME NEW p \in Procs PROVE ~Watch(p)
    BY <2>2 DEF Watch, Arm, OnReady, OnDisconnected, OnRate, PersistPending, SendConsume,
                OnConsume, Complete, OnStale, Poll, Drain
  <2>5. ASSUME NEW p \in Procs, Environment(p) PROVE disk' = disk /\ wire' = wire
    <3>1. wire[p] = {}
      BY <2>2 DEF IInv, CopyAgrees
    <3>2. QED
      BY <2>2, <2>5, <3>1 DEF Environment, Crash, LinkUp, LinkDown, ServeRate, ServeRateError,
                         ServeConsume, Running
  <2>6. ServeOrphan \/ UseAllowance => disk' = disk /\ wire' = wire
    BY DEF ServeOrphan, UseAllowance, netVars
  <2>7. QED
    BY <2>3, <2>4, <2>5, <2>6 DEF Next
<1>2. QED
  BY <1>1, InitIInv, StepIInv, PTL DEF Spec, CompletedIsFinal
===========================================================================
